SPECIFICATION Spec
CONSTANTS
  b1 = b1  b2 = b2  b3 = b3  t1 = t1  t2 = t2
  Build = {b1}
  Template = {t1, t2}
  OfBuild <- OneTemplate
  Zst = {b1}
  Upload = {b1}
  Jailed = {}
  Commands <- OneSetUp
  None = None
  Failed = Failed
INVARIANT SetupFailureAborts
CHECK_DEADLOCK FALSE
