SPECIFICATION Spec
CONSTANTS
  b1 = b1  b2 = b2  b3 = b3  t1 = t1  t2 = t2
  Build = {b1, b2, b3}
  Template = {t1, t2}
  OfBuild <- Templates
  Zst = {b2}
  Upload = {b1, b2}
  Jailed = {b2}
  Commands <- SetUp
  None = None
  Failed = Failed
INVARIANTS
  IndInv
  FailedBuildsLeaveNothing
  RegisteredIsUsable
  RegistryIntact
CHECK_DEADLOCK FALSE
