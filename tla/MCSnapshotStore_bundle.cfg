SPECIFICATION Spec
CONSTANTS
  s1 = s1  s2 = s2  s3 = s3  v1 = v1  u1 = u1  t1 = t1
  Save = {s1, s2, s3}
  Load = {v1, u1}
  Template = {t1}
  OfSave <- OneTemplate
  OfLoad <- OneTemplateL
  Zst = {s2, s3}
  Verify = {v1}
  None = None
  Failed = Failed
INVARIANTS
  IndInv
  ManifestNamesObjects
  VerifiedIsWhole
  UncontestedIsWhole
  UncontestedSaveStands
PROPERTY ImplementsRegister
CHECK_DEADLOCK FALSE
