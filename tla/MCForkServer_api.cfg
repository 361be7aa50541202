SPECIFICATION Spec
CONSTANTS
  f1 = f1  f2 = f2  f3 = f3  r1 = r1  r2 = r2  e1 = e1  d1 = d1  d2 = d2  t1 = t1  t2 = t2
  Id = {f1, f2, f3}
  ForkReq = {r1, r2}
  ExecReq = {e1}
  DelReq = {d1, d2}
  ReqOf <- OfRequest
  Template = {t1, t2}
  WantOf <- TwoTemplates
  Registered = {t1, t2}
  Signed = {t1}
  None = None
INVARIANTS
  IndInv
  MetricsAddUp
  DeletedOnce
  SecretIsReady
  ExitsClean
PROPERTIES
  RequestsEnd
  ServerExits
CHECK_DEADLOCK FALSE
