SPECIFICATION ToolSpec
CONSTANTS
  s1 = s1  s2 = s2  s3 = s3  snapA = snapA
  f1 = f1  f2 = f2  r1 = r1  buildCtx = buildCtx
  Slot = {s1, s2, s3}
  Initial = {s1, s2}
  Snap = {snapA}
  NoSnap = NoSnap
  UltraSnap = snapA
  Jailed = FALSE
  NoSlot = NoSlot
  BuildCtx = buildCtx
  Background = Background
  Faults = {"exec", "api"}
  Fork = {f1}
  Request = {r1}
  ReqOf <- OneRequest
  Want <- SameSnapshot
  ColdJailed = FALSE
  Drained = TRUE
INVARIANT ExitIsClean
PROPERTIES RefillEnds ForkReturns FailedForksEnd ShutdownEnds
CHECK_DEADLOCK FALSE
