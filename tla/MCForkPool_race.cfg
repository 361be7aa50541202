SPECIFICATION Spec
CONSTANTS
  s1 = s1  s2 = s2  s3 = s3  snapA = snapA  snapB = snapB
  f1 = f1  f2 = f2  r1 = r1  r2 = r2  buildCtx = buildCtx
  Slot = {s1, s2, s3}
  Initial = {s1}
  Snap = {snapA, snapB}
  NoSnap = NoSnap
  UltraSnap = snapA
  Jailed = FALSE
  NoSlot = NoSlot
  BuildCtx = buildCtx
  Background = Background
  Faults = {"exec", "api"}
  Fork = {f1, f2}
  Request = {r1}
  ReqOf <- OneRequest
  Want <- SameSnapshot
  ColdJailed = FALSE
  Drained = FALSE
SYMMETRY Symmetry
INVARIANTS TornDownOnce PublishesItsOwn AccountedFor LiveRuns
PROPERTY ImplementsLifecycle
CHECK_DEADLOCK FALSE
