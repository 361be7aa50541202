SPECIFICATION Spec
CONSTANTS
  s1 = s1  s2 = s2  s3 = s3  snapA = snapA  snapB = snapB
  f1 = f1  f2 = f2  r1 = r1  r2 = r2  buildCtx = buildCtx
  Slot = {s1, s2}
  Initial = {s1}
  Snap = {snapA, snapB}
  NoSnap = NoSnap
  UltraSnap = snapA
  Jailed = FALSE
  NoSlot = NoSlot
  BuildCtx = buildCtx
  Background = Background
  Faults = {}
  Fork = {f1}
  Request = {r1}
  ReqOf <- OneRequest
  Want <- OtherSnapshot
  ColdJailed = FALSE
  Drained = FALSE
INVARIANT RunsWhatWasAsked
CHECK_DEADLOCK FALSE
