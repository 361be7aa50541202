SPECIFICATION Spec
CONSTANTS
  s1 = s1  s2 = s2  s3 = s3  snapA = snapA  snapB = snapB
  f1 = f1  f2 = f2  r1 = r1  r2 = r2  buildCtx = buildCtx
  Slot = {s1, s2, s3}
  Initial = {s1}
  Snap = {snapA, snapB}
  NoSnap = NoSnap
  UltraSnap = NoSnap
  Jailed = TRUE
  NoSlot = NoSlot
  BuildCtx = buildCtx
  Background = Background
  Faults = {"mkdir"}
  Fork = {f1, f2}
  Request = {r1, r2}
  ReqOf <- TwoRequests
  Want <- OwnSnapshot
  ColdJailed = TRUE
  Drained = FALSE
SYMMETRY Symmetry
INVARIANTS IndInv RunsWhatWasAsked DirsAccountedFor
CHECK_DEADLOCK FALSE
