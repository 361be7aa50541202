SPECIFICATION Spec
CONSTANTS
  s1 = s1  s2 = s2  s3 = s3  s4 = s4  s5 = s5  snapA = snapA
  c1 = c1  c2 = c2  c3 = c3
  buildCtx = buildCtx  reqCtx = reqCtx
  Slot = {s1, s2, s3, s4, s5}
  Initial = {s1, s2}
  Snap = {snapA}
  NoSnap = NoSnap
  UltraSnap = snapA
  Jailed = TRUE
  Caller = {c1, c2, c3}
  NoSlot = NoSlot
  Ctx = {buildCtx, reqCtx}
  Background = Background
  BuildCtx = buildCtx
  CtxOf <- MCCtxOf
  Faults = {"mkdir", "exec", "socket", "api"}
SYMMETRY Symmetry
INVARIANTS IndInv SingleOwner TakeReady NoOrphan ShrinkIsCounted ClosedHoldsNothing
PROPERTY KeptUndisturbed
CHECK_DEADLOCK FALSE
