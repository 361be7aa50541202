----------------------------- MODULE MCForkTool -----------------------------
(* One request, to the server or of cmd/fork, in instances small enough    *)
(* for temporal properties.                                                *)
EXTENDS ForkTool, TLC

CONSTANTS buildCtx, f1, f2, r1, s1, s2, s3, snapA

OneRequest == [f \in Fork |-> r1]
SameSnapshot == [r \in Request |-> snapA]
=============================================================================
