----------------------------- MODULE MCWarmPool -----------------------------
(***************************************************************************)
(* Small instances of WarmPool for TLC.                                    *)
(***************************************************************************)
EXTENDS WarmPool, TLC

CONSTANTS buildCtx, reqCtx, c1, c2, c3, s1, s2, s3, s4, s5, snapA

(* Every caller works for the same request: its context can be cancelled   *)
(* between any two steps.                                                  *)
MCCtxOf == [c \in Caller |-> reqCtx]

(* Slots of the constructor are interchangeable, so are the others, so are *)
(* the callers.                                                            *)
Symmetry == Permutations(Initial) \cup Permutations(Slot \ Initial) \cup Permutations(Caller)
=============================================================================
