----------------------------- MODULE MCForkPool -----------------------------
(***************************************************************************)
(* Small instances of ForkPool for TLC.                                    *)
(***************************************************************************)
EXTENDS ForkPool, TLC

CONSTANTS buildCtx, f1, f2, r1, r2, s1, s2, s3, snapA, snapB

(* One request of all the forks, or the first fork in a request of its own. *)
OneRequest == [f \in Fork |-> r1]
TwoRequests == [f \in Fork |-> IF f = f1 THEN r1 ELSE r2]

SameSnapshot == [r \in Request |-> snapA]
OtherSnapshot == [r \in Request |-> snapB]
OwnSnapshot == [r \in Request |-> IF r = r1 THEN snapA ELSE snapB]

Symmetry == Permutations(Initial) \cup Permutations(Slot \ Initial)
            \cup Permutations(Fork \ {f1})
=============================================================================
