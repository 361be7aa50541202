---------------------------- MODULE MCForkServer ----------------------------
(* A request for two forks of one template and one for a fork of another,  *)
(* beside two DELETEs and an exec.                                         *)
EXTENDS ForkServer, TLC

CONSTANTS f1, f2, f3, r1, r2, e1, d1, d2, t1, t2

OfRequest == [i \in Id |-> IF i = f3 THEN r2 ELSE r1]
TwoTemplates == (r1 :> t1) @@ (r2 :> t2)
=============================================================================
