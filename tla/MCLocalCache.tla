---------------------------- MODULE MCLocalCache ----------------------------
(* A budget of two: bundles of one, one, two and three bytes, of which the *)
(* last never fits, and two clients.                                       *)
EXTENDS LocalCache, TLC

CONSTANTS u1, u2, a, b, c, big

Sizes == (a :> 1) @@ (b :> 1) @@ (c :> 2) @@ (big :> 3)

Symmetry == Permutations(Client) \cup Permutations({a, b})
=============================================================================
