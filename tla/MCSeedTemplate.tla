--------------------------- MODULE MCSeedTemplate ---------------------------
(* Three seed-template processes, two of them for the same name/version.   *)
EXTENDS SeedTemplate, TLC

CONSTANTS b1, b2, b3, t1, t2

Templates == (b1 :> t1) @@ (b2 :> t1) @@ (b3 :> t2)
SetUp == (b1 :> 1) @@ (b2 :> 0) @@ (b3 :> 0)
OneTemplate == (b1 :> t1)
OneSetUp == (b1 :> 1)
=============================================================================
