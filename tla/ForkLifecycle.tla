--------------------------- MODULE ForkLifecycle ---------------------------
(***************************************************************************)
(* What fork.Pool promises about the forks it returns, whatever path they  *)
(* came by (cold, warm, ultra-warm, jailed).  A fork appears in Live()     *)
(* once, complete; it leaves it by one Release or by Shutdown; whoever     *)
(* took it out, and nobody else, tears it down, once; and it never comes   *)
(* back under the same ID.  Module ForkPool implements this specification. *)
(***************************************************************************)
CONSTANT Id        \* the IDs (uuid.NewString) of Results
VARIABLE fork      \* fork[i]: where the fork with that ID is in its life

ForkState == {"absent", "live", "leaving", "gone"}

Init == fork = [i \in Id |-> "absent"]

(* Pool.forkOne or forkOneJailed puts the Result in the live map.          *)
Publish(i) ==
  /\ fork[i] = "absent"
  /\ fork' = [fork EXCEPT ![i] = "live"]

(* Release takes one fork out of the live map, Shutdown all of them.       *)
Leave(S) ==
  /\ S # {}
  /\ \A i \in S : fork[i] = "live"
  /\ S = {i \in Id : fork[i] = "live"} \/ \E i \in Id : S = {i}
  /\ fork' = [i \in Id |-> IF i \in S THEN "leaving" ELSE fork[i]]

(* Its process has been killed and its directory removed.                  *)
TearDown(i) ==
  /\ fork[i] = "leaving"
  /\ fork' = [fork EXCEPT ![i] = "gone"]

Next ==
  \/ \E i \in Id : Publish(i) \/ TearDown(i)
  \/ \E S \in SUBSET Id : Leave(S)

Spec == Init /\ [][Next]_fork
=============================================================================
