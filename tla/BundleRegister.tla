--------------------------- MODULE BundleRegister ---------------------------
(***************************************************************************)
(* What snapshot.Store promises: for every name/version an atomic register *)
(* of whole bundles.  A Save replaces the bundle in one step, or does not; *)
(* a Load answers with a bundle that was current at one moment of the call, *)
(* or with an error.                                                       *)
(***************************************************************************)
CONSTANTS Save,    \* the Save calls; each names the bundle it uploads
          Load,    \* the Load calls
          Template, OfSave, OfLoad,
          None, Failed

VARIABLES current,  \* current[t]: the bundle of t
          seen,     \* seen[l]: the bundle l will answer with, if with any
          answer    \* answer[l]: None until l returns

vars == <<current, seen, answer>>

Init ==
  /\ current = [t \in Template |-> None]
  /\ seen = [l \in Load |-> None]
  /\ answer = [l \in Load |-> None]

Write(s) ==
  /\ current' = [current EXCEPT ![OfSave[s]] = s]
  /\ UNCHANGED <<seen, answer>>

Look(l) ==
  /\ seen[l] = None /\ answer[l] = None
  /\ current[OfLoad[l]] # None
  /\ seen' = [seen EXCEPT ![l] = current[OfLoad[l]]]
  /\ UNCHANGED <<current, answer>>

Answer(l) ==
  /\ answer[l] = None
  /\ \/ answer' = [answer EXCEPT ![l] = Failed]
     \/ seen[l] # None /\ answer' = [answer EXCEPT ![l] = seen[l]]
  /\ UNCHANGED <<current, seen>>

Next == (\E s \in Save : Write(s)) \/ (\E l \in Load : Look(l) \/ Answer(l))

Spec == Init /\ [][Next]_vars
=============================================================================
