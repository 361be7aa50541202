--------------------------- MODULE WarmPool_proofs ---------------------------
(***************************************************************************)
(* Theorems about WarmPool, for every number of slots, callers, contexts   *)
(* and snapshots, with and without the jailer, whatever the host's faults. *)
(***************************************************************************)
EXTENDS WarmPool, FiniteSetTheorems, TLAPS

USE DEF Refilling, Listed, SlotState, CallState, BuildState,
        poolVars, failVars, fcVars, callVars

(***************************************************************************)
(* Type correctness                                                        *)
(***************************************************************************)
LEMMA FcTypes ==
  ASSUME FC!FcTypeOK
  PROVE  /\ \A s \in Slot, b \in BOOLEAN : FC!LaunchFails(s, b) => FC!FcTypeOK'
         /\ \A s \in Slot : FC!Launch(s) => FC!FcTypeOK'
         /\ \A S \in SUBSET Slot : FC!KillAndRemove(S) => FC!FcTypeOK'
         /\ \A s \in Slot : FC!KillWaitAndRemove(s) => FC!FcTypeOK'
         /\ \A s \in Slot : FC!KilledByContext(s) => FC!FcTypeOK'
         /\ \A s \in Slot, x \in Snap \cup {NoSnap} : FC!LoadSnapshot(s, x) => FC!FcTypeOK'
         /\ \A s \in Slot, x \in Snap \cup {NoSnap} : FC!LoadAndResume(s, x) => FC!FcTypeOK'
         /\ \A s \in Slot : FC!ResumeVm(s) => FC!FcTypeOK'
         /\ UNCHANGED fcVars => FC!FcTypeOK'
<1> USE DEF FC!FcTypeOK, FC!ProcState, FC!Alive
<1>1. \A s \in Slot, b \in BOOLEAN : FC!LaunchFails(s, b) => FC!FcTypeOK'
  BY DEF FC!LaunchFails
<1>2. \A s \in Slot : FC!Launch(s) => FC!FcTypeOK'
  BY DEF FC!Launch
<1>3. \A S \in SUBSET Slot : FC!KillAndRemove(S) => FC!FcTypeOK'
  BY DEF FC!KillAndRemove
<1>4. \A s \in Slot : FC!KillWaitAndRemove(s) => FC!FcTypeOK'
  BY DEF FC!KillWaitAndRemove
<1>5. \A s \in Slot : FC!KilledByContext(s) => FC!FcTypeOK'
  BY DEF FC!KilledByContext
<1>6. \A s \in Slot, x \in Snap \cup {NoSnap} : FC!LoadSnapshot(s, x) => FC!FcTypeOK'
  BY DEF FC!LoadSnapshot
<1>7. \A s \in Slot, x \in Snap \cup {NoSnap} : FC!LoadAndResume(s, x) => FC!FcTypeOK'
  BY DEF FC!LoadAndResume
<1>8. \A s \in Slot : FC!ResumeVm(s) => FC!FcTypeOK'
  BY DEF FC!ResumeVm
<1>9. UNCHANGED fcVars => FC!FcTypeOK'
  OBVIOUS
<1> QED BY <1>1, <1>2, <1>3, <1>4, <1>5, <1>6, <1>7, <1>8, <1>9

LEMMA SpawnErrorTypes ==
  ASSUME TypeOK, NEW s \in Slot, NEW from \in SlotState, SpawnError(s, from)
  PROVE  /\ slot' \in [Slot -> SlotState]
         /\ refillErrs' \in Nat
         /\ backoff' \in BOOLEAN
<1>1. CASE s \in Initial
  BY <1>1 DEF SpawnError, MoveSlot, TypeOK
<1>2. CASE s \notin Initial
  BY <1>2 DEF SpawnError, MoveSlot, TypeOK
<1> QED BY <1>1, <1>2

(* Every action keeps the types; a caller's slot is a slot by SingleOwner. *)
LEMMA TypeStep == TypeOK /\ SingleOwner /\ [Next]_vars => TypeOK'
<1> SUFFICES ASSUME TypeOK, SingleOwner, [Next]_vars PROVE TypeOK'
  OBVIOUS
<1> USE SnapAssumption, CtxAssumption, SlotAssumption DEF TypeOK
<1>1. ASSUME NEW s \in Slot, SpawnStep(s) PROVE TypeOK'
  <2>1. CASE SpawnStart(s)
    BY <2>1, FcTypes DEF SpawnStart, MoveSlot
  <2>2. CASE SpawnMkdirFails(s)
    <3>1. PICK b \in BOOLEAN : FC!LaunchFails(s, b)
      BY <2>2 DEF SpawnMkdirFails
    <3> QED BY <2>2, <3>1, FcTypes, SpawnErrorTypes DEF SpawnMkdirFails
  <2>3. CASE SpawnExecFails(s)
    BY <2>3, FcTypes, SpawnErrorTypes DEF SpawnExecFails
  <2>4. CASE SpawnReady(s)
    BY <2>4, FcTypes DEF SpawnReady, MoveSlot
  <2>5. CASE SpawnGivesUp(s)
    BY <2>5, FcTypes, SpawnErrorTypes DEF SpawnGivesUp
  <2> QED BY <1>1, <2>1, <2>2, <2>3, <2>4, <2>5 DEF SpawnStep
<1>2. ASSUME NEW s \in Slot, RefillStep(s) PROVE TypeOK'
  <2>1. CASE RefillLooks(s)
    BY <2>1, FcTypes DEF RefillLooks, MoveSlot
  <2>2. CASE RefillFindsClosed(s)
    BY <2>2, FcTypes DEF RefillFindsClosed, MoveSlot
  <2>3. CASE RefillLoads(s)
    BY <2>3, FcTypes DEF RefillLoads, MoveSlot
  <2>4. CASE RefillLoadFails(s)
    BY <2>4, FcTypes DEF RefillLoadFails, MoveSlot
  <2>5. CASE RefillPublishes(s)
    BY <2>5, FcTypes DEF RefillPublishes, MoveSlot
  <2>6. CASE RefillDiscards(s)
    BY <2>6, FcTypes DEF RefillDiscards, MoveSlot
  <2> QED BY <1>2, <2>1, <2>2, <2>3, <2>4, <2>5, <2>6 DEF RefillStep
<1>3. ASSUME BuildStep PROVE TypeOK'
  <2>1. CASE BuildFails
    BY <2>1, FcTypes DEF BuildFails
  <2>2. CASE BuildDone
    <3>1. idle' \in Seq(Slot)
      BY <2>2, FS_CardinalityType, FS_Subset DEF BuildDone, Bijection, Injection
    <3> QED BY <2>2, <3>1, FcTypes DEF BuildDone
  <2>3. CASE PreloadBegin
    BY <2>3, FcTypes DEF PreloadBegin
  <2>4. CASE PreloadEnd
    <3>1. CASE \E s \in Range(idle) : slot[s] = "unloaded"
      <4>1. build' = "failed" /\ CloseIdle /\ UNCHANGED <<failVars, preloaded, ctx, done, callVars>>
        BY <2>4, <3>1 DEF PreloadEnd
      <4> QED BY <4>1, FcTypes DEF CloseIdle, Range
    <3>2. CASE ~ \E s \in Range(idle) : slot[s] = "unloaded"
      BY <2>4, <3>2, FcTypes DEF PreloadEnd
    <3> QED BY <3>1, <3>2
  <2>5. ASSUME NEW s \in Slot, PreloadSlot(s) \/ PreloadSlotFails(s) PROVE TypeOK'
    BY <2>5, FcTypes DEF PreloadSlot, PreloadSlotFails, MoveSlot
  <2> QED BY <1>3, <2>1, <2>2, <2>3, <2>4, <2>5 DEF BuildStep
<1>4. ASSUME NEW c \in Caller, CallerStep(c) PROVE TypeOK'
  <2>1. CASE TakeSlot(c)
    BY <2>1, FcTypes DEF TakeSlot
  <2>2. CASE TakeRefused(c) \/ TakeDrained(c)
    BY <2>2, FcTypes DEF TakeRefused, TakeDrained
  <2>3. CASE DrainRefill(c) \/ DrainSkip(c)
    BY <2>3, FcTypes DEF DrainRefill, DrainSkip, Refill, MoveSlot
  <2>4. CASE OwnerResumes(c)
    BY <2>4, FcTypes DEF OwnerResumes, BecomesFork, SingleOwner
  <2>5. CASE OwnerFails(c)
    BY <2>5, FcTypes DEF OwnerFails, SingleOwner
  <2>6. CASE OwnerRefills(c)
    BY <2>6, FcTypes DEF OwnerRefills, Refill, MoveSlot
  <2>7. ASSUME NEW x \in Snap, OwnerLoads(c, x) \/ OwnerLoadsAndResumes(c, x) PROVE TypeOK'
    BY <2>7, FcTypes DEF OwnerLoads, OwnerLoadsAndResumes, BecomesFork, SingleOwner
  <2> QED BY <1>4, <2>1, <2>2, <2>3, <2>4, <2>5, <2>6, <2>7 DEF CallerStep
<1>5. ASSUME NEW s \in Slot, KeptReleased(s) \/ JailedProcessKilled(s) PROVE TypeOK'
  BY <1>5, FcTypes DEF KeptReleased, JailedProcessKilled, MoveSlot
<1>6. CASE BackoffExpires
  BY <1>6, FcTypes DEF BackoffExpires
<1>7. CASE Close
  BY <1>7, FcTypes DEF Close, CloseIdle, Range
<1>8. ASSUME NEW x \in Ctx, Cancel(x) PROVE TypeOK'
  BY <1>8, FcTypes DEF Cancel
<1>9. CASE UNCHANGED vars
  BY <1>9, FcTypes DEF vars
<1> QED BY <1>1, <1>2, <1>3, <1>4, <1>5, <1>6, <1>7, <1>8, <1>9 DEF Next

(***************************************************************************)
(* A slot has one owner                                                    *)
(***************************************************************************)

(* A step that neither hands out, nor takes back, nor lists, nor unlists.  *)
LEMMA OwnerQuiet ==
  ASSUME TypeOK, SingleOwner, UNCHANGED <<idle, callVars>>,
         \A s \in Slot : /\ slot[s] \in Listed => slot'[s] \in Listed
                         /\ slot[s] = "taken" => slot'[s] = "taken"
  PROVE  SingleOwner'
BY DEF SingleOwner, TypeOK, Range, IsInjective

LEMMA SpawnErrorMoves ==
  ASSUME TypeOK, NEW s \in Slot, NEW from \in SlotState, SpawnError(s, from)
  PROVE  /\ slot[s] = from
         /\ slot' = [slot EXCEPT ![s] = IF s \in Initial THEN "failed" ELSE "gone"]
<1>1. CASE s \in Initial
  BY <1>1 DEF SpawnError, MoveSlot
<1>2. CASE s \notin Initial
  BY <1>2 DEF SpawnError, MoveSlot
<1> QED BY <1>1, <1>2

LEMMA OwnerStep == TypeOK /\ SingleOwner /\ [Next]_vars => SingleOwner'
<1> SUFFICES ASSUME TypeOK, SingleOwner, [Next]_vars PROVE SingleOwner'
  OBVIOUS
<1> DEFINE Quiet == /\ UNCHANGED <<idle, callVars>>
                    /\ \A s \in Slot : /\ slot[s] \in Listed => slot'[s] \in Listed
                                       /\ slot[s] = "taken" => slot'[s] = "taken"
<1>0. Quiet => SingleOwner'
  BY OwnerQuiet
<1>1. ASSUME NEW s \in Slot, SpawnStep(s) PROVE Quiet
  <2>1. CASE SpawnStart(s) \/ SpawnReady(s)
    BY <2>1 DEF SpawnStart, SpawnReady, MoveSlot, TypeOK
  <2>2. CASE SpawnMkdirFails(s)
    BY <2>2, SpawnErrorMoves DEF SpawnMkdirFails, TypeOK
  <2>3. CASE SpawnExecFails(s)
    BY <2>3, SpawnErrorMoves DEF SpawnExecFails, TypeOK
  <2>4. CASE SpawnGivesUp(s)
    BY <2>4, SpawnErrorMoves DEF SpawnGivesUp, TypeOK
  <2> QED BY <1>1, <2>1, <2>2, <2>3, <2>4 DEF SpawnStep
<1>2. ASSUME NEW s \in Slot, RefillStep(s) PROVE SingleOwner'
  <2>1. CASE RefillLooks(s) \/ RefillFindsClosed(s) \/ RefillLoads(s) \/ RefillLoadFails(s) \/ RefillDiscards(s)
    <3>1. Quiet
      BY <2>1 DEF RefillLooks, RefillFindsClosed, RefillLoads, RefillLoadFails, RefillDiscards, MoveSlot, TypeOK
    <3> QED BY <3>1, <1>0
  <2>2. CASE RefillPublishes(s)
    BY <2>2 DEF RefillPublishes, MoveSlot, SingleOwner, TypeOK, Range, IsInjective
  <2> QED BY <1>2, <2>1, <2>2 DEF RefillStep
<1>3. ASSUME BuildStep PROVE SingleOwner'
  <2>1. CASE BuildFails
    <3>1. Quiet
      BY <2>1 DEF BuildFails, TypeOK
    <3> QED BY <3>1, <1>0
  <2>2. CASE BuildDone
    <3>1. IsInjective(idle') /\ Range(idle') \subseteq Initial
      BY <2>2 DEF BuildDone, Bijection, Injection, Range, IsInjective
    <3> QED BY <2>2, <3>1, SlotAssumption DEF BuildDone, SingleOwner, TypeOK
  <2>3. CASE PreloadBegin
    <3>1. Quiet
      BY <2>3 DEF PreloadBegin, TypeOK, SingleOwner
    <3> QED BY <3>1, <1>0
  <2>4. CASE PreloadEnd
    <3>1. CASE \E s \in Range(idle) : slot[s] = "unloaded"
      <4>1. CloseIdle /\ UNCHANGED callVars
        BY <2>4, <3>1 DEF PreloadEnd
      <4> QED BY <4>1 DEF CloseIdle, SingleOwner, TypeOK, Range, IsInjective
    <3>2. CASE ~ \E s \in Range(idle) : slot[s] = "unloaded"
      <4>1. Quiet
        BY <2>4, <3>2 DEF PreloadEnd
      <4> QED BY <4>1, <1>0
    <3> QED BY <3>1, <3>2
  <2>5. ASSUME NEW s \in Slot, PreloadSlot(s) \/ PreloadSlotFails(s) PROVE SingleOwner'
    <3>1. Quiet
      BY <2>5 DEF PreloadSlot, PreloadSlotFails, MoveSlot, TypeOK
    <3> QED BY <3>1, <1>0
  <2> QED BY <1>3, <2>1, <2>2, <2>3, <2>4, <2>5 DEF BuildStep
<1>4. ASSUME NEW c \in Caller, CallerStep(c) PROVE SingleOwner'
  <2>1. CASE TakeSlot(c)
    BY <2>1 DEF TakeSlot, SingleOwner, TypeOK, Range, IsInjective
  <2>2. CASE TakeRefused(c) \/ TakeDrained(c) \/ DrainSkip(c)
    BY <2>2 DEF TakeRefused, TakeDrained, DrainSkip, SingleOwner, TypeOK
  <2>3. CASE DrainRefill(c) \/ OwnerRefills(c)
    <3>1. PICK s \in Slot : slot[s] = "none" /\ slot' = [slot EXCEPT ![s] = "start"]
      BY <2>3 DEF DrainRefill, OwnerRefills, Refill, MoveSlot
    <3>2. UNCHANGED <<idle, holds>> /\ \E a \in {"missed", "served"} : call' = [call EXCEPT ![c] = a]
      BY <2>3 DEF DrainRefill, OwnerRefills
    <3> QED BY <3>1, <3>2 DEF SingleOwner, TypeOK, Range, IsInjective
  <2>4. CASE OwnerResumes(c)
    BY <2>4 DEF OwnerResumes, BecomesFork, SingleOwner, TypeOK
  <2>5. CASE OwnerFails(c)
    BY <2>5 DEF OwnerFails, SingleOwner, TypeOK
  <2>6. ASSUME NEW x \in Snap, OwnerLoads(c, x) PROVE SingleOwner'
    BY <2>6, OwnerQuiet DEF OwnerLoads
  <2>7. ASSUME NEW x \in Snap, OwnerLoadsAndResumes(c, x) PROVE SingleOwner'
    BY <2>7 DEF OwnerLoadsAndResumes, BecomesFork, SingleOwner, TypeOK
  <2> QED BY <1>4, <2>1, <2>2, <2>3, <2>4, <2>5, <2>6, <2>7 DEF CallerStep
<1>5. ASSUME NEW s \in Slot, KeptReleased(s) \/ JailedProcessKilled(s) PROVE Quiet
  BY <1>5 DEF KeptReleased, JailedProcessKilled, MoveSlot, TypeOK
<1>6. CASE BackoffExpires \/ UNCHANGED vars
  <2>1. Quiet
    BY <1>6 DEF BackoffExpires, vars
  <2> QED BY <2>1, <1>0
<1>7. CASE Close
  BY <1>7 DEF Close, CloseIdle, SingleOwner, TypeOK, Range, IsInjective
<1>8. ASSUME NEW x \in Ctx, Cancel(x) PROVE Quiet
  BY <1>8 DEF Cancel
<1> QED
  BY <1>0, <1>1, <1>2, <1>3, <1>4, <1>5, <1>6, <1>7, <1>8 DEF Next

(***************************************************************************)
(* No process is forgotten                                                 *)
(***************************************************************************)
LEMMA OrphanStep == TypeOK /\ SingleOwner /\ NoOrphan /\ [Next]_vars => NoOrphan'
<1> SUFFICES ASSUME TypeOK, SingleOwner, NoOrphan, [Next]_vars PROVE NoOrphan'
  OBVIOUS
<1> USE DEF NoOrphan, TypeOK, FC!FcTypeOK, FC!ProcState, FC!Alive
<1>1. ASSUME NEW s \in Slot, SpawnStep(s) PROVE NoOrphan'
  <2>1. CASE SpawnStart(s)
    BY <2>1 DEF SpawnStart, MoveSlot, FC!Launch
  <2>2. CASE SpawnMkdirFails(s)
    BY <2>2, SpawnErrorMoves DEF SpawnMkdirFails, FC!LaunchFails
  <2>3. CASE SpawnExecFails(s)
    BY <2>3, SpawnErrorMoves DEF SpawnExecFails, FC!LaunchFails
  <2>4. CASE SpawnReady(s)
    BY <2>4 DEF SpawnReady, MoveSlot
  <2>5. CASE SpawnGivesUp(s)
    BY <2>5, SpawnErrorMoves DEF SpawnGivesUp, FC!KillAndRemove
  <2> QED BY <1>1, <2>1, <2>2, <2>3, <2>4, <2>5 DEF SpawnStep
<1>2. ASSUME NEW s \in Slot, RefillStep(s) PROVE NoOrphan'
  <2>1. CASE RefillLooks(s) \/ RefillPublishes(s)
    BY <2>1 DEF RefillLooks, RefillPublishes, MoveSlot
  <2>2. CASE RefillLoads(s)
    BY <2>2 DEF RefillLoads, MoveSlot, FC!LoadSnapshot
  <2>3. CASE RefillFindsClosed(s) \/ RefillLoadFails(s) \/ RefillDiscards(s)
    BY <2>3 DEF RefillFindsClosed, RefillLoadFails, RefillDiscards, MoveSlot, FC!KillAndRemove
  <2> QED BY <1>2, <2>1, <2>2, <2>3 DEF RefillStep
<1>3. ASSUME CloseIdle PROVE NoOrphan'
  BY <1>3 DEF CloseIdle, FC!KillAndRemove
<1>4. ASSUME BuildStep PROVE NoOrphan'
  <2>1. CASE BuildFails
    BY <2>1 DEF BuildFails, FC!KillAndRemove
  <2>2. CASE BuildDone
    BY <2>2 DEF BuildDone
  <2>3. CASE PreloadBegin
    BY <2>3 DEF PreloadBegin
  <2>4. CASE PreloadEnd
    <3>1. CloseIdle \/ UNCHANGED <<slot, fcVars>>
      BY <2>4 DEF PreloadEnd
    <3> QED BY <3>1, <1>3
  <2>5. ASSUME NEW s \in Slot, PreloadSlot(s) PROVE NoOrphan'
    BY <2>5 DEF PreloadSlot, MoveSlot, FC!LoadSnapshot
  <2>6. ASSUME NEW s \in Slot, PreloadSlotFails(s) PROVE NoOrphan'
    BY <2>6 DEF PreloadSlotFails, MoveSlot
  <2> QED BY <1>4, <2>1, <2>2, <2>3, <2>4, <2>5, <2>6 DEF BuildStep
<1>5. ASSUME NEW c \in Caller, CallerStep(c) PROVE NoOrphan'
  <2>1. CASE TakeSlot(c)
    BY <2>1 DEF TakeSlot
  <2>2. CASE TakeRefused(c) \/ TakeDrained(c) \/ DrainSkip(c)
    BY <2>2 DEF TakeRefused, TakeDrained, DrainSkip
  <2>3. CASE DrainRefill(c) \/ OwnerRefills(c)
    <3>1. PICK s \in Slot : slot[s] = "none" /\ slot' = [slot EXCEPT ![s] = "start"]
      BY <2>3 DEF DrainRefill, OwnerRefills, Refill, MoveSlot
    <3> QED BY <2>3, <3>1 DEF DrainRefill, OwnerRefills
  <2>4. CASE OwnerResumes(c)
    BY <2>4 DEF OwnerResumes, BecomesFork, SingleOwner, FC!ResumeVm
  <2>5. CASE OwnerFails(c)
    BY <2>5 DEF OwnerFails, SingleOwner, FC!KillAndRemove
  <2>6. ASSUME NEW x \in Snap, OwnerLoads(c, x) PROVE NoOrphan'
    BY <2>6 DEF OwnerLoads, SingleOwner, FC!LoadSnapshot
  <2>7. ASSUME NEW x \in Snap, OwnerLoadsAndResumes(c, x) PROVE NoOrphan'
    BY <2>7 DEF OwnerLoadsAndResumes, BecomesFork, SingleOwner, FC!LoadAndResume
  <2> QED BY <1>5, <2>1, <2>2, <2>3, <2>4, <2>5, <2>6, <2>7 DEF CallerStep
<1>6. ASSUME NEW s \in Slot, KeptReleased(s) \/ JailedProcessKilled(s) PROVE NoOrphan'
  BY <1>6 DEF KeptReleased, JailedProcessKilled, MoveSlot, FC!KillWaitAndRemove, FC!KilledByContext
<1>7. CASE BackoffExpires \/ UNCHANGED vars
  BY <1>7 DEF BackoffExpires, vars
<1>8. CASE Close
  BY <1>8, <1>3 DEF Close
<1>9. ASSUME NEW x \in Ctx, Cancel(x) PROVE NoOrphan'
  BY <1>9 DEF Cancel
<1> QED
  BY <1>1, <1>2, <1>4, <1>5, <1>6, <1>7, <1>8, <1>9 DEF Next

(***************************************************************************)
(* The constructor's phases; p.idle is complete                            *)
(***************************************************************************)
LEMMA PhaseStep ==
  TypeOK /\ SingleOwner /\ BuildPhases /\ ListedIsIdle /\ [Next]_vars => BuildPhases'
<1> SUFFICES ASSUME TypeOK, SingleOwner, BuildPhases, ListedIsIdle, [Next]_vars PROVE BuildPhases'
  OBVIOUS
<1> USE SlotAssumption DEF BuildPhases, TypeOK
<1>1. ASSUME NEW s \in Slot, SpawnStep(s) PROVE BuildPhases'
  <2>1. CASE SpawnStart(s) \/ SpawnReady(s)
    BY <2>1 DEF SpawnStart, SpawnReady, MoveSlot
  <2>2. CASE SpawnMkdirFails(s)
    BY <2>2, SpawnErrorMoves DEF SpawnMkdirFails
  <2>3. CASE SpawnExecFails(s)
    BY <2>3, SpawnErrorMoves DEF SpawnExecFails
  <2>4. CASE SpawnGivesUp(s)
    BY <2>4, SpawnErrorMoves DEF SpawnGivesUp
  <2> QED BY <1>1, <2>1, <2>2, <2>3, <2>4 DEF SpawnStep
<1>2. ASSUME NEW s \in Slot, RefillStep(s) PROVE BuildPhases'
  BY <1>2 DEF RefillStep, RefillLooks, RefillFindsClosed, RefillLoads, RefillLoadFails,
              RefillPublishes, RefillDiscards, MoveSlot
<1>3. ASSUME BuildStep PROVE BuildPhases'
  <2>1. CASE BuildFails
    BY <2>1 DEF BuildFails
  <2>2. CASE BuildDone
    BY <2>2, SlotAssumption DEF BuildDone
  <2>3. CASE PreloadBegin
    BY <2>3, SlotAssumption, SnapAssumption DEF PreloadBegin, SingleOwner
  <2>4. CASE PreloadEnd
    <3>1. CASE \E s \in Range(idle) : slot[s] = "unloaded"
      <4>1. build' = "failed" /\ CloseIdle /\ UNCHANGED callVars
        BY <2>4, <3>1 DEF PreloadEnd
      <4> QED BY <2>4, <4>1 DEF PreloadEnd, CloseIdle, ListedIsIdle
    <3>2. CASE ~ \E s \in Range(idle) : slot[s] = "unloaded"
      <4>1. \A s \in Slot : slot[s] \notin {"preloading", "unloaded"}
        BY <2>4, <3>2 DEF PreloadEnd, ListedIsIdle
      <4>2. build = "preloading" /\ build' = "open" /\ UNCHANGED <<poolVars, slot, callVars>>
        BY <2>4, <3>2 DEF PreloadEnd
      <4> QED BY <4>1, <4>2
    <3> QED BY <3>1, <3>2
  <2>5. ASSUME NEW s \in Slot, PreloadSlot(s) \/ PreloadSlotFails(s) PROVE BuildPhases'
    BY <2>5 DEF PreloadSlot, PreloadSlotFails, MoveSlot
  <2> QED BY <1>3, <2>1, <2>2, <2>3, <2>4, <2>5 DEF BuildStep
<1>4. ASSUME NEW c \in Caller, CallerStep(c) PROVE BuildPhases'
  <2>1. CASE TakeSlot(c)
    BY <2>1 DEF TakeSlot
  <2>2. CASE TakeRefused(c) \/ TakeDrained(c) \/ DrainSkip(c)
    BY <2>2 DEF TakeRefused, TakeDrained, DrainSkip
  <2>3. CASE DrainRefill(c) \/ OwnerRefills(c)
    <3>1. PICK s \in Slot : slot[s] = "none" /\ slot' = [slot EXCEPT ![s] = "start"]
      BY <2>3 DEF DrainRefill, OwnerRefills, Refill, MoveSlot
    <3>2. build = "open"
      BY <2>3 DEF DrainRefill, OwnerRefills
    <3> QED BY <2>3, <3>1, <3>2 DEF DrainRefill, OwnerRefills
  <2>4. CASE OwnerResumes(c)
    BY <2>4 DEF OwnerResumes, BecomesFork, SingleOwner
  <2>5. CASE OwnerFails(c)
    BY <2>5 DEF OwnerFails, SingleOwner
  <2>6. ASSUME NEW x \in Snap, OwnerLoads(c, x) PROVE BuildPhases'
    BY <2>6 DEF OwnerLoads
  <2>7. ASSUME NEW x \in Snap, OwnerLoadsAndResumes(c, x) PROVE BuildPhases'
    BY <2>7 DEF OwnerLoadsAndResumes, BecomesFork, SingleOwner
  <2> QED BY <1>4, <2>1, <2>2, <2>3, <2>4, <2>5, <2>6, <2>7 DEF CallerStep
<1>5. ASSUME NEW s \in Slot, KeptReleased(s) \/ JailedProcessKilled(s) PROVE BuildPhases'
  BY <1>5 DEF KeptReleased, JailedProcessKilled, MoveSlot
<1>6. CASE BackoffExpires \/ UNCHANGED vars
  BY <1>6 DEF BackoffExpires, vars
<1>7. CASE Close
  BY <1>7 DEF Close, CloseIdle
<1>8. ASSUME NEW x \in Ctx, Cancel(x) PROVE BuildPhases'
  BY <1>8 DEF Cancel
<1> QED
  BY <1>1, <1>2, <1>3, <1>4, <1>5, <1>6, <1>7, <1>8 DEF Next

(* The elements of a sequence given as a surjection, and of a sequence     *)
(* without its last element.                                               *)
LEMMA SurjectionRange ==
  ASSUME NEW n, NEW S, NEW q, q \in Surjection(1 .. n, S)
  PROVE  Range(q) = S
<1>1. q \in [1 .. n -> S] /\ \A x \in S : \E i \in 1 .. n : q[i] = x
  BY DEF Surjection
<1>2. DOMAIN q = 1 .. n /\ \A i \in 1 .. n : q[i] \in S
  BY <1>1
<1>3. Range(q) \subseteq S
  BY <1>2 DEF Range
<1>4. ASSUME NEW x \in S PROVE x \in Range(q)
  <2>1. PICK i \in 1 .. n : q[i] = x
    BY <1>1
  <2> QED BY <1>2, <2>1 DEF Range
<1> QED BY <1>3, <1>4

LEMMA FrontRange ==
  ASSUME NEW S, NEW q \in Seq(S), q # <<>>
  PROVE  Range(q) \subseteq Range(SubSeq(q, 1, Len(q) - 1)) \cup {q[Len(q)]}
<1> DEFINE front == SubSeq(q, 1, Len(q) - 1)
<1>1. /\ Len(q) \in Nat \ {0}
      /\ DOMAIN q = 1 .. Len(q)
      /\ DOMAIN front = 1 .. (Len(q) - 1)
      /\ \A i \in 1 .. (Len(q) - 1) : front[i] = q[i]
  <2>1. Len(q) \in Nat \ {0} /\ DOMAIN q = 1 .. Len(q) /\ q \in [1 .. Len(q) -> S]
    OBVIOUS
  <2>2. front \in Seq(S) /\ Len(front) = Len(q) - 1
    BY <2>1
  <2>3. DOMAIN front = 1 .. (Len(q) - 1)
    BY <2>2
  <2>4. \A i \in 1 .. (Len(q) - 1) : front[i] = q[i]
    BY <2>1
  <2> QED BY <2>1, <2>3, <2>4
<1>2. \A i \in 1 .. Len(q) : i = Len(q) \/ i \in 1 .. (Len(q) - 1)
  <2>1. Len(q) \in Int
    OBVIOUS
  <2> QED BY <2>1
<1>3. ASSUME NEW x \in Range(q), x # q[Len(q)] PROVE x \in Range(front)
  <2>1. PICK i \in 1 .. Len(q) : q[i] = x
    BY <1>1, <1>3 DEF Range
  <2>2. i \in DOMAIN front /\ front[i] = x
    BY <1>1, <1>2, <1>3, <2>1
  <2> QED BY <2>2 DEF Range
<1> QED BY <1>3

(* A step that lists nothing and keeps p.idle.                             *)
LEMMA ListedQuiet ==
  ASSUME TypeOK, ListedIsIdle, idle' = idle,
         \A s \in Slot : slot'[s] \in Listed => slot[s] \in Listed
  PROVE  ListedIsIdle'
BY DEF ListedIsIdle

LEMMA ListedStep ==
  TypeOK /\ SingleOwner /\ BuildPhases /\ ListedIsIdle /\ [Next]_vars => ListedIsIdle'
<1> SUFFICES ASSUME TypeOK, SingleOwner, BuildPhases, ListedIsIdle, [Next]_vars PROVE ListedIsIdle'
  OBVIOUS
<1> USE DEF TypeOK
<1> DEFINE Quiet == idle' = idle /\ \A s \in Slot : slot'[s] \in Listed => slot[s] \in Listed
<1>0. Quiet => ListedIsIdle'
  BY ListedQuiet
<1>1. ASSUME NEW s \in Slot, SpawnStep(s) PROVE Quiet
  <2>1. CASE SpawnStart(s) \/ SpawnReady(s)
    BY <2>1 DEF SpawnStart, SpawnReady, MoveSlot
  <2>2. CASE SpawnMkdirFails(s)
    BY <2>2, SpawnErrorMoves DEF SpawnMkdirFails
  <2>3. CASE SpawnExecFails(s)
    BY <2>3, SpawnErrorMoves DEF SpawnExecFails
  <2>4. CASE SpawnGivesUp(s)
    BY <2>4, SpawnErrorMoves DEF SpawnGivesUp
  <2> QED BY <1>1, <2>1, <2>2, <2>3, <2>4 DEF SpawnStep
<1>2. ASSUME NEW s \in Slot, RefillStep(s) PROVE ListedIsIdle'
  <2>1. CASE RefillPublishes(s)
    <3>1. Range(idle') = Range(idle) \cup {s}
      BY <2>1 DEF RefillPublishes, Range
    <3> QED BY <2>1, <3>1 DEF RefillPublishes, MoveSlot, ListedIsIdle
  <2>2. CASE ~RefillPublishes(s)
    <3>1. Quiet
      BY <1>2, <2>2 DEF RefillStep, RefillLooks, RefillFindsClosed, RefillLoads, RefillLoadFails,
                        RefillDiscards, MoveSlot
    <3> QED BY <3>1, <1>0
  <2> QED BY <2>1, <2>2
<1>3. ASSUME CloseIdle PROVE ListedIsIdle'
  BY <1>3 DEF CloseIdle, ListedIsIdle
<1>4. ASSUME BuildStep PROVE ListedIsIdle'
  <2>1. CASE BuildFails
    <3>1. Quiet
      BY <2>1 DEF BuildFails
    <3> QED BY <3>1, <1>0
  <2>2. CASE BuildDone
    <3>3. Range(idle') = Initial
      BY <2>2, SurjectionRange DEF BuildDone, Bijection
    <3> QED BY <2>2, <3>3 DEF BuildDone, BuildPhases, ListedIsIdle
  <2>3. CASE PreloadBegin
    BY <2>3 DEF PreloadBegin, ListedIsIdle
  <2>4. CASE PreloadEnd
    <3>1. CloseIdle \/ UNCHANGED <<idle, slot>>
      BY <2>4 DEF PreloadEnd
    <3> QED BY <3>1, <1>3, <1>0
  <2>5. ASSUME NEW s \in Slot, PreloadSlot(s) \/ PreloadSlotFails(s) PROVE ListedIsIdle'
    <3>1. Quiet
      BY <2>5 DEF PreloadSlot, PreloadSlotFails, MoveSlot
    <3> QED BY <3>1, <1>0
  <2> QED BY <1>4, <2>1, <2>2, <2>3, <2>4, <2>5 DEF BuildStep
<1>5. ASSUME NEW c \in Caller, CallerStep(c) PROVE ListedIsIdle'
  <2>1. CASE TakeSlot(c)
    <3>1. Range(idle) \subseteq Range(idle') \cup {idle[Len(idle)]}
      BY <2>1, FrontRange DEF TakeSlot
    <3> QED BY <2>1, <3>1 DEF TakeSlot, ListedIsIdle
  <2>2. CASE TakeRefused(c) \/ TakeDrained(c) \/ DrainSkip(c)
    BY <2>2, <1>0 DEF TakeRefused, TakeDrained, DrainSkip
  <2>3. CASE DrainRefill(c) \/ OwnerRefills(c)
    <3>1. PICK s \in Slot : slot[s] = "none" /\ slot' = [slot EXCEPT ![s] = "start"]
      BY <2>3 DEF DrainRefill, OwnerRefills, Refill, MoveSlot
    <3>2. Quiet
      BY <2>3, <3>1 DEF DrainRefill, OwnerRefills
    <3> QED BY <3>2, <1>0
  <2>4. CASE OwnerResumes(c)
    BY <2>4, <1>0 DEF OwnerResumes, BecomesFork, SingleOwner
  <2>5. CASE OwnerFails(c)
    BY <2>5, <1>0 DEF OwnerFails, SingleOwner
  <2>6. ASSUME NEW x \in Snap, OwnerLoads(c, x) PROVE ListedIsIdle'
    BY <2>6, <1>0 DEF OwnerLoads
  <2>7. ASSUME NEW x \in Snap, OwnerLoadsAndResumes(c, x) PROVE ListedIsIdle'
    BY <2>7, <1>0 DEF OwnerLoadsAndResumes, BecomesFork, SingleOwner
  <2> QED BY <1>5, <2>1, <2>2, <2>3, <2>4, <2>5, <2>6, <2>7 DEF CallerStep
<1>6. ASSUME NEW s \in Slot, KeptReleased(s) \/ JailedProcessKilled(s) PROVE Quiet
  BY <1>6 DEF KeptReleased, JailedProcessKilled, MoveSlot
<1>7. CASE BackoffExpires \/ UNCHANGED vars
  BY <1>7, <1>0 DEF BackoffExpires, vars
<1>8. CASE Close
  BY <1>8, <1>3 DEF Close
<1>9. ASSUME NEW x \in Ctx, Cancel(x) PROVE Quiet
  BY <1>9 DEF Cancel
<1> QED
  BY <1>0, <1>1, <1>2, <1>4, <1>5, <1>6, <1>7, <1>8, <1>9 DEF Next

ClosedEmpty == closed => idle = <<>>

LEMMA ClosedStep == TypeOK /\ BuildPhases /\ ClosedEmpty /\ [Next]_vars => ClosedEmpty'
<1> SUFFICES ASSUME TypeOK, BuildPhases, ClosedEmpty, [Next]_vars PROVE ClosedEmpty'
  OBVIOUS
<1> USE DEF ClosedEmpty
<1>1. ASSUME NEW s \in Slot, SpawnStep(s) PROVE UNCHANGED poolVars
  BY <1>1 DEF SpawnStep, SpawnStart, SpawnMkdirFails, SpawnExecFails, SpawnReady, SpawnGivesUp
<1>2. ASSUME NEW s \in Slot, RefillStep(s) PROVE closed' = closed /\ (closed => idle' = idle)
  BY <1>2 DEF RefillStep, RefillLooks, RefillFindsClosed, RefillLoads, RefillLoadFails,
              RefillPublishes, RefillDiscards
<1>3. ASSUME BuildStep PROVE ClosedEmpty'
  BY <1>3 DEF BuildStep, BuildFails, BuildDone, PreloadBegin, PreloadSlot, PreloadSlotFails,
              PreloadEnd, CloseIdle, BuildPhases
<1>4. ASSUME NEW c \in Caller, CallerStep(c) PROVE closed' = closed /\ (closed => idle' = idle)
  BY <1>4 DEF CallerStep, TakeSlot, TakeRefused, TakeDrained, DrainRefill, DrainSkip, OwnerResumes,
              OwnerFails, OwnerRefills, OwnerLoads, OwnerLoadsAndResumes
<1>5. ASSUME NEW s \in Slot, KeptReleased(s) \/ JailedProcessKilled(s) PROVE UNCHANGED poolVars
  BY <1>5 DEF KeptReleased, JailedProcessKilled
<1>6. CASE Close
  BY <1>6 DEF Close, CloseIdle
<1>7. ASSUME BackoffExpires \/ UNCHANGED vars \/ \E x \in Ctx : Cancel(x) PROVE UNCHANGED poolVars
  BY <1>7 DEF BackoffExpires, vars, Cancel
<1> QED
  BY <1>1, <1>2, <1>3, <1>4, <1>5, <1>6, <1>7 DEF Next

(***************************************************************************)
(* What is loaded where                                                    *)
(***************************************************************************)
LEMMA ProgressStep ==
  TypeOK /\ SingleOwner /\ BuildPhases /\ ListedIsIdle /\ SlotProgress /\ [Next]_vars => SlotProgress'
<1> SUFFICES ASSUME TypeOK, SingleOwner, BuildPhases, ListedIsIdle, SlotProgress, [Next]_vars
             PROVE  SlotProgress'
  OBVIOUS
<1> USE SlotAssumption DEF SlotProgress, Fresh, Ready, Severed, CtxDone, TypeOK, FC!FcTypeOK, FC!ProcState, FC!Alive
<1>1. ASSUME NEW s \in Slot, SpawnStep(s) PROVE SlotProgress'
  <2>1. CASE SpawnStart(s)
    BY <2>1 DEF SpawnStart, MoveSlot, FC!Launch
  <2>2. CASE SpawnMkdirFails(s)
    <3>1. UNCHANGED <<preload, preloaded, ctx, done, proc, mem>>
      BY <2>2 DEF SpawnMkdirFails, FC!LaunchFails
    <3>2. slot' = [slot EXCEPT ![s] = "failed"] \/ slot' = [slot EXCEPT ![s] = "gone"]
      BY <2>2 DEF SpawnMkdirFails, SpawnError, MoveSlot
    <3> QED BY <3>1, <3>2
  <2>3. CASE SpawnExecFails(s)
    <3>1. UNCHANGED <<preload, preloaded, ctx, done, proc, mem>>
      BY <2>3 DEF SpawnExecFails, FC!LaunchFails
    <3>2. slot' = [slot EXCEPT ![s] = "failed"] \/ slot' = [slot EXCEPT ![s] = "gone"]
      BY <2>3 DEF SpawnExecFails, SpawnError, MoveSlot
    <3> QED BY <3>1, <3>2
  <2>4. CASE SpawnReady(s)
    BY <2>4 DEF SpawnReady, MoveSlot
  <2>5. CASE SpawnGivesUp(s)
    BY <2>5, SpawnErrorMoves DEF SpawnGivesUp, FC!KillAndRemove
  <2> QED BY <1>1, <2>1, <2>2, <2>3, <2>4, <2>5 DEF SpawnStep
<1>2. ASSUME NEW s \in Slot, RefillStep(s) PROVE SlotProgress'
  <2>1. CASE RefillLooks(s)
    BY <2>1 DEF RefillLooks, MoveSlot
  <2>2. CASE RefillPublishes(s)
    BY <2>2 DEF RefillPublishes, MoveSlot
  <2>3. CASE RefillLoads(s)
    BY <2>3 DEF RefillLoads, MoveSlot, FC!LoadSnapshot
  <2>4. CASE RefillFindsClosed(s) \/ RefillLoadFails(s) \/ RefillDiscards(s)
    BY <2>4 DEF RefillFindsClosed, RefillLoadFails, RefillDiscards, MoveSlot, FC!KillAndRemove
  <2> QED BY <1>2, <2>1, <2>2, <2>3, <2>4 DEF RefillStep
<1>3. ASSUME CloseIdle, UNCHANGED <<preloaded, ctx, done>> PROVE SlotProgress'
  BY <1>3 DEF CloseIdle, FC!KillAndRemove
<1>4. ASSUME BuildStep PROVE SlotProgress'
  <2>1. CASE BuildFails
    BY <2>1 DEF BuildFails, FC!KillAndRemove
  <2>2. CASE BuildDone
    BY <2>2 DEF BuildDone, BuildPhases
  <2>3. CASE PreloadBegin
    <3>1. \A s \in Slot : slot[s] = "none" \/ slot[s] \notin Refilling \cup {"idle"} \/ s \in Range(idle)
      BY <2>3 DEF PreloadBegin, BuildPhases, ListedIsIdle
    <3> QED BY <2>3, <3>1 DEF PreloadBegin, BuildPhases, SingleOwner
  <2>4. CASE PreloadEnd
    <3>1. UNCHANGED <<preloaded, ctx, done>> /\ (CloseIdle \/ UNCHANGED <<poolVars, slot, fcVars>>)
      BY <2>4 DEF PreloadEnd
    <3> QED BY <3>1, <1>3
  <2>5. ASSUME NEW s \in Slot, PreloadSlot(s) PROVE SlotProgress'
    BY <2>5 DEF PreloadSlot, MoveSlot, FC!LoadSnapshot, BuildPhases
  <2>6. ASSUME NEW s \in Slot, PreloadSlotFails(s) PROVE SlotProgress'
    BY <2>6 DEF PreloadSlotFails, MoveSlot
  <2> QED BY <1>4, <2>1, <2>2, <2>3, <2>4, <2>5, <2>6 DEF BuildStep
<1>5. ASSUME NEW c \in Caller, CallerStep(c) PROVE SlotProgress'
  <2>1. CASE TakeSlot(c)
    BY <2>1 DEF TakeSlot
  <2>2. CASE TakeRefused(c) \/ TakeDrained(c) \/ DrainSkip(c)
    BY <2>2 DEF TakeRefused, TakeDrained, DrainSkip
  <2>3. CASE DrainRefill(c) \/ OwnerRefills(c)
    <3>1. PICK s \in Slot : /\ slot[s] = "none" /\ slot' = [slot EXCEPT ![s] = "start"]
                          /\ \A r \in Slot : r # s => ctx'[r] = ctx[r]
      BY <2>3 DEF DrainRefill, OwnerRefills, Refill, MoveSlot
    <3> QED BY <2>3, <3>1 DEF DrainRefill, OwnerRefills
  <2>4. CASE OwnerResumes(c)
    BY <2>4 DEF OwnerResumes, BecomesFork, SingleOwner, FC!ResumeVm
  <2>5. CASE OwnerFails(c)
    BY <2>5 DEF OwnerFails, SingleOwner, FC!KillAndRemove
  <2>6. ASSUME NEW x \in Snap, OwnerLoads(c, x) PROVE SlotProgress'
    BY <2>6 DEF OwnerLoads, SingleOwner, FC!LoadSnapshot
  <2>7. ASSUME NEW x \in Snap, OwnerLoadsAndResumes(c, x) PROVE SlotProgress'
    BY <2>7 DEF OwnerLoadsAndResumes, BecomesFork, SingleOwner, FC!LoadAndResume
  <2> QED BY <1>5, <2>1, <2>2, <2>3, <2>4, <2>5, <2>6, <2>7 DEF CallerStep
<1>6. ASSUME NEW s \in Slot, KeptReleased(s) PROVE SlotProgress'
  BY <1>6 DEF KeptReleased, MoveSlot, FC!KillWaitAndRemove
<1>7. ASSUME NEW s \in Slot, JailedProcessKilled(s) PROVE SlotProgress'
  BY <1>7, JailedAssumption DEF JailedProcessKilled, FC!KilledByContext
<1>8. CASE BackoffExpires \/ UNCHANGED vars
  BY <1>8 DEF BackoffExpires, vars
<1>9. CASE Close
  BY <1>9, <1>3 DEF Close
<1>10. ASSUME NEW x \in Ctx, Cancel(x) PROVE SlotProgress'
  BY <1>10 DEF Cancel
<1> QED
  BY <1>1, <1>2, <1>4, <1>5, <1>6, <1>7, <1>8, <1>9, <1>10 DEF Next

(***************************************************************************)
(* No directory is forgotten                                               *)
(***************************************************************************)
LEMMA DirStep ==
  TypeOK /\ SingleOwner /\ SlotProgress /\ DirsAccountedFor /\ [Next]_vars => DirsAccountedFor'
<1> SUFFICES ASSUME TypeOK, SingleOwner, SlotProgress, DirsAccountedFor, [Next]_vars PROVE DirsAccountedFor'
  OBVIOUS
<1>a. \A s \in Slot : slot[s] \in {"none", "start"} => proc[s] = "none" /\ ~dir[s]
  BY DEF SlotProgress, DirsAccountedFor, InUse, LeftBehind
<1> USE JailedAssumption DEF DirsAccountedFor, InUse, LeftBehind, TypeOK, FC!FcTypeOK, FC!ProcState, FC!Alive
(* One slot is torn down and its directory removed.                        *)
<1>b. ASSUME NEW s \in Slot, NEW to \in {"failed", "gone"}, slot' = [slot EXCEPT ![s] = to],
             FC!KillAndRemove({s})
      PROVE  DirsAccountedFor'
  <2>1. /\ slot'[s] = to /\ ~dir'[s]
        /\ \A r \in Slot : r # s => slot'[r] = slot[r] /\ dir'[r] = dir[r] /\ proc'[r] = proc[r]
    BY <1>b DEF FC!KillAndRemove
  <2> QED BY <2>1
<1>1. ASSUME NEW s \in Slot, SpawnStep(s) PROVE DirsAccountedFor'
  <2>1. CASE SpawnStart(s)
    BY <2>1 DEF SpawnStart, MoveSlot, FC!Launch
  <2>2. CASE SpawnMkdirFails(s)
    <3>1. /\ slot[s] = "start"
          /\ slot' = [slot EXCEPT ![s] = IF s \in Initial THEN "failed" ELSE "gone"]
      BY <2>2, SpawnErrorMoves DEF SpawnMkdirFails
    <3>2. /\ slot'[s] \in {"failed", "gone"} /\ \A r \in Slot : r # s => slot'[r] = slot[r]
          /\ proc' = proc /\ proc[s] = "none"
      BY <2>2, <3>1, <1>a DEF SpawnMkdirFails, FC!LaunchFails
    <3>3. /\ \A r \in Slot : r # s => dir'[r] = dir[r]
          /\ dir'[s] => Jailed /\ "mkdir" \in Faults
      BY <2>2 DEF SpawnMkdirFails, FC!LaunchFails
    <3> QED BY <3>2, <3>3
  <2>3. CASE SpawnExecFails(s)
    <3>1. /\ slot[s] = "start"
          /\ slot' = [slot EXCEPT ![s] = IF s \in Initial THEN "failed" ELSE "gone"]
      BY <2>3, SpawnErrorMoves DEF SpawnExecFails
    <3> QED BY <2>3, <3>1, <1>a DEF SpawnExecFails, Severed, FC!LaunchFails
  <2>4. CASE SpawnReady(s)
    BY <2>4 DEF SpawnReady, MoveSlot
  <2>5. CASE SpawnGivesUp(s)
    <3>1. \E to \in {"failed", "gone"} : slot' = [slot EXCEPT ![s] = to]
      BY <2>5, SpawnErrorMoves DEF SpawnGivesUp
    <3> QED BY <2>5, <3>1, <1>b DEF SpawnGivesUp
  <2> QED BY <1>1, <2>1, <2>2, <2>3, <2>4, <2>5 DEF SpawnStep
<1>2. ASSUME NEW s \in Slot, RefillStep(s) PROVE DirsAccountedFor'
  <2>1. CASE RefillLooks(s) \/ RefillPublishes(s)
    BY <2>1 DEF RefillLooks, RefillPublishes, MoveSlot
  <2>2. CASE RefillLoads(s)
    BY <2>2 DEF RefillLoads, MoveSlot, FC!LoadSnapshot
  <2>3. CASE RefillFindsClosed(s) \/ RefillLoadFails(s) \/ RefillDiscards(s)
    BY <2>3, <1>b DEF RefillFindsClosed, RefillLoadFails, RefillDiscards, MoveSlot
  <2> QED BY <1>2, <2>1, <2>2, <2>3 DEF RefillStep
<1>3. ASSUME CloseIdle PROVE DirsAccountedFor'
  BY <1>3 DEF CloseIdle, SingleOwner, FC!KillAndRemove
<1>4. ASSUME BuildStep PROVE DirsAccountedFor'
  <2>1. CASE BuildFails
    BY <2>1 DEF BuildFails, FC!KillAndRemove
  <2>2. CASE BuildDone
    BY <2>2 DEF BuildDone
  <2>3. CASE PreloadBegin
    BY <2>3 DEF PreloadBegin, SingleOwner
  <2>4. CASE PreloadEnd
    <3>1. CloseIdle \/ UNCHANGED <<slot, fcVars>>
      BY <2>4 DEF PreloadEnd
    <3> QED BY <3>1, <1>3
  <2>5. ASSUME NEW s \in Slot, PreloadSlot(s) PROVE DirsAccountedFor'
    BY <2>5 DEF PreloadSlot, MoveSlot, FC!LoadSnapshot
  <2>6. ASSUME NEW s \in Slot, PreloadSlotFails(s) PROVE DirsAccountedFor'
    BY <2>6 DEF PreloadSlotFails, MoveSlot
  <2> QED BY <1>4, <2>1, <2>2, <2>3, <2>4, <2>5, <2>6 DEF BuildStep
<1>5. ASSUME NEW c \in Caller, CallerStep(c) PROVE DirsAccountedFor'
  <2>1. CASE TakeSlot(c)
    <3>1. idle[Len(idle)] \in Slot /\ slot[idle[Len(idle)]] \in Listed
      BY <2>1 DEF TakeSlot, SingleOwner, Range
    <3> QED BY <2>1, <3>1 DEF TakeSlot
  <2>2. CASE TakeRefused(c) \/ TakeDrained(c) \/ DrainSkip(c)
    BY <2>2 DEF TakeRefused, TakeDrained, DrainSkip
  <2>3. CASE DrainRefill(c) \/ OwnerRefills(c)
    <3>1. PICK s \in Slot : slot[s] = "none" /\ slot' = [slot EXCEPT ![s] = "start"]
      BY <2>3 DEF DrainRefill, OwnerRefills, Refill, MoveSlot
    <3> QED BY <2>3, <3>1 DEF DrainRefill, OwnerRefills
  <2>4. CASE OwnerResumes(c)
    BY <2>4 DEF OwnerResumes, BecomesFork, SingleOwner, FC!ResumeVm
  <2>5. CASE OwnerFails(c)
    BY <2>5 DEF OwnerFails, SingleOwner, FC!KillAndRemove
  <2>6. ASSUME NEW x \in Snap, OwnerLoads(c, x) PROVE DirsAccountedFor'
    BY <2>6 DEF OwnerLoads, SingleOwner, FC!LoadSnapshot
  <2>7. ASSUME NEW x \in Snap, OwnerLoadsAndResumes(c, x) PROVE DirsAccountedFor'
    BY <2>7 DEF OwnerLoadsAndResumes, BecomesFork, SingleOwner, FC!LoadAndResume
  <2> QED BY <1>5, <2>1, <2>2, <2>3, <2>4, <2>5, <2>6, <2>7 DEF CallerStep
<1>6. ASSUME NEW s \in Slot, KeptReleased(s) \/ JailedProcessKilled(s) PROVE DirsAccountedFor'
  BY <1>6 DEF KeptReleased, JailedProcessKilled, MoveSlot, FC!KillWaitAndRemove, FC!KilledByContext
<1>7. CASE BackoffExpires \/ UNCHANGED vars
  BY <1>7 DEF BackoffExpires, vars
<1>8. CASE Close
  BY <1>8, <1>3 DEF Close
<1>9. ASSUME NEW x \in Ctx, Cancel(x) PROVE DirsAccountedFor'
  BY <1>9 DEF Cancel
<1> QED
  BY <1>1, <1>2, <1>4, <1>5, <1>6, <1>7, <1>8, <1>9 DEF Next

(***************************************************************************)
(* The pool counts what it loses                                           *)
(***************************************************************************)
Balanced ==
  Len(idle) + Cardinality(Flight) + Cardinality(Owners) + refillErrs
    = Cardinality(Initial) + Cardinality(DrainRefills)
NoErrors == build = "spawning" => refillErrs = 0

LEMMA Counts ==
  /\ IsFiniteSet(Flight) /\ Cardinality(Flight) \in Nat
  /\ IsFiniteSet(Owners) /\ Cardinality(Owners) \in Nat
  /\ IsFiniteSet(DrainRefills) /\ Cardinality(DrainRefills) \in Nat
  /\ Cardinality(Initial) \in Nat
<1>1. Flight \in SUBSET Slot /\ DrainRefills \in SUBSET Slot /\ Owners \in SUBSET Caller
  BY DEF Flight, DrainRefills, Owners
<1> QED BY <1>1, SlotAssumption, CallerAssumption, FS_Subset, FS_CardinalityType

(* The slots in flight, when one slot moves.                               *)
LEMMA FlightMoves ==
  ASSUME TypeOK, NEW s \in Slot, NEW to \in SlotState, slot' = [slot EXCEPT ![s] = to]
  PROVE  /\ (slot[s] \in Refilling <=> to \in Refilling) => Flight' = Flight
         /\ slot[s] \in Refilling /\ to \notin Refilling => Cardinality(Flight') = Cardinality(Flight) - 1
         /\ slot[s] \notin Refilling /\ to \in Refilling => Cardinality(Flight') = Cardinality(Flight) + 1
<1>0. slot'[s] = to /\ \A r \in Slot : r # s => slot'[r] = slot[r]
  BY DEF TypeOK
<1>1. (slot[s] \in Refilling <=> to \in Refilling) => Flight' = Flight
  BY <1>0 DEF Flight
<1>2. ASSUME slot[s] \in Refilling, to \notin Refilling PROVE Cardinality(Flight') = Cardinality(Flight) - 1
  <2>1. Flight' = Flight \ {s} /\ s \in Flight
    BY <1>0, <1>2 DEF Flight
  <2> QED BY <2>1, Counts, FS_RemoveElement
<1>3. ASSUME slot[s] \notin Refilling, to \in Refilling PROVE Cardinality(Flight') = Cardinality(Flight) + 1
  <2>1. Flight' = Flight \cup {s} /\ s \notin Flight
    BY <1>0, <1>3 DEF Flight
  <2> QED BY <2>1, Counts, FS_AddElement
<1> QED BY <1>1, <1>2, <1>3

(* The callers that owe a replacement, when one caller goes on.            *)
LEMMA OwnersMove ==
  ASSUME TypeOK, NEW c \in Caller, NEW to \in CallState, call' = [call EXCEPT ![c] = to]
  PROVE  /\ (call[c] \in {"own", "owed"} <=> to \in {"own", "owed"}) => Owners' = Owners
         /\ call[c] \in {"own", "owed"} /\ to \notin {"own", "owed"} =>
              Cardinality(Owners') = Cardinality(Owners) - 1
         /\ call[c] \notin {"own", "owed"} /\ to \in {"own", "owed"} =>
              Cardinality(Owners') = Cardinality(Owners) + 1
<1>0. call'[c] = to /\ \A d \in Caller : d # c => call'[d] = call[d]
  BY DEF TypeOK
<1>1. (call[c] \in {"own", "owed"} <=> to \in {"own", "owed"}) => Owners' = Owners
  BY <1>0 DEF Owners
<1>2. ASSUME call[c] \in {"own", "owed"}, to \notin {"own", "owed"}
      PROVE  Cardinality(Owners') = Cardinality(Owners) - 1
  <2>1. Owners' = Owners \ {c} /\ c \in Owners
    BY <1>0, <1>2 DEF Owners
  <2> QED BY <2>1, Counts, FS_RemoveElement
<1>3. ASSUME call[c] \notin {"own", "owed"}, to \in {"own", "owed"}
      PROVE  Cardinality(Owners') = Cardinality(Owners) + 1
  <2>1. Owners' = Owners \cup {c} /\ c \notin Owners
    BY <1>0, <1>3 DEF Owners
  <2> QED BY <2>1, Counts, FS_AddElement
<1> QED BY <1>1, <1>2, <1>3

(* The refills of drained Takes, when one slot moves: a Refill is counted  *)
(* here by the context it is given.                                        *)
LEMMA DrainsStay ==
  ASSUME UNCHANGED ctx, \A r \in Slot : slot'[r] = "none" <=> slot[r] = "none"
  PROVE  DrainRefills' = DrainRefills
BY DEF DrainRefills

LEMMA RefillBegins ==
  ASSUME TypeOK, BuildPhases, build \notin {"spawning"}, NEW x \in Ctx \cup {Background}, Refill(x)
  PROVE  /\ Cardinality(Flight') = Cardinality(Flight) + 1
         /\ Cardinality(DrainRefills') =
              IF x = Background THEN Cardinality(DrainRefills) + 1 ELSE Cardinality(DrainRefills)
<1>1. PICK s \in Slot : /\ slot[s] = "none" /\ slot' = [slot EXCEPT ![s] = "start"]
                      /\ ctx' = [ctx EXCEPT ![s] = x]
  BY DEF Refill, MoveSlot
<1>2. s \notin Initial
  BY <1>1 DEF BuildPhases
<1>3. /\ slot'[s] = "start" /\ ctx'[s] = x
      /\ \A r \in Slot : r # s => slot'[r] = slot[r] /\ ctx'[r] = ctx[r]
  BY <1>1 DEF TypeOK
<1>4. CASE x = Background
  <2>1. DrainRefills' = DrainRefills \cup {s} /\ s \notin DrainRefills
    BY <1>1, <1>2, <1>3, <1>4 DEF DrainRefills
  <2> QED BY <1>1, <1>4, <2>1, Counts, FlightMoves, FS_AddElement
<1>5. CASE x # Background
  <2>1. DrainRefills' = DrainRefills
    BY <1>1, <1>3, <1>5 DEF DrainRefills
  <2> QED BY <1>1, <1>5, <2>1, FlightMoves
<1> QED BY <1>4, <1>5

LEMMA FrontLength ==
  ASSUME NEW S, NEW q \in Seq(S), q # <<>>
  PROVE  Len(SubSeq(q, 1, Len(q) - 1)) = Len(q) - 1
<1>1. Len(q) \in Nat \ {0} /\ DOMAIN q = 1 .. Len(q) /\ q \in [1 .. Len(q) -> S]
  OBVIOUS
<1> QED BY <1>1

LEMMA CountStep ==
  TypeOK /\ SingleOwner /\ BuildPhases /\ ListedIsIdle /\ ShrinkIsCounted /\ NoErrors /\ [Next]_vars
    => ShrinkIsCounted' /\ NoErrors'
<1> SUFFICES ASSUME TypeOK, SingleOwner, BuildPhases, ListedIsIdle, ShrinkIsCounted, NoErrors, [Next]_vars
             PROVE  ShrinkIsCounted' /\ NoErrors'
  OBVIOUS
<1> DEFINE Counting == build \notin {"spawning", "failed"} /\ ~closed
<1>a. /\ Counting => Balanced
      /\ ShrinkIsCounted' <=> (Counting' => Balanced')
  BY DEF ShrinkIsCounted, Balanced
<1>b. Len(idle) \in Nat /\ refillErrs \in Nat
  BY DEF TypeOK
<1>c. build # "spawning" => \A s \in Initial : slot[s] \notin Refilling
  BY DEF BuildPhases
<1>d. build = "spawning" => \A s \in Slot \ Initial : slot[s] = "none"
  BY DEF BuildPhases
(* A step that moves one slot and neither lists nor counts anything.       *)
<1>1. ASSUME UNCHANGED <<build, closed, idle, refillErrs, call, ctx>>,
             slot' = slot \/ \E s \in Slot, to \in SlotState :
               /\ slot' = [slot EXCEPT ![s] = to]
               /\ slot[s] # "none" /\ to # "none" /\ (slot[s] \in Refilling <=> to \in Refilling)
      PROVE  ShrinkIsCounted' /\ NoErrors'
  <2>1. Flight' = Flight
    BY <1>1, FlightMoves DEF Flight
  <2>2. DrainRefills' = DrainRefills
    BY <1>1, DrainsStay DEF TypeOK
  <2>3. Owners' = Owners
    BY <1>1 DEF Owners
  <2> QED BY <1>1, <1>a, <2>1, <2>2, <2>3 DEF Balanced, NoErrors
(* A slot is lost and counted.                                             *)
<1>2. ASSUME UNCHANGED <<build, closed, idle, call, ctx>>, refillErrs' = refillErrs + 1,
             NEW s \in Slot, slot[s] \in Refilling, s \notin Initial, slot' = [slot EXCEPT ![s] = "gone"]
      PROVE  ShrinkIsCounted' /\ NoErrors'
  <2>1. Cardinality(Flight') = Cardinality(Flight) - 1
    <3>1. "gone" \in SlotState \ Refilling
      OBVIOUS
    <3> HIDE DEF SlotState, Refilling
    <3> QED BY <1>2, <3>1, FlightMoves
  <2>2. DrainRefills' = DrainRefills
    BY <1>2, DrainsStay DEF TypeOK
  <2>3. Owners' = Owners
    BY <1>2 DEF Owners
  <2>4. build # "spawning"
    BY <1>2, <1>d
  <2> QED BY <1>2, <1>a, <1>b, <2>1, <2>2, <2>3, <2>4, Counts DEF Balanced, NoErrors
<1>3. ASSUME NEW s \in Slot, SpawnStep(s) PROVE ShrinkIsCounted' /\ NoErrors'
  <2>1. CASE SpawnStart(s) \/ SpawnReady(s)
    BY <2>1, <1>1 DEF SpawnStart, SpawnReady, MoveSlot
  <2>2. ASSUME NEW from \in {"start", "poll"}, SpawnError(s, from), UNCHANGED <<build, poolVars, ctx, callVars>>
        PROVE  ShrinkIsCounted' /\ NoErrors'
    <3>1. CASE s \in Initial
      <4>1. /\ slot[s] = from /\ build = "spawning"
            /\ UNCHANGED <<build, refillErrs>>
        BY <2>2, <3>1, <1>c DEF SpawnError, MoveSlot
      <4> QED BY <4>1, <1>a DEF NoErrors
    <3>2. CASE s \notin Initial
      BY <1>2, <2>2, <3>2 DEF SpawnError, MoveSlot
    <3> QED BY <3>1, <3>2
  <2>3. CASE SpawnMkdirFails(s)
    BY <2>2, <2>3 DEF SpawnMkdirFails
  <2>4. CASE SpawnExecFails(s)
    BY <2>2, <2>4 DEF SpawnExecFails
  <2>5. CASE SpawnGivesUp(s)
    BY <2>2, <2>5 DEF SpawnGivesUp
  <2> QED BY <1>3, <2>1, <2>3, <2>4, <2>5 DEF SpawnStep
<1>4. ASSUME NEW s \in Slot, RefillStep(s) PROVE ShrinkIsCounted' /\ NoErrors'
  <2>1. CASE RefillLooks(s) \/ RefillLoads(s)
    BY <2>1, <1>1 DEF RefillLooks, RefillLoads, MoveSlot
  <2>2. CASE RefillFindsClosed(s) \/ RefillDiscards(s)
    BY <2>2, <1>a DEF RefillFindsClosed, RefillDiscards, NoErrors
  <2>3. CASE RefillLoadFails(s)
    <3>1. s \notin Initial
      BY <2>3, <1>c DEF RefillLoadFails, MoveSlot, BuildPhases
    <3> QED BY <1>2, <2>3, <3>1 DEF RefillLoadFails, MoveSlot
  <2>4. CASE RefillPublishes(s)
    <3>1. Cardinality(Flight') = Cardinality(Flight) - 1
      <4>1. /\ slot[s] \in Refilling /\ "idle" \in SlotState \ Refilling
            /\ slot' = [slot EXCEPT ![s] = "idle"]
        BY <2>4 DEF RefillPublishes, MoveSlot
      <4> HIDE DEF SlotState, Refilling
      <4> QED BY <4>1, FlightMoves
    <3>2. DrainRefills' = DrainRefills
      BY <2>4, DrainsStay DEF RefillPublishes, MoveSlot, TypeOK
    <3>3. Owners' = Owners
      BY <2>4 DEF RefillPublishes, Owners
    <3>4. Len(idle') = Len(idle) + 1
      BY <2>4 DEF RefillPublishes, TypeOK
    <3>5. UNCHANGED <<build, closed, refillErrs>>
      BY <2>4 DEF RefillPublishes
    <3> QED BY <1>a, <1>b, <3>1, <3>2, <3>3, <3>4, <3>5, Counts DEF Balanced, NoErrors
  <2> QED BY <1>4, <2>1, <2>2, <2>3, <2>4 DEF RefillStep
<1>5. ASSUME BuildStep PROVE ShrinkIsCounted' /\ NoErrors'
  <2>1. CASE BuildFails
    BY <2>1, <1>a DEF BuildFails, NoErrors
  <2>2. CASE BuildDone
    <3>1. Len(idle') = Cardinality(Initial)
      BY <2>2, Counts DEF BuildDone, Bijection, Injection
    <3>2. Flight' = {} /\ DrainRefills' = {}
      BY <2>2, <1>d DEF BuildDone, Flight, DrainRefills
    <3>3. Owners' = {}
      BY <2>2 DEF BuildDone, BuildPhases, Owners
    <3>4. refillErrs' = 0 /\ build' # "spawning"
      BY <2>2 DEF BuildDone, NoErrors
    <3> QED BY <1>a, <3>1, <3>2, <3>3, <3>4, Counts, FS_EmptySet DEF Balanced, NoErrors
  <2>3. CASE PreloadBegin
    <3>1. \A s \in Slot : /\ slot'[s] \in Refilling <=> slot[s] \in Refilling
                          /\ slot'[s] = "none" <=> slot[s] = "none"
      BY <2>3 DEF PreloadBegin, SingleOwner, TypeOK
    <3>2. Flight' = Flight /\ DrainRefills' = DrainRefills /\ Owners' = Owners
      BY <2>3, <3>1 DEF PreloadBegin, Flight, DrainRefills, Owners
    <3> QED BY <2>3, <1>a, <3>2 DEF PreloadBegin, Balanced, NoErrors
  <2>4. CASE PreloadEnd
    <3>1. CASE build' = "failed"
      BY <3>1, <1>a DEF NoErrors
    <3>2. CASE build' # "failed"
      <4>1. UNCHANGED <<closed, idle, slot, refillErrs, call, ctx>> /\ build = "preloading" /\ build' = "open"
        BY <2>4, <3>2 DEF PreloadEnd
      <4>2. Flight' = Flight /\ DrainRefills' = DrainRefills /\ Owners' = Owners
        BY <4>1 DEF Flight, DrainRefills, Owners
      <4> QED BY <4>1, <4>2, <1>a DEF Balanced, NoErrors
    <3> QED BY <3>1, <3>2
  <2>5. ASSUME NEW s \in Slot, PreloadSlot(s) \/ PreloadSlotFails(s) PROVE ShrinkIsCounted' /\ NoErrors'
    BY <2>5, <1>1 DEF PreloadSlot, PreloadSlotFails, MoveSlot
  <2> QED BY <1>5, <2>1, <2>2, <2>3, <2>4, <2>5 DEF BuildStep
<1>6. ASSUME NEW c \in Caller, CallerStep(c) PROVE ShrinkIsCounted' /\ NoErrors'
  <2>0. call[c] # "new" => build # "spawning"
    BY DEF BuildPhases
  (* A step of the caller after which it owes as much as before.           *)
  <2>1. ASSUME UNCHANGED <<build, closed, idle, refillErrs, ctx>>,
               \E to \in CallState : call' = [call EXCEPT ![c] = to]
                                     /\ (call[c] \in {"own", "owed"} <=> to \in {"own", "owed"}),
               slot' = slot \/ \E s \in Slot, to \in {"kept", "gone"} :
                 slot' = [slot EXCEPT ![s] = to] /\ slot[s] = "taken"
        PROVE  ShrinkIsCounted' /\ NoErrors'
    <3>1. Flight' = Flight
      BY <2>1, FlightMoves DEF Flight
    <3>2. DrainRefills' = DrainRefills
      BY <2>1, DrainsStay DEF TypeOK
    <3>3. Owners' = Owners
      BY <2>1, OwnersMove
    <3> QED BY <2>1, <1>a, <3>1, <3>2, <3>3 DEF Balanced, NoErrors
  <2>2. CASE TakeSlot(c)
    <3>1. idle[Len(idle)] \in Slot /\ slot[idle[Len(idle)]] \in Listed
      BY <2>2 DEF TakeSlot, SingleOwner, TypeOK, Range
    <3>2. Flight' = Flight
      <4> DEFINE s == idle[Len(idle)]
      <4>1. /\ s \in Slot /\ slot[s] \notin Refilling /\ "taken" \in SlotState \ Refilling
            /\ slot' = [slot EXCEPT ![s] = "taken"]
        BY <2>2, <3>1 DEF TakeSlot
      <4> HIDE DEF SlotState, Refilling, s
      <4> QED BY <4>1, FlightMoves
    <3>3. DrainRefills' = DrainRefills
      BY <2>2, <3>1, DrainsStay DEF TakeSlot, TypeOK
    <3>4. Cardinality(Owners') = Cardinality(Owners) + 1
      BY <2>2, OwnersMove DEF TakeSlot
    <3>5. Len(idle') = Len(idle) - 1
      <4>1. idle \in Seq(Slot) /\ idle # <<>> /\ idle' = SubSeq(idle, 1, Len(idle) - 1)
        BY <2>2 DEF TakeSlot, TypeOK
      <4> QED BY <4>1, FrontLength
    <3>6. UNCHANGED <<build, closed, refillErrs>>
      BY <2>2 DEF TakeSlot
    <3> QED BY <1>a, <1>b, <3>2, <3>3, <3>4, <3>5, <3>6, Counts DEF Balanced, NoErrors
  <2>3. CASE TakeRefused(c) \/ TakeDrained(c) \/ DrainSkip(c)
    BY <2>3, <2>1 DEF TakeRefused, TakeDrained, DrainSkip
  <2>4. CASE DrainRefill(c)
    <3>1. Owners' = Owners
      BY <2>4, OwnersMove DEF DrainRefill
    <3>2. /\ Cardinality(Flight') = Cardinality(Flight) + 1
          /\ Cardinality(DrainRefills') = Cardinality(DrainRefills) + 1
      BY <2>4, <2>0, RefillBegins DEF DrainRefill
    <3>3. UNCHANGED <<build, closed, idle, refillErrs>>
      BY <2>4 DEF DrainRefill
    <3> QED BY <1>a, <1>b, <3>1, <3>2, <3>3, Counts DEF Balanced, NoErrors
  <2>5. CASE OwnerResumes(c)
    <3>1. holds[c] \in Slot /\ slot[holds[c]] = "taken"
      BY <2>5 DEF OwnerResumes, SingleOwner
    <3> QED BY <2>5, <3>1, <2>1 DEF OwnerResumes, BecomesFork
  <2>6. CASE OwnerFails(c)
    <3>1. holds[c] \in Slot /\ slot[holds[c]] = "taken"
      BY <2>6 DEF OwnerFails, SingleOwner
    <3> QED BY <2>6, <3>1, <2>1 DEF OwnerFails
  <2>7. ASSUME NEW x \in Snap, OwnerLoads(c, x) PROVE ShrinkIsCounted' /\ NoErrors'
    BY <2>7, <1>1 DEF OwnerLoads
  <2>8. ASSUME NEW x \in Snap, OwnerLoadsAndResumes(c, x) PROVE ShrinkIsCounted' /\ NoErrors'
    <3>1. holds[c] \in Slot /\ slot[holds[c]] = "taken"
      BY <2>8 DEF OwnerLoadsAndResumes, SingleOwner
    <3> QED BY <2>8, <3>1, <2>1 DEF OwnerLoadsAndResumes, BecomesFork
  <2>9. CASE OwnerRefills(c)
    <3>1. Cardinality(Owners') = Cardinality(Owners) - 1
      BY <2>9, OwnersMove DEF OwnerRefills
    <3>2. /\ Cardinality(Flight') = Cardinality(Flight) + 1
          /\ Cardinality(DrainRefills') = Cardinality(DrainRefills)
      BY <2>9, <2>0, RefillBegins, CtxAssumption DEF OwnerRefills
    <3>3. UNCHANGED <<build, closed, idle, refillErrs>>
      BY <2>9 DEF OwnerRefills
    <3> QED BY <1>a, <1>b, <3>1, <3>2, <3>3, Counts DEF Balanced, NoErrors
  <2> QED BY <1>6, <2>2, <2>3, <2>4, <2>5, <2>6, <2>7, <2>8, <2>9 DEF CallerStep
<1>7. ASSUME NEW s \in Slot, KeptReleased(s) \/ JailedProcessKilled(s) PROVE ShrinkIsCounted' /\ NoErrors'
  BY <1>7, <1>1 DEF KeptReleased, JailedProcessKilled, MoveSlot
<1>8. CASE BackoffExpires \/ (\E x \in Ctx : Cancel(x)) \/ UNCHANGED vars
  BY <1>8, <1>1 DEF BackoffExpires, Cancel, vars
<1>9. CASE Close
  BY <1>9, <1>a DEF Close, CloseIdle, NoErrors
<1> QED
  BY <1>3, <1>4, <1>5, <1>6, <1>7, <1>8, <1>9 DEF Next

(***************************************************************************)
(* The theorems                                                            *)
(***************************************************************************)
LEMMA InitIndInv == Init => IndInv
<1> SUFFICES ASSUME Init PROVE IndInv
  OBVIOUS
<1> USE SlotAssumption, SnapAssumption, CtxAssumption DEF Init
<1>1. TypeOK
  <2>1. FC!FcTypeOK
    BY DEF FC!FcInit, FC!FcTypeOK, FC!ProcState, FC!Alive
  <2>2. slot \in [Slot -> SlotState] /\ ctx \in [Slot -> Ctx \cup {Background}]
    OBVIOUS
  <2>3. idle \in Seq(Slot)
    OBVIOUS
  <2>4. call \in [Caller -> CallState] /\ holds \in [Caller -> Slot \cup {NoSlot}]
    BY DEF CallState
  <2>5. build \in BuildState /\ preload \in Snap \cup {NoSnap} /\ refillErrs \in Nat
    BY DEF BuildState
  <2>6. closed \in BOOLEAN /\ backoff \in BOOLEAN /\ preloaded \subseteq Slot /\ done \subseteq Ctx
    OBVIOUS
  <2> HIDE DEF Init
  <2> QED BY <2>1, <2>2, <2>3, <2>4, <2>5, <2>6 DEF TypeOK
<1>2. SingleOwner
  BY DEF SingleOwner, IsInjective, Range
<1>3. NoOrphan
  BY DEF NoOrphan, FC!FcInit, FC!Alive
<1>4. BuildPhases
  BY DEF BuildPhases
<1>6. ListedIsIdle
  BY DEF ListedIsIdle
<1>5. SlotProgress
  BY DEF SlotProgress, Fresh, Ready, FC!FcInit
<1>8. DirsAccountedFor
  BY DEF DirsAccountedFor, InUse, LeftBehind, FC!FcInit
<1>7. ShrinkIsCounted
  BY DEF ShrinkIsCounted
<1> QED BY <1>1, <1>2, <1>3, <1>4, <1>5, <1>6, <1>7, <1>8 DEF IndInv

LEMMA StepIndInv == IndInv /\ [Next]_vars => IndInv'
BY TypeStep, OwnerStep, OrphanStep, DirStep, PhaseStep, ListedStep, ClosedStep, ProgressStep, CountStep
   DEF IndInv, ClosedEmpty, NoErrors

(* The inductive invariant holds in every reachable state.                 *)
THEOREM IndInvHolds == Spec => []IndInv
<1>1. Init => IndInv
  BY InitIndInv
<1>2. IndInv /\ [Next]_vars => IndInv'
  BY StepIndInv
<1> QED BY <1>1, <1>2, PTL DEF Spec

(* Every variable of the warm pool has its type.                           *)
THEOREM TypeCorrect == Spec => []TypeOK
<1>1. IndInv => TypeOK
  BY DEF IndInv
<1> QED BY <1>1, IndInvHolds, PTL

(* No slot is handed out twice, nor listed in p.idle while it is a fork's. *)
THEOREM SingleOwnership == Spec => []SingleOwner
<1>1. IndInv => SingleOwner
  BY DEF IndInv
<1> QED BY <1>1, IndInvHolds, PTL

(* Whatever Take hands out is loaded exactly when its flag says so, with   *)
(* the pool's snapshot, in a process that is up.                           *)
THEOREM TakesAreReady == Spec => []TakeReady
<1>1. IndInv => TakeReady
  <2> SUFFICES ASSUME IndInv, build = "open", NEW s \in Range(idle)
               PROVE  /\ s \in preloaded <=> preload # NoSnap
                      /\ s \in preloaded => mem[s] = preload
                      /\ ~Severed(s) => proc[s] = IF preload = NoSnap THEN "ready" ELSE "paused"
    BY DEF TakeReady
  <2>1. s \in Slot /\ slot[s] = "idle"
    BY DEF IndInv, SingleOwner, BuildPhases, TypeOK, Range
  <2>2. Ready(s)
    BY <2>1 DEF IndInv, SlotProgress
  <2> QED BY <2>2 DEF Ready, Fresh
<1> QED BY <1>1, IndInvHolds, PTL

(* No error path forgets a running process.                                *)
THEOREM NothingOrphaned == Spec => []NoOrphan
<1>1. IndInv => NoOrphan
  BY DEF IndInv
<1> QED BY <1>1, IndInvHolds, PTL

(* Nor a directory, but for the chroot of a jailed slot that could not be  *)
(* made whole and the directory of a process that did not start.           *)
THEOREM DirectoriesAccountedFor == Spec => []DirsAccountedFor
<1>1. IndInv => DirsAccountedFor
  BY DEF IndInv
<1> QED BY <1>1, IndInvHolds, PTL

(* A closed pool holds nothing, and once the Refills that raced with Close *)
(* are over, runs nothing but what its callers took.                       *)
THEOREM ClosedPoolHoldsNothing == Spec => []ClosedHoldsNothing
<1>1. IndInv => ClosedHoldsNothing
  <2> SUFFICES ASSUME IndInv, closed
               PROVE  /\ idle = <<>>
                      /\ (\A s \in Slot : slot[s] \notin Refilling) =>
                           \A s \in Slot : proc[s] \in FC!Alive => slot[s] \in {"taken", "kept"}
    BY DEF ClosedHoldsNothing
  <2>1. idle = <<>>
    BY DEF IndInv
  <2>2. \A s \in Slot : slot[s] \notin Listed
    BY <2>1 DEF IndInv, ListedIsIdle, Range
  <2>3. \A s \in Slot : slot[s] \in SlotState
    BY DEF IndInv, TypeOK
  <2> QED BY <2>1, <2>2, <2>3 DEF IndInv, NoOrphan
<1> QED BY <1>1, IndInvHolds, PTL

(* The pool does not shrink silently: idle slots, slots in flight, slots   *)
(* in use that will be replaced and counted failures add up to its size    *)
(* and the refills that drained Takes asked for.                           *)
THEOREM LossesCounted == Spec => []ShrinkIsCounted
<1>1. IndInv => ShrinkIsCounted
  BY DEF IndInv
<1> QED BY <1>1, IndInvHolds, PTL

(***************************************************************************)
(* A fork's slot is left alone                                             *)
(***************************************************************************)
(* A step works on the slot of its goroutine or its caller, or on listed   *)
(* ones, and none of these is a live fork's before and after.              *)
LEMMA KeptStep ==
  ASSUME TypeOK, SingleOwner, [Next]_vars, NEW k \in Slot, slot[k] = "kept", slot'[k] = "kept"
  PROVE  Undisturbed(k)
<1> USE DEF TypeOK, FC!FcTypeOK, Undisturbed
<1>0. ASSUME UNCHANGED fcVars PROVE Undisturbed(k)
  BY <1>0
<1>1. ASSUME NEW s \in Slot, SpawnStep(s) PROVE Undisturbed(k)
  <2>1. slot[s] \in {"start", "poll"}
    BY <1>1, SpawnErrorMoves DEF SpawnStep, SpawnStart, SpawnMkdirFails, SpawnExecFails, SpawnReady, SpawnGivesUp,
       MoveSlot
  <2> QED BY <1>1, <2>1 DEF SpawnStep, SpawnStart, SpawnMkdirFails, SpawnExecFails, SpawnReady, SpawnGivesUp,
       FC!Launch, FC!LaunchFails, FC!KillAndRemove
<1>2. ASSUME NEW s \in Slot, RefillStep(s) PROVE Undisturbed(k)
  <2>1. slot[s] \in Refilling
    BY <1>2 DEF RefillStep, RefillLooks, RefillFindsClosed, RefillLoads, RefillLoadFails, RefillPublishes,
       RefillDiscards, MoveSlot
  <2> QED BY <1>2, <2>1 DEF RefillStep, RefillLooks, RefillFindsClosed, RefillLoads, RefillLoadFails,
       RefillPublishes, RefillDiscards, FC!KillAndRemove, FC!LoadSnapshot
<1>3. ASSUME CloseIdle PROVE Undisturbed(k)
  BY <1>3 DEF CloseIdle, SingleOwner, FC!KillAndRemove
<1>4. ASSUME BuildStep PROVE Undisturbed(k)
  <2>1. CASE BuildFails
    BY <2>1 DEF BuildFails, FC!KillAndRemove
  <2>2. CASE BuildDone \/ PreloadBegin
    BY <2>2 DEF BuildDone, PreloadBegin
  <2>3. CASE PreloadEnd
    BY <1>3, <2>3 DEF PreloadEnd
  <2>4. ASSUME NEW s \in Slot, PreloadSlot(s) \/ PreloadSlotFails(s) PROVE Undisturbed(k)
    BY <2>4 DEF PreloadSlot, PreloadSlotFails, MoveSlot, FC!LoadSnapshot
  <2> QED BY <1>4, <2>1, <2>2, <2>3, <2>4 DEF BuildStep
<1>5. ASSUME NEW c \in Caller, CallerStep(c) PROVE Undisturbed(k)
  <2>1. CASE TakeSlot(c) \/ TakeRefused(c) \/ TakeDrained(c) \/ DrainRefill(c) \/ DrainSkip(c) \/ OwnerRefills(c)
    BY <2>1 DEF TakeSlot, TakeRefused, TakeDrained, DrainRefill, DrainSkip, OwnerRefills
  <2>2. CASE OwnerResumes(c) \/ OwnerFails(c) \/ \E x \in Snap : OwnerLoads(c, x) \/ OwnerLoadsAndResumes(c, x)
    <3>1. call[c] = "own"
      BY <2>2 DEF OwnerResumes, OwnerFails, OwnerLoads, OwnerLoadsAndResumes
    <3>2. holds[c] \in Slot /\ holds[c] # k
      BY <3>1 DEF SingleOwner
    <3> QED BY <2>2, <3>2 DEF OwnerResumes, OwnerFails, OwnerLoads, OwnerLoadsAndResumes, BecomesFork,
         FC!ResumeVm, FC!KillAndRemove, FC!LoadSnapshot, FC!LoadAndResume
  <2> QED BY <1>5, <2>1, <2>2 DEF CallerStep
<1>6. ASSUME NEW s \in Slot, KeptReleased(s) PROVE Undisturbed(k)
  BY <1>6 DEF KeptReleased, MoveSlot, FC!KillWaitAndRemove
<1>7. ASSUME NEW s \in Slot, JailedProcessKilled(s) PROVE Undisturbed(k)
  BY <1>7 DEF JailedProcessKilled, FC!KilledByContext
<1>8. CASE BackoffExpires \/ (\E x \in Ctx : Cancel(x)) \/ UNCHANGED vars
  BY <1>8 DEF BackoffExpires, Cancel, vars
<1>9. CASE Close
  BY <1>3, <1>9 DEF Close
<1> QED
  BY <1>1, <1>2, <1>4, <1>5, <1>6, <1>7, <1>8, <1>9 DEF Next

(* Nothing the pool does in the background touches the process, the memory *)
(* or the directory of a slot that has become a live fork; only its        *)
(* release does, and the context of a jailed one.                          *)
THEOREM ForksLeftAlone == Spec => KeptUndisturbed
<1>1. IndInv /\ [Next]_vars =>
        [\A s \in Slot : slot[s] = "kept" /\ slot'[s] = "kept" => Undisturbed(s)]_vars
  BY KeptStep DEF IndInv
<1> QED BY <1>1, IndInvHolds, PTL DEF Spec, KeptUndisturbed
=============================================================================
