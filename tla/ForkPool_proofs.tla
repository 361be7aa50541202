--------------------------- MODULE ForkPool_proofs ---------------------------
(***************************************************************************)
(* Proofs about ForkPool, for every number of slots, forks and requests.   *)
(* A Pool drives its warm pool through the actions of WarmPool, so the     *)
(* invariant that module WarmPool_proofs proves is one conjunct of the     *)
(* Pool's; from it and an invariant of the Pool's own follow the safety    *)
(* properties and the refinement of ForkLifecycle.                         *)
(***************************************************************************)
EXTENDS ForkPool, TLAPS

WP == INSTANCE WarmPool_proofs WITH Caller <- Fork, Ctx <- Request \cup {BuildCtx}, CtxOf <- ReqOf

(***************************************************************************)
(* The invariant of the warm pool, in the Pool                             *)
(***************************************************************************)

(* W and WP instantiate the same module in the same way, so they define    *)
(* the same formulas, once every definition of either is expanded.         *)
LEMMA SameModule ==
  /\ W!Init <=> WP!Init
  /\ W!Next <=> WP!Next
  /\ W!IndInv <=> WP!IndInv
  /\ \A s \in Slot : W!Undisturbed(s) <=> WP!Undisturbed(s)
BY DEF
       W!poolVars, W!failVars, W!fcVars, W!callVars, W!vars, W!Refilling, W!Listed,
       W!SlotState, W!CallState, W!BuildState, W!CtxDone, W!Severed, W!Init, W!MoveSlot,
       W!SpawnError, W!SpawnStart, W!SpawnMkdirFails, W!SpawnExecFails, W!SpawnReady,
       W!SpawnGivesUp, W!BuildFails, W!BuildDone, W!PreloadBegin, W!PreloadSlot,
       W!PreloadSlotFails, W!CloseIdle, W!PreloadEnd, W!TakeSlot, W!TakeRefused, W!TakeDrained,
       W!Refill, W!DrainRefill, W!DrainSkip, W!BackoffExpires, W!RefillLooks,
       W!RefillFindsClosed, W!RefillLoads, W!RefillLoadFails, W!RefillPublishes,
       W!RefillDiscards, W!BecomesFork, W!OwnerResumes, W!OwnerLoads, W!OwnerLoadsAndResumes,
       W!OwnerFails, W!OwnerRefills, W!KeptReleased, W!Close, W!Cancel, W!JailedProcessKilled,
       W!SpawnStep, W!RefillStep, W!BuildStep, W!CallerStep, W!Next, W!TypeOK, W!SingleOwner,
       W!NoOrphan, W!InUse, W!LeftBehind, W!DirsAccountedFor, W!DrainRefills, W!Flight, W!Owners, W!ShrinkIsCounted, W!Undisturbed,
       W!BuildPhases, W!ListedIsIdle, W!Fresh, W!Ready, W!SlotProgress, W!IndInv, W!FC!Alive,
       W!FC!ProcState, W!FC!FcTypeOK, W!FC!FcInit, W!FC!Launch, W!FC!LaunchFails,
       W!FC!KillAndRemove, W!FC!KillWaitAndRemove, W!FC!KilledByContext, W!FC!LoadSnapshot,
       W!FC!LoadAndResume, W!FC!ResumeVm, W!Range, W!IsInjective, W!Bijection, W!Injection,
       W!Surjection, W!IsFiniteSet, W!Cardinality, WP!poolVars, WP!failVars, WP!fcVars,
       WP!callVars, WP!vars, WP!Refilling, WP!Listed, WP!SlotState, WP!CallState,
       WP!BuildState, WP!CtxDone, WP!Severed, WP!Init, WP!MoveSlot, WP!SpawnError,
       WP!SpawnStart, WP!SpawnMkdirFails, WP!SpawnExecFails, WP!SpawnReady, WP!SpawnGivesUp,
       WP!BuildFails, WP!BuildDone, WP!PreloadBegin, WP!PreloadSlot, WP!PreloadSlotFails,
       WP!CloseIdle, WP!PreloadEnd, WP!TakeSlot, WP!TakeRefused, WP!TakeDrained, WP!Refill,
       WP!DrainRefill, WP!DrainSkip, WP!BackoffExpires, WP!RefillLooks, WP!RefillFindsClosed,
       WP!RefillLoads, WP!RefillLoadFails, WP!RefillPublishes, WP!RefillDiscards,
       WP!BecomesFork, WP!OwnerResumes, WP!OwnerLoads, WP!OwnerLoadsAndResumes, WP!OwnerFails,
       WP!OwnerRefills, WP!KeptReleased, WP!Close, WP!Cancel, WP!JailedProcessKilled,
       WP!SpawnStep, WP!RefillStep, WP!BuildStep, WP!CallerStep, WP!Next, WP!TypeOK,
       WP!SingleOwner, WP!NoOrphan, WP!InUse, WP!LeftBehind, WP!DirsAccountedFor, WP!DrainRefills, WP!Flight, WP!Owners, WP!ShrinkIsCounted,
       WP!Undisturbed, WP!BuildPhases, WP!ListedIsIdle, WP!Fresh, WP!Ready, WP!SlotProgress,
       WP!IndInv, WP!FC!Alive, WP!FC!ProcState, WP!FC!FcTypeOK, WP!FC!FcInit, WP!FC!Launch,
       WP!FC!LaunchFails, WP!FC!KillAndRemove, WP!FC!KillWaitAndRemove, WP!FC!KilledByContext,
       WP!FC!LoadSnapshot, WP!FC!LoadAndResume, WP!FC!ResumeVm, WP!Range, WP!IsInjective,
       WP!Bijection, WP!Injection, WP!Surjection, WP!IsFiniteSet, WP!Cardinality, IsFiniteSet,
       Cardinality

(* What ForkPool assumes is what WarmPool assumes of its parameters.       *)
LEMMA Parameters ==
  /\ WP!SlotAssumption /\ WP!SnapAssumption /\ WP!CtxAssumption
  /\ WP!CallerAssumption /\ WP!JailedAssumption /\ WP!FaultsAssumption
BY WarmAssumption, ForkAssumption
   DEF WP!SlotAssumption, WP!SnapAssumption, WP!CtxAssumption, WP!CallerAssumption,
       WP!JailedAssumption, WP!FaultsAssumption, IsFiniteSet, WP!IsFiniteSet

LEMMA WarmInit == W!Init => W!IndInv
BY SameModule, Parameters, WP!InitIndInv

LEMMA WarmStepInv == W!IndInv /\ [W!Next]_(W!vars) => W!IndInv'
<1>1. WP!IndInv /\ [WP!Next]_(WP!vars) => WP!IndInv'
  BY Parameters, WP!StepIndInv
<1>2. W!IndInv <=> WP!IndInv
  BY SameModule
<1>3. [W!Next]_(W!vars) <=> [WP!Next]_(WP!vars)
  BY SameModule DEF W!vars, WP!vars
<1> QED BY <1>1, <1>2, <1>3, PTL

LEMMA WarmKept ==
  ASSUME W!IndInv, [W!Next]_(W!vars), NEW s \in Slot, slot[s] = "kept", slot'[s] = "kept"
  PROVE  W!Undisturbed(s)
<1>1. WP!IndInv /\ [WP!Next]_(WP!vars)
  BY SameModule DEF W!vars, WP!vars
<1>2. WP!Undisturbed(s)
  BY <1>1, Parameters, WP!KeptStep DEF WP!IndInv
<1> QED BY <1>2, SameModule

(***************************************************************************)
(* What the actions of the warm pool do to the slots its callers took      *)
(***************************************************************************)

(* The pool's goroutines, Close and the contexts leave every taken slot    *)
(* alone, and take none.                                                   *)
Quiet ==
  /\ UNCHANGED <<call, holds>>
  /\ \A s \in Slot : slot[s] \in {"taken", "kept", "gone"} => slot'[s] = slot[s]
  /\ \A s \in Slot : slot'[s] \in {"taken", "kept"} => slot'[s] = slot[s]
  /\ ~Jailed => \A s \in Slot : slot[s] = "kept" /\ proc[s] = "running" => proc'[s] = "running"

PoolStep ==
  \/ W!BuildStep
  \/ \E s \in Slot : W!SpawnStep(s) \/ W!RefillStep(s) \/ W!JailedProcessKilled(s)
  \/ W!BackoffExpires
  \/ W!Close
  \/ \E x \in Request \cup {BuildCtx} : W!Cancel(x)

LEMMA QuietSlots ==
  ASSUME W!IndInv, PoolStep
  PROVE  /\ UNCHANGED <<call, holds>>
         /\ \A s \in Slot : slot[s] \in {"taken", "kept", "gone"} => slot'[s] = slot[s]
         /\ \A s \in Slot : slot'[s] \in {"taken", "kept"} => slot'[s] = slot[s]
<1> DEFINE Goal == /\ UNCHANGED <<call, holds>>
                   /\ \A s \in Slot : slot[s] \in {"taken", "kept", "gone"} => slot'[s] = slot[s]
                   /\ \A s \in Slot : slot'[s] \in {"taken", "kept"} => slot'[s] = slot[s]
<1>a. /\ slot \in [Slot -> W!SlotState]
      /\ \A s \in W!Range(idle) : slot[s] \in W!Listed
  BY DEF W!IndInv, W!TypeOK, W!SingleOwner
<1>b. build = "spawning" => \A s \in Initial : slot[s] \in {"start", "poll", "spawned", "failed"}
  BY DEF W!IndInv, W!BuildPhases
<1> USE <1>a DEF W!callVars, W!MoveSlot
<1>0. ASSUME UNCHANGED <<slot, call, holds>> PROVE Goal
  BY <1>0
<1>1. ASSUME W!BuildStep PROVE Goal
  <2>1. CASE W!BuildFails \/ W!BuildDone
    BY <2>1, <1>b DEF W!BuildFails, W!BuildDone
  <2>2. CASE W!PreloadBegin
    BY <2>2 DEF W!PreloadBegin, W!Listed
  <2>3. CASE W!PreloadEnd
    BY <2>3 DEF W!PreloadEnd, W!CloseIdle, W!Listed
  <2>4. ASSUME NEW s \in Slot, W!PreloadSlot(s) \/ W!PreloadSlotFails(s) PROVE Goal
    BY <2>4 DEF W!PreloadSlot, W!PreloadSlotFails
  <2> QED BY <1>1, <2>1, <2>2, <2>3, <2>4 DEF W!BuildStep
<1>2. ASSUME NEW s \in Slot, W!SpawnStep(s) PROVE Goal
  BY <1>2 DEF W!SpawnStep, W!SpawnStart, W!SpawnMkdirFails, W!SpawnExecFails, W!SpawnReady,
              W!SpawnGivesUp, W!SpawnError
<1>3. ASSUME NEW s \in Slot, W!RefillStep(s) PROVE Goal
  BY <1>3 DEF W!RefillStep, W!RefillLooks, W!RefillFindsClosed, W!RefillLoads, W!RefillLoadFails,
              W!RefillPublishes, W!RefillDiscards
<1>4. ASSUME W!Close PROVE Goal
  BY <1>4 DEF W!Close, W!CloseIdle, W!Listed
<1>5. ASSUME \/ \E s \in Slot : W!JailedProcessKilled(s)
             \/ W!BackoffExpires
             \/ \E x \in Request \cup {BuildCtx} : W!Cancel(x)
      PROVE  Goal
  BY <1>5, <1>0 DEF W!JailedProcessKilled, W!BackoffExpires, W!Cancel
<1> QED BY <1>1, <1>2, <1>3, <1>4, <1>5 DEF PoolStep

LEMMA QuietStep ==
  ASSUME W!IndInv, PoolStep
  PROVE  Quiet
<1>1. W!Next
  BY DEF PoolStep, W!Next
<1>2. ASSUME ~Jailed, NEW s \in Slot, slot[s] = "kept", proc[s] = "running" PROVE proc'[s] = "running"
  BY <1>1, <1>2, QuietSlots, WarmKept DEF W!Undisturbed, W!Severed, W!FC!Alive
<1> QED BY <1>2, QuietSlots DEF Quiet

(* What a caller does to its own slot.                                     *)
LEMMA CallerMoves ==
  ASSUME W!IndInv, NEW f \in Fork
  PROVE
    /\ W!TakeSlot(f) =>
         /\ call[f] = "new" /\ call' = [call EXCEPT ![f] = "own"] /\ proc' = proc
         /\ \E s \in Slot : /\ slot[s] \in W!Listed /\ slot' = [slot EXCEPT ![s] = "taken"]
                            /\ holds' = [holds EXCEPT ![f] = s]
    /\ W!OwnerResumes(f) \/ (\E x \in Snap : W!OwnerLoadsAndResumes(f, x)) =>
         /\ call[f] = "own" /\ call' = [call EXCEPT ![f] = "owed"] /\ holds' = holds
         /\ slot' = [slot EXCEPT ![holds[f]] = "kept"] /\ proc' = [proc EXCEPT ![holds[f]] = "running"]
    /\ W!OwnerFails(f) =>
         /\ call[f] = "own" /\ call' = [call EXCEPT ![f] = "owed"] /\ holds' = holds
         /\ slot' = [slot EXCEPT ![holds[f]] = "gone"]
         /\ \A s \in Slot : s # holds[f] => proc'[s] = proc[s]
    /\ \A x \in Snap : W!OwnerLoads(f, x) =>
         /\ call[f] = "own" /\ UNCHANGED <<call, holds, slot>>
         /\ \A s \in Slot : s # holds[f] => proc'[s] = proc[s]
    /\ W!TakeDrained(f) =>
         call[f] = "new" /\ call' = [call EXCEPT ![f] = "drained"] /\ UNCHANGED <<holds, slot, proc>>
    /\ W!TakeRefused(f) =>
         call[f] = "new" /\ call' = [call EXCEPT ![f] = "refused"] /\ UNCHANGED <<holds, slot, proc>>
    /\ W!DrainSkip(f) =>
         call[f] = "drained" /\ call' = [call EXCEPT ![f] = "missed"] /\ UNCHANGED <<holds, slot, proc>>
    /\ W!DrainRefill(f) =>
         /\ call[f] = "drained" /\ call' = [call EXCEPT ![f] = "missed"] /\ UNCHANGED <<holds, proc>>
         /\ \E s \in Slot : slot[s] = "none" /\ slot' = [slot EXCEPT ![s] = "start"]
    /\ W!OwnerRefills(f) =>
         /\ call[f] = "owed" /\ call' = [call EXCEPT ![f] = "served"] /\ UNCHANGED <<holds, proc>>
         /\ \E s \in Slot : slot[s] = "none" /\ slot' = [slot EXCEPT ![s] = "start"]
<1>1. ASSUME W!TakeSlot(f)
      PROVE  \E s \in Slot : /\ slot[s] \in W!Listed /\ slot' = [slot EXCEPT ![s] = "taken"]
                             /\ holds' = [holds EXCEPT ![f] = s]
  <2> DEFINE s == idle[Len(idle)]
  <2>1. idle \in Seq(Slot) /\ idle # <<>>
    BY <1>1 DEF W!TakeSlot, W!IndInv, W!TypeOK
  <2>2. Len(idle) \in DOMAIN idle /\ s \in Slot
    BY <2>1
  <2>3. s \in W!Range(idle)
    BY <2>2 DEF W!Range
  <2>4. slot[s] \in W!Listed
    BY <2>3 DEF W!IndInv, W!SingleOwner
  <2> QED BY <1>1, <2>2, <2>4 DEF W!TakeSlot
<1>2. call[f] = "own" => holds[f] \in Slot
  BY DEF W!IndInv, W!SingleOwner
<1>3. proc \in [Slot -> W!FC!ProcState]
  BY DEF W!IndInv, W!TypeOK, W!FC!FcTypeOK
<1> QED
  BY <1>1, <1>2, <1>3
     DEF W!TakeSlot, W!OwnerResumes, W!OwnerLoadsAndResumes, W!OwnerFails, W!OwnerLoads, W!TakeDrained,
         W!TakeRefused, W!DrainSkip, W!DrainRefill, W!OwnerRefills, W!BecomesFork, W!Refill, W!MoveSlot,
         W!fcVars, W!callVars, W!FC!ResumeVm, W!FC!LoadAndResume, W!FC!LoadSnapshot, W!FC!KillAndRemove

(* Every step of the Pool is one of the warm pool, or none at all.         *)
LEMMA WarmMoves == [Next]_vars => [W!Next]_(W!vars)
<1> SUFFICES ASSUME [Next]_vars PROVE W!Next \/ UNCHANGED W!vars
  OBVIOUS
<1>0. ASSUME UNCHANGED warmVars PROVE UNCHANGED W!vars
  BY <1>0 DEF warmVars, W!vars
<1>1. ASSUME NEW f \in Fork, ForkStep(f) PROVE W!Next \/ UNCHANGED W!vars
  <2>1. CASE WarmStep(f) \/ WarmRefill(f) \/ WarmMiss(f)
    <3>1. Want[ReqOf[f]] \in Snap
      BY ForkAssumption
    <3>2. W!CallerStep(f)
      BY <2>1, <3>1 DEF WarmStep, WarmRefill, WarmMiss, W!CallerStep
    <3> QED BY <3>2 DEF W!Next
  <2>2. CASE ~(WarmStep(f) \/ WarmRefill(f) \/ WarmMiss(f))
    <3>1. UNCHANGED warmVars
      BY <1>1, <2>2 DEF ForkStep, ForkOne, ColdStart, ColdStartFails, ColdLoad, ColdResume,
         ColdLoadAndResume, ColdLoadFails, ColdResumeFails, Publish
    <3> QED BY <3>1, <1>0
  <2> QED BY <2>1, <2>2
<1>2. ASSUME NEW i \in Id, TearDown(i) PROVE W!Next \/ UNCHANGED W!vars
  BY <1>2, <1>0 DEF TearDown, W!Next
<1>3. ASSUME ShutdownEnd PROVE W!Next \/ UNCHANGED W!vars
  BY <1>3, <1>0 DEF ShutdownEnd, W!Next
<1>4. ASSUME WarmBackground \/ Cancel PROVE W!Next
  BY <1>4 DEF WarmBackground, Cancel, W!Next
<1>5. ASSUME UNCHANGED warmVars PROVE W!Next \/ UNCHANGED W!vars
  BY <1>5, <1>0
<1>6. ASSUME \/ WithWarmPool \/ ShutdownBegin
             \/ \E r \in Request : ForkBegin(r) \/ ForkReturn(r)
             \/ \E f \in Fork : ColdProcessKilled(f)
             \/ \E i \in Id : Release(i)
      PROVE  UNCHANGED warmVars
  BY <1>6 DEF WithWarmPool, ShutdownBegin, ForkBegin, ForkReturn, ColdProcessKilled, Release
<1>7. ASSUME \E i \in Id : ReleaseTearsDown(i) \/ ShutdownTearsDown(i) PROVE \E i \in Id : TearDown(i)
  BY <1>7 DEF ReleaseTearsDown, ShutdownTearsDown
<1>8. ASSUME UNCHANGED vars PROVE UNCHANGED warmVars
  BY <1>8 DEF vars
<1> QED BY <1>1, <1>2, <1>3, <1>4, <1>5, <1>6, <1>7, <1>8 DEF Next, ShutdownStep

(***************************************************************************)
(* The steps of the Pool, by what they do to its forks                     *)
(***************************************************************************)

(* Steps that move no fork: the maps may pass entries among themselves.    *)
Still ==
  /\ Quiet
  /\ UNCHANGED <<pc, torn, coldVars>>
  /\ Known' = Known
  /\ done \subseteq done'

StillStep ==
  \/ WithWarmPool \/ WarmBackground \/ Cancel \/ ShutdownBegin \/ ShutdownEnd
  \/ \E r \in Request : ForkBegin(r) \/ ForkReturn(r)
  \/ \E i \in Id : Release(i)
  \/ UNCHANGED vars

ColdStep(f) ==
  \/ ColdStart(f) \/ ColdStartFails(f) \/ ColdLoad(f) \/ ColdResume(f)
  \/ ColdLoadAndResume(f) \/ ColdLoadFails(f) \/ ColdResumeFails(f)

TearsDown(i) == ReleaseTearsDown(i) \/ ShutdownTearsDown(i)

LEMMA Cases ==
  ASSUME [Next]_vars
  PROVE  \/ StillStep
         \/ \E f \in Fork : \/ ForkOne(f) \/ WarmStep(f) \/ WarmRefill(f) \/ WarmMiss(f)
                            \/ ColdStep(f) \/ Publish(f) \/ ColdProcessKilled(f)
         \/ \E i \in Id : TearsDown(i)
BY DEF Next, ForkStep, ShutdownStep, StillStep, ColdStep, TearsDown

LEMMA DoneGrows == [Next]_vars => done \subseteq done'
<1> SUFFICES ASSUME [Next]_vars PROVE done \subseteq done'
  OBVIOUS
<1>1. ASSUME NEW s \in Slot, W!SpawnStep(s) \/ W!RefillStep(s) \/ W!KeptReleased(s) \/ W!JailedProcessKilled(s)
      PROVE  done' = done
  BY <1>1 DEF W!SpawnStep, W!SpawnStart, W!SpawnMkdirFails, W!SpawnExecFails, W!SpawnReady, W!SpawnGivesUp,
              W!RefillStep, W!RefillLooks, W!RefillFindsClosed, W!RefillLoads, W!RefillLoadFails,
              W!RefillPublishes, W!RefillDiscards, W!KeptReleased, W!JailedProcessKilled
<1>2. ASSUME W!BuildStep \/ W!BackoffExpires \/ W!Close PROVE done' = done
  BY <1>2 DEF W!BuildStep, W!BuildFails, W!BuildDone, W!PreloadBegin, W!PreloadEnd, W!PreloadSlot,
              W!PreloadSlotFails, W!BackoffExpires, W!Close
<1>3. ASSUME NEW f \in Fork, W!CallerStep(f) PROVE done' = done
  BY <1>3 DEF W!CallerStep, W!TakeSlot, W!TakeRefused, W!TakeDrained, W!DrainRefill, W!DrainSkip,
              W!OwnerResumes, W!OwnerFails, W!OwnerRefills, W!OwnerLoads, W!OwnerLoadsAndResumes
<1>4. ASSUME NEW x \in Request \cup {BuildCtx}, W!Cancel(x) PROVE done \subseteq done'
  BY <1>4 DEF W!Cancel
<1>5. ASSUME UNCHANGED W!vars PROVE done' = done
  BY <1>5 DEF W!vars
<1> QED BY <1>1, <1>2, <1>3, <1>4, <1>5, WarmMoves DEF W!Next

LEMMA StillSteps ==
  ASSUME IndInv, StillStep
  PROVE  Still
<1> USE DEF IndInv
<1>1. done \subseteq done'
  BY DoneGrows DEF StillStep, Next, ShutdownStep
<1>2. ASSUME UNCHANGED warmVars PROVE Quiet
  BY <1>2 DEF Quiet, warmVars
<1>3. CASE WithWarmPool \/ (\E r \in Request : ForkBegin(r) \/ ForkReturn(r)) \/ UNCHANGED vars
  BY <1>1, <1>2, <1>3 DEF Still, WithWarmPool, ForkBegin, ForkReturn, vars, ownVars, liveVars, coldVars, Known
<1>4. CASE WarmBackground \/ Cancel
  <2>1. PoolStep
    BY <1>4 DEF PoolStep, WarmBackground, Cancel
  <2> QED BY <2>1, <1>1, <1>4, QuietStep DEF Still, WarmBackground, Cancel, ownVars, liveVars, coldVars, Known
<1>5. CASE ShutdownEnd
  <2>1. PoolStep \/ UNCHANGED warmVars
    BY <1>5 DEF PoolStep, ShutdownEnd
  <2> QED BY <2>1, <1>1, <1>2, <1>5, QuietStep DEF Still, ShutdownEnd, liveVars, coldVars, Known
<1>6. CASE ShutdownBegin
  BY <1>1, <1>2, <1>6 DEF Still, ShutdownBegin, coldVars, Known, MapsAgree
<1>7. CASE \E i \in Id : Release(i)
  BY <1>1, <1>2, <1>7 DEF Still, Release, coldVars, Known
<1> QED BY <1>3, <1>4, <1>5, <1>6, <1>7 DEF StillStep

(* A teardown: the fork leaves the maps, its process is gone.              *)
LEMMA Departures ==
  ASSUME IndInv, NEW i \in Id, TearsDown(i)
  PROVE  /\ i \in Known /\ Known' = Known \ {i} /\ torn' = torn \cup {i}
         /\ UNCHANGED <<pc, call, holds>>
         /\ i \in Slot => /\ slot' = [slot EXCEPT ![i] = "gone"]
                          /\ \A s \in Slot : s # i => proc'[s] = proc[s]
                          /\ UNCHANGED coldVars
         /\ i \notin Slot => /\ i \in Fork /\ UNCHANGED <<slot, proc>>
                             /\ coldProc' = [coldProc EXCEPT ![i] = "reaped"]
                             /\ coldDir' = [coldDir EXCEPT ![i] = FALSE]
<1>1. /\ TearDown(i) /\ UNCHANGED pc
      /\ i \in Known /\ Known' = Known \ {i}
  BY DEF TearsDown, ReleaseTearsDown, ShutdownTearsDown, Known, IndInv, MapsAgree, TornDownOnce
<1>2. proc \in [Slot -> W!FC!ProcState]
  BY DEF IndInv, W!IndInv, W!TypeOK, W!FC!FcTypeOK
<1>3. CASE i \in Slot
  BY <1>1, <1>2, <1>3 DEF TearDown, W!KeptReleased, W!MoveSlot, W!FC!KillWaitAndRemove, W!callVars
<1>4. CASE i \notin Slot
  BY <1>1, <1>4 DEF TearDown, Cold!KillWaitAndRemove, warmVars, Id
<1> QED BY <1>1, <1>3, <1>4

(* The key of a goroutine's fork does not change once the warm pool has    *)
(* answered, and no two goroutines have the same.                          *)
LEMMA IdsDiffer ==
  ASSUME IndInv, NEW f \in Fork, NEW g \in Fork, f # g
  PROVE  IdOf(f) # IdOf(g)
BY ForkAssumption DEF IndInv, SlotIsOwn, HasSlot, IdOf

LEMMA IdsTyped ==
  ASSUME IndInv, NEW f \in Fork
  PROVE  /\ IdOf(f) \in Id
         /\ IdOf(f) \in Slot <=> call[f] = "served"
BY ForkAssumption DEF IndInv, SlotIsOwn, HasSlot, IdOf, Id

(***************************************************************************)
(* The inductive invariant                                                 *)
(***************************************************************************)
LEMMA CallStep == IndInv /\ [Next]_vars => CallProgress'
<1> SUFFICES ASSUME IndInv, [Next]_vars PROVE CallProgress'
  OBVIOUS
<1>a. /\ pc \in [Fork -> ForkState] /\ call \in [Fork -> W!CallState]
      /\ CallProgress /\ W!IndInv
  BY DEF IndInv, TypeOK, W!TypeOK
<1> USE <1>a DEF CallProgress
<1>1. CASE StillStep
  BY <1>1, StillSteps DEF Still, Quiet
<1>2. ASSUME NEW f \in Fork, ForkOne(f) \/ ColdStep(f) \/ Publish(f) \/ ColdProcessKilled(f)
      PROVE  CallProgress'
  BY <1>2 DEF ForkOne, ColdStep, ColdStart, ColdStartFails, ColdLoad, ColdResume, ColdLoadAndResume,
              ColdLoadFails, ColdResumeFails, Publish, ColdProcessKilled, Go, warmVars
<1>3. ASSUME NEW f \in Fork, WarmStep(f) PROVE CallProgress'
  <2>1. Want[ReqOf[f]] \in Snap
    BY ForkAssumption
  <2>2. /\ pc[f] = "warm" /\ pc' = pc
        /\ \E to \in {"own", "owed", "drained"} : call' = [call EXCEPT ![f] = to] \/ call' = call
    BY <1>3, <2>1, CallerMoves DEF WarmStep, ownVars
  <2> QED BY <2>2
<1>4. ASSUME NEW f \in Fork, WarmRefill(f) PROVE CallProgress'
  BY <1>4, CallerMoves DEF WarmRefill, Go
<1>5. ASSUME NEW f \in Fork, WarmMiss(f) PROVE CallProgress'
  BY <1>5, CallerMoves DEF WarmMiss, Go
<1>6. ASSUME NEW i \in Id, TearsDown(i) PROVE CallProgress'
  BY <1>6, Departures
<1> QED BY <1>1, <1>2, <1>3, <1>4, <1>5, <1>6, Cases

(* Cold forks have processes of their own type.                            *)
LEMMA ColdTypes ==
  ASSUME Cold!FcTypeOK, NEW f \in Fork
  PROVE  /\ Cold!Launch(f) => Cold!FcTypeOK'
         /\ Cold!KillAndRemove({f}) => Cold!FcTypeOK'
         /\ Cold!KillWaitAndRemove(f) => Cold!FcTypeOK'
         /\ Cold!KilledByContext(f) => Cold!FcTypeOK'
         /\ Cold!ResumeVm(f) => Cold!FcTypeOK'
         /\ \A x \in Snap : Cold!LoadSnapshot(f, x) \/ Cold!LoadAndResume(f, x) => Cold!FcTypeOK'
BY DEF Cold!FcTypeOK, Cold!ProcState, Cold!Alive, Cold!Launch, Cold!KillAndRemove,
       Cold!KillWaitAndRemove, Cold!KilledByContext, Cold!ResumeVm, Cold!LoadSnapshot, Cold!LoadAndResume

LEMMA TypeStep == IndInv /\ [Next]_vars => TypeOK'
<1> SUFFICES ASSUME IndInv, [Next]_vars PROVE TypeOK'
  OBVIOUS
<1>a. TypeOK
  BY DEF IndInv
<1>b. W!TypeOK'
  <2>1. W!IndInv'
    BY WarmStepInv, WarmMoves DEF IndInv
  <2> QED BY <2>1 DEF W!IndInv
<1> DEFINE Rest == /\ pool' \in {"none", "unset", "attached", "detached"}
                   /\ live' \in SUBSET Id /\ doomed' \in SUBSET Id
                   /\ victims' \in SUBSET Id /\ torn' \in SUBSET Id
                   /\ stop' \in {"no", "tearing", "done"}
                   /\ pc' \in [Fork -> ForkState]
                   /\ req' \in [Request -> {"new", "running", "ok", "error"}]
                   /\ Cold!FcTypeOK'
<1>c. Rest => TypeOK'
  BY <1>b DEF TypeOK
<1>d. UNCHANGED coldVars => Cold!FcTypeOK'
  BY <1>a DEF TypeOK, coldVars, Cold!FcTypeOK
<1> HIDE DEF Rest
<1>1. CASE StillStep
  <2>1. UNCHANGED coldVars /\ UNCHANGED pc
    BY <1>1, StillSteps DEF Still
  <2> QED BY <2>1, <1>a, <1>1, <1>c, <1>d
     DEF Rest, StillStep, TypeOK, WithWarmPool, WarmBackground, Cancel, ShutdownBegin, ShutdownEnd, ForkBegin,
         ForkReturn, Release, vars, ownVars, liveVars
<1>2. ASSUME NEW f \in Fork, ForkOne(f) \/ WarmStep(f) \/ WarmRefill(f) \/ WarmMiss(f) \/ Publish(f)
      PROVE  Rest
  BY <1>a, <1>d, <1>2, IdsTyped
     DEF Rest, TypeOK, ForkState, ForkOne, WarmStep, WarmRefill, WarmMiss, Publish, Go, ownVars, liveVars
<1>3. ASSUME NEW f \in Fork, ColdStep(f) \/ ColdProcessKilled(f) PROVE Rest
  <2>1. Cold!FcTypeOK'
    <3>1. Want[ReqOf[f]] \in Snap
      BY ForkAssumption
    <3>2. Cold!FcTypeOK
      BY <1>a DEF TypeOK
    <3>3. CASE ColdLoadFails(f)
      BY <3>2, <3>3, ColdTypes DEF ColdLoadFails, Cold!FcTypeOK
    <3> QED BY <1>3, <1>d, <3>1, <3>2, <3>3, ColdTypes
       DEF ColdStep, ColdStart, ColdStartFails, ColdLoad, ColdResume, ColdLoadAndResume,
           ColdResumeFails, ColdProcessKilled
  <2> QED BY <1>a, <1>3, <2>1
     DEF Rest, TypeOK, ForkState, ColdStep, ColdStart, ColdStartFails, ColdLoad, ColdResume, ColdLoadAndResume,
         ColdLoadFails, ColdResumeFails, ColdProcessKilled, Go, liveVars
<1>4. ASSUME NEW i \in Id, TearsDown(i) PROVE Rest
  <2>1. Cold!FcTypeOK'
    BY <1>a, <1>4, <1>d, ColdTypes DEF TypeOK, Id, TearsDown, ReleaseTearsDown, ShutdownTearsDown, TearDown
  <2> QED BY <1>a, <1>4, <2>1 DEF Rest, TypeOK, TearsDown, ReleaseTearsDown, ShutdownTearsDown, TearDown
<1> QED BY <1>1, <1>2, <1>3, <1>4, <1>c, Cases

(* What the warm path of forkOne moves is its own.                         *)
LEMMA WarmForkMoves ==
  ASSUME IndInv, NEW f \in Fork, WarmStep(f) \/ WarmRefill(f) \/ WarmMiss(f)
  PROVE  /\ UNCHANGED liveVars
         /\ pc[f] = "warm" /\ pc'[f] # "done"
         /\ \A g \in Fork : g # f => call'[g] = call[g] /\ holds'[g] = holds[g] /\ pc'[g] = pc[g]
         /\ \A s \in Slot : slot[s] = "kept" => slot'[s] = "kept"
<1>1. /\ call \in [Fork -> W!CallState] /\ pc \in [Fork -> ForkState]
      /\ holds \in [Fork -> Slot \cup {NoSlot}] /\ slot \in [Slot -> W!SlotState]
      /\ CallProgress /\ W!IndInv
  BY DEF IndInv, TypeOK, W!TypeOK
<1>2. call[f] = "own" => holds[f] \in Slot /\ slot[holds[f]] = "taken"
  BY <1>1 DEF W!IndInv, W!SingleOwner
<1>3. Want[ReqOf[f]] \in Snap
  BY ForkAssumption
<1>4. CASE WarmStep(f)
  BY <1>1, <1>2, <1>3, <1>4, CallerMoves DEF WarmStep, ownVars, W!Listed
<1>5. CASE WarmRefill(f) \/ WarmMiss(f)
  BY <1>1, <1>5, CallerMoves DEF WarmRefill, WarmMiss, Go
<1> QED BY <1>4, <1>5

LEMMA MapsStep == IndInv /\ [Next]_vars => MapsAgree'
<1> SUFFICES ASSUME IndInv, [Next]_vars PROVE MapsAgree'
  OBVIOUS
<1>a. MapsAgree /\ TypeOK /\ slot \in [Slot -> W!SlotState]
  BY DEF IndInv, TypeOK, W!TypeOK
<1> DEFINE Apart == TornDownOnce' /\ (stop' = "no" => victims' = {})
           Mapped == /\ \A i \in Known' \cup torn' : \E f \in Fork : pc'[f] = "done" /\ IdOf(f)' = i
                     /\ \A f \in Fork : pc'[f] = "done" => IdOf(f)' \in Known' \cup torn'
                     /\ \A i \in Known' \cap Slot : slot'[i] = "kept"
<1>b. Apart /\ Mapped => MapsAgree'
  BY DEF MapsAgree
<1>c. ASSUME UNCHANGED <<call, holds>> PROVE \A f \in Fork : IdOf(f)' = IdOf(f)
  BY <1>c DEF IdOf
<1> HIDE DEF Apart, Mapped
<1>1. Apart
  <2>1. ASSUME NEW f \in Fork, Publish(f) PROVE Apart
    <3>1. IdOf(f) \notin Known \cup torn
      BY <2>1, <1>a, IdsDiffer DEF MapsAgree, Publish, Go
    <3> QED BY <2>1, <3>1, <1>a DEF Apart, Publish, MapsAgree, TornDownOnce, Known
  <2>2. CASE UNCHANGED <<liveVars, stop>>
    BY <2>2, <1>a DEF Apart, liveVars, MapsAgree, TornDownOnce
  <2>3. ASSUME NEW i \in Id, Release(i) \/ TearsDown(i) PROVE Apart
    BY <2>3, <1>a DEF Apart, MapsAgree, TornDownOnce, Release, TearsDown, ReleaseTearsDown,
                      ShutdownTearsDown, TearDown
  <2>4. CASE ShutdownBegin \/ ShutdownEnd
    BY <2>4, <1>a DEF Apart, MapsAgree, TornDownOnce, ShutdownBegin, ShutdownEnd, liveVars
  <2>5. ASSUME NEW f \in Fork, \/ ForkOne(f) \/ WarmStep(f) \/ WarmRefill(f) \/ WarmMiss(f)
                               \/ ColdStep(f) \/ ColdProcessKilled(f)
        PROVE  UNCHANGED <<liveVars, stop>>
    BY <2>5 DEF ForkOne, WarmStep, WarmRefill, WarmMiss, ColdStep, ColdStart, ColdStartFails, ColdLoad,
                ColdResume, ColdLoadAndResume, ColdLoadFails, ColdResumeFails, ColdProcessKilled, ownVars
  <2>6. CASE \/ WithWarmPool \/ WarmBackground \/ Cancel \/ (\E r \in Request : ForkBegin(r) \/ ForkReturn(r))
             \/ UNCHANGED vars
    BY <2>6, <2>2 DEF WithWarmPool, WarmBackground, Cancel, ForkBegin, ForkReturn, vars, ownVars
  <2> QED BY <2>1, <2>2, <2>3, <2>4, <2>5, <2>6, Cases DEF StillStep
<1>2. CASE StillStep
  <2>1. Still
    BY <1>2, StillSteps
  <2>2. Mapped
    BY <1>a, <1>c, <2>1 DEF Mapped, MapsAgree, Still, Quiet, Known
  <2> QED BY <2>2, <1>1, <1>b
<1>3. ASSUME NEW f \in Fork, ForkOne(f) \/ ColdStep(f) \/ ColdProcessKilled(f) PROVE Mapped
  <2>1. /\ UNCHANGED <<warmVars, liveVars>>
        /\ \A g \in Fork : pc'[g] = "done" <=> pc[g] = "done"
    BY <1>a, <1>3 DEF ForkOne, ColdStep, ColdStart, ColdStartFails, ColdLoad, ColdResume, ColdLoadAndResume,
       ColdLoadFails, ColdResumeFails, ColdProcessKilled, Go, TypeOK
  <2> QED BY <2>1, <1>a, <1>c DEF Mapped, MapsAgree, warmVars, liveVars, Known
<1>4. ASSUME NEW f \in Fork, WarmStep(f) \/ WarmRefill(f) \/ WarmMiss(f) PROVE Mapped
  <2>1. \A g \in Fork : pc[g] = "done" => IdOf(g)' = IdOf(g)
    BY <1>4, WarmForkMoves DEF IdOf
  <2> QED BY <2>1, <1>a, <1>4, WarmForkMoves DEF Mapped, MapsAgree, liveVars, Known
<1>5. ASSUME NEW f \in Fork, Publish(f) PROVE Mapped
  <2>1. /\ UNCHANGED warmVars /\ Known' = Known \cup {IdOf(f)} /\ torn' = torn
        /\ pc[f] = "publish" /\ pc' = [pc EXCEPT ![f] = "done"]
    BY <1>5 DEF Publish, Go, Known
  <2>2. IdOf(f) \in Slot => slot[IdOf(f)] = "kept"
    BY <2>1, IdsTyped DEF IndInv, SlotIsOwn, IdOf
  <2> QED BY <2>1, <2>2, <1>a, <1>c DEF Mapped, MapsAgree, TypeOK, warmVars
<1>6. ASSUME NEW i \in Id, TearsDown(i) PROVE Mapped
  BY <1>6, <1>a, <1>c, Departures DEF Mapped, MapsAgree
<1> QED BY <1>1, <1>2, <1>3, <1>4, <1>5, <1>6, <1>b, Cases

LEMMA SlotStep == IndInv /\ [Next]_vars => SlotIsOwn'
<1> SUFFICES ASSUME IndInv, [Next]_vars PROVE SlotIsOwn'
  OBVIOUS
<1>a. /\ slot \in [Slot -> W!SlotState] /\ call \in [Fork -> W!CallState]
      /\ holds \in [Fork -> Slot \cup {NoSlot}] /\ proc \in [Slot -> W!FC!ProcState]
      /\ pc \in [Fork -> ForkState]
      /\ SlotIsOwn /\ MapsAgree /\ CallProgress /\ W!IndInv
  BY DEF IndInv, TypeOK, W!TypeOK, W!FC!FcTypeOK
<1>1. CASE StillStep
  BY <1>1, <1>a, StillSteps DEF Still, Quiet, SlotIsOwn, HasSlot
<1>2. ASSUME NEW f \in Fork, ForkOne(f) \/ ColdStep(f) \/ ColdProcessKilled(f) PROVE SlotIsOwn'
  <2>1. /\ UNCHANGED <<slot, call, holds, proc>> /\ Known' = Known
        /\ \A g \in Fork : g # f => pc'[g] = pc[g]
        /\ pc[f] = "publish" => pc'[f] = "publish"
        /\ ~HasSlot(f) \/ pc' = pc
    BY <1>a, <1>2 DEF ForkOne, ColdStep, ColdStart, ColdStartFails, ColdLoad, ColdResume, ColdLoadAndResume,
       ColdLoadFails, ColdResumeFails, ColdProcessKilled, Go, warmVars, liveVars, Known, CallProgress, HasSlot
  <2> QED BY <2>1, <1>a DEF SlotIsOwn, HasSlot
<1>3. ASSUME NEW f \in Fork, WarmStep(f) PROVE SlotIsOwn'
  <2>1. Want[ReqOf[f]] \in Snap
    BY ForkAssumption
  <2>2. Known' = Known /\ pc[f] = "warm" /\ pc' = pc
    BY <1>3 DEF WarmStep, ownVars, liveVars, Known
  <2>3. call[f] = "own" => holds[f] \in Slot /\ slot[holds[f]] = "taken"
    BY <1>a DEF W!IndInv, W!SingleOwner
  <2>4. CASE W!TakeSlot(f)
    BY <2>2, <2>4, <1>a, CallerMoves DEF SlotIsOwn, HasSlot, W!Listed
  <2>5. CASE W!TakeDrained(f)
    BY <2>2, <2>5, <1>a, CallerMoves DEF SlotIsOwn, HasSlot
  <2>6. CASE W!OwnerResumes(f) \/ W!OwnerLoadsAndResumes(f, Want[ReqOf[f]])
    BY <2>1, <2>2, <2>3, <2>6, <1>a, CallerMoves DEF SlotIsOwn, HasSlot
  <2>7. CASE W!OwnerFails(f)
    BY <2>2, <2>3, <2>7, <1>a, CallerMoves DEF SlotIsOwn, HasSlot
  <2>8. CASE W!OwnerLoads(f, Want[ReqOf[f]])
    BY <2>1, <2>2, <2>3, <2>8, <1>a, CallerMoves DEF SlotIsOwn, HasSlot
  <2> QED BY <1>3, <2>4, <2>5, <2>6, <2>7, <2>8 DEF WarmStep
<1>4. ASSUME NEW f \in Fork, WarmRefill(f) PROVE SlotIsOwn'
  BY <1>4, <1>a, CallerMoves DEF WarmRefill, Go, SlotIsOwn, HasSlot, liveVars, Known
<1>5. ASSUME NEW f \in Fork, WarmMiss(f) PROVE SlotIsOwn'
  BY <1>5, <1>a, CallerMoves DEF WarmMiss, Go, SlotIsOwn, HasSlot, liveVars, Known
<1>6. ASSUME NEW f \in Fork, Publish(f) PROVE SlotIsOwn'
  BY <1>6, <1>a DEF Publish, Go, SlotIsOwn, HasSlot, IdOf, Known, warmVars, CallProgress
<1>7. ASSUME NEW i \in Id, TearsDown(i) PROVE SlotIsOwn'
  <2>1. \A f \in Fork : pc[f] = "publish" => IdOf(f) # i
    BY <1>7, <1>a, Departures, IdsDiffer DEF MapsAgree
  <2> QED BY <2>1, <1>7, <1>a, Departures DEF SlotIsOwn, HasSlot, IdOf
<1> QED BY <1>1, <1>2, <1>3, <1>4, <1>5, <1>6, <1>7, Cases

LEMMA ColdGoes == IndInv /\ [Next]_vars => ColdProgress'
<1> SUFFICES ASSUME IndInv, [Next]_vars PROVE ColdProgress'
  OBVIOUS
<1>a. /\ call \in [Fork -> W!CallState] /\ pc \in [Fork -> ForkState]
      /\ coldProc \in [Fork -> Cold!ProcState]
      /\ ColdProgress /\ MapsAgree /\ CallProgress /\ done \subseteq done'
  BY DoneGrows DEF IndInv, TypeOK, W!TypeOK, Cold!FcTypeOK
<1>b. \A f \in Fork : f \in Known \cup torn => pc[f] = "done" /\ call[f] # "served"
  BY <1>a, IdsTyped, ForkAssumption DEF MapsAgree, IdOf
<1>1. CASE StillStep
  BY <1>1, <1>a, StillSteps DEF Still, Quiet, ColdProgress, coldVars
<1>2. ASSUME NEW f \in Fork, ForkOne(f) \/ Publish(f) PROVE ColdProgress'
  BY <1>2, <1>a, <1>b DEF ForkOne, Publish, Go, ColdProgress, warmVars, liveVars, coldVars, CallProgress
<1>3. ASSUME NEW f \in Fork, WarmStep(f) \/ WarmRefill(f) \/ WarmMiss(f) PROVE ColdProgress'
  <2>1. UNCHANGED <<coldVars, torn>>
    BY <1>3 DEF WarmStep, WarmRefill, WarmMiss, ownVars, liveVars
  <2>2. \A g \in Fork : g # f => call'[g] = call[g] /\ pc'[g] = pc[g]
    BY <1>3, <1>a, WarmForkMoves
  <2>3. coldProc[f] = "none" /\ f \notin torn
    BY <1>3, <1>a, <1>b, WarmForkMoves DEF ColdProgress
  <2>4. /\ pc'[f] \in {"warm", "publish", "failed", "cold"}
        /\ pc'[f] = "publish" => call'[f] = "served"
    <3>1. CASE WarmStep(f)
      BY <3>1, <1>3, WarmForkMoves DEF WarmStep, ownVars
    <3>2. CASE WarmRefill(f)
      BY <3>2, <1>a, CallerMoves DEF WarmRefill, Go, IndInv
    <3>3. CASE WarmMiss(f)
      BY <3>3, <1>a DEF WarmMiss, Go
    <3> QED BY <1>3, <3>1, <3>2, <3>3
  <2> QED BY <2>1, <2>2, <2>3, <2>4, <1>a DEF ColdProgress, coldVars, Cold!Alive
<1>4. ASSUME NEW f \in Fork, ColdStep(f) PROVE ColdProgress'
  <2>1. UNCHANGED <<call, torn, done>> /\ f \notin torn /\ call[f] # "served"
    BY <1>4, <1>a, <1>b DEF ColdStep, ColdStart, ColdStartFails, ColdLoad, ColdResume, ColdLoadAndResume,
       ColdLoadFails, ColdResumeFails, Go, warmVars, liveVars, CallProgress
  <2>2. CASE ColdStart(f) \/ ColdLoad(f) \/ ColdResume(f) \/ ColdLoadAndResume(f)
    BY <2>1, <2>2, <1>a DEF ColdStart, ColdLoad, ColdResume, ColdLoadAndResume, Go, ColdProgress, Cold!Launch,
       Cold!LoadSnapshot, Cold!ResumeVm, Cold!LoadAndResume
  <2>3. CASE ColdStartFails(f)
    BY <2>1, <2>3, <1>a DEF ColdStartFails, Go, ColdProgress, coldVars, Cold!Alive
  <2>4. CASE ColdLoadFails(f) \/ ColdResumeFails(f)
    BY <2>1, <2>4, <1>a DEF ColdLoadFails, ColdResumeFails, Go, ColdProgress, Cold!KillAndRemove,
       Cold!KillWaitAndRemove, Cold!Alive, Cold!ProcState
  <2> QED BY <1>4, <2>2, <2>3, <2>4 DEF ColdStep
<1>5. ASSUME NEW f \in Fork, ColdProcessKilled(f) PROVE ColdProgress'
  BY <1>5, <1>a DEF ColdProcessKilled, Cold!KilledByContext, ColdProgress, Cold!Alive, warmVars, liveVars
<1>6. ASSUME NEW i \in Id, TearsDown(i) PROVE ColdProgress'
  <2>1. CASE i \in Slot
    BY <2>1, <1>6, <1>a, Departures, ForkAssumption DEF ColdProgress, coldVars
  <2>2. CASE i \notin Slot
    BY <2>2, <1>6, <1>a, <1>b, Departures DEF ColdProgress, Cold!Alive
  <2> QED BY <2>1, <2>2
<1> QED BY <1>1, <1>2, <1>3, <1>4, <1>5, <1>6, Cases

LEMMA ColdDirStep == IndInv /\ [Next]_vars => ColdDirs'
<1> SUFFICES ASSUME IndInv, [Next]_vars PROVE ColdDirs'
  OBVIOUS
<1>a. /\ call \in [Fork -> W!CallState] /\ pc \in [Fork -> ForkState]
      /\ coldDir \in [Fork -> BOOLEAN]
      /\ ColdDirs /\ MapsAgree /\ CallProgress
  BY DEF IndInv, TypeOK, W!TypeOK, Cold!FcTypeOK
<1>b. \A f \in Fork : f \in Known \cup torn => pc[f] = "done" /\ call[f] # "served"
  BY <1>a, IdsTyped, ForkAssumption DEF MapsAgree, IdOf
<1>1. CASE StillStep
  BY <1>1, <1>a, StillSteps DEF Still, Quiet, ColdDirs, coldVars
<1>2. ASSUME NEW f \in Fork, ForkOne(f) \/ ColdProcessKilled(f) PROVE ColdDirs'
  <2>1. /\ UNCHANGED <<call, coldDir>> /\ Known' = Known
        /\ \/ pc' = pc
           \/ pc[f] = "new" /\ \E to \in {"warm", "cold"} : pc' = [pc EXCEPT ![f] = to]
    BY <1>2 DEF ForkOne, ColdProcessKilled, Cold!KilledByContext, Go, warmVars, liveVars, coldVars, Known
  <2> QED BY <2>1, <1>a DEF ColdDirs
<1>3. ASSUME NEW f \in Fork, WarmStep(f) \/ WarmRefill(f) \/ WarmMiss(f) PROVE ColdDirs'
  <2>1. UNCHANGED coldVars /\ Known' = Known
    BY <1>3 DEF WarmStep, WarmRefill, WarmMiss, ownVars, liveVars, Known
  <2>2. \A g \in Fork : g # f => call'[g] = call[g] /\ pc'[g] = pc[g]
    BY <1>3, WarmForkMoves
  <2>3. pc[f] = "warm"
    BY <1>3, WarmForkMoves
  <2>4. /\ pc'[f] \in {"warm", "publish", "failed", "cold"}
        /\ pc'[f] = "publish" => call'[f] = "served"
    <3>1. CASE WarmStep(f)
      BY <3>1, <2>3 DEF WarmStep, ownVars
    <3>2. CASE WarmRefill(f)
      BY <3>2, <1>a, CallerMoves DEF WarmRefill, Go, IndInv
    <3>3. CASE WarmMiss(f)
      BY <3>3, <1>a DEF WarmMiss, Go
    <3> QED BY <1>3, <3>1, <3>2, <3>3
  <2> QED BY <2>1, <2>2, <2>3, <2>4, <1>a DEF ColdDirs, coldVars
<1>4. ASSUME NEW f \in Fork, ColdStep(f) PROVE ColdDirs'
  <2>1. UNCHANGED call /\ Known' = Known /\ f \notin Known /\ call[f] # "served"
    BY <1>4, <1>a, <1>b DEF ColdStep, ColdStart, ColdStartFails, ColdLoad, ColdResume, ColdLoadAndResume,
       ColdLoadFails, ColdResumeFails, Go, warmVars, liveVars, Known, CallProgress
  <2>2. CASE ColdStart(f) \/ ColdLoad(f) \/ ColdResume(f) \/ ColdLoadAndResume(f)
    BY <2>1, <2>2, <1>a DEF ColdStart, ColdLoad, ColdResume, ColdLoadAndResume, Go, ColdDirs, Cold!Launch,
       Cold!LoadSnapshot, Cold!ResumeVm, Cold!LoadAndResume
  <2>3. CASE ColdStartFails(f)
    BY <2>1, <2>3, <1>a DEF ColdStartFails, Go, ColdDirs, coldVars
  <2>4. CASE ColdLoadFails(f) \/ ColdResumeFails(f)
    <3>1. /\ ~coldDir'[f] /\ \A g \in Fork : g # f => coldDir'[g] = coldDir[g]
          /\ pc[f] \in {"booting", "loaded"} /\ pc' = [pc EXCEPT ![f] = "failed"]
      BY <2>4, <1>a DEF ColdLoadFails, ColdResumeFails, Go, Cold!KillAndRemove, Cold!KillWaitAndRemove
    <3> QED BY <3>1, <2>1, <1>a DEF ColdDirs
  <2> QED BY <1>4, <2>2, <2>3, <2>4 DEF ColdStep
<1>5. ASSUME NEW f \in Fork, Publish(f) PROVE ColdDirs'
  <2>1. /\ UNCHANGED <<call, coldDir>> /\ Known' = Known \cup {IdOf(f)}
        /\ pc[f] = "publish" /\ pc' = [pc EXCEPT ![f] = "done"]
    BY <1>5 DEF Publish, Go, Known, warmVars, coldVars
  <2>2. IdOf(f) \in Slot <=> call[f] = "served"
    BY IdsTyped
  <2>3. call[f] # "served" => IdOf(f) = f
    BY DEF IdOf
  <2> QED BY <2>1, <2>2, <2>3, <1>a, <1>b, ForkAssumption DEF ColdDirs
<1>6. ASSUME NEW i \in Id, TearsDown(i) PROVE ColdDirs'
  <2>1. CASE i \in Slot
    BY <2>1, <1>6, <1>a, Departures, ForkAssumption DEF ColdDirs, coldVars
  <2>2. CASE i \notin Slot
    BY <2>2, <1>6, <1>a, <1>b, Departures DEF ColdDirs
  <2> QED BY <2>1, <2>2
<1> QED BY <1>1, <1>2, <1>3, <1>4, <1>5, <1>6, Cases

(* A goroutine of forkOne moves while its Fork call waits for it, and      *)
(* changes nothing else of the Pool but the live map.                      *)
LEMMA ForkWaits ==
  ASSUME IndInv, NEW f \in Fork,
         ForkOne(f) \/ WarmStep(f) \/ WarmRefill(f) \/ WarmMiss(f) \/ ColdStep(f) \/ Publish(f)
  PROVE  /\ UNCHANGED <<req, pool, stop, doomed, victims>>
         /\ req[ReqOf[f]] = "running"
         /\ \A g \in Fork : g # f => pc'[g] = pc[g]
         /\ pc'[f] # "new"
         /\ Publish(f) \/ live' = live
<1>1. /\ pc \in [Fork -> ForkState] /\ req \in [Request -> {"new", "running", "ok", "error"}]
      /\ CallersWait
  BY DEF IndInv, TypeOK
<1>2. ReqOf[f] \in Request
  BY ForkAssumption
<1>3. pc[f] \notin {"new", "done", "failed"} => req[ReqOf[f]] = "running"
  BY <1>1, <1>2 DEF CallersWait, Ended
<1>4. CASE ForkOne(f) \/ Publish(f)
  BY <1>1, <1>3, <1>4 DEF ForkOne, Publish, Go, liveVars
<1>5. CASE WarmStep(f) \/ WarmRefill(f) \/ WarmMiss(f)
  <2>1. UNCHANGED <<req, pool, stop, liveVars>>
    BY <1>5 DEF WarmStep, WarmRefill, WarmMiss, ownVars
  <2>2. pc[f] = "warm" /\ pc'[f] # "new" /\ \A g \in Fork : g # f => pc'[g] = pc[g]
    BY <1>1, <1>5 DEF WarmStep, WarmRefill, WarmMiss, ownVars, Go
  <2> QED BY <2>1, <2>2, <1>3 DEF liveVars
<1>6. CASE ColdStep(f)
  BY <1>1, <1>3, <1>6 DEF ColdStep, ColdStart, ColdStartFails, ColdLoad, ColdResume, ColdLoadAndResume,
     ColdLoadFails, ColdResumeFails, Go, liveVars
<1> QED BY <1>4, <1>5, <1>6

LEMMA TakenStep ==
  ASSUME IndInv, [Next]_vars, NEW s \in Slot, slot'[s] = "taken"
  PROVE  \E f \in Fork : call'[f] = "own" /\ holds'[f] = s
<1>a. /\ slot \in [Slot -> W!SlotState] /\ call \in [Fork -> W!CallState]
      /\ holds \in [Fork -> Slot \cup {NoSlot}]
      /\ W!IndInv
  BY DEF IndInv, TypeOK, W!TypeOK
<1>b. slot[s] = "taken" => \E f \in Fork : call[f] = "own" /\ holds[f] = s
  BY DEF IndInv, CallersWait
<1>c. ASSUME slot[s] = "taken", UNCHANGED <<call, holds>>
      PROVE  \E f \in Fork : call'[f] = "own" /\ holds'[f] = s
  BY <1>b, <1>c
<1>1. CASE StillStep
  BY <1>1, <1>c, StillSteps DEF Still, Quiet
<1>2. ASSUME NEW f \in Fork, ForkOne(f) \/ ColdStep(f) \/ Publish(f) \/ ColdProcessKilled(f)
      PROVE  \E g \in Fork : call'[g] = "own" /\ holds'[g] = s
  <2>1. UNCHANGED <<slot, call, holds>>
    BY <1>2 DEF ForkOne, ColdStep, ColdStart, ColdStartFails, ColdLoad, ColdResume, ColdLoadAndResume,
       ColdLoadFails, ColdResumeFails, Publish, ColdProcessKilled, warmVars
  <2> QED BY <2>1, <1>c
<1>3. ASSUME NEW f \in Fork, WarmStep(f) PROVE \E g \in Fork : call'[g] = "own" /\ holds'[g] = s
  <2>1. Want[ReqOf[f]] \in Snap
    BY ForkAssumption
  <2>2. CASE W!TakeSlot(f)
    BY <2>2, <1>a, <1>b, CallerMoves
  <2>3. CASE W!OwnerResumes(f) \/ W!OwnerLoadsAndResumes(f, Want[ReqOf[f]]) \/ W!OwnerFails(f)
    <3>1. call[f] = "own" /\ call' = [call EXCEPT ![f] = "owed"] /\ holds' = holds
      BY <2>1, <2>3, <1>a, CallerMoves
    <3>2. slot[s] = "taken" /\ holds[f] # s
      BY <2>1, <2>3, <1>a, CallerMoves
    <3> QED BY <3>1, <3>2, <1>a, <1>b
  <2>4. CASE W!TakeDrained(f) \/ W!OwnerLoads(f, Want[ReqOf[f]])
    BY <2>1, <2>4, <1>a, <1>b, CallerMoves
  <2> QED BY <1>3, <2>2, <2>3, <2>4 DEF WarmStep
<1>4. ASSUME NEW f \in Fork, WarmRefill(f) \/ WarmMiss(f) PROVE \E g \in Fork : call'[g] = "own" /\ holds'[g] = s
  BY <1>4, <1>a, <1>b, CallerMoves DEF WarmRefill, WarmMiss
<1>5. ASSUME NEW i \in Id, TearsDown(i) PROVE \E g \in Fork : call'[g] = "own" /\ holds'[g] = s
  BY <1>5, <1>a, <1>c, Departures
<1> QED BY <1>1, <1>2, <1>3, <1>4, <1>5, Cases

LEMMA CallersStep == IndInv /\ [Next]_vars => CallersWait'
<1> SUFFICES ASSUME IndInv, [Next]_vars PROVE CallersWait'
  OBVIOUS
<1>a. /\ pc \in [Fork -> ForkState] /\ req \in [Request -> {"new", "running", "ok", "error"}]
      /\ CallersWait
  BY DEF IndInv, TypeOK
<1>b. ReqOf \in [Fork -> Request]
  BY ForkAssumption
<1> DEFINE Waits == \A f \in Fork :
                      /\ req'[ReqOf[f]] = "new" => pc'[f] = "new"
                      /\ req'[ReqOf[f]] \in {"ok", "error"} => pc'[f] \in {"done", "failed"}
<1>c. ASSUME UNCHANGED <<pc, req>> PROVE Waits
  BY <1>a, <1>c DEF CallersWait, Ended
<1>1. ASSUME StillStep PROVE Waits
  <2>1. pc' = pc
    BY <1>1, StillSteps DEF Still
  <2>2. ASSUME NEW r \in Request, ForkBegin(r) \/ ForkReturn(r) PROVE Waits
    BY <2>1, <2>2, <1>a, <1>b DEF ForkBegin, ForkReturn, CallersWait, Ended
  <2>3. ASSUME ~\E r \in Request : ForkBegin(r) \/ ForkReturn(r) PROVE Waits
    <3>1. req' = req
      BY <1>1, <2>3 DEF StillStep, WithWarmPool, WarmBackground, Cancel, ShutdownBegin, ShutdownEnd, Release,
         vars, ownVars
    <3> QED BY <2>1, <3>1, <1>c
  <2> QED BY <2>2, <2>3
<1>2. ASSUME NEW f \in Fork,
             ForkOne(f) \/ WarmStep(f) \/ WarmRefill(f) \/ WarmMiss(f) \/ ColdStep(f) \/ Publish(f)
      PROVE  Waits
  <2>1. /\ req' = req /\ req[ReqOf[f]] = "running"
        /\ \A g \in Fork : g # f => pc'[g] = pc[g]
    BY <1>2, ForkWaits
  <2> QED BY <2>1, <1>a DEF CallersWait, Ended
<1>3. ASSUME NEW f \in Fork, ColdProcessKilled(f) PROVE Waits
  BY <1>3, <1>c DEF ColdProcessKilled
<1>4. ASSUME NEW i \in Id, TearsDown(i) PROVE Waits
  BY <1>4, <1>c DEF TearsDown, ReleaseTearsDown, ShutdownTearsDown
<1>5. Waits
  BY <1>1, <1>2, <1>3, <1>4, Cases
<1> QED BY <1>5, TakenStep DEF CallersWait, Ended

(* The construction of a warm pool is over once and for all, and so is a   *)
(* Close.                                                                  *)
LEMMA WarmStays ==
  ASSUME [W!Next]_(W!vars)
  PROVE  /\ build \in {"open", "failed"} => build' = build
         /\ closed => closed'
<1>1. CASE UNCHANGED W!vars
  BY <1>1 DEF W!vars
<1>2. CASE W!BuildStep
  BY <1>2 DEF W!BuildStep, W!BuildFails, W!BuildDone, W!PreloadBegin, W!PreloadEnd, W!PreloadSlot,
     W!PreloadSlotFails, W!CloseIdle, W!poolVars
<1>3. ASSUME NEW s \in Slot, W!SpawnStep(s) \/ W!RefillStep(s) \/ W!KeptReleased(s) \/ W!JailedProcessKilled(s)
      PROVE  UNCHANGED <<build, closed>>
  BY <1>3 DEF W!SpawnStep, W!SpawnStart, W!SpawnMkdirFails, W!SpawnExecFails, W!SpawnReady, W!SpawnGivesUp,
     W!RefillStep, W!RefillLooks, W!RefillFindsClosed, W!RefillLoads, W!RefillLoadFails,
     W!RefillPublishes, W!RefillDiscards, W!KeptReleased, W!JailedProcessKilled, W!poolVars
<1>4. ASSUME NEW f \in Fork, W!CallerStep(f) PROVE UNCHANGED <<build, closed>>
  BY <1>4 DEF W!CallerStep, W!TakeSlot, W!TakeRefused, W!TakeDrained, W!DrainRefill, W!DrainSkip,
     W!OwnerResumes, W!OwnerFails, W!OwnerRefills, W!OwnerLoads, W!OwnerLoadsAndResumes, W!poolVars
<1>5. CASE W!BackoffExpires \/ W!Close \/ \E x \in Request \cup {BuildCtx} : W!Cancel(x)
  BY <1>5 DEF W!BackoffExpires, W!Close, W!CloseIdle, W!Cancel, W!poolVars
<1> QED BY <1>1, <1>2, <1>3, <1>4, <1>5 DEF W!Next

(* NewWarmPool that fails, in its own loop or in Preload, leaves no slot.  *)
LEMMA FailedBuild ==
  ASSUME IndInv, [W!Next]_(W!vars), build' = "failed"
  PROVE  \A s \in Slot : slot'[s] \in {"none", "gone"}
<1>a. /\ slot \in [Slot -> W!SlotState] /\ W!IndInv /\ Initial \subseteq Slot
      /\ \A f \in Fork : call[f] \in W!CallState
  BY WarmAssumption DEF IndInv, TypeOK, W!TypeOK
<1>b. build # "open" /\ \A f \in Fork : call[f] = "new"
  BY <1>a, WarmStays DEF W!IndInv, W!BuildPhases
<1>c. \A s \in Slot : slot[s] \notin {"taken", "kept"}
  <2>1. \A s \in Slot : slot[s] # "taken"
    BY <1>b DEF IndInv, CallersWait
  <2>2. \A f \in Fork : IdOf(f) = f
    BY <1>b DEF IdOf
  <2>3. \A s \in Slot : slot[s] # "kept"
    BY <1>b, <2>2, ForkAssumption DEF IndInv, SlotIsOwn, MapsAgree, HasSlot
  <2> QED BY <2>1, <2>3
<1>1. CASE build = "failed"
  <2>1. \A s \in Slot : slot[s] \in {"none", "gone"}
    BY <1>1 DEF IndInv, PoolField
  <2>2. idle = <<>>
    <3>1. \A s \in W!Range(idle) : slot[s] \in W!Listed
      BY <1>a DEF W!IndInv, W!SingleOwner
    <3>2. idle \in Seq(Slot)
      BY <1>a DEF W!IndInv, W!TypeOK
    <3>3. ASSUME idle # <<>> PROVE FALSE
      <4>1. 1 \in DOMAIN idle /\ idle[1] \in Slot
        BY <3>2, <3>3
      <4>2. idle[1] \in W!Range(idle)
        BY <4>1 DEF W!Range
      <4> QED BY <2>1, <3>1, <4>1, <4>2 DEF W!Listed
    <3> QED BY <3>3
  <2>3. CASE UNCHANGED W!vars
    BY <2>1, <2>3 DEF W!vars
  <2>4. CASE W!BuildStep
    BY <1>1, <2>1, <2>4 DEF W!BuildStep, W!BuildFails, W!BuildDone, W!PreloadBegin, W!PreloadEnd, W!PreloadSlot,
       W!PreloadSlotFails, W!MoveSlot
  <2>5. ASSUME NEW s \in Slot, W!SpawnStep(s) \/ W!RefillStep(s) \/ W!KeptReleased(s) PROVE FALSE
    BY <2>1, <2>5 DEF W!SpawnStep, W!SpawnStart, W!SpawnMkdirFails, W!SpawnExecFails, W!SpawnReady,
       W!SpawnGivesUp, W!SpawnError, W!RefillStep, W!RefillLooks, W!RefillFindsClosed, W!RefillLoads,
       W!RefillLoadFails, W!RefillPublishes, W!RefillDiscards, W!KeptReleased, W!MoveSlot
  <2>6. ASSUME NEW f \in Fork, W!CallerStep(f) PROVE FALSE
    BY <1>1, <1>b, <2>6 DEF W!CallerStep, W!TakeSlot, W!TakeRefused, W!TakeDrained, W!DrainRefill, W!DrainSkip,
       W!OwnerResumes, W!OwnerFails, W!OwnerRefills, W!OwnerLoads, W!OwnerLoadsAndResumes
  <2>7. CASE \/ W!BackoffExpires \/ W!Close \/ (\E s \in Slot : W!JailedProcessKilled(s))
             \/ \E x \in Request \cup {BuildCtx} : W!Cancel(x)
    BY <1>1, <2>1, <2>7 DEF W!BackoffExpires, W!Close, W!JailedProcessKilled, W!Cancel
  <2> QED BY <2>3, <2>4, <2>5, <2>6, <2>7 DEF W!Next
<1>2. CASE build # "failed"
  <2>1. W!BuildFails \/ W!PreloadEnd
    <3>1. ASSUME NEW s \in Slot, W!SpawnStep(s) \/ W!RefillStep(s) \/ W!KeptReleased(s) \/ W!JailedProcessKilled(s)
          PROVE  build' = build
      BY <3>1 DEF W!SpawnStep, W!SpawnStart, W!SpawnMkdirFails, W!SpawnExecFails, W!SpawnReady, W!SpawnGivesUp,
         W!RefillStep, W!RefillLooks, W!RefillFindsClosed, W!RefillLoads, W!RefillLoadFails,
         W!RefillPublishes, W!RefillDiscards, W!KeptReleased, W!JailedProcessKilled
    <3>2. ASSUME NEW f \in Fork, W!CallerStep(f) PROVE build' = build
      BY <3>2 DEF W!CallerStep, W!TakeSlot, W!TakeRefused, W!TakeDrained, W!DrainRefill, W!DrainSkip,
         W!OwnerResumes, W!OwnerFails, W!OwnerRefills, W!OwnerLoads, W!OwnerLoadsAndResumes
    <3>3. CASE W!BackoffExpires \/ W!Close \/ (\E x \in Request \cup {BuildCtx} : W!Cancel(x)) \/ UNCHANGED W!vars
      BY <1>2, <3>3 DEF W!BackoffExpires, W!Close, W!Cancel, W!vars
    <3>4. CASE W!BuildStep
      BY <1>2, <3>4 DEF W!BuildStep, W!BuildDone, W!PreloadBegin, W!PreloadSlot, W!PreloadSlotFails
    <3> QED BY <1>2, <3>1, <3>2, <3>3, <3>4 DEF W!Next
  <2>2. CASE W!BuildFails
    <3>1. \A s \in Slot \ Initial : slot[s] = "none"
      BY <1>a, <2>2 DEF W!BuildFails, W!IndInv, W!BuildPhases
    <3> QED BY <1>a, <2>2, <3>1 DEF W!BuildFails
  <2>3. CASE W!PreloadEnd
    <3>1. build = "preloading" /\ slot' = [s \in Slot |-> IF s \in W!Range(idle) THEN "gone" ELSE slot[s]]
      BY <2>3, <1>2 DEF W!PreloadEnd, W!CloseIdle
    <3>2. /\ \A s \in Slot \ Initial : slot[s] = "none"
          /\ \A s \in Initial : slot[s] \notin W!Refilling \cup {"failed", "none"}
          /\ \A s \in Slot : slot[s] \in W!Listed => s \in W!Range(idle)
      BY <1>a, <3>1 DEF W!IndInv, W!BuildPhases, W!ListedIsIdle
    <3> QED BY <1>a, <1>c, <3>1, <3>2 DEF W!SlotState
  <2> QED BY <2>1, <2>2, <2>3
<1> QED BY <1>1, <1>2

LEMMA FieldStep == IndInv /\ [Next]_vars => PoolField'
<1> SUFFICES ASSUME IndInv, [Next]_vars PROVE PoolField'
  OBVIOUS
<1>a. /\ PoolField /\ pc \in [Fork -> ForkState] /\ pool \in {"none", "unset", "attached", "detached"}
  BY DEF IndInv, TypeOK
<1>1. /\ pool' # pool => \/ pool = "unset" /\ pool' = "attached" /\ build = "open" /\ pc' = pc
                         \/ pool = "attached" /\ pool' = "detached" /\ pc' = pc
  <2>1. CASE StillStep
    BY <1>a, <2>1 DEF StillStep, WithWarmPool, WarmBackground, Cancel, ShutdownBegin, ShutdownEnd, ForkBegin,
       ForkReturn, Release, vars, ownVars
  <2>2. ASSUME NEW f \in Fork, \/ ForkOne(f) \/ WarmStep(f) \/ WarmRefill(f) \/ WarmMiss(f)
                               \/ ColdStep(f) \/ Publish(f)
        PROVE  pool' = pool
    BY <2>2, ForkWaits
  <2>3. ASSUME NEW f \in Fork, ColdProcessKilled(f) PROVE pool' = pool
    BY <2>3 DEF ColdProcessKilled
  <2>4. ASSUME NEW i \in Id, TearsDown(i) PROVE pool' = pool
    BY <2>4 DEF TearsDown, ReleaseTearsDown, ShutdownTearsDown
  <2> QED BY <2>1, <2>2, <2>3, <2>4, Cases
<1>2. ASSUME pool' = "none", NEW s \in Slot PROVE slot'[s] \in {"none", "start"} /\ proc'[s] = "none"
  <2>1. pool = "none" /\ slot[s] \in {"none", "start"} /\ proc[s] = "none" /\ \A f \in Fork : pc[f] # "warm"
    BY <1>1, <1>2, <1>a DEF PoolField
  <2>2. CASE StillStep
    BY <2>1, <2>2 DEF StillStep, WithWarmPool, WarmBackground, Cancel, W!Cancel, W!fcVars, ShutdownBegin,
       ShutdownEnd, ForkBegin, ForkReturn, Release, vars, warmVars
  <2>3. ASSUME NEW f \in Fork, \/ ForkOne(f) \/ WarmStep(f) \/ WarmRefill(f) \/ WarmMiss(f)
                               \/ ColdStep(f) \/ Publish(f) \/ ColdProcessKilled(f)
        PROVE  UNCHANGED <<slot, proc>>
    BY <2>1, <2>3 DEF ForkOne, WarmStep, WarmRefill, WarmMiss, ColdStep, ColdStart, ColdStartFails, ColdLoad,
       ColdResume, ColdLoadAndResume, ColdLoadFails, ColdResumeFails, Publish, ColdProcessKilled, Go, warmVars
  <2>4. ASSUME NEW i \in Id, TearsDown(i) PROVE UNCHANGED <<slot, proc>>
    <3>1. i \notin Slot
      BY <1>a, <2>1, <2>4, Departures DEF IndInv, MapsAgree, PoolField
    <3> QED BY <2>4, <3>1, Departures
  <2> QED BY <2>1, <2>2, <2>3, <2>4, Cases
<1>3. pool' \in {"attached", "detached"} => build' = "open"
  BY <1>1, <1>a, WarmMoves, WarmStays DEF PoolField
<1>4. ASSUME NEW f \in Fork, pc'[f] = "warm" PROVE pool' \in {"attached", "detached"}
  <2>1. CASE pc[f] = "warm"
    BY <2>1, <1>1, <1>a DEF PoolField
  <2>2. CASE pc[f] # "warm"
    <3>1. ASSUME NEW g \in Fork, ForkOne(g) PROVE pool' = pool /\ pool = "attached"
      BY <1>4, <2>2, <3>1, <1>a DEF ForkOne, Go
    <3>2. ASSUME NEW g \in Fork, \/ WarmStep(g) \/ WarmRefill(g) \/ WarmMiss(g)
                                 \/ ColdStep(g) \/ Publish(g) \/ ColdProcessKilled(g)
          PROVE  FALSE
      BY <1>4, <2>2, <3>2, <1>a DEF WarmStep, WarmRefill, WarmMiss, ColdStep, ColdStart, ColdStartFails, ColdLoad,
         ColdResume, ColdLoadAndResume, ColdLoadFails, ColdResumeFails, Publish, ColdProcessKilled, Go, ownVars
    <3>3. CASE StillStep
      BY <1>4, <2>2, <3>3, StillSteps DEF Still
    <3>4. ASSUME NEW i \in Id, TearsDown(i) PROVE FALSE
      BY <1>4, <2>2, <3>4, Departures
    <3> QED BY <3>1, <3>2, <3>3, <3>4, Cases
  <2> QED BY <2>1, <2>2
<1>5. build' = "failed" => \A s \in Slot : slot'[s] \in {"none", "gone"}
  BY WarmMoves, FailedBuild
<1> QED BY <1>2, <1>3, <1>4, <1>5 DEF PoolField

LEMMA ShutdownMoves == IndInv /\ [Next]_vars => ShutdownProgress'
<1> SUFFICES ASSUME IndInv, [Next]_vars PROVE ShutdownProgress'
  OBVIOUS
<1>a. /\ ShutdownProgress /\ CallersWait /\ pool \in {"none", "unset", "attached", "detached"}
      /\ req \in [Request -> {"new", "running", "ok", "error"}]
      /\ ReqOf \in [Fork -> Request]
  BY ForkAssumption DEF IndInv, TypeOK
<1>b. closed => closed'
  BY WarmMoves, WarmStays
<1>1. CASE ShutdownBegin
  BY <1>1, <1>a DEF ShutdownBegin, ShutdownProgress
<1>2. CASE ShutdownEnd
  BY <1>2, <1>a DEF ShutdownEnd, ShutdownProgress, W!Close, W!CloseIdle, liveVars
<1>3. CASE WithWarmPool \/ WarmBackground \/ Cancel \/ UNCHANGED vars
  BY <1>3, <1>a, <1>b DEF WithWarmPool, WarmBackground, Cancel, vars, ownVars, liveVars, ShutdownProgress
<1>4. ASSUME NEW r \in Request, ForkBegin(r) \/ ForkReturn(r) PROVE ShutdownProgress'
  BY <1>4, <1>a, <1>b DEF ForkBegin, ForkReturn, liveVars, ShutdownProgress
<1>5. ASSUME NEW i \in Id, Release(i) \/ TearsDown(i) PROVE ShutdownProgress'
  BY <1>5, <1>a, <1>b DEF Release, TearsDown, ReleaseTearsDown, ShutdownTearsDown, ShutdownProgress
<1>6. ASSUME NEW f \in Fork,
             ForkOne(f) \/ WarmStep(f) \/ WarmRefill(f) \/ WarmMiss(f) \/ ColdStep(f) \/ Publish(f)
      PROVE  ShutdownProgress'
  <2>1. /\ UNCHANGED <<req, pool, stop, victims>> /\ req[ReqOf[f]] = "running"
    BY <1>6, ForkWaits
  <2>2. ~(Drained /\ stop # "no")
    BY <2>1, <1>a DEF ShutdownProgress
  <2> QED BY <2>1, <2>2, <1>a, <1>b DEF ShutdownProgress
<1>7. ASSUME NEW f \in Fork, ColdProcessKilled(f) PROVE ShutdownProgress'
  BY <1>7, <1>a, <1>b DEF ColdProcessKilled, liveVars, ShutdownProgress
<1> QED BY <1>1, <1>2, <1>3, <1>4, <1>5, <1>6, <1>7, Cases DEF StillStep

LEMMA InitIndInv == Init => IndInv
<1> SUFFICES ASSUME Init PROVE IndInv
  OBVIOUS
<1> USE DEF Init
<1>1. W!IndInv
  BY WarmInit
<1>2. TypeOK
  BY <1>1 DEF TypeOK, W!IndInv, ForkState, Cold!FcInit, Cold!FcTypeOK, Cold!ProcState
<1>3. call = [f \in Fork |-> "new"] /\ slot \in [Slot -> {"start", "none"}]
  BY DEF W!Init
<1>4. CallProgress /\ SlotIsOwn
  BY <1>3 DEF CallProgress, SlotIsOwn, HasSlot
<1>5. MapsAgree
  BY DEF MapsAgree, TornDownOnce, Known
<1>6. ColdProgress /\ ColdDirs
  BY <1>3 DEF ColdProgress, ColdDirs, Known, Cold!FcInit
<1>7. CallersWait /\ PoolField /\ ShutdownProgress
  BY <1>3, ForkAssumption DEF CallersWait, PoolField, ShutdownProgress, W!Init, W!FC!FcInit
<1> QED BY <1>1, <1>2, <1>4, <1>5, <1>6, <1>7 DEF IndInv

LEMMA StepIndInv == IndInv /\ [Next]_vars => IndInv'
<1>1. IndInv /\ [Next]_vars => W!IndInv'
  BY WarmMoves, WarmStepInv DEF IndInv
<1> QED BY <1>1, TypeStep, CallStep, SlotStep, MapsStep, ColdGoes, ColdDirStep, CallersStep, FieldStep,
          ShutdownMoves DEF IndInv

(* The inductive invariant holds in every reachable state.                 *)
THEOREM IndInvHolds == Spec => []IndInv
<1> QED BY InitIndInv, StepIndInv, PTL DEF Spec

(***************************************************************************)
(* What the Pool guarantees                                                *)
(***************************************************************************)

(* Every variable has its type.                                            *)
THEOREM TypeCorrect == Spec => []TypeOK
<1>1. IndInv => TypeOK
  BY DEF IndInv
<1> QED BY <1>1, IndInvHolds, PTL

(* No error path of forkOne or forkOneJailed, no Release, no Shutdown and  *)
(* nothing the warm pool does leaves a directory behind, but for the two   *)
(* failures of spawnSlot that DirsAccountedFor names.                      *)
THEOREM DirectoriesAccountedFor == Spec => []DirsAccountedFor
<1>1. IndInv => DirsAccountedFor
  BY DEF IndInv, W!IndInv, DirsAccountedFor
<1> QED BY <1>1, IndInvHolds, PTL

(* Release and Shutdown never tear the same fork down twice.               *)
THEOREM NoSecondTeardown == Spec => []TornDownOnce
<1>1. IndInv => TornDownOnce
  BY DEF IndInv, MapsAgree
<1> QED BY <1>1, IndInvHolds, PTL

(* No goroutine publishes a VM that another one published, that is torn    *)
(* down, or whose slot is not a fork's.                                    *)
THEOREM EachPublishesItsOwn == Spec => []PublishesItsOwn
<1>1. IndInv => PublishesItsOwn
  <2> SUFFICES ASSUME IndInv PROVE PublishesItsOwn
    OBVIOUS
  <2>1. \A f \in Fork : pc[f] = "publish" => IdOf(f) \notin Known \cup torn
    BY IdsDiffer DEF IndInv, MapsAgree
  <2> QED BY <2>1, IdsDiffer DEF PublishesItsOwn, IndInv, MapsAgree
<1> QED BY <1>1, IndInvHolds, PTL

(* No slot that left the warm pool and no cold process is forgotten, save  *)
(* the ones fc.Restore leaves to their context.                            *)
THEOREM NothingForgotten == Spec => []AccountedFor
<1>1. IndInv => AccountedFor
  <2> SUFFICES ASSUME IndInv PROVE AccountedFor
    OBVIOUS
  <2>1. ASSUME NEW f \in Fork, coldProc[f] \in Cold!Alive
        PROVE  f \in Known \/ pc[f] \in {"booting", "loaded", "publish"}
               \/ (pc[f] = "failed" /\ ~ColdJailed /\ coldProc[f] = "ready")
    <3>1. pc \in [Fork -> ForkState]
      BY DEF IndInv, TypeOK
    <3>2. pc[f] = "done" => f \in Known
      BY <2>1 DEF IndInv, MapsAgree, ColdProgress, IdOf, Cold!Alive
    <3> QED BY <2>1, <3>1, <3>2 DEF IndInv, ColdProgress, ForkState, Cold!Alive
  <2> QED BY <2>1 DEF AccountedFor, IndInv, SlotIsOwn
<1> QED BY <1>1, IndInvHolds, PTL

(* When Shutdown's work is done and no Fork call is under way, what still  *)
(* runs belongs to a goroutine that has yet to end it.                     *)
LEMMA NothingElseRuns ==
  ASSUME IndInv, stop = "done", live = {}, \A r \in Request : req[r] # "running"
  PROVE  OnlyUnfinished
<1>a. /\ W!IndInv /\ slot \in [Slot -> W!SlotState] /\ pc \in [Fork -> ForkState]
      /\ req \in [Request -> {"new", "running", "ok", "error"}] /\ ReqOf \in [Fork -> Request]
      /\ CallersWait /\ PoolField /\ CallProgress
      /\ Known = doomed /\ (pool = "none" \/ (pool = "detached" /\ closed))
  BY ForkAssumption DEF IndInv, TypeOK, W!TypeOK, ShutdownProgress, Known
<1>b. \A f \in Fork : pc[f] \in {"new", "done", "failed"}
  BY <1>a DEF CallersWait, Ended
<1>1. ASSUME NEW s \in Slot, proc[s] \in W!FC!Alive PROVE slot[s] \in W!Refilling \/ s \in doomed
  <2>1. slot[s] \notin {"none", "start", "failed", "gone"} /\ closed
    <3>1. slot[s] \notin {"none", "start", "failed", "gone"}
      BY <1>1, <1>a DEF W!IndInv, W!NoOrphan
    <3> QED BY <3>1, <1>1, <1>a DEF PoolField
  <2>2. slot[s] \notin W!Listed
    <3>1. W!Range(<<>>) = {}
      BY DEF W!Range
    <3> QED BY <2>1, <3>1, <1>a DEF W!IndInv, W!ListedIsIdle
  <2>3. slot[s] # "taken"
    BY <1>a, <1>b DEF CallersWait, CallProgress
  <2>4. slot[s] = "kept" => s \in doomed
    BY <1>a, <1>b DEF IndInv, SlotIsOwn
  <2> QED BY <2>1, <2>2, <2>3, <2>4, <1>a DEF W!SlotState
<1>2. ASSUME NEW f \in Fork, coldProc[f] \in Cold!Alive PROVE pc[f] = "failed" \/ f \in doomed
  <2>1. pc[f] # "new"
    BY <1>2 DEF IndInv, ColdProgress, Cold!Alive
  <2>2. pc[f] = "done" => f \in Known
    BY <1>2 DEF IndInv, MapsAgree, ColdProgress, IdOf, Cold!Alive
  <2> QED BY <2>1, <2>2, <1>a, <1>b
<1> QED BY <1>1, <1>2 DEF OnlyUnfinished

LEMMA ShutdownLeaves == IndInv => DrainedShutdown
BY NothingElseRuns DEF DrainedShutdown, IndInv, ShutdownProgress

(* A Shutdown that no Fork call overlaps leaves nothing running but the    *)
(* processes of goroutines that have yet to end them: no fork, no slot of  *)
(* the warm pool, no VM that nobody knows of (pool.go:319-372).            *)
THEOREM ShutdownIsComplete == Spec => []DrainedShutdown
<1> QED BY ShutdownLeaves, IndInvHolds, PTL

(* What Live() lists is up: warm forks until their teardown, cold ones     *)
(* until the context of their request is done.                             *)
THEOREM LiveForksRun == Spec => []LiveRuns
<1>1. IndInv => LiveRuns
  <2> SUFFICES ASSUME IndInv PROVE LiveRuns
    OBVIOUS
  <2>1. ASSUME NEW f \in live \cap Fork PROVE coldProc[f] = "running" \/ ReqOf[f] \in done
    <3>1. f \in Known /\ f \notin torn
      BY DEF IndInv, MapsAgree, TornDownOnce, Known
    <3>2. pc[f] = "done" /\ call[f] # "served"
      BY <3>1, IdsTyped, ForkAssumption DEF IndInv, MapsAgree, IdOf
    <3> QED BY <3>1, <3>2 DEF IndInv, ColdProgress
  <2>2. \A i \in live \cap Slot : slot[i] = "kept"
    BY DEF IndInv, MapsAgree, Known
  <2> QED BY <2>1, <2>2 DEF LiveRuns, IndInv, SlotIsOwn
<1> QED BY <1>1, IndInvHolds, PTL

(***************************************************************************)
(* The Pool implements ForkLifecycle                                       *)
(***************************************************************************)
LEMMA ForkIsAt ==
  ASSUME IndInv, NEW i \in Id
  PROVE  /\ ForkIs[i] = "live" <=> i \in live
         /\ ForkIs[i] = "leaving" <=> i \in doomed \cup victims
         /\ ForkIs[i] = "gone" <=> i \in torn
         /\ ForkIs[i] = "absent" <=> i \notin Known \cup torn
BY DEF ForkIs, IndInv, MapsAgree, TornDownOnce, Known

LEMMA LifecycleStep == IndInv /\ [Next]_vars => [Lifecycle!Next]_ForkIs
<1> SUFFICES ASSUME IndInv, [Next]_vars PROVE Lifecycle!Next \/ ForkIs' = ForkIs
  OBVIOUS
<1> DEFINE At(l, d, v, t) ==
             [i \in Id |-> IF i \in l THEN "live" ELSE IF i \in d \cup v THEN "leaving"
                           ELSE IF i \in t THEN "gone" ELSE "absent"]
<1>a. ForkIs = At(live, doomed, victims, torn)
  BY ForkIsAt DEF ForkIs, Known
<1>b. ForkIs' = At(live', doomed', victims', torn')
  <2>1. MapsAgree'
    BY MapsStep
  <2> QED BY <2>1 DEF ForkIs, MapsAgree, TornDownOnce
<1>0. ASSUME UNCHANGED liveVars PROVE ForkIs' = ForkIs
  BY <1>0 DEF ForkIs, liveVars
<1>1. ASSUME NEW f \in Fork, Publish(f) PROVE Lifecycle!Publish(IdOf(f))
  <2>1. IdOf(f) \in Id /\ IdOf(f) \notin Known \cup torn
    BY <1>1, IdsTyped, IdsDiffer DEF IndInv, MapsAgree, Publish, Go
  <2>2. ForkIs' = [ForkIs EXCEPT ![IdOf(f)] = "live"]
    BY <2>1, <1>1, <1>a, <1>b DEF Publish, Known
  <2> QED BY <2>1, <2>2, ForkIsAt DEF Lifecycle!Publish
<1>2. ASSUME NEW i \in Id, Release(i) PROVE Lifecycle!Leave({i})
  <2>1. i \in live
    BY <1>2 DEF Release
  <2>2. ForkIs' = [j \in Id |-> IF j \in {i} THEN "leaving" ELSE ForkIs[j]]
    BY <1>2, <1>a, <1>b DEF Release
  <2> QED BY <2>1, <2>2, ForkIsAt DEF Lifecycle!Leave
<1>3. ASSUME ShutdownBegin PROVE Lifecycle!Leave(live) \/ ForkIs' = ForkIs
  <2>1. victims = {} /\ victims' = live /\ live' = {} /\ UNCHANGED <<doomed, torn>>
    BY <1>3 DEF ShutdownBegin, IndInv, MapsAgree
  <2>2. ForkIs' = [j \in Id |-> IF j \in live THEN "leaving" ELSE ForkIs[j]]
    BY <2>1, <1>a, <1>b
  <2>3. live = {i \in Id : ForkIs[i] = "live"}
    BY ForkIsAt DEF IndInv, TypeOK
  <2>4. CASE live = {}
    BY <2>1, <2>4 DEF ForkIs
  <2> QED BY <2>2, <2>3, <2>4 DEF Lifecycle!Leave
<1>4. ASSUME NEW i \in Id, TearsDown(i) PROVE Lifecycle!TearDown(i)
  <2>1. i \in doomed \cup victims
    BY <1>4 DEF TearsDown, ReleaseTearsDown, ShutdownTearsDown
  <2>2. ForkIs' = [ForkIs EXCEPT ![i] = "gone"]
    BY <1>4, <2>1, <1>a, <1>b DEF TearsDown, ReleaseTearsDown, ShutdownTearsDown, TearDown,
       IndInv, MapsAgree, TornDownOnce
  <2> QED BY <2>1, <2>2, ForkIsAt DEF Lifecycle!TearDown
<1>5. ASSUME NEW f \in Fork, \/ ForkOne(f) \/ WarmStep(f) \/ WarmRefill(f) \/ WarmMiss(f)
                             \/ ColdStep(f) \/ ColdProcessKilled(f)
      PROVE  UNCHANGED liveVars
  BY <1>5 DEF ForkOne, WarmStep, WarmRefill, WarmMiss, ColdStep, ColdStart, ColdStartFails, ColdLoad,
              ColdResume, ColdLoadAndResume, ColdLoadFails, ColdResumeFails, ColdProcessKilled, ownVars
<1>6. ASSUME \/ WithWarmPool \/ WarmBackground \/ Cancel \/ ShutdownEnd
             \/ (\E r \in Request : ForkBegin(r) \/ ForkReturn(r))
             \/ UNCHANGED vars
      PROVE  UNCHANGED liveVars
  BY <1>6 DEF WithWarmPool, WarmBackground, Cancel, ShutdownEnd, ForkBegin, ForkReturn, vars, ownVars
<1>7. live \in SUBSET Id /\ \A f \in Fork : IdOf(f) \in Id
  BY IdsTyped DEF IndInv, TypeOK
<1>8. ASSUME NEW i \in Id, Release(i) PROVE {i} \in SUBSET Id
  OBVIOUS
<1> QED BY <1>0, <1>1, <1>2, <1>3, <1>4, <1>5, <1>6, <1>7, <1>8, Cases DEF StillStep, Lifecycle!Next

(* A fork is listed once, complete, leaves the list once, is torn down     *)
(* once, and never comes back, whichever path it came by.                  *)
THEOREM LifecycleImplemented == Spec => ImplementsLifecycle
<1>1. Init => Lifecycle!Init
  BY DEF Init, Lifecycle!Init, ForkIs
<1> QED BY <1>1, LifecycleStep, IndInvHolds, PTL DEF Spec, ImplementsLifecycle, Lifecycle!Spec

(***************************************************************************)
(* Every request gets the snapshot it named                                *)
(***************************************************************************)

(* The pool is not preloaded, or every request names what it is preloaded  *)
(* with.                                                                   *)
Agreed == UltraSnap = NoSnap \/ \A r \in Request : Want[r] = UltraSnap

(* A VM that is loaded holds what the pool or its request has named.       *)
Loads ==
  /\ preload \in {NoSnap, UltraSnap}
  /\ \A s \in Slot : proc[s] = "paused" /\ slot[s] \notin {"taken", "kept", "gone"} =>
       mem[s] = UltraSnap /\ UltraSnap # NoSnap
Asks ==
  /\ \A f \in Fork : call[f] = "own" /\ proc[holds[f]] = "paused" => mem[holds[f]] = Want[ReqOf[f]]
  /\ \A f \in Fork : call[f] = "owed" /\ slot[holds[f]] = "kept" => mem[holds[f]] = Want[ReqOf[f]]
  /\ \A f \in Fork : pc[f] = "loaded" => coldMem[f] = Want[ReqOf[f]]
  /\ RunsWhatWasAsked

(* The pool's goroutines load the pool's snapshot, and nothing into a slot *)
(* that was taken.                                                         *)
LEMMA PoolLoads ==
  ASSUME W!IndInv, Loads, PoolStep
  PROVE  /\ Loads'
         /\ \A s \in Slot : slot[s] \in {"taken", "kept", "gone"} =>
              mem'[s] = mem[s] /\ (proc'[s] = "paused" => proc[s] = "paused")
<1> DEFINE Goal == /\ Loads'
                   /\ \A s \in Slot : slot[s] \in {"taken", "kept", "gone"} =>
                        mem'[s] = mem[s] /\ (proc'[s] = "paused" => proc[s] = "paused")
<1>a. /\ proc \in [Slot -> W!FC!ProcState] /\ mem \in [Slot -> Snap \cup {NoSnap}]
      /\ slot \in [Slot -> W!SlotState] /\ W!BuildPhases /\ W!SlotProgress
  BY DEF W!IndInv, W!TypeOK, W!FC!FcTypeOK
<1> USE <1>a DEF Loads, W!MoveSlot
<1>0. ASSUME UNCHANGED <<preload, proc, mem>>,
             \A s \in Slot : slot'[s] \in {"taken", "kept", "gone"} \/ slot[s] \notin {"taken", "kept", "gone"}
      PROVE  Goal
  BY <1>0
<1>1. ASSUME NEW S \in SUBSET Slot, W!FC!KillAndRemove(S), preload' = preload,
             \A s \in Slot : slot'[s] \in {"taken", "kept", "gone"} \/ slot[s] \notin {"taken", "kept", "gone"}
      PROVE  Goal
  BY <1>1 DEF W!FC!KillAndRemove, W!FC!Alive
<1>2. ASSUME NEW s \in Slot, W!SpawnStep(s) PROVE Goal
  <2>1. /\ preload' = preload /\ UNCHANGED mem
        /\ slot[s] \in {"start", "poll"}
        /\ \A r \in Slot : r # s => slot'[r] = slot[r]
        /\ \A r \in Slot : proc'[r] = "paused" => proc[r] = "paused"
    BY <1>2 DEF W!SpawnStep, W!SpawnStart, W!SpawnMkdirFails, W!SpawnExecFails, W!SpawnReady, W!SpawnGivesUp,
       W!SpawnError, W!poolVars, W!fcVars, W!FC!Launch, W!FC!LaunchFails, W!FC!KillAndRemove
  <2> QED BY <2>1
<1>3. ASSUME NEW s \in Slot, W!RefillStep(s) PROVE Goal
  <2>1. CASE W!RefillLoads(s)
    <3>1. preload = UltraSnap /\ UltraSnap # NoSnap /\ slot[s] = "load"
      BY <2>1 DEF W!RefillLoads, W!SlotProgress
    <3> QED BY <2>1, <3>1 DEF W!RefillLoads, W!poolVars, W!FC!LoadSnapshot
  <2>2. CASE W!RefillFindsClosed(s) \/ W!RefillLoadFails(s) \/ W!RefillDiscards(s)
    BY <2>2, <1>1 DEF W!RefillFindsClosed, W!RefillLoadFails, W!RefillDiscards, W!poolVars
  <2>3. CASE W!RefillLooks(s) \/ W!RefillPublishes(s)
    BY <2>3 DEF W!RefillLooks, W!RefillPublishes, W!poolVars, W!fcVars
  <2> QED BY <1>3, <2>1, <2>2, <2>3 DEF W!RefillStep
<1>4. ASSUME W!BuildStep PROVE Goal
  <2>1. CASE W!BuildFails
    <3> DEFINE S == {s \in Initial : slot[s] = "spawned"}
    <3>1. S \in SUBSET Slot
      BY WarmAssumption
    <3>2. \A s \in Slot : slot'[s] \in {"taken", "kept", "gone"} \/ slot[s] \notin {"taken", "kept", "gone"}
      BY <2>1 DEF W!BuildFails
    <3>3. preload' = preload /\ W!FC!KillAndRemove(S)
      BY <2>1 DEF W!BuildFails, W!poolVars
    <3> HIDE DEF S
    <3> QED BY <1>1, <3>1, <3>2, <3>3
  <2>2. CASE W!BuildDone \/ W!PreloadBegin
    <3>1. /\ UNCHANGED <<proc, mem>> /\ preload' \in {preload, UltraSnap}
          /\ \A s \in Slot : slot[s] \in {"taken", "kept", "gone"} => slot'[s] \in {"taken", "kept", "gone"}
      BY <2>2, QuietSlots DEF PoolStep, W!BuildStep, W!BuildDone, W!PreloadBegin, W!fcVars
    <3> QED BY <3>1
  <2>3. CASE W!PreloadEnd
    <3>1. W!Range(idle) \in SUBSET Slot /\ \A s \in W!Range(idle) : slot[s] \in W!Listed
      BY DEF W!IndInv, W!TypeOK, W!SingleOwner, W!Range
    <3> QED BY <2>3, <3>1, <1>0, <1>1 DEF W!PreloadEnd, W!CloseIdle, W!poolVars, W!fcVars, W!Listed
  <2>4. ASSUME NEW s \in Slot, W!PreloadSlot(s) PROVE Goal
    <3>1. preload = UltraSnap /\ UltraSnap # NoSnap /\ slot[s] = "preloading"
      BY <2>4 DEF W!PreloadSlot, W!BuildPhases
    <3> QED BY <2>4, <3>1 DEF W!PreloadSlot, W!poolVars, W!FC!LoadSnapshot
  <2>5. ASSUME NEW s \in Slot, W!PreloadSlotFails(s) PROVE Goal
    BY <2>5 DEF W!PreloadSlotFails, W!poolVars, W!fcVars
  <2> QED BY <1>4, <2>1, <2>2, <2>3, <2>4, <2>5 DEF W!BuildStep
<1>5. ASSUME W!Close PROVE Goal
  <2>1. W!Range(idle) \in SUBSET Slot /\ \A s \in W!Range(idle) : slot[s] \in W!Listed
    BY DEF W!IndInv, W!TypeOK, W!SingleOwner, W!Range
  <2> QED BY <1>5, <2>1, <1>1 DEF W!Close, W!CloseIdle, W!Listed
<1>6. ASSUME NEW s \in Slot, W!JailedProcessKilled(s) PROVE Goal
  BY <1>6 DEF W!JailedProcessKilled, W!FC!KilledByContext, W!poolVars
<1>7. ASSUME W!BackoffExpires \/ \E x \in Request \cup {BuildCtx} : W!Cancel(x) PROVE Goal
  BY <1>7 DEF W!BackoffExpires, W!Cancel, W!poolVars, W!fcVars
<1> QED BY <1>2, <1>3, <1>4, <1>5, <1>6, <1>7 DEF PoolStep

(* A caller resumes what is paused, and loads what its request names.      *)
LEMMA CallerLoads ==
  ASSUME IndInv, Agreed, Loads, Asks, NEW f \in Fork, WarmStep(f)
  PROVE  Loads' /\ Asks'
<1>a. /\ proc \in [Slot -> W!FC!ProcState] /\ mem \in [Slot -> Snap \cup {NoSnap}]
      /\ slot \in [Slot -> W!SlotState] /\ call \in [Fork -> W!CallState]
      /\ holds \in [Fork -> Slot \cup {NoSlot}]
      /\ W!IndInv /\ SlotIsOwn
  BY DEF IndInv, W!IndInv, W!TypeOK, W!FC!FcTypeOK
<1>b. call[f] = "own" => holds[f] \in Slot /\ slot[holds[f]] = "taken"
  BY <1>a DEF W!IndInv, W!SingleOwner
<1>c. /\ UNCHANGED <<pc, coldMem>> /\ pc[f] = "warm" /\ Want[ReqOf[f]] \in Snap
      /\ \A g \in Fork : g # f => call'[g] = call[g] /\ holds'[g] = holds[g]
      /\ \A g \in Fork : g # f /\ HasSlot(f) /\ HasSlot(g) => holds[g] # holds[f]
  BY WarmForkMoves, ForkAssumption DEF WarmStep, ownVars, coldVars, SlotIsOwn, IndInv
<1>d. \A g \in Fork : pc[g] \in {"publish", "done"} =>
         /\ g # f /\ IdOf(g)' = IdOf(g)
         /\ IdOf(g) \in Slot => HasSlot(g) /\ IdOf(g) = holds[g]
  BY <1>c, IdsTyped DEF IdOf, HasSlot
<1> DEFINE Others == \A s \in Slot : ~(HasSlot(f) /\ s = holds[f]) =>
                         /\ mem'[s] = mem[s]
                         /\ proc'[s] = "paused" => proc[s] = "paused"
                         /\ slot'[s] = "kept" => slot[s] = "kept"
           Mine == /\ call'[f] = "own" /\ proc'[holds'[f]] = "paused" => mem'[holds'[f]] = Want[ReqOf[f]]
                   /\ call'[f] = "owed" /\ slot'[holds'[f]] = "kept" => mem'[holds'[f]] = Want[ReqOf[f]]
<1>e. ASSUME Others, Mine PROVE Asks'
  <2>1. ASSUME NEW g \in Fork, call'[g] = "own", proc'[holds'[g]] = "paused"
        PROVE  mem'[holds'[g]] = Want[ReqOf[g]]
    BY <1>a, <1>c, <1>e, <2>1 DEF Asks, HasSlot, SlotIsOwn
  <2>2. ASSUME NEW g \in Fork, call'[g] = "owed", slot'[holds'[g]] = "kept"
        PROVE  mem'[holds'[g]] = Want[ReqOf[g]]
    BY <1>a, <1>c, <1>e, <2>2 DEF Asks, HasSlot, SlotIsOwn
  <2>3. \A g \in Fork : pc'[g] = "loaded" => coldMem'[g] = Want[ReqOf[g]]
    BY <1>c DEF Asks
  <2>4. ASSUME NEW g \in Fork, pc'[g] \in {"publish", "done"} PROVE SnapshotOf(IdOf(g))' = Want[ReqOf[g]]
    <3>1. SnapshotOf(IdOf(g)) = Want[ReqOf[g]]
      BY <1>c, <2>4 DEF Asks, RunsWhatWasAsked
    <3> QED BY <3>1, <1>c, <1>d, <1>e, <2>4 DEF SnapshotOf
  <2> QED BY <2>1, <2>2, <2>3, <2>4 DEF Asks, RunsWhatWasAsked
<1> HIDE DEF Others, Mine
<1>1. CASE W!TakeSlot(f)
  <2>1. UNCHANGED <<preload, proc, mem>>
    BY <1>1 DEF W!TakeSlot, W!fcVars
  <2>2. PICK s \in Slot : /\ slot[s] \in W!Listed /\ slot' = [slot EXCEPT ![s] = "taken"]
                         /\ holds' = [holds EXCEPT ![f] = s] /\ call' = [call EXCEPT ![f] = "own"]
    BY <1>1, <1>a, CallerMoves
  <2>3. Mine
    BY <2>1, <2>2, <1>a, ForkAssumption DEF Mine, Agreed, Loads, W!Listed
  <2> QED BY <2>1, <2>2, <2>3, <1>a, <1>e DEF Others, Loads
<1>2. CASE W!TakeDrained(f)
  <2>1. UNCHANGED <<preload, proc, mem, slot>> /\ call' = [call EXCEPT ![f] = "drained"]
    BY <1>2 DEF W!TakeDrained, W!fcVars, W!poolVars
  <2> QED BY <2>1, <1>a, <1>e DEF Others, Mine, Loads
<1>3. CASE W!OwnerResumes(f)
  <2>1. /\ call[f] = "own" /\ UNCHANGED <<preload, mem, holds>> /\ call' = [call EXCEPT ![f] = "owed"]
        /\ proc[holds[f]] = "paused" /\ proc' = [proc EXCEPT ![holds[f]] = "running"]
        /\ slot' = [slot EXCEPT ![holds[f]] = "kept"]
    BY <1>3 DEF W!OwnerResumes, W!BecomesFork, W!FC!ResumeVm, W!poolVars
  <2> QED BY <2>1, <1>a, <1>b, <1>e DEF Others, Mine, Loads, Asks, HasSlot
<1>4. CASE W!OwnerFails(f)
  <2>1. /\ call[f] = "own" /\ UNCHANGED <<preload, mem, holds>> /\ call' = [call EXCEPT ![f] = "owed"]
        /\ slot' = [slot EXCEPT ![holds[f]] = "gone"]
        /\ \A s \in Slot : proc'[s] = "paused" => proc[s] = "paused"
    BY <1>4, <1>a DEF W!OwnerFails, W!FC!KillAndRemove, W!poolVars
  <2> QED BY <2>1, <1>a, <1>b, <1>e DEF Others, Mine, Loads, HasSlot
<1>5. CASE W!OwnerLoads(f, Want[ReqOf[f]])
  <2>1. /\ call[f] = "own" /\ UNCHANGED <<preload, holds, call, slot>>
        /\ proc' = [proc EXCEPT ![holds[f]] = "paused"]
        /\ mem' = [mem EXCEPT ![holds[f]] = Want[ReqOf[f]]]
    BY <1>5 DEF W!OwnerLoads, W!FC!LoadSnapshot, W!poolVars, W!callVars
  <2> QED BY <2>1, <1>a, <1>b, <1>e DEF Others, Mine, Loads, HasSlot
<1>6. CASE W!OwnerLoadsAndResumes(f, Want[ReqOf[f]])
  <2>1. /\ call[f] = "own" /\ UNCHANGED <<preload, holds>> /\ call' = [call EXCEPT ![f] = "owed"]
        /\ proc' = [proc EXCEPT ![holds[f]] = "running"]
        /\ mem' = [mem EXCEPT ![holds[f]] = Want[ReqOf[f]]]
        /\ slot' = [slot EXCEPT ![holds[f]] = "kept"]
    BY <1>6 DEF W!OwnerLoadsAndResumes, W!BecomesFork, W!FC!LoadAndResume, W!poolVars
  <2> QED BY <2>1, <1>a, <1>b, <1>e DEF Others, Mine, Loads, HasSlot
<1> QED BY <1>1, <1>2, <1>3, <1>4, <1>5, <1>6 DEF WarmStep

LEMMA AskStep == IndInv /\ Agreed /\ Loads /\ Asks /\ [Next]_vars => Loads' /\ Asks'
<1> SUFFICES ASSUME IndInv, Agreed, Loads, Asks, [Next]_vars PROVE Loads' /\ Asks'
  OBVIOUS
<1>a. /\ proc \in [Slot -> W!FC!ProcState] /\ mem \in [Slot -> Snap \cup {NoSnap}]
      /\ slot \in [Slot -> W!SlotState] /\ call \in [Fork -> W!CallState]
      /\ pc \in [Fork -> ForkState] /\ coldMem \in [Fork -> Snap \cup {NoSnap}]
      /\ W!IndInv /\ SlotIsOwn /\ CallProgress /\ MapsAgree
  BY DEF IndInv, TypeOK, W!TypeOK, W!FC!FcTypeOK, Cold!FcTypeOK
<1>b. \A f \in Fork : HasSlot(f) => holds[f] \in Slot /\ slot[holds[f]] \in {"taken", "kept", "gone"}
  BY <1>a DEF SlotIsOwn
<1>c. \A f \in Fork : IdOf(f) \in Slot => HasSlot(f) /\ IdOf(f) = holds[f]
  BY IdsTyped DEF IdOf, HasSlot
<1> DEFINE Frame == /\ UNCHANGED <<call, holds, pc, coldMem>>
                    /\ \A s \in Slot : slot[s] \in {"taken", "kept", "gone"} =>
                         /\ mem'[s] = mem[s]
                         /\ proc'[s] = "paused" => proc[s] = "paused"
                    /\ \A s \in Slot : slot'[s] = "kept" => slot[s] = "kept"
<1>d. ASSUME Frame PROVE Asks'
  <2>1. ASSUME NEW f \in Fork, pc'[f] \in {"publish", "done"} PROVE SnapshotOf(IdOf(f))' = Want[ReqOf[f]]
    <3>1. SnapshotOf(IdOf(f)) = Want[ReqOf[f]] /\ IdOf(f)' = IdOf(f)
      BY <1>d, <2>1 DEF Asks, RunsWhatWasAsked, IdOf
    <3> QED BY <3>1, <1>b, <1>c, <1>d DEF SnapshotOf
  <2> QED BY <2>1, <1>b, <1>d DEF Asks, RunsWhatWasAsked, HasSlot
<1> HIDE DEF Frame
<1>1. CASE StillStep
  <2>1. Quiet /\ UNCHANGED <<pc, coldMem>>
    BY <1>1, StillSteps DEF Still, coldVars
  <2>2. CASE PoolStep
    <3>1. Frame
      BY <1>a, <2>1, <2>2, PoolLoads DEF Frame, Quiet
    <3> QED BY <3>1, <1>a, <1>d, <2>2, PoolLoads
  <2>3. CASE UNCHANGED warmVars
    BY <2>1, <2>3, <1>d DEF Frame, Loads, warmVars
  <2>4. PoolStep \/ UNCHANGED warmVars
    BY <1>1 DEF StillStep, PoolStep, WithWarmPool, WarmBackground, Cancel, ShutdownBegin, ShutdownEnd, ForkBegin,
       ForkReturn, Release, vars
  <2> QED BY <2>2, <2>3, <2>4
<1>2. ASSUME NEW f \in Fork, WarmStep(f) PROVE Loads' /\ Asks'
  BY <1>2, CallerLoads
<1>3. ASSUME NEW f \in Fork, WarmRefill(f) \/ WarmMiss(f) PROVE Loads' /\ Asks'
  <2>1. /\ UNCHANGED <<preload, proc, mem, holds, coldMem>> /\ pc[f] = "warm"
        /\ \A g \in Fork : g # f => pc'[g] = pc[g] /\ call'[g] = call[g]
        /\ slot' = slot \/ \E s \in Slot : slot[s] = "none" /\ slot' = [slot EXCEPT ![s] = "start"]
        /\ \/ call[f] = "owed" /\ call'[f] = "served" /\ pc'[f] = IF slot[holds[f]] = "kept" THEN "publish" ELSE "failed"
           \/ call'[f] \in {"refused", "missed"} /\ pc'[f] = "cold"
    BY <1>3, <1>a, CallerMoves, WarmForkMoves
       DEF WarmRefill, WarmMiss, Go, coldVars, W!OwnerRefills, W!TakeRefused, W!DrainRefill, W!DrainSkip,
           W!poolVars, W!fcVars
  <2>2. Loads'
    BY <2>1, <1>a DEF Loads
  <2>3. ASSUME NEW g \in Fork, pc'[g] \in {"publish", "done"} PROVE SnapshotOf(IdOf(g))' = Want[ReqOf[g]]
    <3>1. CASE g = f
      <4>1. call[f] = "owed" /\ call'[f] = "served" /\ slot[holds[f]] = "kept"
        BY <2>1, <2>3, <3>1
      <4>2. holds[f] \in Slot /\ mem[holds[f]] = Want[ReqOf[f]]
        BY <4>1, <1>b DEF HasSlot, Asks
      <4> QED BY <2>1, <3>1, <4>1, <4>2 DEF SnapshotOf, IdOf
    <3>2. CASE g # f
      BY <2>1, <2>3, <3>2 DEF Asks, RunsWhatWasAsked, SnapshotOf, IdOf
    <3> QED BY <3>1, <3>2
  <2>4. ASSUME NEW g \in Fork, call'[g] = "owed", slot'[holds'[g]] = "kept"
        PROVE  mem'[holds'[g]] = Want[ReqOf[g]]
    BY <1>a, <1>b, <2>1, <2>4 DEF Asks, HasSlot
  <2>5. /\ \A g \in Fork : call'[g] = "own" /\ proc'[holds'[g]] = "paused" => mem'[holds'[g]] = Want[ReqOf[g]]
        /\ \A g \in Fork : pc'[g] = "loaded" => coldMem'[g] = Want[ReqOf[g]]
    BY <2>1 DEF Asks
  <2> QED BY <2>2, <2>3, <2>4, <2>5 DEF Asks, RunsWhatWasAsked
<1>4. ASSUME NEW f \in Fork, ForkOne(f) \/ ColdStep(f) \/ Publish(f) \/ ColdProcessKilled(f)
      PROVE  Loads' /\ Asks'
  <2>1. UNCHANGED warmVars /\ \A g \in Fork : IdOf(g)' = IdOf(g)
    BY <1>4 DEF ForkOne, ColdStep, ColdStart, ColdStartFails, ColdLoad, ColdResume, ColdLoadAndResume,
       ColdLoadFails, ColdResumeFails, Publish, ColdProcessKilled, warmVars, IdOf
  <2>2. /\ \A g \in Fork : g # f => pc'[g] = pc[g] /\ coldMem'[g] = coldMem[g]
        /\ pc'[f] \in {"loaded", "publish", "done"} =>
             \/ pc[f] \in {"loaded", "publish", "done"} /\ coldMem'[f] = coldMem[f]
                /\ (pc'[f] = "loaded" => pc[f] = "loaded")
                /\ (pc[f] = "loaded" /\ pc'[f] # "loaded" => call[f] # "served")
             \/ call[f] # "served" /\ coldMem'[f] = Want[ReqOf[f]]
    BY <1>4, <1>a DEF ForkOne, ColdStep, ColdStart, ColdStartFails, ColdLoad, ColdResume, ColdLoadAndResume,
       ColdLoadFails, ColdResumeFails, Publish, ColdProcessKilled, Go, coldVars, CallProgress, Cold!Launch,
       Cold!LoadSnapshot, Cold!ResumeVm, Cold!LoadAndResume, Cold!KillAndRemove, Cold!KillWaitAndRemove,
       Cold!KilledByContext
  <2>3. ASSUME NEW g \in Fork, pc'[g] \in {"publish", "done"} PROVE SnapshotOf(IdOf(g))' = Want[ReqOf[g]]
    <3>1. IdOf(g) \in Slot \/ (IdOf(g) = g /\ g \notin Slot /\ call[g] # "served")
      BY IdsTyped, ForkAssumption DEF IdOf
    <3>2. CASE IdOf(g) \in Slot
      <4>1. call[g] = "served" /\ pc[g] \in {"publish", "done"}
        BY <2>2, <2>3, <3>2, IdsTyped
      <4> QED BY <2>1, <3>2, <4>1 DEF Asks, RunsWhatWasAsked, SnapshotOf, warmVars
    <3>3. CASE IdOf(g) = g /\ g \notin Slot
      <4>1. SnapshotOf(IdOf(g))' = coldMem'[g]
        BY <2>1, <3>3 DEF SnapshotOf
      <4>2. pc[g] \in {"publish", "done"} => coldMem[g] = Want[ReqOf[g]]
        BY <3>3 DEF Asks, RunsWhatWasAsked, SnapshotOf
      <4> QED BY <2>2, <2>3, <4>1, <4>2 DEF Asks
    <3> QED BY <3>1, <3>2, <3>3
  <2>4. \A g \in Fork : pc'[g] = "loaded" => coldMem'[g] = Want[ReqOf[g]]
    BY <2>2 DEF Asks
  <2> QED BY <2>1, <2>3, <2>4 DEF Loads, Asks, RunsWhatWasAsked, warmVars
<1>5. ASSUME NEW i \in Id, TearsDown(i) PROVE Loads' /\ Asks'
  <2>1. UNCHANGED <<mem, coldMem, preload>>
    BY <1>5 DEF TearsDown, ReleaseTearsDown, ShutdownTearsDown, TearDown, W!KeptReleased, W!FC!KillWaitAndRemove,
       Cold!KillWaitAndRemove, warmVars, coldVars, W!poolVars
  <2>2. /\ UNCHANGED <<call, holds, pc>>
        /\ \A s \in Slot : /\ proc'[s] = "paused" => proc[s] = "paused"
                           /\ slot'[s] # slot[s] => slot'[s] = "gone"
    BY <1>5, <1>a, Departures
       DEF TearsDown, ReleaseTearsDown, ShutdownTearsDown, TearDown, W!KeptReleased, W!FC!KillWaitAndRemove
  <2>3. Frame
    BY <2>1, <2>2 DEF Frame
  <2> QED BY <1>d, <2>1, <2>2, <2>3 DEF Loads
<1> QED BY <1>1, <1>2, <1>3, <1>4, <1>5, Cases

(* The snapshot a request names is the one its VMs run, cold or warm: a VM *)
(* that is published or about to be holds it, provided the pool is not     *)
(* preloaded with another.                                                 *)
THEOREM EachRunsWhatWasAsked == ASSUME Agreed PROVE Spec => []RunsWhatWasAsked
<1>1. Init => Loads /\ Asks
  BY DEF Init, Loads, Asks, RunsWhatWasAsked, W!Init, W!FC!FcInit
<1>2. IndInv /\ (Loads /\ Asks) /\ [Next]_vars => (Loads /\ Asks)'
  BY AskStep
<1>3. Loads /\ Asks => RunsWhatWasAsked
  BY DEF Asks
<1> QED BY <1>1, <1>2, <1>3, IndInvHolds, PTL DEF Spec
=============================================================================
