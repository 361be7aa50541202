------------------------------ MODULE ForkPool ------------------------------
(***************************************************************************)
(* internal/fork/pool.go: Pool.Fork and its goroutines (forkOne,           *)
(* forkOneJailed), Release, Live and Shutdown, over the attached WarmPool  *)
(* (module WarmPool, instance W).  The processes of warm forks are those   *)
(* of the warm slots; a cold fork starts a process of its own (instance    *)
(* Cold).  A request is one call of Fork, with the context handleFork      *)
(* derives for it; its goroutines are the forks of that request.           *)
(***************************************************************************)
EXTENDS Integers, Sequences, FiniteSets

CONSTANTS Slot, Initial, Snap, NoSnap, UltraSnap, Jailed, NoSlot,
          BuildCtx, Background, Faults,  \* the warm pool: see module WarmPool
          Fork,        \* the forkOne goroutines; each names its uuid
          Request,     \* the calls of Pool.Fork; each names its context
          ReqOf,       \* ReqOf[f]: the request f belongs to
          Want,        \* Want[r]: req.Snapshot
          ColdJailed,  \* req.Jailer # nil
          Drained      \* Shutdown is called when no Fork call is in flight

ASSUME ForkAssumption ==
  /\ Fork \cap Slot = {}
  /\ ReqOf \in [Fork -> Request]
  /\ Want \in [Request -> Snap]
  /\ BuildCtx \notin Request
  /\ {ColdJailed, Drained} \subseteq BOOLEAN

ASSUME WarmAssumption ==
  /\ IsFiniteSet(Slot) /\ IsFiniteSet(Fork)
  /\ Initial \subseteq Slot /\ Initial # {} /\ NoSlot \notin Slot
  /\ NoSnap \notin Snap /\ UltraSnap \in Snap \cup {NoSnap}
  /\ Background \notin Request \cup {BuildCtx}
  /\ Jailed \in BOOLEAN
  /\ Faults \subseteq {"mkdir", "exec", "socket", "api"}

VARIABLES build, idle, closed, preload, refillErrs, backoff, slot, preloaded,
          ctx, done, call, holds, proc, mem, dir,  \* the warm pool
          pool,        \* p.warmPool: "none" (--warm-pool 0), "unset" (being built),
                       \* "attached", or "detached" by Shutdown
          live,        \* the keys of p.live: slot ids and fork uuids
          doomed,      \* taken out of live by a Release that has yet to kill
          victims,     \* Shutdown's copy of live, what is left of it
          torn,        \* torn down: killed, directory removed (a history)
          stop,        \* progress of Shutdown
          pc,          \* pc[f]: progress of goroutine f
          req,         \* req[r]: progress of the Fork call r
          coldProc, coldMem, coldDir  \* the cold forks' processes

W == INSTANCE WarmPool WITH Caller <- Fork, Ctx <- Request \cup {BuildCtx}, CtxOf <- ReqOf
Cold == INSTANCE Firecracker WITH Vm <- Fork, proc <- coldProc, mem <- coldMem, dir <- coldDir

warmVars == <<build, idle, closed, preload, refillErrs, backoff, slot, preloaded,
              ctx, done, call, holds, proc, mem, dir>>
liveVars == <<live, doomed, victims, torn>>
coldVars == <<coldProc, coldMem, coldDir>>
ownVars == <<pool, liveVars, stop, pc, req, coldVars>>
vars == <<warmVars, ownVars>>

(* "warm": the goroutine saw a pool; call[f] says how far it got with it.  *)
(* "cold": it has no slot.  "booting", "loaded": its own process is up, is *)
(* loaded.  "publish": running, not yet in p.live.                         *)
ForkState == {"new", "warm", "cold", "booting", "loaded", "publish", "done", "failed"}
Id == Slot \cup Fork
(* The key f's Result has in p.live.                                       *)
IdOf(f) == IF call[f] = "served" THEN holds[f] ELSE f
Ended(f) == pc[f] \in {"done", "failed"}

Init ==
  /\ W!Init
  /\ pool \in {"none", "unset"}
  /\ live = {} /\ doomed = {} /\ victims = {} /\ torn = {}
  /\ stop = "no"
  /\ pc = [f \in Fork |-> "new"]
  /\ req = [r \in Request |-> "new"]
  /\ Cold!FcInit

(***************************************************************************)
(* WithWarmPool and the goroutines of the warm pool                        *)
(***************************************************************************)
WithWarmPool ==
  /\ build = "open"
  /\ pool = "unset"
  /\ pool' = "attached"
  /\ UNCHANGED <<warmVars, liveVars, stop, pc, req, coldVars>>

WarmBackground ==
  /\ pool # "none"
  /\ \/ W!BuildStep
     \/ \E s \in Slot : W!SpawnStep(s) \/ W!RefillStep(s) \/ W!JailedProcessKilled(s)
     \/ W!BackoffExpires
  /\ UNCHANGED ownVars

(***************************************************************************)
(* Fork: one goroutine per VM, then wg.Wait and the verdict on the context *)
(***************************************************************************)
ForkBegin(r) ==
  /\ req[r] = "new"
  /\ stop = "no"
  /\ pool # "unset"
  /\ req' = [req EXCEPT ![r] = "running"]
  /\ UNCHANGED <<warmVars, pool, liveVars, stop, pc, coldVars>>
(* Mutant: a goroutine that failed does not call wg.Done.                  *)
ForkReturnOnSuccess(r) ==
  /\ req[r] = "running"
  /\ \A f \in Fork : ReqOf[f] = r => pc[f] = "done"
  /\ req' = [req EXCEPT ![r] = IF r \in done THEN "error" ELSE "ok"]
  /\ UNCHANGED <<warmVars, pool, liveVars, stop, pc, coldVars>>

ForkReturn(r) ==
  /\ req[r] = "running"
  /\ \A f \in Fork : ReqOf[f] = r => Ended(f)
  /\ req' = [req EXCEPT ![r] = IF r \in done THEN "error" ELSE "ok"]
  /\ UNCHANGED <<warmVars, pool, liveVars, stop, pc, coldVars>>

(* A deadline, a client that went away, or the handler's defer cancel().   *)
Cancel ==
  /\ \E x \in Request \cup {BuildCtx} : W!Cancel(x)
  /\ UNCHANGED ownVars

Go(f, from, to) ==
  /\ pc[f] = from
  /\ pc' = [pc EXCEPT ![f] = to]

(* forkOne reads p.warmPool under p.mu.                                    *)
ForkOne(f) ==
  /\ req[ReqOf[f]] = "running"
  /\ Go(f, "new", IF pool = "attached" THEN "warm" ELSE "cold")
  /\ UNCHANGED <<warmVars, pool, liveVars, stop, req, coldVars>>

(***************************************************************************)
(* forkOne, warm path                                                      *)
(***************************************************************************)

(* Take; on the slot it gives, ResumeOnSocket if it is flagged Preloaded,  *)
(* else RestoreOnSocket, with or without CombinedLoadResume; on an error   *)
(* kill and remove.  Refill comes next, see WarmRefill.                    *)
WarmStep(f) ==
  /\ pc[f] = "warm"
  /\ \/ W!TakeSlot(f) \/ W!TakeDrained(f)
     \/ W!OwnerResumes(f) \/ W!OwnerFails(f)
     \/ W!OwnerLoads(f, Want[ReqOf[f]]) \/ W!OwnerLoadsAndResumes(f, Want[ReqOf[f]])
  /\ UNCHANGED ownVars
(* Mutant: the error of the load is dropped.                               *)
WarmRefillPublishes(f) ==
  /\ W!OwnerRefills(f)
  /\ Go(f, "warm", "publish")
  /\ UNCHANGED <<pool, liveVars, stop, req, coldVars>>

(* The slot is consumed either way: wp.Refill(ctx).                        *)
WarmRefill(f) ==
  /\ W!OwnerRefills(f)
  /\ Go(f, "warm", IF slot[holds[f]] = "kept" THEN "publish" ELSE "failed")
  /\ UNCHANGED <<pool, liveVars, stop, req, coldVars>>

(* Pool closed or drained: fall through to the cold path.                  *)
WarmMiss(f) ==
  /\ Go(f, "warm", "cold")
  /\ W!TakeRefused(f) \/ W!DrainRefill(f) \/ W!DrainSkip(f)
  /\ UNCHANGED <<pool, liveVars, stop, req, coldVars>>

(***************************************************************************)
(* forkOne, cold path; forkOneJailed                                       *)
(***************************************************************************)

(* MkPrivateDir or PrepareChroot, then a process under the request's       *)
(* context: exec.CommandContext refuses a context that is done.            *)
ColdStart(f) ==
  /\ Go(f, "cold", "booting")
  /\ ReqOf[f] \notin done
  /\ Cold!Launch(f)
  /\ UNCHANGED <<warmVars, pool, liveVars, stop, req>>

(* Everything up to cmd.Start; the directory is removed again.             *)
ColdStartFails(f) ==
  /\ Go(f, "cold", "failed")
  /\ ReqOf[f] \in done \/ Faults \cap {"mkdir", "exec"} # {}
  /\ UNCHANGED <<warmVars, pool, liveVars, stop, req, coldVars>>
(* Mutants: the VM is published paused; the snapshot is another request's. *)
ColdLoadPublishes(f) ==
  /\ Go(f, "booting", "publish")
  /\ ReqOf[f] \notin done
  /\ Cold!LoadSnapshot(f, Want[ReqOf[f]])
  /\ UNCHANGED <<warmVars, pool, liveVars, stop, req>>
ColdLoadShared(f) ==
  /\ Go(f, "booting", "loaded")
  /\ ReqOf[f] \notin done
  /\ \E r \in Request : Cold!LoadSnapshot(f, Want[r])
  /\ UNCHANGED <<warmVars, pool, liveVars, stop, req>>

ColdLoad(f) ==
  /\ Go(f, "booting", "loaded")
  /\ ReqOf[f] \notin done
  /\ Cold!LoadSnapshot(f, Want[ReqOf[f]])
  /\ UNCHANGED <<warmVars, pool, liveVars, stop, req>>

ColdResume(f) ==
  /\ Go(f, "loaded", "publish")
  /\ ReqOf[f] \notin done
  /\ Cold!ResumeVm(f)
  /\ UNCHANGED <<warmVars, pool, liveVars, stop, req>>

(* forkOneJailed with CombinedLoadResume.                                  *)
ColdLoadAndResume(f) ==
  /\ ColdJailed
  /\ Go(f, "booting", "publish")
  /\ ReqOf[f] \notin done
  /\ Cold!LoadAndResume(f, Want[ReqOf[f]])
  /\ UNCHANGED <<warmVars, pool, liveVars, stop, req>>

CallFails(f) ==
  ReqOf[f] \in done \/ Faults \cap {"socket", "api"} # {} \/ coldProc[f] \notin Cold!Alive

(* The socket did not come up or the snapshot was not loaded.  The jailed  *)
(* variant kills the process (and waits for it if it had a socket);        *)
(* fc.Restore returns the error of m.Start and leaves the process to the   *)
(* SDK, which kills it when the context is done.                           *)
ColdLoadFails(f) ==
  /\ Go(f, "booting", "failed")
  /\ CallFails(f)
  /\ IF ColdJailed
     THEN Cold!KillAndRemove({f}) \/ Cold!KillWaitAndRemove(f)
     ELSE /\ coldDir' = [coldDir EXCEPT ![f] = FALSE]
          /\ UNCHANGED <<coldProc, coldMem>>
  /\ UNCHANGED <<warmVars, pool, liveVars, stop, req>>
(* Mutants: the error path forgets the process; it ends the process only,  *)
(* and leaves the directory.                                               *)
ColdResumeFailsLeaves(f) ==
  /\ Go(f, "loaded", "failed")
  /\ CallFails(f)
  /\ coldProc' = [coldProc EXCEPT ![f] = "reaped"]
  /\ UNCHANGED <<warmVars, pool, liveVars, stop, req, coldMem, coldDir>>
ColdResumeFailsForgets(f) ==
  /\ Go(f, "loaded", "failed")
  /\ CallFails(f)
  /\ UNCHANGED <<warmVars, pool, liveVars, stop, req, coldVars>>

(* ResumeVM failed: StopVMM, or Kill and Wait in the jailed variant.       *)
ColdResumeFails(f) ==
  /\ Go(f, "loaded", "failed")
  /\ CallFails(f)
  /\ Cold!KillWaitAndRemove(f)
  /\ UNCHANGED <<warmVars, pool, liveVars, stop, req>>
(* Mutant: the context of a process is the one of a published fork only.   *)
ColdProcessKilledOnce(f) ==
  /\ ReqOf[f] \in done /\ f \in live
  /\ Cold!KilledByContext(f)
  /\ UNCHANGED <<warmVars, pool, liveVars, stop, pc, req>>

(* The process of a cold fork belongs to the context of its request.       *)
ColdProcessKilled(f) ==
  /\ ReqOf[f] \in done
  /\ Cold!KilledByContext(f)
  /\ UNCHANGED <<warmVars, pool, liveVars, stop, pc, req>>

(***************************************************************************)
(* The live map                                                            *)
(***************************************************************************)
Publish(f) ==
  /\ Go(f, "publish", "done")
  /\ live' = live \cup {IdOf(f)}
  /\ UNCHANGED <<warmVars, pool, doomed, victims, torn, stop, req, coldVars>>

(* Kill, Wait and remove, for a Result of either kind.                     *)
TearDown(i) ==
  /\ torn' = torn \cup {i}
  /\ IF i \in Slot
     THEN W!KeptReleased(i) /\ UNCHANGED coldVars
     ELSE Cold!KillWaitAndRemove(i) /\ UNCHANGED warmVars
(* Mutants: the fork stays in p.live during its teardown; it is deleted and *)
(* not torn down.                                                          *)
ReleaseKeeps(i) ==
  /\ i \in live
  /\ doomed' = doomed \cup {i}
  /\ UNCHANGED <<warmVars, pool, live, victims, torn, stop, pc, req, coldVars>>
ReleaseForgets(i) ==
  /\ i \in live
  /\ live' = live \ {i}
  /\ UNCHANGED <<warmVars, pool, doomed, victims, torn, stop, pc, req, coldVars>>

(* Release, under p.mu; then the teardown outside it.                      *)
Release(i) ==
  /\ i \in live
  /\ live' = live \ {i}
  /\ doomed' = doomed \cup {i}
  /\ UNCHANGED <<warmVars, pool, victims, torn, stop, pc, req, coldVars>>

ReleaseTearsDown(i) ==
  /\ i \in doomed
  /\ doomed' = doomed \ {i}
  /\ TearDown(i)
  /\ UNCHANGED <<pool, live, victims, stop, pc, req>>
(* Mutant: the map is replaced before it is copied.                        *)
ShutdownBeginForgets ==
  /\ stop = "no"
  /\ pool # "unset"
  /\ Drained => \A r \in Request : req[r] # "running"
  /\ stop' = "tearing"
  /\ live' = {}
  /\ pool' = IF pool = "attached" THEN "detached" ELSE pool
  /\ UNCHANGED <<warmVars, doomed, victims, torn, pc, req, coldVars>>

(* Shutdown, under p.mu; then each fork of the old map; then wp.Close.     *)
ShutdownBegin ==
  /\ stop = "no"
  /\ pool # "unset"
  /\ Drained => \A r \in Request : req[r] # "running"
  /\ stop' = "tearing"
  /\ victims' = live
  /\ live' = {}
  /\ pool' = IF pool = "attached" THEN "detached" ELSE pool
  /\ UNCHANGED <<warmVars, doomed, torn, pc, req, coldVars>>

ShutdownTearsDown(i) ==
  /\ i \in victims
  /\ victims' = victims \ {i}
  /\ TearDown(i)
  /\ UNCHANGED <<pool, live, doomed, stop, pc, req>>
(* Mutant: the warm pool is not closed.                                    *)
ShutdownEndForgets ==
  /\ stop = "tearing"
  /\ victims = {}
  /\ stop' = "done"
  /\ UNCHANGED <<warmVars, pool, liveVars, pc, req, coldVars>>

ShutdownEnd ==
  /\ stop = "tearing"
  /\ victims = {}
  /\ stop' = "done"
  /\ IF pool = "detached" THEN W!Close ELSE UNCHANGED warmVars
  /\ UNCHANGED <<pool, liveVars, pc, req, coldVars>>

(***************************************************************************)
(* Specification                                                           *)
(***************************************************************************)
ForkStep(f) ==
  \/ ForkOne(f) \/ WarmStep(f) \/ WarmRefill(f) \/ WarmMiss(f)
  \/ ColdStart(f) \/ ColdStartFails(f) \/ ColdLoad(f) \/ ColdResume(f)
  \/ ColdLoadAndResume(f) \/ ColdLoadFails(f) \/ ColdResumeFails(f)
  \/ Publish(f)

ShutdownStep == ShutdownEnd \/ \E i \in Id : ShutdownTearsDown(i)

Next ==
  \/ WithWarmPool
  \/ WarmBackground
  \/ \E r \in Request : ForkBegin(r) \/ ForkReturn(r)
  \/ \E f \in Fork : ForkStep(f) \/ ColdProcessKilled(f)
  \/ \E i \in Id : Release(i) \/ ReleaseTearsDown(i)
  \/ ShutdownBegin \/ ShutdownStep
  \/ Cancel

Spec == Init /\ [][Next]_vars

(***************************************************************************)
(* Properties                                                              *)
(***************************************************************************)

(* Every variable has its type.                                            *)
TypeOK ==
  /\ W!TypeOK
  /\ pool \in {"none", "unset", "attached", "detached"}
  /\ live \in SUBSET Id /\ doomed \in SUBSET Id
  /\ victims \in SUBSET Id /\ torn \in SUBSET Id
  /\ stop \in {"no", "tearing", "done"}
  /\ pc \in [Fork -> ForkState]
  /\ req \in [Request -> {"new", "running", "ok", "error"}]
  /\ Cold!FcTypeOK

(* The forks that were published and are not torn down.                    *)
Known == live \cup doomed \cup victims

(* A fork that is listed, being released, being shut down or torn down is  *)
(* in one of these places only: Release and Shutdown, racing with each     *)
(* other and with Fork, never tear the same fork down twice.               *)
TornDownOnce ==
  /\ live \cap (doomed \cup victims \cup torn) = {}
  /\ doomed \cap (victims \cup torn) = {}
  /\ victims \cap torn = {}

(* No two goroutines publish the same VM, and none publishes a VM whose    *)
(* slot is the warm pool's again.                                          *)
PublishesItsOwn ==
  /\ \A f, g \in Fork : pc[f] = "publish" /\ pc[g] = "publish" /\ f # g => IdOf(f) # IdOf(g)
  /\ \A f \in Fork : pc[f] = "publish" => IdOf(f) \notin Known \cup torn
  /\ \A i \in Known \cap Slot : slot[i] = "kept"

(* Every process is accounted for: a slot that left the warm pool belongs  *)
(* to a goroutine that has yet to publish it or to one that has yet to     *)
(* tear it down, and so does a cold fork's, unless the goroutine failed    *)
(* and left the process to its context.                                    *)
AccountedFor ==
  /\ \A s \in Slot : slot[s] = "kept" =>
       s \in Known \/ \E f \in Fork : holds[f] = s /\ pc[f] \in {"warm", "publish"}
  /\ \A f \in Fork : coldProc[f] \in Cold!Alive =>
       f \in Known \/ pc[f] \in {"booting", "loaded", "publish"}
       \/ (pc[f] = "failed" /\ ~ColdJailed /\ coldProc[f] = "ready")

(* So is every directory: beside those of the warm pool's slots, there is  *)
(* one for each cold fork that is being made or is in one of the maps, and *)
(* no error path of forkOne or forkOneJailed, nor a Release or Shutdown,   *)
(* leaves one behind.                                                      *)
ColdDirs ==
  \A f \in Fork :
    coldDir[f] <=> \/ f \in Known
                   \/ pc[f] \in {"booting", "loaded"}
                   \/ pc[f] = "publish" /\ call[f] # "served"
DirsAccountedFor == W!DirsAccountedFor /\ ColdDirs

(* What a request gets: a VM that is published or about to be runs the     *)
(* snapshot the request named, when the pool is not preloaded with another.*)
SnapshotOf(i) == IF i \in Slot THEN mem[i] ELSE coldMem[i]
RunsWhatWasAsked ==
  \A f \in Fork : pc[f] \in {"publish", "done"} => SnapshotOf(IdOf(f)) = Want[ReqOf[f]]

(* The forks in Live() run: a warm one until its teardown kills it, a cold *)
(* one until the context of its request is done.                           *)
LiveRuns ==
  /\ ~Jailed => \A i \in live \cap Slot : proc[i] = "running"
  /\ \A f \in live \cap Fork : coldProc[f] = "running" \/ ReqOf[f] \in done

(* The Pool implements ForkLifecycle.                                      *)
ForkIs ==
  [i \in Id |-> CASE i \in live -> "live"
                  [] i \in doomed \cup victims -> "leaving"
                  [] i \in torn -> "gone"
                  [] OTHER -> "absent"]
Lifecycle == INSTANCE ForkLifecycle WITH fork <- ForkIs
ImplementsLifecycle == Lifecycle!Spec

(***************************************************************************)
(* The inductive invariant                                                 *)
(***************************************************************************)

(* How far a goroutine is says what it has asked of the warm pool.         *)
CallProgress ==
  \A f \in Fork :
    /\ pc[f] = "new" => call[f] = "new"
    /\ pc[f] = "warm" => call[f] \in {"new", "drained", "own", "owed"}
    /\ pc[f] \in {"cold", "booting", "loaded"} => call[f] \in {"new", "refused", "missed"}
    /\ pc[f] \in {"publish", "done", "failed"} => call[f] \in {"new", "refused", "missed", "served"}

(* A slot that a goroutine took is its own for ever: no id comes back.  It *)
(* is kept from the resume to the teardown, and while it is, it runs.      *)
HasSlot(f) == call[f] \in {"own", "owed", "served"}
SlotIsOwn ==
  /\ \A f \in Fork : HasSlot(f) => holds[f] \in Slot /\ slot[holds[f]] \in {"taken", "kept", "gone"}
  /\ \A f, g \in Fork : HasSlot(f) /\ HasSlot(g) /\ f # g => holds[f] # holds[g]
  /\ \A f \in Fork : pc[f] = "publish" /\ call[f] = "served" => slot[holds[f]] = "kept"
  /\ \A s \in Slot : slot[s] = "kept" =>
       s \in Known \/ \E f \in Fork : HasSlot(f) /\ holds[f] = s /\ pc[f] \in {"warm", "publish"}
  /\ ~Jailed => \A s \in Slot : slot[s] = "kept" => proc[s] = "running"

(* The maps hold what was published, and all of it, in one place each.     *)
MapsAgree ==
  /\ TornDownOnce
  /\ stop = "no" => victims = {}
  /\ \A i \in Known \cup torn : \E f \in Fork : pc[f] = "done" /\ IdOf(f) = i
  /\ \A f \in Fork : pc[f] = "done" => IdOf(f) \in Known \cup torn
  /\ \A i \in Known \cap Slot : slot[i] = "kept"

(* How far a cold fork is says what its process is.                        *)
ColdProgress ==
  \A f \in Fork :
    /\ pc[f] \in {"new", "warm", "cold"} \/ call[f] = "served" => coldProc[f] = "none"
    /\ pc[f] = "booting" => coldProc[f] \in {"ready", "killed"}
    /\ pc[f] = "loaded" => coldProc[f] \in {"paused", "killed"}
    /\ pc[f] \in {"publish", "done"} /\ call[f] # "served" /\ f \notin torn =>
         coldProc[f] = "running" \/ (coldProc[f] = "killed" /\ ReqOf[f] \in done)
    /\ f \in torn => coldProc[f] = "reaped"
    /\ pc[f] = "failed" => coldProc[f] \notin Cold!Alive \/ (~ColdJailed /\ coldProc[f] = "ready")

(* A goroutine is at work as long as its Fork call is, and a slot that was *)
(* taken belongs to one of them.                                           *)
CallersWait ==
  /\ \A f \in Fork :
       /\ req[ReqOf[f]] = "new" => pc[f] = "new"
       /\ req[ReqOf[f]] \in {"ok", "error"} => Ended(f)
  /\ \A s \in Slot : slot[s] = "taken" => \E f \in Fork : call[f] = "own" /\ holds[f] = s

(* Without a warm pool there are no slots, and one that is attached has    *)
(* been built; one that could not be built has none left.                  *)
PoolField ==
  /\ pool = "none" => \A s \in Slot : slot[s] \in {"none", "start"} /\ proc[s] = "none"
  /\ pool \in {"attached", "detached"} => build = "open"
  /\ \A f \in Fork : pc[f] = "warm" => pool \in {"attached", "detached"}
  /\ build = "failed" => \A s \in Slot : slot[s] \in {"none", "gone"}

(* What Shutdown has done at each step; if it waits for the Fork calls,    *)
(* nothing is published after it.                                          *)
ShutdownProgress ==
  /\ stop # "no" => pool \in {"none", "detached"}
  /\ stop = "done" => victims = {} /\ (pool = "detached" => closed)
  /\ Drained /\ stop # "no" => live = {} /\ \A r \in Request : req[r] # "running"

(* With the invariant of the warm pool, which holds in its place too.      *)
IndInv ==
  /\ TypeOK
  /\ W!IndInv
  /\ CallProgress
  /\ SlotIsOwn
  /\ MapsAgree
  /\ ColdProgress
  /\ ColdDirs
  /\ CallersWait
  /\ PoolField
  /\ ShutdownProgress

(* No process is left but those of goroutines that have yet to end: of a   *)
(* Refill, of a Release, or of a cold fork that failed and is left to its  *)
(* context.                                                                *)
OnlyUnfinished ==
  /\ \A s \in Slot : proc[s] \in W!FC!Alive => slot[s] \in W!Refilling \/ s \in doomed
  /\ \A f \in Fork : coldProc[f] \in Cold!Alive => pc[f] = "failed" \/ f \in doomed

(* So it is after a Shutdown that no Fork call overlaps.                   *)
DrainedShutdown == Drained /\ stop = "done" => OnlyUnfinished

(* No Firecracker process is left.                                         *)
NothingRuns ==
  /\ \A s \in Slot : proc[s] \notin W!FC!Alive
  /\ \A f \in Fork : coldProc[f] \notin Cold!Alive

(***************************************************************************)
(* What the documentation says and the code does not do                    *)
(***************************************************************************)

(* pool.go:381 "Live returns a snapshot of the currently-live forks".      *)
LiveIsUp ==
  /\ \A i \in live \cap Slot : proc[i] \in W!FC!Alive
  /\ \A f \in live \cap Fork : coldProc[f] \in Cold!Alive
=============================================================================
