------------------------------ MODULE WarmPool ------------------------------
(***************************************************************************)
(* internal/fork/warmpool.go: the pool of pre-spawned Firecracker          *)
(* processes, from its construction (NewWarmPool, NewUltraWarmPool,        *)
(* Preload) through Take and the background Refill goroutines to Close.    *)
(*                                                                         *)
(* Every slot is created by a goroutine of its own: one of the size        *)
(* goroutines of NewWarmPool, or the goroutine of one Refill call.  The    *)
(* slot's uuid therefore also names that goroutine, and slot[s] is its     *)
(* program counter until the slot is idle, and the slot's place after.     *)
(* The callers are the goroutines that Take a slot (Pool.forkOne): what a  *)
(* caller does to its slot is part of this module, what the Pool does      *)
(* around it is in module ForkPool.                                        *)
(***************************************************************************)
EXTENDS Integers, Sequences, FiniteSets, Functions

CONSTANTS Slot,        \* ids of slots; one per spawnSlot call, ever
          Initial,     \* the slots NewWarmPool spawns: size = Cardinality(Initial)
          Snap, NoSnap,
          UltraSnap,   \* what NewUltraWarmPool is given; NoSnap: NewWarmPool only
          Jailed,      \* WithJailer was given (jailerTemplate # nil)
          Caller,      \* the goroutines that call Take, once each
          NoSlot,
          Ctx,         \* cancellable contexts
          Background,  \* context.Background(): never done
          BuildCtx,    \* the context the constructor is given
          CtxOf,       \* CtxOf[c]: the context of the request c works for
          Faults       \* what the host may do wrong: "mkdir", "exec",
                       \* "socket" (never appears in 5 s), "api"

ASSUME SlotAssumption ==
  /\ IsFiniteSet(Slot)
  /\ Initial \subseteq Slot
  /\ Initial # {}
  /\ NoSlot \notin Slot
ASSUME SnapAssumption == NoSnap \notin Snap /\ UltraSnap \in Snap \cup {NoSnap}
ASSUME CtxAssumption ==
  /\ Background \notin Ctx
  /\ BuildCtx \in Ctx
  /\ CtxOf \in [Caller -> Ctx]
ASSUME CallerAssumption == IsFiniteSet(Caller)
ASSUME JailedAssumption == Jailed \in BOOLEAN
ASSUME FaultsAssumption == Faults \subseteq {"mkdir", "exec", "socket", "api"}

VARIABLES build,       \* progress of the constructor
          idle,        \* p.idle
          closed,      \* p.closed
          preload,     \* p.preload
          refillErrs,  \* p.refillErrs
          backoff,     \* p.lastRefillFailNs is set and less than refillBackoff ago
          slot,        \* slot[s]: see SlotState
          preloaded,   \* the slots whose Preloaded flag is set
          ctx,         \* ctx[s]: the context the goroutine of s runs under
          done,        \* the contexts that are done
          call,        \* call[c]: progress of caller c
          holds,       \* holds[c]: the slot Take gave to c
          proc, mem, dir  \* the processes: see module Firecracker

poolVars == <<idle, closed, preload>>
failVars == <<refillErrs, backoff>>
fcVars == <<proc, mem, dir>>
callVars == <<call, holds>>
vars == <<build, idle, closed, preload, refillErrs, backoff, slot, preloaded,
          ctx, done, call, holds, proc, mem, dir>>

FC == INSTANCE Firecracker WITH Vm <- Slot

(* A slot's goroutine runs spawnSlot ("start", "poll"), then waits for its *)
(* peers in NewWarmPool or looks at the pool in Refill ("spawned"), loads  *)
(* the snapshot ("load"), and is about to append to p.idle ("publish").    *)
(* "preloading" and "unloaded" are idle slots that Preload is working on   *)
(* and has failed on.  "taken": a caller has it; "kept": it became a live  *)
(* fork; "failed": spawnSlot returned an error to NewWarmPool.             *)
Refilling == {"start", "poll", "spawned", "load", "publish"}
Listed == {"idle", "preloading", "unloaded"}
SlotState == Refilling \cup Listed \cup {"none", "failed", "taken", "kept", "gone"}

CallState == {"new", "refused", "drained", "missed", "own", "owed", "served"}
BuildState == {"spawning", "built", "preloading", "open", "failed"}

CtxDone(x) == x \in done

(* A jailed slot's process belongs to the context it was started under.    *)
Severed(s) == Jailed /\ CtxDone(ctx[s])

Init ==
  /\ build = "spawning"
  /\ idle = <<>>
  /\ closed = FALSE
  /\ preload = NoSnap
  /\ refillErrs = 0
  /\ backoff = FALSE
  /\ slot = [s \in Slot |-> IF s \in Initial THEN "start" ELSE "none"]
  /\ preloaded = {}
  /\ ctx = [s \in Slot |-> IF s \in Initial THEN BuildCtx ELSE Background]
  /\ done = {}
  /\ call = [c \in Caller |-> "new"]
  /\ holds = [c \in Caller |-> NoSlot]
  /\ FC!FcInit

(***************************************************************************)
(* spawnSlot and spawnJailedSlot                                           *)
(***************************************************************************)
MoveSlot(s, from, to) ==
  /\ slot[s] = from
  /\ slot' = [slot EXCEPT ![s] = to]

(* spawnSlot's error reaches NewWarmPool's result channel, or Refill, which *)
(* counts it and stamps the failure time.                                  *)
SpawnError(s, from) ==
  IF s \in Initial
  THEN /\ MoveSlot(s, from, "failed")
       /\ UNCHANGED failVars
  ELSE /\ MoveSlot(s, from, "gone")
       /\ refillErrs' = refillErrs + 1
       /\ backoff' = TRUE

(* The directory is made and cmd.Start succeeds.  A jailed process is      *)
(* started under ctx, and os/exec refuses to start under a context that is *)
(* done; an unjailed one is started under context.Background().            *)
SpawnStart(s) ==
  /\ MoveSlot(s, "start", "poll")
  /\ ~Severed(s)
  /\ FC!Launch(s)
  /\ UNCHANGED <<build, poolVars, failVars, preloaded, ctx, done, callVars>>

(* MkPrivateDir fails with nothing on disk, PrepareChroot possibly with a  *)
(* partial chroot that nobody removes.                                     *)
SpawnMkdirFails(s) ==
  /\ "mkdir" \in Faults
  /\ SpawnError(s, "start")
  /\ \E leftover \in (IF Jailed THEN BOOLEAN ELSE {FALSE}) : FC!LaunchFails(s, leftover)
  /\ UNCHANGED <<build, poolVars, preloaded, ctx, done, callVars>>

(* cmd.Start fails: the jailed variant cleans the chroot up, the other one *)
(* returns and leaves its directory.                                       *)
SpawnExecFails(s) ==
  /\ "exec" \in Faults \/ Severed(s)
  /\ SpawnError(s, "start")
  /\ FC!LaunchFails(s, ~Jailed)
  /\ UNCHANGED <<build, poolVars, preloaded, ctx, done, callVars>>

(* os.Stat finds the API socket: spawnSlot returns the slot.               *)
SpawnReady(s) ==
  /\ MoveSlot(s, "poll", "spawned")
  /\ UNCHANGED <<build, poolVars, failVars, preloaded, ctx, done, callVars, fcVars>>
(* Mutant: the error path forgets the process.                             *)
SpawnGivesUpForgets(s) ==
  /\ CtxDone(ctx[s]) \/ "socket" \in Faults
  /\ SpawnError(s, "poll")
  /\ UNCHANGED <<build, poolVars, preloaded, ctx, done, callVars, fcVars>>

(* ctx.Done, or the socket did not appear within 5 s.                      *)
SpawnGivesUp(s) ==
  /\ CtxDone(ctx[s]) \/ "socket" \in Faults
  /\ SpawnError(s, "poll")
  /\ FC!KillAndRemove({s})
  /\ UNCHANGED <<build, poolVars, preloaded, ctx, done, callVars>>

(***************************************************************************)
(* NewWarmPool, Preload, NewUltraWarmPool                                  *)
(***************************************************************************)

(* All size results are in and one is an error: kill the others.           *)
BuildFails ==
  /\ build = "spawning"
  /\ \A s \in Initial : slot[s] \in {"spawned", "failed"}
  /\ \E s \in Initial : slot[s] = "failed"
  /\ build' = "failed"
  /\ slot' = [s \in Slot |-> IF s \in Initial THEN "gone" ELSE slot[s]]
  /\ FC!KillAndRemove({s \in Initial : slot[s] = "spawned"})
  /\ UNCHANGED <<poolVars, failVars, preloaded, ctx, done, callVars>>

(* All size slots are up: publish them, in the order they were received.   *)
(* NewUltraWarmPool goes on to Preload.                                    *)
BuildDone ==
  /\ build = "spawning"
  /\ \A s \in Initial : slot[s] = "spawned"
  /\ build' \in IF UltraSnap = NoSnap THEN {"open"} ELSE {"open", "built"}
  /\ idle' \in Bijection(1 .. Cardinality(Initial), Initial)
  /\ slot' = [s \in Slot |-> IF s \in Initial THEN "idle" ELSE slot[s]]
  /\ UNCHANGED <<closed, preload, failVars, preloaded, ctx, done, callVars, fcVars>>
(* Preload, under mu: remember the snapshot, copy p.idle, start a loader   *)
(* goroutine per slot.                                                     *)
PreloadBegin ==
  /\ build = "built"
  /\ build' = "preloading"
  /\ preload' = UltraSnap
  /\ slot' = [s \in Slot |-> IF s \in Range(idle) THEN "preloading" ELSE slot[s]]
  /\ UNCHANGED <<idle, closed, failVars, preloaded, ctx, done, callVars, fcVars>>

PreloadSlot(s) ==
  /\ MoveSlot(s, "preloading", "idle")
  /\ ~CtxDone(BuildCtx)
  /\ FC!LoadSnapshot(s, preload)
  /\ preloaded' = preloaded \cup {s}
  /\ UNCHANGED <<build, poolVars, failVars, ctx, done, callVars>>

PreloadSlotFails(s) ==
  /\ MoveSlot(s, "preloading", "unloaded")
  /\ CtxDone(BuildCtx) \/ "api" \in Faults \/ proc[s] # "ready"
  /\ UNCHANGED <<build, poolVars, failVars, preloaded, ctx, done, callVars, fcVars>>
(* Mutant: Close kills every slot the pool ever made.                      *)
CloseIdleKillsAll ==
  /\ closed' = TRUE
  /\ idle' = <<>>
  /\ slot' = [s \in Slot |-> IF s \in Range(idle) THEN "gone" ELSE slot[s]]
  /\ FC!KillAndRemove(Slot)
  /\ UNCHANGED preload

(* Close: under mu, kill and remove every idle slot.                       *)
CloseIdle ==
  /\ closed' = TRUE
  /\ idle' = <<>>
  /\ slot' = [s \in Slot |-> IF s \in Range(idle) THEN "gone" ELSE slot[s]]
  /\ FC!KillAndRemove(Range(idle))
  /\ UNCHANGED preload

PreloadEnd ==
  /\ build = "preloading"
  /\ \A s \in Range(idle) : slot[s] # "preloading"
  /\ IF \E s \in Range(idle) : slot[s] = "unloaded"
     THEN build' = "failed" /\ CloseIdle
     ELSE build' = "open" /\ UNCHANGED <<poolVars, slot, fcVars>>
  /\ UNCHANGED <<failVars, preloaded, ctx, done, callVars>>

(***************************************************************************)
(* Take                                                                    *)
(***************************************************************************)
(* Mutant: the slot stays in p.idle.                                       *)
TakeSlotKeeps(c) ==
  LET s == idle[Len(idle)] IN
  /\ build = "open" /\ call[c] = "new"
  /\ ~closed
  /\ idle # <<>>
  /\ slot' = [slot EXCEPT ![s] = "taken"]
  /\ call' = [call EXCEPT ![c] = "own"]
  /\ holds' = [holds EXCEPT ![c] = s]
  /\ UNCHANGED <<build, idle, closed, preload, failVars, preloaded, ctx, done, fcVars>>

TakeSlot(c) ==
  LET s == idle[Len(idle)] IN
  /\ build = "open" /\ call[c] = "new"
  /\ ~closed
  /\ idle # <<>>
  /\ idle' = SubSeq(idle, 1, Len(idle) - 1)
  /\ slot' = [slot EXCEPT ![s] = "taken"]
  /\ call' = [call EXCEPT ![c] = "own"]
  /\ holds' = [holds EXCEPT ![c] = s]
  /\ UNCHANGED <<build, closed, preload, failVars, preloaded, ctx, done, fcVars>>

TakeRefused(c) ==
  /\ build = "open" /\ call[c] = "new"
  /\ closed
  /\ call' = [call EXCEPT ![c] = "refused"]
  /\ UNCHANGED <<build, poolVars, failVars, slot, preloaded, ctx, done, holds, fcVars>>

(* The pool is empty: Take unlocks mu here and only then reads             *)
(* lastRefillFailNs and calls Refill.                                      *)
TakeDrained(c) ==
  /\ build = "open" /\ call[c] = "new"
  /\ ~closed
  /\ idle = <<>>
  /\ call' = [call EXCEPT ![c] = "drained"]
  /\ UNCHANGED <<build, poolVars, failVars, slot, preloaded, ctx, done, holds, fcVars>>

(* Refill(x): a goroutine, and with it a fresh slot id.                    *)
Refill(x) ==
  \E s \in Slot :
    /\ MoveSlot(s, "none", "start")
    /\ ctx' = [ctx EXCEPT ![s] = x]

DrainRefill(c) ==
  /\ call[c] = "drained"
  /\ ~backoff
  /\ Refill(Background)
  /\ call' = [call EXCEPT ![c] = "missed"]
  /\ UNCHANGED <<build, poolVars, failVars, preloaded, done, holds, fcVars>>

DrainSkip(c) ==
  /\ call[c] = "drained"
  /\ backoff
  /\ call' = [call EXCEPT ![c] = "missed"]
  /\ UNCHANGED <<build, poolVars, failVars, slot, preloaded, ctx, done, holds, fcVars>>

(* refillBackoff has passed since the last failure.                        *)
BackoffExpires ==
  /\ backoff
  /\ backoff' = FALSE
  /\ UNCHANGED <<build, poolVars, refillErrs, slot, preloaded, ctx, done, callVars, fcVars>>

(***************************************************************************)
(* The Refill goroutine, once spawnSlot has returned a slot                *)
(***************************************************************************)
(* Mutant: a replacement slot is published without the pool's snapshot.    *)
RefillLooksOnly(s) ==
  /\ s \notin Initial
  /\ ~closed
  /\ MoveSlot(s, "spawned", "publish")
  /\ UNCHANGED <<build, poolVars, failVars, preloaded, ctx, done, callVars, fcVars>>

(* p.preload and p.closed are read in one critical section.                *)
RefillLooks(s) ==
  /\ s \notin Initial
  /\ ~closed
  /\ MoveSlot(s, "spawned", IF preload = NoSnap THEN "publish" ELSE "load")
  /\ UNCHANGED <<build, poolVars, failVars, preloaded, ctx, done, callVars, fcVars>>

RefillFindsClosed(s) ==
  /\ s \notin Initial
  /\ closed
  /\ MoveSlot(s, "spawned", "gone")
  /\ FC!KillAndRemove({s})
  /\ UNCHANGED <<build, poolVars, failVars, preloaded, ctx, done, callVars>>

RefillLoads(s) ==
  /\ MoveSlot(s, "load", "publish")
  /\ ~CtxDone(ctx[s])
  /\ FC!LoadSnapshot(s, preload)
  /\ preloaded' = preloaded \cup {s}
  /\ UNCHANGED <<build, poolVars, failVars, ctx, done, callVars>>
(* Mutants: the failure is not counted; the load is retried for ever.      *)
RefillLoadFailsSilently(s) ==
  /\ MoveSlot(s, "load", "gone")
  /\ CtxDone(ctx[s]) \/ "api" \in Faults \/ proc[s] # "ready"
  /\ FC!KillAndRemove({s})
  /\ UNCHANGED <<build, poolVars, failVars, preloaded, ctx, done, callVars>>
RefillLoadFailsRetries(s) ==
  /\ MoveSlot(s, "load", "spawned")
  /\ CtxDone(ctx[s]) \/ "api" \in Faults \/ proc[s] # "ready"
  /\ UNCHANGED <<build, poolVars, failVars, preloaded, ctx, done, callVars, fcVars>>

RefillLoadFails(s) ==
  /\ MoveSlot(s, "load", "gone")
  /\ CtxDone(ctx[s]) \/ "api" \in Faults \/ proc[s] # "ready"
  /\ refillErrs' = refillErrs + 1
  /\ backoff' = TRUE
  /\ FC!KillAndRemove({s})
  /\ UNCHANGED <<build, poolVars, preloaded, ctx, done, callVars>>
(* Mutant: p.closed is not read again before the append.                   *)
RefillPublishesAlways(s) ==
  /\ MoveSlot(s, "publish", "idle")
  /\ idle' = Append(idle, s)
  /\ UNCHANGED <<build, closed, preload, failVars, preloaded, ctx, done, callVars, fcVars>>

RefillPublishes(s) ==
  /\ MoveSlot(s, "publish", "idle")
  /\ ~closed
  /\ idle' = Append(idle, s)
  /\ UNCHANGED <<build, closed, preload, failVars, preloaded, ctx, done, callVars, fcVars>>

RefillDiscards(s) ==
  /\ MoveSlot(s, "publish", "gone")
  /\ closed
  /\ FC!KillAndRemove({s})
  /\ UNCHANGED <<build, poolVars, failVars, preloaded, ctx, done, callVars>>

(***************************************************************************)
(* What a caller does with the slot it took (Pool.forkOne)                 *)
(***************************************************************************)
BecomesFork(c) ==
  /\ slot' = [slot EXCEPT ![holds[c]] = "kept"]
  /\ call' = [call EXCEPT ![c] = "owed"]

(* fc.ResumeOnSocket on a preloaded slot, or the PATCH that ends            *)
(* fc.RestoreOnSocket on another.                                          *)
OwnerResumes(c) ==
  /\ call[c] = "own"
  /\ ~CtxDone(CtxOf[c])
  /\ FC!ResumeVm(holds[c])
  /\ BecomesFork(c)
  /\ UNCHANGED <<build, poolVars, failVars, preloaded, ctx, done, holds>>

(* The PUT of fc.RestoreOnSocket, with or without resume_vm.               *)
OwnerLoads(c, s) ==
  /\ call[c] = "own"
  /\ holds[c] \notin preloaded
  /\ ~CtxDone(CtxOf[c])
  /\ FC!LoadSnapshot(holds[c], s)
  /\ UNCHANGED <<build, poolVars, failVars, slot, preloaded, ctx, done, callVars>>

OwnerLoadsAndResumes(c, s) ==
  /\ call[c] = "own"
  /\ holds[c] \notin preloaded
  /\ ~CtxDone(CtxOf[c])
  /\ FC!LoadAndResume(holds[c], s)
  /\ BecomesFork(c)
  /\ UNCHANGED <<build, poolVars, failVars, preloaded, ctx, done, holds>>
(* Mutant: the error path forgets the process.                             *)
OwnerFailsForgets(c) ==
  /\ call[c] = "own"
  /\ CtxDone(CtxOf[c]) \/ "api" \in Faults \/ proc[holds[c]] \notin FC!Alive
  /\ slot' = [slot EXCEPT ![holds[c]] = "gone"]
  /\ call' = [call EXCEPT ![c] = "owed"]
  /\ UNCHANGED <<build, poolVars, failVars, preloaded, ctx, done, holds, fcVars>>

(* The chroot could not be prepared or an API call failed.                 *)
OwnerFails(c) ==
  /\ call[c] = "own"
  /\ CtxDone(CtxOf[c]) \/ "api" \in Faults \/ proc[holds[c]] \notin FC!Alive
  /\ slot' = [slot EXCEPT ![holds[c]] = "gone"]
  /\ call' = [call EXCEPT ![c] = "owed"]
  /\ FC!KillAndRemove({holds[c]})
  /\ UNCHANGED <<build, poolVars, failVars, preloaded, ctx, done, holds>>

(* Either way the caller asks for a replacement, under its own context.    *)
OwnerRefills(c) ==
  /\ call[c] = "owed"
  /\ Refill(CtxOf[c])
  /\ call' = [call EXCEPT ![c] = "served"]
  /\ UNCHANGED <<build, poolVars, failVars, preloaded, done, holds, fcVars>>

(* Later the live fork is torn down (Pool.Release, Pool.Shutdown).         *)
KeptReleased(s) ==
  /\ MoveSlot(s, "kept", "gone")
  /\ FC!KillWaitAndRemove(s)
  /\ UNCHANGED <<build, poolVars, failVars, preloaded, ctx, done, callVars>>

(***************************************************************************)
(* Close and the contexts                                                  *)
(***************************************************************************)
Close ==
  /\ build = "open"
  /\ ~closed
  /\ CloseIdle
  /\ UNCHANGED <<build, failVars, preloaded, ctx, done, callVars>>

Cancel(x) ==
  /\ x \in Ctx \ done
  /\ done' = done \cup {x}
  /\ UNCHANGED <<build, poolVars, failVars, slot, preloaded, ctx, callVars, fcVars>>

JailedProcessKilled(s) ==
  /\ Severed(s)
  /\ FC!KilledByContext(s)
  /\ UNCHANGED <<build, poolVars, failVars, slot, preloaded, ctx, done, callVars>>

(***************************************************************************)
(* Specification                                                           *)
(***************************************************************************)
SpawnStep(s) ==
  \/ SpawnStart(s) \/ SpawnMkdirFails(s) \/ SpawnExecFails(s)
  \/ SpawnReady(s) \/ SpawnGivesUp(s)

RefillStep(s) ==
  \/ RefillLooks(s) \/ RefillFindsClosed(s)
  \/ RefillLoads(s) \/ RefillLoadFails(s)
  \/ RefillPublishes(s) \/ RefillDiscards(s)

BuildStep ==
  \/ BuildFails \/ BuildDone \/ PreloadBegin \/ PreloadEnd
  \/ \E s \in Slot : PreloadSlot(s) \/ PreloadSlotFails(s)

CallerStep(c) ==
  \/ TakeSlot(c) \/ TakeRefused(c) \/ TakeDrained(c)
  \/ DrainRefill(c) \/ DrainSkip(c)
  \/ OwnerResumes(c) \/ OwnerFails(c) \/ OwnerRefills(c)
  \/ \E s \in Snap : OwnerLoads(c, s) \/ OwnerLoadsAndResumes(c, s)

Next ==
  \/ BuildStep
  \/ \E s \in Slot : SpawnStep(s) \/ RefillStep(s) \/ KeptReleased(s) \/ JailedProcessKilled(s)
  \/ \E c \in Caller : CallerStep(c)
  \/ BackoffExpires
  \/ Close
  \/ \E x \in Ctx : Cancel(x)

Spec == Init /\ [][Next]_vars

(***************************************************************************)
(* Properties                                                              *)
(***************************************************************************)

(* Every variable has its type.                                            *)
TypeOK ==
  /\ build \in BuildState
  /\ idle \in Seq(Slot)
  /\ closed \in BOOLEAN
  /\ preload \in Snap \cup {NoSnap}
  /\ refillErrs \in Nat
  /\ backoff \in BOOLEAN
  /\ slot \in [Slot -> SlotState]
  /\ preloaded \in SUBSET Slot
  /\ ctx \in [Slot -> Ctx \cup {Background}]
  /\ done \in SUBSET Ctx
  /\ call \in [Caller -> CallState]
  /\ holds \in [Caller -> Slot \cup {NoSlot}]
  /\ FC!FcTypeOK

(* A slot is in one place: it is listed at most once in p.idle, only while *)
(* no caller has it, and no two callers of Take have the same slot.        *)
SingleOwner ==
  /\ IsInjective(idle)
  /\ \A s \in Range(idle) : slot[s] \in Listed
  /\ \A c \in Caller : call[c] = "own" => holds[c] \in Slot /\ slot[holds[c]] = "taken"
  /\ \A c, d \in Caller :
       call[c] = "own" /\ call[d] = "own" /\ c # d => holds[c] # holds[d]

(* What Take hands out: in an ultra-warm pool every idle slot is flagged   *)
(* Preloaded and holds the pool's snapshot, in a warm pool none is, and    *)
(* (unless a jailer's context is done) its process is up in that state.    *)
(* forkOne chooses between resuming and loading by the flag alone.         *)
TakeReady ==
  build = "open" => \A s \in Range(idle) :
    /\ s \in preloaded <=> preload # NoSnap
    /\ s \in preloaded => mem[s] = preload
    /\ ~Severed(s) => proc[s] = IF preload = NoSnap THEN "ready" ELSE "paused"

(* Every running process is in someone's hands: its own goroutine, p.idle, *)
(* a caller, or the Pool that keeps it as a live fork.  No error path of   *)
(* the constructor, of Refill, of Close or of forkOne forgets the process. *)
NoOrphan ==
  \A s \in Slot : proc[s] \in FC!Alive => slot[s] \notin {"none", "start", "failed", "gone"}

(* Every directory on disk is that of a slot in someone's hands, and each  *)
(* such slot has its own, until the slot is torn down.  Two failures leave *)
(* one behind, and no other does: a jailed slot's chroot that was made in  *)
(* part (spawnJailedSlot does not remove it), and the directory of an      *)
(* unjailed one whose process did not start.                               *)
InUse == (Refilling \ {"start"}) \cup Listed \cup {"taken", "kept"}
LeftBehind(s) ==
  /\ slot[s] \in {"failed", "gone"} /\ proc[s] = "none"
  /\ IF Jailed THEN "mkdir" \in Faults ELSE "exec" \in Faults
DirsAccountedFor ==
  \A s \in Slot :
    /\ dir[s] => slot[s] \in InUse \/ LeftBehind(s)
    /\ slot[s] \in InUse => dir[s]

(* A pool never shrinks silently: while it is open, the slots that left it *)
(* and were not replaced are exactly the ones RefillErrors() reports.      *)
DrainRefills == {s \in Slot \ Initial : slot[s] # "none" /\ ctx[s] = Background}
Flight == {s \in Slot : slot[s] \in Refilling}
Owners == {c \in Caller : call[c] \in {"own", "owed"}}
ShrinkIsCounted ==
  build \notin {"spawning", "failed"} /\ ~closed =>
    Len(idle) + Cardinality(Flight) + Cardinality(Owners) + refillErrs
      = Cardinality(Initial) + Cardinality(DrainRefills)

(* Close and the Refill goroutines it races with: nothing is idle in a     *)
(* closed pool, and when no Refill is in flight every process that runs is *)
(* one a caller took.                                                      *)
ClosedHoldsNothing ==
  closed =>
    /\ idle = <<>>
    /\ (\A s \in Slot : slot[s] \notin Refilling) =>
         \A s \in Slot : proc[s] \in FC!Alive => slot[s] \in {"taken", "kept"}

(* A slot that was taken stays its caller's: the pool, whatever it does in *)
(* the background, never touches the process or the directory of a slot a  *)
(* live fork runs in until that fork is released.                          *)
Undisturbed(s) ==
  /\ proc[s] \in FC!Alive /\ ~Severed(s) => proc'[s] = proc[s]
  /\ mem'[s] = mem[s]
  /\ dir'[s] = dir[s]
KeptUndisturbed ==
  [][\A s \in Slot : slot[s] = "kept" /\ slot'[s] = "kept" => Undisturbed(s)]_vars

(***************************************************************************)
(* The inductive invariant behind SingleOwner, TakeReady, NoOrphan,        *)
(* DirsAccountedFor and ClosedHoldsNothing                                 *)
(***************************************************************************)

(* Before the pool is open nobody has called Take, so there is no Refill.  *)
BuildPhases ==
  /\ build \in {"spawning", "built", "preloading"} =>
       ~closed /\ \A s \in Slot \ Initial : slot[s] = "none"
  /\ build # "open" => \A c \in Caller : call[c] = "new"
  /\ build = "spawning" =>
       \A s \in Initial : slot[s] \in {"start", "poll", "spawned", "failed"}
  /\ build # "preloading" => \A s \in Slot : slot[s] \notin {"preloading", "unloaded"}
  /\ build # "spawning" => \A s \in Initial : slot[s] \notin Refilling \cup {"failed", "none"}
  /\ build \in {"spawning", "built"} => preload = NoSnap
  /\ build = "built" => UltraSnap # NoSnap
  /\ build = "preloading" => preload # NoSnap

(* p.idle lists every slot that is idle.                                   *)
ListedIsIdle == \A s \in Slot : slot[s] \in Listed => s \in Range(idle)

(* How far a slot is says whether it is loaded, and with what.             *)
Fresh(s) == s \notin preloaded /\ (~Severed(s) => proc[s] = "ready")
Ready(s) ==
  IF preload = NoSnap
  THEN Fresh(s)
  ELSE s \in preloaded /\ mem[s] = preload /\ (~Severed(s) => proc[s] = "paused")
SlotProgress ==
  \A s \in Slot :
    /\ slot[s] \in {"none", "start"} => s \notin preloaded /\ proc[s] = "none"
    /\ slot[s] \in {"poll", "spawned", "load", "preloading"} => Fresh(s)
    /\ slot[s] = "load" => preload # NoSnap
    /\ slot[s] \in {"publish", "idle"} => Ready(s)

IndInv ==
  /\ TypeOK
  /\ SingleOwner
  /\ NoOrphan
  /\ DirsAccountedFor
  /\ BuildPhases
  /\ ListedIsIdle
  /\ SlotProgress
  /\ ShrinkIsCounted
  /\ closed => idle = <<>>
  /\ build = "spawning" => refillErrs = 0
=============================================================================
