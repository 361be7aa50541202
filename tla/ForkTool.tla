------------------------------ MODULE ForkTool ------------------------------
(***************************************************************************)
(* The processes that drive a Pool, from its construction to their exit:   *)
(*   cmd/fork makes one Fork call, holds the forks and takes them down;    *)
(*   firefork-server calls Fork and Release in any order and Shutdown at   *)
(*   the end (see ForkServer for its handlers), and then main returns;     *)
(*   cmd/bench does one trial (a Pool, one Fork call, the deferred         *)
(*   Shutdown) and lives on, for the next trial, with a Pool of its own.   *)
(* When a process is gone its goroutines are, those of os/exec that kill a *)
(* child with its context included; the children stay as they are.         *)
(***************************************************************************)
EXTENDS ForkPool

VARIABLE main      \* "server", "bench", or the progress of cmd/fork
toolVars == <<vars, main>>

(* "start": flags, sweep and registry.  "warming": the warm pool is built. *)
(* "server" begins when the flags and the registry have been accepted.     *)
(* "aborted": os.Exit, which runs no deferred call.  "down": the server's  *)
(* main has returned, or the bench is over.                                *)
MainState == {"server", "bench", "start", "warming", "ready", "forking", "holding",
              "stopping", "exited", "aborted", "down"}
Gone == main \in {"exited", "aborted", "down"}

ToolInit == Init /\ main \in {"server", "bench", "start"}

MainGoes(from, to) == main = from /\ main' = to

(***************************************************************************)
(* cmd/fork up to its Fork call                                            *)
(***************************************************************************)

(* Bad flags, no registry, no such template, no memfile.                   *)
ToolRefused ==
  /\ MainGoes("start", "aborted")
  /\ UNCHANGED vars

ToolStarts ==
  /\ MainGoes("start", IF pool = "none" THEN "ready" ELSE "warming")
  /\ UNCHANGED vars

ToolWarmPool ==
  /\ MainGoes("warming", "ready")
  /\ WithWarmPool

(* The constructor fails, perhaps for a SIGINT or after 30 s.              *)
ToolWarmPoolFails ==
  /\ MainGoes("warming", "aborted")
  /\ build = "failed"
  /\ UNCHANGED vars

ToolForks(r) ==
  /\ MainGoes("ready", "forking")
  /\ ForkBegin(r)

(***************************************************************************)
(* cmd/fork from the return of Fork on                                     *)
(***************************************************************************)

(* An error of Fork, which a SIGINT or the dispatch timeout is, or not one *)
(* fork: os.Exit, although some forks may be live and the warm pool full.  *)
ToolForkReturns(r) ==
  /\ main = "forking"
  /\ ForkReturn(r)
  /\ main' = IF req'[r] = "ok" /\ (\E f \in Fork : pc[f] = "done") THEN "holding" ELSE "aborted"

(* SIGINT, or the time of --hold is over; the first deferred call cancels  *)
(* the dispatch context.                                                   *)
ToolStops(r) ==
  /\ MainGoes("holding", "stopping")
  /\ req[r] = "ok"
  /\ IF r \in done THEN UNCHANGED warmVars ELSE W!Cancel(r)
  /\ UNCHANGED ownVars

(* The second one is Pool.Shutdown.                                        *)
ToolShutdown ==
  /\ main = "stopping"
  /\ ShutdownBegin \/ ShutdownStep
  /\ UNCHANGED main
(* Mutant: os.Exit at the end, too.                                        *)
ToolExitsAtOnce ==
  /\ MainGoes("stopping", "exited")
  /\ UNCHANGED vars

ToolExits ==
  /\ MainGoes("stopping", "exited")
  /\ stop = "done"
  /\ UNCHANGED vars

(***************************************************************************)
(* firefork-server                                                         *)
(***************************************************************************)

(* main waits for the warm pool, the requests come after it, then Shutdown. *)
ServerStep ==
  /\ main = "server" /\ UNCHANGED main
  /\ \/ WithWarmPool
     \/ \E r \in Request : ForkBegin(r) \/ ForkReturn(r)
     \/ \E i \in Id : Release(i) \/ ReleaseTearsDown(i)
     \/ ShutdownBegin \/ ShutdownStep

(* The warm pool could not be built: os.Exit before the server listens.    *)
ServerAborts ==
  /\ MainGoes("server", "aborted")
  /\ pool = "unset" /\ build = "failed"
  /\ UNCHANGED vars

(* main returns as soon as Pool.Shutdown has, whatever is in flight.       *)
ServerReturns ==
  /\ MainGoes("server", "down")
  /\ stop = "done"
  /\ UNCHANGED vars

(***************************************************************************)
(* A trial of cmd/bench                                                    *)
(***************************************************************************)

(* One Fork call; then Shutdown, which is deferred.                        *)
BenchStep ==
  /\ main = "bench" /\ UNCHANGED main
  /\ \/ WithWarmPool
     \/ \E r \in Request :
          \/ (\A q \in Request : req[q] = "new") /\ ForkBegin(r)
          \/ ForkReturn(r)
          \/ req[r] \in {"ok", "error"} /\ ShutdownBegin
     \/ ShutdownStep

(* After the last trial, a write error, the bench's timeout or a SIGINT,   *)
(* which runMode looks for between trials.                                 *)
BenchExits ==
  /\ MainGoes("bench", "down")
  /\ stop = "done" \/ (pool = "unset" /\ build = "failed")
  /\ UNCHANGED vars

(***************************************************************************)
(* What goes on beside main, in any process                                *)
(***************************************************************************)
Alive == main \notin {"start", "exited", "aborted", "down"} /\ UNCHANGED main

Goroutine ==
  /\ Alive
  /\ WarmBackground \/ \E f \in Fork : ForkStep(f) \/ ColdProcessKilled(f)

(* The 30 s of the constructor, the dispatch timeout, the cancellations    *)
(* deferred in a handler, the timeout of the bench.                        *)
ContextEnds == Alive /\ Cancel

(***************************************************************************)
(* Specification                                                           *)
(***************************************************************************)
ToolStep ==
  \/ ToolRefused \/ ToolStarts \/ ToolWarmPool \/ ToolWarmPoolFails
  \/ \E r \in Request : ToolForks(r) \/ ToolForkReturns(r) \/ ToolStops(r)
  \/ ToolShutdown \/ ToolExits

ToolNext ==
  \/ ToolStep
  \/ ServerStep \/ ServerAborts \/ ServerReturns
  \/ BenchStep \/ BenchExits
  \/ Goroutine \/ ContextEnds

(* forkOne's calls all return (5 s for the socket, 5 s for an API call), a *)
(* context with a deadline is done at last, os/exec kills the process of a *)
(* context that is done, and a teardown that has begun goes on, all that   *)
(* while the process is there.  main does not stop between its last calls. *)
(* Nobody is obliged to call Fork or Release, to interrupt the server or   *)
(* cmd/fork, or to end the bench.                                          *)
ToolFairness ==
  /\ WF_toolVars(Alive /\ WarmBackground /\ W!BuildStep)
  /\ \A s \in Slot : WF_toolVars(Alive /\ WarmBackground /\ W!SpawnStep(s))
                     /\ WF_toolVars(Alive /\ WarmBackground /\ W!RefillStep(s))
  /\ \A f \in Fork : WF_toolVars(Alive /\ ForkStep(f)) /\ WF_toolVars(Alive /\ ColdProcessKilled(f))
  /\ \A r \in Request : WF_toolVars(((ServerStep \/ BenchStep) /\ ForkReturn(r)) \/ ToolForkReturns(r))
                        /\ WF_toolVars(req[r] \in {"ok", "error"} /\ ContextEnds /\ r \in done')
  /\ \A i \in Id : WF_toolVars(ServerStep /\ ReleaseTearsDown(i))
  /\ WF_toolVars((ServerStep /\ ShutdownStep) \/ ServerReturns)
  /\ WF_toolVars(BenchStep /\ (ShutdownBegin \/ ShutdownStep))
  /\ WF_toolVars(ToolShutdown \/ ToolExits)

ToolSpec == ToolInit /\ [][ToolNext]_toolVars /\ ToolFairness

(***************************************************************************)
(* Properties                                                              *)
(***************************************************************************)

(* Every goroutine that spawns a slot comes to an end, the slot published  *)
(* or torn down, unless the process ends first; and one that Close         *)
(* overtakes, whichever of its steps Close came between, ends with its     *)
(* process killed and its slot nowhere.                                    *)
RefillEnds ==
  \A s \in Slot :
    /\ pool # "none" /\ main # "start" /\ slot[s] \in W!Refilling
         ~> slot[s] \notin W!Refilling \/ Gone
    /\ closed /\ slot[s] \in W!Refilling
         ~> (slot[s] = "gone" /\ proc[s] \notin W!FC!Alive) \/ Gone

(* Fork returns, whatever the pool, the host and the context do, unless    *)
(* the server exits beside a call that its drain did not wait for.         *)
ForkReturns ==
  \A r \in Request : req[r] = "running" ~> req[r] \in {"ok", "error"} \/ Gone

(* No process stays behind a fork that failed.                             *)
FailedForksEnd ==
  \A f \in Fork : pc[f] = "failed" ~> coldProc[f] \notin Cold!Alive \/ Gone

(* The processes of a trial of cmd/bench end while the bench goes on: once *)
(* the Fork call is over every one of them is killed at last and none      *)
(* comes after, those of refills that Shutdown overtakes and of forks that *)
(* failed included, unless the bench exits first.  The server, once        *)
(* Shutdown has begun, and a cmd/fork that was told to stop do exit, so    *)
(* that they end no more than what ExitIsClean says.                       *)
ShutdownEnds ==
  /\ \A r \in Request :
       main = "bench" /\ req[r] \in {"ok", "error"} ~> [](NothingRuns \/ Gone)
  /\ main = "server" /\ stop # "no" ~> Gone
  /\ main = "stopping" ~> main = "exited"

(* When Shutdown has returned, in the server, in the bench or at the end   *)
(* of cmd/fork, nothing runs but the process of a refill, of a Release of  *)
(* the server, or of a cold fork that failed, whose goroutine has yet to   *)
(* kill it; if the process exits now, it stays.  A server or a cmd/fork    *)
(* that fails before any Fork call leaves nothing at all.                  *)
AbortIsClean == main = "aborted" /\ (\A r \in Request : req[r] = "new") => NothingRuns
ExitIsClean ==
  /\ DrainedShutdown
  /\ main = "exited" \/ (main = "bench" /\ stop = "done") => OnlyUnfinished /\ doomed = {}
  /\ AbortIsClean

(* The inductive invariant behind ExitIsClean: how many Fork calls there   *)
(* have been, and what has become of them.                                 *)
ToolProgress ==
  /\ main \in MainState
  /\ main \notin {"server", "down"} => doomed = {}
  /\ main \in {"start", "warming", "ready"} \/ pool = "unset" => \A r \in Request : req[r] = "new"
  /\ main = "start" => \A s \in Slot : proc[s] = "none"
  /\ main = "forking" => \A q, r \in Request : req[q] = "running" /\ req[r] = "running" => q = r
  /\ main = "bench" => \A q, r \in Request : req[q] # "new" /\ req[r] # "new" => q = r
  /\ main \in {"holding", "stopping", "exited"} \/ (main = "bench" /\ stop # "no") =>
       \A r \in Request : req[r] # "running"
  /\ main \notin {"server", "bench", "stopping", "exited", "down"} => stop = "no"
  /\ main \in {"bench", "stopping", "exited"} /\ stop # "no" => live = {}
  /\ main = "exited" => stop = "done"
ToolInv == IndInv /\ ToolProgress /\ AbortIsClean
=============================================================================
