--------------------------- MODULE ForkTool_proofs ---------------------------
(***************************************************************************)
(* Proofs about ForkTool, for every number of slots, forks and requests:   *)
(* what drives a Pool does so within the specification of the Pool, so     *)
(* what is proved of it (module ForkPool_proofs) holds in the server, in   *)
(* cmd/bench and in cmd/fork; and what each leaves behind.                 *)
(***************************************************************************)
EXTENDS ForkTool, ForkPool_proofs

(* Every step of the processes is one of the Pool, or none at all.         *)
LEMMA PoolMoves == [ToolNext]_toolVars => [Next]_vars
<1> SUFFICES ASSUME [ToolNext]_toolVars PROVE Next \/ UNCHANGED vars
  OBVIOUS
<1>1. ASSUME ServerStep \/ BenchStep PROVE Next
  BY <1>1 DEF ServerStep, BenchStep, Next
<1>2. ASSUME NEW r \in Request, ToolForks(r) \/ ToolForkReturns(r) PROVE Next
  BY <1>2 DEF ToolForks, ToolForkReturns, Next
<1>3. ASSUME NEW r \in Request, ToolStops(r) PROVE Next \/ UNCHANGED vars
  BY <1>3 DEF ToolStops, Next, Cancel, vars
<1>4. ASSUME ToolWarmPool \/ ToolShutdown PROVE Next
  BY <1>4 DEF ToolWarmPool, ToolShutdown, Next
<1>5. ASSUME \/ ToolRefused \/ ToolStarts \/ ToolWarmPoolFails \/ ToolExits
             \/ ServerAborts \/ ServerReturns \/ BenchExits
             \/ UNCHANGED toolVars
      PROVE  UNCHANGED vars
  BY <1>5 DEF ToolRefused, ToolStarts, ToolWarmPoolFails, ToolExits, ServerAborts, ServerReturns, BenchExits,
     toolVars
<1>6. ASSUME Goroutine \/ ContextEnds PROVE Next
  BY <1>6 DEF Goroutine, ContextEnds, Next
<1> QED BY <1>1, <1>2, <1>3, <1>4, <1>5, <1>6 DEF ToolNext, ToolStep

(* Every behaviour of the server, of a trial of cmd/bench or of cmd/fork   *)
(* is one of the Pool (cmd/firefork-server/main.go:114-193,                *)
(* cmd/bench/main.go:284-428, cmd/fork/main.go:37-241): the theorems of    *)
(* ForkPool_proofs hold of the Pool inside it.                             *)
THEOREM ToolRunsPool == ToolSpec => Spec
<1>1. ToolInit => Init
  BY DEF ToolInit
<1> QED BY <1>1, PoolMoves, PTL DEF ToolSpec, Spec

(***************************************************************************)
(* What main has done                                                      *)
(***************************************************************************)

(* What goes on beside main starts no call and moves no fork out of        *)
(* p.live.                                                                 *)
LEMMA BesideMain ==
  ASSUME Goroutine \/ ContextEnds
  PROVE  /\ main' = main /\ main \notin {"start", "exited", "aborted", "down"}
         /\ UNCHANGED <<doomed, stop, req, pool>>
         /\ live' = live \/ \E f \in Fork : pc[f] = "publish"
<1>1. ASSUME Cancel \/ WarmBackground PROVE UNCHANGED <<doomed, stop, req, pool, live>>
  <2>1. UNCHANGED ownVars
    BY <1>1 DEF WarmBackground, Cancel
  <2> QED BY <2>1 DEF ownVars, liveVars
<1>2. ASSUME NEW f \in Fork, Alive, ForkStep(f) \/ ColdProcessKilled(f)
      PROVE  /\ UNCHANGED <<doomed, stop, req, pool>>
             /\ live' = live \/ pc[f] = "publish"
  <2>1. CASE WarmStep(f)
    BY <2>1 DEF WarmStep, ownVars, liveVars
  <2>2. CASE Publish(f)
    BY <2>2 DEF Publish, Go
  <2>3. CASE ~(WarmStep(f) \/ Publish(f))
    BY <1>2, <2>3 DEF ForkStep, ForkOne, WarmRefill, WarmMiss, ColdStart, ColdStartFails, ColdLoad,
       ColdResume, ColdLoadAndResume, ColdLoadFails, ColdResumeFails, ColdProcessKilled, liveVars
  <2> QED BY <2>1, <2>2, <2>3
<1> QED BY <1>1, <1>2 DEF Goroutine, ContextEnds, Alive

(* No goroutine has anything to publish when no Fork call is under way.    *)
LEMMA NothingToPublish ==
  ASSUME IndInv, \A r \in Request : req[r] # "running"
  PROVE  \A f \in Fork : pc[f] \in {"new", "done", "failed"}
BY ForkAssumption DEF IndInv, TypeOK, CallersWait, Ended

(* Before the first Fork call there is no cold fork, and none to release.  *)
LEMMA NothingKnown ==
  ASSUME IndInv, \A r \in Request : req[r] = "new"
  PROVE  doomed = {}
<1>1. \A f \in Fork : pc[f] # "done"
  BY ForkAssumption DEF IndInv, CallersWait
<1> QED BY <1>1 DEF IndInv, MapsAgree, Known

LEMMA NothingCold ==
  ASSUME IndInv, \A r \in Request : req[r] = "new"
  PROVE  \A f \in Fork : coldProc[f] \notin Cold!Alive
BY ForkAssumption DEF IndInv, CallersWait, ColdProgress, Cold!Alive

LEMMA ProgressInit == ToolInit => ToolProgress
BY DEF ToolInit, Init, ToolProgress, MainState, W!Init, W!FC!FcInit

LEMMA ProgressStep == IndInv /\ ToolProgress /\ [ToolNext]_toolVars => ToolProgress'
<1> SUFFICES ASSUME IndInv, ToolProgress, [ToolNext]_toolVars PROVE ToolProgress'
  OBVIOUS
<1>a. /\ req \in [Request -> {"new", "running", "ok", "error"}]
      /\ stop # "no" => pool # "unset"
      /\ pool = "unset" => \A r \in Request : req[r] = "new"
      /\ victims # {} => stop # "no"
  BY DEF IndInv, TypeOK, ShutdownProgress, MapsAgree, ToolProgress
<1>b. pool = "unset" => doomed = {}
  BY <1>a, NothingKnown
(* What a call of the Pool does to the variables of ToolProgress.          *)
<1>c. ASSUME NEW r \in Request, ForkBegin(r)
      PROVE  /\ UNCHANGED <<pool, doomed, live, stop>> /\ pool # "unset" /\ stop = "no"
             /\ req[r] = "new" /\ req' = [req EXCEPT ![r] = "running"]
  BY <1>c DEF ForkBegin, liveVars
<1>d. ASSUME NEW r \in Request, ForkReturn(r)
      PROVE  /\ UNCHANGED <<pool, doomed, live, stop>> /\ pool # "unset"
             /\ req[r] = "running" /\ \E v \in {"ok", "error"} : req' = [req EXCEPT ![r] = v]
  BY <1>a, <1>d DEF ForkReturn, liveVars
<1>e. ASSUME WithWarmPool
      PROVE  UNCHANGED <<doomed, live, stop, req>> /\ pool' = "attached" /\ stop = "no"
  BY <1>a, <1>e DEF WithWarmPool, liveVars
<1>f. ASSUME ShutdownBegin \/ ShutdownStep
      PROVE  /\ UNCHANGED <<doomed, req>> /\ pool' # "unset" /\ (live' = live \/ live' = {})
             /\ ShutdownBegin => live' = {}
             /\ ShutdownStep => live' = live /\ stop # "no"
  <2>1. CASE ShutdownBegin
    BY <2>1 DEF ShutdownBegin, ShutdownStep, ShutdownEnd, ShutdownTearsDown
  <2>2. CASE ShutdownStep
    BY <2>2, <1>a DEF ShutdownBegin, ShutdownStep, ShutdownEnd, ShutdownTearsDown, liveVars
  <2> QED BY <1>f, <2>1, <2>2
<1>1. CASE ServerStep
  <2>1. main = "server" /\ main' = main
    BY <1>1 DEF ServerStep
  <2>2. pool' = "unset" => \A r \in Request : req'[r] = "new"
    <3>1. ASSUME NEW i \in Id, Release(i) \/ ReleaseTearsDown(i) PROVE UNCHANGED <<pool, req>>
      BY <3>1 DEF Release, ReleaseTearsDown
    <3> QED BY <1>1, <1>a, <1>c, <1>d, <1>e, <1>f, <3>1 DEF ServerStep
  <2> QED BY <2>1, <2>2 DEF ToolProgress, MainState
<1>2. CASE \/ ToolRefused \/ ToolStarts \/ ToolWarmPoolFails \/ ToolExits
           \/ ServerAborts \/ ServerReturns \/ BenchExits \/ UNCHANGED toolVars
  <2>1. UNCHANGED <<doomed, live, req, stop, pool, proc>>
    BY <1>2 DEF ToolRefused, ToolStarts, ToolWarmPoolFails, ToolExits, ServerAborts, ServerReturns, BenchExits,
       toolVars, vars, warmVars, ownVars, liveVars
  <2>2. CASE ServerAborts
    BY <2>1, <2>2, <1>a, <1>b DEF ServerAborts, MainGoes, ToolProgress, MainState
  <2>3. CASE ServerReturns \/ BenchExits
    BY <2>1, <2>3 DEF ServerReturns, BenchExits, MainGoes, ToolProgress, MainState
  <2>4. CASE ToolRefused \/ ToolStarts \/ ToolWarmPoolFails \/ ToolExits \/ UNCHANGED toolVars
    BY <2>1, <2>4 DEF ToolProgress, MainState, MainGoes, ToolRefused, ToolStarts, ToolWarmPoolFails,
       ToolExits, toolVars
  <2> QED BY <1>2, <2>2, <2>3, <2>4
<1>3. CASE ToolWarmPool
  BY <1>3, <1>e DEF ToolWarmPool, ToolProgress, MainState, MainGoes
<1>4. ASSUME NEW r \in Request, ToolForks(r) PROVE ToolProgress'
  BY <1>4, <1>a, <1>c DEF ToolForks, ToolProgress, MainState, MainGoes
<1>5. ASSUME NEW r \in Request, ToolForkReturns(r) PROVE ToolProgress'
  BY <1>5, <1>a, <1>d DEF ToolForkReturns, ToolProgress, MainState
<1>6. ASSUME NEW r \in Request, ToolStops(r) PROVE ToolProgress'
  BY <1>6 DEF ToolStops, ToolProgress, MainState, MainGoes, ownVars, liveVars
<1>7. CASE ToolShutdown
  <2>1. main = "stopping" /\ main' = main /\ UNCHANGED <<doomed, req>> /\ pool' # "unset"
    BY <1>7, <1>f DEF ToolShutdown
  <2>2. live' = {}
    BY <1>7, <1>f DEF ToolShutdown, ToolProgress
  <2> QED BY <2>1, <2>2 DEF ToolProgress
<1>8. CASE BenchStep
  <2>1. main = "bench" /\ main' = main
    BY <1>8 DEF BenchStep
  <2>2. CASE WithWarmPool
    BY <2>1, <2>2, <1>e DEF ToolProgress
  <2>3. ASSUME NEW r \in Request, ForkBegin(r), \A q \in Request : req[q] = "new" PROVE ToolProgress'
    BY <2>1, <2>3, <1>a, <1>c DEF ToolProgress
  <2>4. ASSUME NEW r \in Request, ForkReturn(r) PROVE ToolProgress'
    BY <2>1, <2>4, <1>a, <1>d DEF ToolProgress
  <2>5. ASSUME NEW r \in Request, req[r] \in {"ok", "error"}, ShutdownBegin PROVE ToolProgress'
    <3>1. \A q \in Request : req[q] # "running"
      BY <2>1, <2>5 DEF ToolProgress
    <3> QED BY <2>1, <2>5, <3>1, <1>f DEF ToolProgress
  <2>6. CASE ShutdownStep
    BY <2>1, <2>6, <1>f DEF ToolProgress
  <2> QED BY <1>8, <2>2, <2>3, <2>4, <2>5, <2>6 DEF BenchStep
<1>9. CASE Goroutine \/ ContextEnds
  <2>1. main \in {"stopping", "exited"} \/ (main = "bench" /\ stop # "no") => live' = live
    BY <1>9, BesideMain, NothingToPublish DEF ToolProgress
  <2> QED BY <1>9, <2>1, BesideMain DEF ToolProgress
<1> QED BY <1>1, <1>2, <1>3, <1>4, <1>5, <1>6, <1>7, <1>8, <1>9 DEF ToolNext, ToolStep

(***************************************************************************)
(* What the process leaves behind                                          *)
(***************************************************************************)

(* One that fails before any Fork call has started no cold fork, and the   *)
(* warm pool that it waited for took down what it had spawned.             *)
LEMMA AbortStep == IndInv /\ ToolProgress /\ AbortIsClean /\ [ToolNext]_toolVars => AbortIsClean'
<1> SUFFICES ASSUME IndInv, ToolProgress, AbortIsClean, [ToolNext]_toolVars,
                    main' = "aborted", \A r \in Request : req'[r] = "new"
             PROVE  NothingRuns'
  BY DEF AbortIsClean
<1>a. req \in [Request -> {"new", "running", "ok", "error"}]
  BY DEF IndInv, TypeOK
<1>1. CASE ToolRefused \/ ToolWarmPoolFails \/ ServerAborts \/ (main = "aborted" /\ UNCHANGED vars)
  <2>1. UNCHANGED <<proc, coldProc>> /\ \A r \in Request : req[r] = "new"
    BY <1>1 DEF ToolRefused, ToolWarmPoolFails, ServerAborts, vars, warmVars, ownVars, coldVars
  <2>2. \A s \in Slot : proc[s] \notin W!FC!Alive
    <3>1. CASE ToolRefused
      BY <3>1 DEF ToolRefused, MainGoes, ToolProgress, W!FC!Alive
    <3>2. CASE ToolWarmPoolFails \/ ServerAborts
      BY <3>2 DEF ToolWarmPoolFails, ServerAborts, IndInv, PoolField, W!IndInv, W!NoOrphan
    <3>3. CASE main = "aborted"
      BY <3>3, <2>1 DEF AbortIsClean, NothingRuns
    <3> QED BY <3>1, <3>2, <3>3, <1>1
  <2> QED BY <2>1, <2>2, NothingCold DEF NothingRuns
<1>2. CASE Goroutine \/ ContextEnds
  BY <1>2, BesideMain
<1>3. ASSUME NEW r \in Request, ToolForkReturns(r) PROVE FALSE
  BY <1>3, <1>a DEF ToolForkReturns, ForkReturn
<1>4. CASE \/ ServerStep \/ ServerReturns \/ BenchStep \/ BenchExits
           \/ ToolStarts \/ ToolWarmPool \/ ToolShutdown \/ ToolExits
           \/ \E r \in Request : ToolForks(r) \/ ToolStops(r)
  BY <1>4 DEF ServerStep, ServerReturns, BenchStep, BenchExits, ToolStarts, ToolWarmPool, ToolShutdown, ToolExits, ToolForks, ToolStops, MainGoes
<1> QED BY <1>1, <1>2, <1>3, <1>4 DEF ToolNext, ToolStep, toolVars

THEOREM ToolInvHolds == ToolSpec => []ToolInv
<1>1. ToolInit => ToolInv
  BY InitIndInv, ProgressInit DEF ToolInit, ToolInv, AbortIsClean
<1>2. ToolInv /\ [ToolNext]_toolVars => ToolInv'
  BY PoolMoves, StepIndInv, ProgressStep, AbortStep DEF ToolInv
<1> QED BY <1>1, <1>2, PTL DEF ToolSpec

(* A Shutdown, in the server, at the end of a trial of cmd/bench or when   *)
(* cmd/fork exits, has left nothing but what goroutines had yet to kill;   *)
(* when the server or cmd/fork fails before any Fork call, no process      *)
(* stays behind (cmd/fork/main.go:88-142, 206-216;                         *)
(* cmd/firefork-server/main.go:137-149; pool.go:319-372).                  *)
THEOREM ToolExitsClean == ToolSpec => []ExitIsClean
<1>1. ToolInv => ExitIsClean
  BY NothingElseRuns, ShutdownLeaves DEF ToolInv, ToolProgress, ExitIsClean
<1> QED BY <1>1, ToolInvHolds, PTL
=============================================================================
