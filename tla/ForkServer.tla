----------------------------- MODULE ForkServer -----------------------------
(***************************************************************************)
(* cmd/firefork-server/main.go: the HTTP handlers over one Pool, the cache *)
(* of agent secrets, the counters of /v1/metrics, and main's way out: http *)
(* drain, Pool.Shutdown, exit.  The Pool appears by what it promises,      *)
(* module ForkLifecycle (instance Pool), which ForkPool implements.  One   *)
(* template has one secret, so the cached secret is named by its template. *)
(***************************************************************************)
EXTENDS Integers, FiniteSets

CONSTANTS Id,         \* the IDs of the forks that POST /v1/fork can make
          ForkReq, ExecReq, DelReq,  \* the HTTP requests, by handler
          ReqOf,      \* ReqOf[i]: the request that makes fork i
          Template,
          WantOf,     \* WantOf[r]: the template the fork request r names
          Registered, \* the templates in the registry when the server started
          Signed,     \* those of them whose agent holds a secret
          None

ASSUME ServerAssumption ==
  /\ IsFiniteSet(Id) /\ IsFiniteSet(ExecReq) /\ IsFiniteSet(Template)
  /\ ReqOf \in [Id -> ForkReq]
  /\ WantOf \in [ForkReq -> Template]
  /\ Signed \subseteq Registered /\ Registered \subseteq Template
  /\ ForkReq \cap ExecReq = {} /\ ForkReq \cap DelReq = {} /\ ExecReq \cap DelReq = {}
  /\ None \notin Template \cup Id

VARIABLES fork,     \* the Pool: see module ForkLifecycle
          result,   \* result[i]: what forkOne made of i: "none", "up", "error"
          secrets,  \* the templates with a secret in s.secrets
          at,       \* at[r]: progress of request r
          target,   \* target[r]: the live fork an exec or a DELETE found
          key,      \* key[r]: the secret an exec signs with
          agent,    \* agent[r]: what the agent did with an exec, see AgentState
          status,   \* status[r]: the HTTP status of the answer to r, 0 before
          totalForks, totalExecs, totalErrs,
          http,     \* main: "serving", "draining", "stopping", "exited"
          late,     \* a request was in flight when the drain gave up (a history)
          victims   \* Pool.Shutdown's copy of the live forks, what is left of it

Pool == INSTANCE ForkLifecycle

counters == <<totalForks, totalExecs, totalErrs>>
reqVars == <<at, status>>
execVars == <<target, key, agent>>
mainVars == <<http, late, victims>>
vars == <<fork, result, secrets, reqVars, execVars, counters, mainVars>>

Request == ForkReq \cup ExecReq \cup DelReq
Progress == {"new", "forking", "dialled", "handled", "tearing", "answered"}
(* An argv has been run; a shell command, which the server sends as "sh",  *)
(* has been answered "exec: argv required".                                *)
AgentState == {"none", "ran", "refused", "unauthenticated"}
InFlight(r) == at[r] \notin {"new", "answered"}
Forks(r) == {i \in Id : ReqOf[i] = r}
Made(r) == {i \in Forks(r) : result[i] = "up"}

Init ==
  /\ Pool!Init
  /\ result = [i \in Id |-> "none"]
  /\ secrets = {}
  /\ at = [r \in Request |-> "new"]
  /\ status = [r \in Request |-> 0]
  /\ target = [r \in ExecReq \cup DelReq |-> None]
  /\ key = [r \in ExecReq |-> None]
  /\ agent = [r \in ExecReq |-> "none"]
  /\ totalForks = 0 /\ totalExecs = 0 /\ totalErrs = 0
  /\ http = "serving" /\ late = FALSE /\ victims = {}

(* A handler runs from the moment the server accepts its request, through  *)
(* the drain and beyond it, until the process exits.                       *)
Accepted(r) == at[r] = "new" /\ http = "serving"
Running(r, p) == at[r] = p /\ http # "exited"
Goes(r, to) == at' = [at EXCEPT ![r] = to] /\ UNCHANGED status
Answers(r, s) == at' = [at EXCEPT ![r] = "answered"] /\ status' = [status EXCEPT ![r] = s]

(* A 4xx, for which 400 stands: the body is no JSON, which is counted, a   *)
(* field is missing or wrong, or the registry has no such template, or its *)
(* memfile is gone, as it may be at any time.                              *)
Rejected(r) ==
  /\ Accepted(r)
  /\ Answers(r, 400)
  /\ totalErrs' \in {totalErrs, totalErrs + 1}
  /\ UNCHANGED <<fork, result, secrets, execVars, totalForks, totalExecs, mainVars>>

(***************************************************************************)
(* POST /v1/fork                                                           *)
(***************************************************************************)

(* Mutants: the secret is not cached before Fork; an entry without a       *)
(* secret is cached too; every fork asked for is counted.                  *)
ForkAcceptedBare(r) ==
  /\ Accepted(r) /\ WantOf[r] \in Registered
  /\ Goes(r, "forking")
  /\ UNCHANGED <<fork, result, secrets, execVars, counters, mainVars>>
ForkCachesAny(r) ==
  /\ Accepted(r) /\ WantOf[r] \in Registered
  /\ secrets' = secrets \cup {WantOf[r]}
  /\ Goes(r, "forking")
  /\ UNCHANGED <<fork, result, execVars, counters, mainVars>>
ForkReturnsCountingAll(r) ==
  /\ Running(r, "forking")
  /\ \A i \in Forks(r) : result[i] # "none"
  /\ totalForks' = totalForks + Cardinality(Forks(r))
  /\ Answers(r, 200)
  /\ UNCHANGED <<fork, result, secrets, execVars, totalExecs, totalErrs, mainVars>>

(* The entry's secret is cached, then Pool.Fork is called.                 *)
ForkAccepted(r) ==
  /\ Accepted(r) /\ WantOf[r] \in Registered
  /\ secrets' = secrets \cup ({WantOf[r]} \cap Signed)
  /\ Goes(r, "forking")
  /\ UNCHANGED <<fork, result, execVars, counters, mainVars>>

(* One forkOne of Pool.Fork.                                               *)
ForkOne(i) ==
  /\ Running(ReqOf[i], "forking")
  /\ result[i] = "none"
  /\ \/ Pool!Publish(i) /\ result' = [result EXCEPT ![i] = "up"]
     \/ result' = [result EXCEPT ![i] = "error"] /\ UNCHANGED fork
  /\ UNCHANGED <<secrets, reqVars, execVars, counters, mainVars>>

(* Fork returns when all its goroutines have, with an error if the         *)
(* deadline passed or the client went away: the forks it made stay live.   *)
ForkReturns(r) ==
  /\ Running(r, "forking")
  /\ \A i \in Forks(r) : result[i] # "none"
  /\ \/ /\ Answers(r, 200)
        /\ totalForks' = totalForks + Cardinality(Made(r))
        /\ totalErrs' = totalErrs + Cardinality(Forks(r) \ Made(r))
     \/ /\ Answers(r, 500)
        /\ totalErrs' = totalErrs + 1
        /\ UNCHANGED totalForks
  /\ UNCHANGED <<fork, result, secrets, execVars, totalExecs, mainVars>>

(***************************************************************************)
(* POST /v1/exec                                                           *)
(***************************************************************************)

(* Live(), then a secret: the first one of a range over s.secrets, which   *)
(* is any of them, or none.                                                *)
ExecStarts(r) ==
  /\ Accepted(r)
  /\ \E i \in Id :
       \/ fork[i] # "live" /\ Answers(r, 400) /\ UNCHANGED <<target, key>>
       \/ /\ fork[i] = "live" /\ Goes(r, "dialled")
          /\ target' = [target EXCEPT ![r] = i]
          /\ \E k \in IF secrets = {} THEN {None} ELSE secrets :
               key' = [key EXCEPT ![r] = k]
  /\ UNCHANGED <<fork, result, secrets, agent, counters, mainVars>>

(* The agent checks the signature against its own secret, if it has one,   *)
(* and looks for an argv.                                                  *)
AgentHandles(r) ==
  LET t == WantOf[ReqOf[target[r]]] IN
  /\ Running(r, "dialled")
  /\ fork[target[r]] \in {"live", "leaving"}
  /\ \E a \in IF t \in Signed /\ key[r] # t THEN {"unauthenticated"} ELSE {"ran", "refused"} :
       agent' = [agent EXCEPT ![r] = a]
  /\ Goes(r, "handled")
  /\ UNCHANGED <<fork, result, secrets, target, key, counters, mainVars>>

ExecAnswers(r) ==
  /\ Running(r, "handled")
  /\ Answers(r, 200)
  /\ totalExecs' = totalExecs + 1
  /\ UNCHANGED <<fork, result, secrets, execVars, totalForks, totalErrs, mainVars>>

(* Mutant: the call has no deadline once it is dialled.                    *)
ExecFailsLate(r) ==
  /\ Running(r, "handled")
  /\ Answers(r, 502)
  /\ totalErrs' = totalErrs + 1
  /\ UNCHANGED <<fork, result, secrets, execVars, totalForks, totalExecs, mainVars>>

(* The dial fails, the VM dies, the deadline passes, before or after the   *)
(* agent has run the command.                                              *)
ExecFails(r) ==
  /\ Running(r, "dialled") \/ Running(r, "handled")
  /\ Answers(r, 502)
  /\ totalErrs' = totalErrs + 1
  /\ UNCHANGED <<fork, result, secrets, execVars, totalForks, totalExecs, mainVars>>

(***************************************************************************)
(* DELETE /v1/forks/{id}: Pool.Release                                     *)
(***************************************************************************)
DeleteStarts(r) ==
  /\ Accepted(r)
  /\ \E i \in Id :
       \/ fork[i] # "live" /\ Answers(r, 400) /\ UNCHANGED <<fork, target>>
       \/ /\ Pool!Leave({i}) /\ Goes(r, "tearing")
          /\ target' = [target EXCEPT ![r] = i]
  /\ UNCHANGED <<result, secrets, key, agent, counters, mainVars>>
(* Mutant: the answer does not wait for the teardown.                      *)
DeleteEndsEarly(r) ==
  /\ Running(r, "tearing")
  /\ Answers(r, 200)
  /\ UNCHANGED <<fork, result, secrets, execVars, counters, mainVars>>

(* 200, or 202, for which 200 stands: the process would not stop or a      *)
(* directory not go, and the fork is forgotten all the same.               *)
DeleteEnds(r) ==
  /\ Running(r, "tearing")
  /\ Pool!TearDown(target[r])
  /\ Answers(r, 200)
  /\ UNCHANGED <<result, secrets, execVars, counters, mainVars>>

(***************************************************************************)
(* main, from the signal on                                                *)
(***************************************************************************)

(* SIGINT, SIGTERM, or ListenAndServe has failed.                          *)
Signal ==
  /\ http = "serving"
  /\ http' = "draining"
  /\ UNCHANGED <<fork, result, secrets, reqVars, execVars, counters, late, victims>>
(* Mutant: the process exits after the drain.                              *)
DrainEndsBare ==
  /\ http = "draining"
  /\ http' = "stopping"
  /\ late' = \E r \in Request : InFlight(r)
  /\ UNCHANGED <<fork, result, secrets, reqVars, execVars, counters, victims>>

(* httpSrv.Shutdown returns, its requests answered or its 10 s over, and   *)
(* Pool.Shutdown takes every live fork out of the map.                     *)
DrainEnds ==
  LET live == {i \in Id : fork[i] = "live"} IN
  /\ http = "draining"
  /\ http' = "stopping"
  /\ late' = \E r \in Request : InFlight(r)
  /\ victims' = live
  /\ IF live = {} THEN UNCHANGED fork ELSE Pool!Leave(live)
  /\ UNCHANGED <<result, secrets, reqVars, execVars, counters>>

ShutdownTearsDown(i) ==
  /\ http = "stopping" /\ i \in victims
  /\ victims' = victims \ {i}
  /\ Pool!TearDown(i)
  /\ UNCHANGED <<result, secrets, reqVars, execVars, counters, http, late>>

(* Mutant: the process waits until no fork is left in the live map.        *)
ExitWhenEmpty ==
  /\ http = "stopping" /\ victims = {} /\ \A i \in Id : fork[i] # "live"
  /\ http' = "exited"
  /\ UNCHANGED <<fork, result, secrets, reqVars, execVars, counters, late, victims>>

Exit ==
  /\ http = "stopping" /\ victims = {}
  /\ http' = "exited"
  /\ UNCHANGED <<fork, result, secrets, reqVars, execVars, counters, late, victims>>

(***************************************************************************)
(* Specification                                                           *)
(***************************************************************************)
ForkHandler(r) == Rejected(r) \/ ForkAccepted(r) \/ ForkReturns(r)
ExecHandler(r) == Rejected(r) \/ ExecStarts(r) \/ AgentHandles(r) \/ ExecAnswers(r) \/ ExecFails(r)
DeleteHandler(r) == DeleteStarts(r) \/ DeleteEnds(r)
Main == DrainEnds \/ Exit \/ \E i \in Id : ShutdownTearsDown(i)

Next ==
  \/ \E r \in ForkReq : ForkHandler(r)
  \/ \E i \in Id : ForkOne(i)
  \/ \E r \in ExecReq : ExecHandler(r)
  \/ \E r \in DelReq : DeleteHandler(r)
  \/ Signal \/ Main

(* Fork and exec run under deadlines, teardowns wait for a SIGKILL, the    *)
(* drain for 10 s: what has begun goes on.  No request need arrive, and no *)
(* signal.                                                                 *)
Fairness ==
  /\ \A r \in ForkReq : WF_vars(ForkReturns(r))
  /\ \A i \in Id : WF_vars(ForkOne(i))
  /\ \A r \in ExecReq : WF_vars(ExecAnswers(r) \/ ExecFails(r))
  /\ \A r \in DelReq : WF_vars(DeleteEnds(r))
  /\ WF_vars(Main)

Spec == Init /\ [][Next]_vars /\ Fairness

(***************************************************************************)
(* Properties                                                              *)
(***************************************************************************)

(* Every variable has its type.                                            *)
TypeOK ==
  /\ fork \in [Id -> Pool!ForkState]
  /\ result \in [Id -> {"none", "up", "error"}]
  /\ secrets \in SUBSET Signed
  /\ at \in [Request -> Progress]
  /\ status \in [Request -> {0, 200, 400, 500, 502}]
  /\ target \in [ExecReq \cup DelReq -> Id \cup {None}]
  /\ key \in [ExecReq -> Signed \cup {None}]
  /\ agent \in [ExecReq -> AgentState]
  /\ totalForks \in Nat /\ totalExecs \in Nat /\ totalErrs \in Nat
  /\ http \in {"serving", "draining", "stopping", "exited"}
  /\ late \in BOOLEAN
  /\ victims \in SUBSET Id

(* /v1/metrics: total_forks is the number of forks that were returned to a *)
(* client; a fork that was made and is not in it belongs to a request that *)
(* is being handled or was answered 500.  total_execs is the number of     *)
(* execs answered 200, each of which the agent of a fork has answered,     *)
(* a refusal being an answer.                                              *)
MetricsAddUp ==
  LET told == {i \in Id : result[i] = "up" /\ status[ReqOf[i]] = 200}
      heard == {r \in ExecReq : status[r] = 200} IN
  /\ totalForks = Cardinality(told)
  /\ \A i \in Id :
       fork[i] # "absent" /\ i \notin told => at[ReqOf[i]] = "forking" \/ status[ReqOf[i]] = 500
  /\ totalExecs = Cardinality(heard)
  /\ \A r \in heard : agent[r] # "none" /\ fork[target[r]] # "absent"

(* Of all the DELETEs of a fork, with Shutdown beside them, one at most is *)
(* told that it released it; and then the VM is gone, before the answer.   *)
Releases(i) == {r \in DelReq : target[r] = i /\ status[r] = 200}
DeletedOnce ==
  \A i \in Id :
    /\ Cardinality(Releases(i)) <= 1
    /\ Releases(i) # {} => fork[i] = "gone" /\ i \notin victims

(* While the forks of one template only have been asked for, no exec is    *)
(* refused for its signature: the secret is in the cache before a fork can *)
(* be named.                                                               *)
SecretIsReady ==
  \A r \in ExecReq : agent[r] = "unauthenticated" => Cardinality(secrets) > 1

(* If the drain was complete, no fork outlives the process.  The slot of a *)
(* refill that is under way may: see ExitIsClean of ForkTool.              *)
ExitsClean ==
  http = "exited" /\ ~late => \A i \in Id : fork[i] \in {"absent", "gone"}

(***************************************************************************)
(* The inductive invariant                                                 *)
(***************************************************************************)

(* Each request goes through the states of its handler, and has a status   *)
(* when it is answered.                                                    *)
RequestProgress ==
  /\ \A r \in ForkReq : at[r] \in {"new", "forking", "answered"}
  /\ \A r \in ExecReq : at[r] \in {"new", "dialled", "handled", "answered"}
  /\ \A r \in DelReq : at[r] \in {"new", "tearing", "answered"}
  /\ \A r \in Request : at[r] = "answered" <=> status[r] # 0

(* A fork was made by its request; and the secret of its template is in    *)
(* the cache.                                                              *)
ForkProgress ==
  \A i \in Id :
    /\ result[i] = "up" <=> fork[i] # "absent"
    /\ result[i] # "none" => at[ReqOf[i]] = "forking" \/ status[ReqOf[i]] \in {200, 500}
    /\ result[i] # "none" \/ at[ReqOf[i]] = "forking"
         => {WantOf[ReqOf[i]]} \cap Signed \subseteq secrets

(* An exec that was dialled has found a fork, and signs with a cached      *)
(* secret unless there was none; the agent is asked before it answers.     *)
ExecProgress ==
  \A r \in ExecReq :
    /\ key[r] \in secrets \cup {None}
    /\ at[r] \in {"dialled", "handled"} \/ status[r] = 200 =>
         target[r] \in Id /\ fork[target[r]] # "absent"
    /\ at[r] = "dialled" /\ key[r] = None => WantOf[ReqOf[target[r]]] \notin Signed
    /\ at[r] = "handled" \/ status[r] = 200 => agent[r] # "none"
    /\ agent[r] = "unauthenticated" => \E t, k \in secrets : t # k

(* Whoever took a fork out of the live map, a DELETE or Shutdown, is the   *)
(* only one to tear it down, and does.                                     *)
DeleteProgress ==
  /\ \A r \in DelReq : at[r] = "tearing" =>
       target[r] \in Id /\ fork[target[r]] = "leaving" /\ target[r] \notin victims
  /\ \A r \in DelReq : status[r] = 200 => target[r] \in Id /\ fork[target[r]] = "gone"
  /\ \A r, q \in DelReq :
       r # q /\ {at[r], at[q]} \subseteq {"tearing", "answered"}
         /\ {status[r], status[q]} \subseteq {0, 200} => target[r] # target[q]
  /\ \A i \in victims : fork[i] = "leaving"
  /\ \A i \in Id : fork[i] = "leaving" =>
       i \in victims \/ \E r \in DelReq : at[r] = "tearing" /\ target[r] = i

(* From the end of a complete drain on no handler runs, and what is still  *)
(* up is Shutdown's to tear down.                                          *)
ExitProgress ==
  /\ http \in {"serving", "draining"} => victims = {}
  /\ http = "exited" => victims = {}
  /\ http \in {"stopping", "exited"} /\ ~late =>
       /\ \A r \in Request : ~InFlight(r)
       /\ \A i \in Id : fork[i] \in {"absent", "gone"} \/ i \in victims

IndInv ==
  /\ TypeOK
  /\ RequestProgress
  /\ ForkProgress
  /\ ExecProgress
  /\ DeleteProgress
  /\ ExitProgress
  /\ MetricsAddUp

(* A request that was accepted is answered, or the process exits.          *)
RequestsEnd ==
  \A r \in Request : InFlight(r) ~> (status[r] # 0 \/ http = "exited")

(* A server that was told to stop exits, whatever its handlers do.         *)
ServerExits == (http = "draining") ~> (http = "exited")

(***************************************************************************)
(* What a comment says and the code does not do                            *)
(***************************************************************************)

(* docs/runbooks/rotate-agent-secrets.md:32-33 "Forks from the new         *)
(* snapshot use the new secret. Both can coexist", and main.go:38 "secrets *)
(* caches the per-template HMAC secret bytes": an exec is signed with the  *)
(* secret of the fork it is sent to, forks of other templates or not.      *)
ExecUsesItsSecret ==
  \A r \in ExecReq : agent[r] # "unauthenticated"
=============================================================================
