------------------------- MODULE ForkServer_proofs -------------------------
(***************************************************************************)
(* ForkServer's invariants, for any number of requests, forks and          *)
(* templates.                                                              *)
(***************************************************************************)
EXTENDS ForkServer, FiniteSetTheorems, TLAPS

(* The forks of a request and those it made are finitely many.             *)
LEMMA ForksFinite ==
  ASSUME NEW r
  PROVE  /\ IsFiniteSet(Forks(r)) /\ IsFiniteSet(Made(r)) /\ IsFiniteSet(Forks(r) \ Made(r))
         /\ Cardinality(Made(r)) \in Nat /\ Cardinality(Forks(r) \ Made(r)) \in Nat
<1>1. Forks(r) \in SUBSET Id /\ Made(r) \in SUBSET Id /\ Forks(r) \ Made(r) \in SUBSET Id
  BY DEF Forks, Made
<1> QED BY <1>1, ServerAssumption, FS_Subset, FS_CardinalityType

(* What a handler that goes on, or answers, does to the requests.          *)
LEMMA GoesOn ==
  ASSUME TypeOK, NEW r \in Request, NEW p \in Progress, Goes(r, p)
  PROVE  /\ at' \in [Request -> Progress] /\ status' = status
         /\ at'[r] = p /\ \A q \in Request : q # r => at'[q] = at[q]
BY DEF TypeOK, Goes

LEMMA Answered ==
  ASSUME TypeOK, NEW r \in Request, NEW s \in {200, 400, 500, 502}, Answers(r, s)
  PROVE  /\ at' \in [Request -> Progress]
         /\ status' \in [Request -> {0, 200, 400, 500, 502}]
         /\ at'[r] = "answered" /\ status'[r] = s
         /\ \A q \in Request : q # r => at'[q] = at[q] /\ status'[q] = status[q]
BY DEF TypeOK, Answers, Progress

LEMMA InitInv == Init => IndInv
<1> SUFFICES ASSUME Init PROVE IndInv
  OBVIOUS
<1>1. TypeOK
  <2>1. fork \in [Id -> Pool!ForkState] /\ result \in [Id -> {"none", "up", "error"}]
    BY DEF Init, Pool!Init, Pool!ForkState
  <2>2. at \in [Request -> Progress] /\ status \in [Request -> {0, 200, 400, 500, 502}]
    BY DEF Init, Progress
  <2>3. /\ target \in [ExecReq \cup DelReq -> Id \cup {None}]
        /\ key \in [ExecReq -> Signed \cup {None}]
        /\ agent \in [ExecReq -> AgentState]
    BY DEF Init, AgentState
  <2> QED BY <2>1, <2>2, <2>3 DEF Init, TypeOK
<1>2. RequestProgress /\ ForkProgress /\ ExecProgress /\ DeleteProgress /\ ExitProgress
  BY ServerAssumption DEF Init, Pool!Init, Request, RequestProgress, ForkProgress, ExecProgress, DeleteProgress,
     ExitProgress
<1>3. MetricsAddUp
  <2>1. \A r \in Request : status[r] # 200
    BY DEF Init
  <2>2. {i \in Id : result[i] = "up" /\ status[ReqOf[i]] = 200} = {}
    BY DEF Init
  <2>3. {r \in ExecReq : status[r] = 200} = {}
    BY <2>1 DEF Request
  <2> QED BY <2>2, <2>3, FS_EmptySet DEF Init, Pool!Init, MetricsAddUp
<1> QED BY <1>1, <1>2, <1>3 DEF IndInv

LEMMA TypeStep == ASSUME IndInv, [Next]_vars PROVE TypeOK'
<1>0. TypeOK
  BY DEF IndInv
<1> USE <1>0 DEF execVars, mainVars, counters, reqVars
<1>1. ASSUME NEW r \in Request, Rejected(r) PROVE TypeOK'
  BY <1>1, Answered DEF Rejected, TypeOK
<1>2. ASSUME NEW r \in ForkReq, ForkAccepted(r) PROVE TypeOK'
  BY <1>2, GoesOn DEF ForkAccepted, TypeOK, Request, Progress
<1>3. ASSUME NEW i \in Id, ForkOne(i) PROVE TypeOK'
  BY <1>3 DEF ForkOne, Pool!Publish, Pool!ForkState, TypeOK
<1>4. ASSUME NEW r \in ForkReq, ForkReturns(r) PROVE TypeOK'
  <2>1. totalForks' \in Nat /\ totalErrs' \in Nat
    BY <1>4, ForksFinite DEF ForkReturns, TypeOK
  <2> QED BY <1>4, <2>1, Answered DEF ForkReturns, TypeOK, Request
<1>5. ASSUME NEW r \in ExecReq, ExecStarts(r) PROVE TypeOK'
  BY <1>5, ServerAssumption, GoesOn, Answered DEF ExecStarts, TypeOK, Request, Progress
<1>6. ASSUME NEW r \in ExecReq, AgentHandles(r) PROVE TypeOK'
  <2>1. agent' \in [ExecReq -> AgentState]
    BY <1>6 DEF AgentHandles, AgentState, TypeOK
  <2> QED BY <1>6, <2>1, GoesOn DEF AgentHandles, TypeOK, Request, Progress
<1>7. ASSUME NEW r \in ExecReq, ExecAnswers(r) PROVE TypeOK'
  BY <1>7, Answered DEF ExecAnswers, TypeOK, Request
<1>8. ASSUME NEW r \in ExecReq, ExecFails(r) PROVE TypeOK'
  BY <1>8, Answered DEF ExecFails, TypeOK, Request
<1>9. ASSUME NEW r \in DelReq, DeleteStarts(r) PROVE TypeOK'
  <2>1. PICK i \in Id : \/ fork[i] # "live" /\ Answers(r, 400) /\ UNCHANGED <<fork, target>>
                       \/ /\ Pool!Leave({i}) /\ Goes(r, "tearing")
                          /\ target' = [target EXCEPT ![r] = i]
    BY <1>9 DEF DeleteStarts
  <2>2. fork' \in [Id -> Pool!ForkState] /\ target' \in [ExecReq \cup DelReq -> Id \cup {None}]
    BY <2>1 DEF Pool!Leave, Pool!ForkState, TypeOK
  <2> QED BY <1>9, <2>1, <2>2, GoesOn, Answered DEF DeleteStarts, TypeOK, Request, Progress
<1>10. ASSUME NEW r \in DelReq, DeleteEnds(r) PROVE TypeOK'
  <2>1. fork' \in [Id -> Pool!ForkState]
    BY <1>10 DEF DeleteEnds, Pool!TearDown, Pool!ForkState, TypeOK
  <2> QED BY <1>10, <2>1, Answered DEF DeleteEnds, TypeOK, Request
<1>11. CASE Signal
  BY <1>11 DEF Signal, TypeOK
<1>12. CASE DrainEnds
  BY <1>12 DEF DrainEnds, Pool!Leave, Pool!ForkState, TypeOK
<1>13. CASE Exit
  BY <1>13 DEF Exit, TypeOK
<1>14. ASSUME NEW i \in Id, ShutdownTearsDown(i) PROVE TypeOK'
  BY <1>14 DEF ShutdownTearsDown, Pool!TearDown, Pool!ForkState, TypeOK
<1>15. CASE UNCHANGED vars
  BY <1>15 DEF vars, TypeOK
<1> QED
  BY <1>1, <1>2, <1>3, <1>4, <1>5, <1>6, <1>7, <1>8, <1>9, <1>10, <1>11, <1>12, <1>13, <1>14, <1>15
     DEF Next, ForkHandler, ExecHandler, DeleteHandler, Main, Request

(* The Pool keeps to its promise: a fork goes from absent to live, leaving *)
(* and gone; and no secret leaves the cache.                               *)
LEMMA Moves ==
  ASSUME TypeOK, [Next]_vars
  PROVE  /\ secrets \subseteq secrets'
         /\ \A i \in Id :
              /\ fork[i] # "absent" => fork'[i] # "absent"
              /\ fork[i] = "gone" => fork'[i] = "gone"
<1> USE DEF execVars, mainVars, counters, reqVars
<1>1. CASE UNCHANGED <<fork, secrets>>
  BY <1>1
<1>2. ASSUME NEW r \in ForkReq, ForkAccepted(r) PROVE secrets \subseteq secrets' /\ fork' = fork
  BY <1>2 DEF ForkAccepted
<1>3. ASSUME NEW i \in Id, ForkOne(i) PROVE
        secrets' = secrets /\ (fork' = fork \/ (fork[i] = "absent" /\ fork' = [fork EXCEPT ![i] = "live"]))
  BY <1>3 DEF ForkOne, Pool!Publish
<1>4. ASSUME NEW r \in DelReq, DeleteStarts(r) PROVE
        secrets' = secrets /\ (fork' = fork \/ \E S \in SUBSET Id : Pool!Leave(S))
  BY <1>4 DEF DeleteStarts
<1>5. ASSUME NEW r \in DelReq, DeleteEnds(r) PROVE secrets' = secrets /\ Pool!TearDown(target[r])
  BY <1>5 DEF DeleteEnds
<1>6. CASE DrainEnds
  BY <1>6 DEF DrainEnds, Pool!Leave, TypeOK
<1>7. ASSUME NEW i \in Id, ShutdownTearsDown(i) PROVE secrets' = secrets /\ Pool!TearDown(i)
  BY <1>7 DEF ShutdownTearsDown
<1>8. CASE UNCHANGED vars
  BY <1>8 DEF vars
<1>9. ASSUME NEW S \in SUBSET Id, Pool!Leave(S) PROVE \A i \in Id :
        (fork[i] # "absent" => fork'[i] # "absent") /\ (fork[i] = "gone" => fork'[i] = "gone")
  BY <1>9 DEF Pool!Leave
<1>10. ASSUME NEW j, Pool!TearDown(j) PROVE \A i \in Id :
        (fork[i] # "absent" => fork'[i] # "absent") /\ (fork[i] = "gone" => fork'[i] = "gone")
  BY <1>10 DEF Pool!TearDown, TypeOK
<1>11. ASSUME NEW i \in Id, ForkOne(i) PROVE \A j \in Id :
        (fork[j] # "absent" => fork'[j] # "absent") /\ (fork[j] = "gone" => fork'[j] = "gone")
  BY <1>3, <1>11 DEF TypeOK
<1>12. ASSUME NEW r \in Request,
              Rejected(r) \/ ForkReturns(r) \/ ExecStarts(r) \/ AgentHandles(r)
                \/ ExecAnswers(r) \/ ExecFails(r) \/ Signal \/ Exit
       PROVE  UNCHANGED <<fork, secrets>>
  BY <1>12 DEF Rejected, ForkReturns, ExecStarts, AgentHandles, ExecAnswers, ExecFails, Signal, Exit
<1>13. CASE Signal \/ Exit
  BY <1>13 DEF Signal, Exit
<1> QED
  BY <1>1, <1>2, <1>3, <1>4, <1>5, <1>6, <1>7, <1>8, <1>9, <1>10, <1>11, <1>12, <1>13
     DEF Next, ForkHandler, ExecHandler, DeleteHandler, Main, Request

LEMMA RequestStep == ASSUME IndInv, [Next]_vars PROVE RequestProgress'
<1>0. TypeOK /\ RequestProgress
  BY DEF IndInv
<1>1. ASSUME NEW r \in Request, NEW p \in Progress \ {"answered"}, Goes(r, p), at[r] # "answered",
             r \in ForkReq => p = "forking", r \in ExecReq => p \in {"dialled", "handled"},
             r \in DelReq => p = "tearing"
      PROVE  RequestProgress'
  BY <1>0, <1>1, GoesOn DEF RequestProgress, Request
<1>2. ASSUME NEW r \in Request, NEW s \in {200, 400, 500, 502}, Answers(r, s)
      PROVE  RequestProgress'
  BY <1>0, <1>2, Answered DEF RequestProgress, Request
<1>3. CASE UNCHANGED reqVars
  BY <1>0, <1>3 DEF RequestProgress, reqVars, Request
<1>4. ASSUME NEW r \in ForkReq, ForkHandler(r) PROVE RequestProgress'
  <2>1. r \in Request /\ r \notin ExecReq /\ r \notin DelReq
    BY ServerAssumption DEF Request
  <2>2. CASE ForkAccepted(r)
    BY <2>1, <2>2, <1>1 DEF ForkAccepted, Accepted, Progress
  <2>3. CASE Rejected(r) \/ ForkReturns(r)
    BY <2>1, <2>3, <1>2 DEF Rejected, ForkReturns
  <2> QED BY <1>4, <2>2, <2>3 DEF ForkHandler
<1>5. ASSUME NEW r \in ExecReq, ExecHandler(r) PROVE RequestProgress'
  <2>1. r \in Request /\ r \notin ForkReq /\ r \notin DelReq
    BY ServerAssumption DEF Request
  <2>2. CASE ExecStarts(r) \/ AgentHandles(r)
    BY <2>1, <2>2, <1>1, <1>2 DEF ExecStarts, AgentHandles, Accepted, Running, Progress
  <2>3. CASE Rejected(r) \/ ExecAnswers(r) \/ ExecFails(r)
    BY <2>1, <2>3, <1>2 DEF Rejected, ExecAnswers, ExecFails
  <2> QED BY <1>5, <2>2, <2>3 DEF ExecHandler
<1>6. ASSUME NEW r \in DelReq, DeleteHandler(r) PROVE RequestProgress'
  <2>1. r \in Request /\ r \notin ForkReq /\ r \notin ExecReq
    BY ServerAssumption DEF Request
  <2>2. CASE DeleteStarts(r)
    BY <2>1, <2>2, <1>1, <1>2 DEF DeleteStarts, Accepted, Progress
  <2>3. CASE DeleteEnds(r)
    BY <2>1, <2>3, <1>2 DEF DeleteEnds
  <2> QED BY <1>6, <2>2, <2>3 DEF DeleteHandler
<1>7. ASSUME Signal \/ Main \/ (\E i \in Id : ForkOne(i)) \/ UNCHANGED vars PROVE UNCHANGED reqVars
  BY <1>7 DEF Signal, Main, DrainEnds, Exit, ShutdownTearsDown, ForkOne, vars, reqVars
<1> QED
  BY <1>3, <1>4, <1>5, <1>6, <1>7 DEF Next

(* A fork is made by its request alone, with the secret cached before.     *)
LEMMA ForkStep == ASSUME IndInv, [Next]_vars PROVE ForkProgress'
<1>0. TypeOK /\ RequestProgress /\ ForkProgress /\ \A i \in Id : ReqOf[i] \in ForkReq /\ ReqOf[i] \in Request
  BY ServerAssumption DEF IndInv, Request
<1>a. secrets \subseteq secrets'
  BY <1>0, Moves
<1> USE DEF execVars, mainVars, counters, reqVars
<1>1. ASSUME \A i \in Id : fork'[i] # "absent" <=> fork[i] # "absent", UNCHANGED result,
             \A i \in Id : at'[ReqOf[i]] = at[ReqOf[i]] /\ status'[ReqOf[i]] = status[ReqOf[i]]
      PROVE  ForkProgress'
  BY <1>0, <1>1, <1>a DEF ForkProgress
<1>2. ASSUME NEW r \in ForkReq, Rejected(r) PROVE ForkProgress'
  <2>1. Answers(r, 400) /\ at[r] = "new" /\ status[r] = 0 /\ r \in Request /\ UNCHANGED <<fork, result, secrets>>
    BY <1>0, <1>2 DEF Rejected, Accepted, RequestProgress, Request
  <2> QED BY <1>0, <2>1, Answered DEF ForkProgress
<1>3. ASSUME NEW r \in ForkReq, ForkAccepted(r) PROVE ForkProgress'
  <2>1. Goes(r, "forking") /\ at[r] = "new" /\ status[r] = 0 /\ r \in Request /\ UNCHANGED <<fork, result>>
    BY <1>0, <1>3 DEF ForkAccepted, Accepted, RequestProgress, Request
  <2>2. {WantOf[r]} \cap Signed \subseteq secrets'
    BY <1>3 DEF ForkAccepted
  <2> QED BY <1>0, <1>a, <2>1, <2>2, GoesOn DEF ForkProgress, Progress
<1>4. ASSUME NEW i \in Id, ForkOne(i) PROVE ForkProgress'
  <2>1. fork[i] = "absent"
    BY <1>0, <1>4 DEF ForkOne, ForkProgress
  <2> QED BY <1>0, <1>4, <2>1 DEF ForkOne, Running, Pool!Publish, ForkProgress, TypeOK
<1>5. ASSUME NEW r \in ForkReq, ForkReturns(r) PROVE ForkProgress'
  <2>1. /\ Answers(r, 200) \/ Answers(r, 500)
        /\ at[r] = "forking" /\ r \in Request /\ UNCHANGED <<fork, result, secrets>>
    BY <1>5 DEF ForkReturns, Running, Request
  <2>2. CASE Answers(r, 200)
    BY <1>0, <2>1, <2>2, Answered DEF ForkProgress
  <2>3. CASE Answers(r, 500)
    BY <1>0, <2>1, <2>3, Answered DEF ForkProgress
  <2> QED BY <2>1, <2>2, <2>3
<1>6. ASSUME NEW r \in ExecReq, ExecHandler(r) PROVE ForkProgress'
  <2>1. r \in Request /\ r \notin ForkReq
    BY ServerAssumption DEF Request
  <2>2. UNCHANGED <<fork, result>>
    BY <1>6 DEF ExecHandler, Rejected, ExecStarts, AgentHandles, ExecAnswers, ExecFails
  <2>3. Goes(r, "dialled") \/ Goes(r, "handled") \/ Answers(r, 200) \/ Answers(r, 400) \/ Answers(r, 502)
    BY <1>6 DEF ExecHandler, Rejected, ExecStarts, AgentHandles, ExecAnswers, ExecFails
  <2>4. \A q \in Request : q # r => at'[q] = at[q] /\ status'[q] = status[q]
    BY <1>0, <2>1, <2>3, GoesOn, Answered DEF Progress
  <2> QED BY <1>0, <1>1, <2>1, <2>2, <2>4
<1>7. ASSUME NEW r \in DelReq, DeleteHandler(r) PROVE ForkProgress'
  <2>1. r \in Request /\ r \notin ForkReq
    BY ServerAssumption DEF Request
  <2>2. UNCHANGED result
    BY <1>7 DEF DeleteHandler, DeleteStarts, DeleteEnds
  <2>3. Goes(r, "tearing") \/ Answers(r, 200) \/ Answers(r, 400)
    BY <1>7 DEF DeleteHandler, DeleteStarts, DeleteEnds
  <2>4. \A q \in Request : q # r => at'[q] = at[q] /\ status'[q] = status[q]
    BY <1>0, <2>1, <2>3, GoesOn, Answered DEF Progress
  <2>5. fork' = fork \/ (\E i \in Id : Pool!Leave({i})) \/ Pool!TearDown(target[r])
    BY <1>7 DEF DeleteHandler, DeleteStarts, DeleteEnds
  <2>6. \A i \in Id : fork'[i] # "absent" <=> fork[i] # "absent"
    BY <1>0, <2>5 DEF Pool!Leave, Pool!TearDown, TypeOK
  <2> QED BY <1>0, <1>1, <2>1, <2>2, <2>4, <2>6
<1>8. CASE Signal \/ Main \/ UNCHANGED vars
  <2>1. UNCHANGED <<result, reqVars>>
    BY <1>8 DEF Signal, Main, DrainEnds, ShutdownTearsDown, Exit, vars
  <2>2. fork' = fork \/ (\E S \in SUBSET Id : Pool!Leave(S)) \/ (\E i \in Id : Pool!TearDown(i))
    BY <1>8 DEF Signal, Main, DrainEnds, ShutdownTearsDown, Exit, vars
  <2>3. \A i \in Id : fork'[i] # "absent" <=> fork[i] # "absent"
    BY <1>0, <2>2 DEF Pool!Leave, Pool!TearDown, TypeOK
  <2> QED BY <1>1, <2>1, <2>3
<1> QED
  BY <1>2, <1>3, <1>4, <1>5, <1>6, <1>7, <1>8 DEF Next, ForkHandler

(* An exec was sent to a fork that had been made, with a secret if there   *)
(* was one; so an agent that refuses the signature has met a second one.   *)
LEMMA ExecStep == ASSUME IndInv, [Next]_vars PROVE ExecProgress'
<1>0. TypeOK /\ RequestProgress /\ ForkProgress /\ ExecProgress
  BY DEF IndInv
<1>a. secrets \subseteq secrets' /\ \A i \in Id : fork[i] # "absent" => fork'[i] # "absent"
  BY <1>0, Moves
<1> USE DEF execVars, mainVars, counters, reqVars
<1>1. ASSUME UNCHANGED execVars, \A r \in ExecReq : at'[r] = at[r] /\ status'[r] = status[r]
      PROVE  ExecProgress'
  BY <1>0, <1>1, <1>a DEF ExecProgress
<1>2. ASSUME NEW r \in ExecReq, NEW s \in {200, 400, 502}, Answers(r, s), UNCHANGED execVars,
             s = 200 => at[r] = "handled"
      PROVE  ExecProgress'
  <2>1. r \in Request /\ ExecReq \subseteq Request
    BY DEF Request
  <2> QED BY <1>0, <1>2, <1>a, <2>1, Answered DEF ExecProgress
<1>3. ASSUME NEW r \in ExecReq, ExecStarts(r) PROVE ExecProgress'
  <2>1. r \in Request /\ ExecReq \subseteq Request /\ at[r] = "new" /\ status[r] = 0 /\ UNCHANGED <<agent, fork, secrets>>
    BY <1>0, <1>3 DEF ExecStarts, Accepted, RequestProgress, Request
  <2>2. PICK i \in Id :
          \/ fork[i] # "live" /\ Answers(r, 400) /\ UNCHANGED <<target, key>>
          \/ /\ fork[i] = "live" /\ Goes(r, "dialled")
             /\ target' = [target EXCEPT ![r] = i]
             /\ \E k \in IF secrets = {} THEN {None} ELSE secrets : key' = [key EXCEPT ![r] = k]
    BY <1>3 DEF ExecStarts
  <2>3. CASE Answers(r, 400) /\ UNCHANGED <<target, key>>
    BY <1>2, <2>1, <2>3
  <2>4. CASE /\ fork[i] = "live" /\ Goes(r, "dialled")
             /\ target' = [target EXCEPT ![r] = i]
             /\ \E k \in IF secrets = {} THEN {None} ELSE secrets : key' = [key EXCEPT ![r] = k]
    <3>1. PICK k \in IF secrets = {} THEN {None} ELSE secrets : key' = [key EXCEPT ![r] = k]
      BY <2>4
    <3>2. k \in secrets \cup {None} /\ (k = None => secrets = {})
      BY <3>1, <1>0, ServerAssumption DEF TypeOK
    <3>3. {WantOf[ReqOf[i]]} \cap Signed \subseteq secrets
      BY <1>0, <2>4 DEF ForkProgress
    <3>4. /\ at'[r] = "dialled" /\ status' = status
          /\ \A q \in ExecReq : q # r => at'[q] = at[q]
          /\ target'[r] = i /\ key'[r] = k
          /\ \A q \in ExecReq : q # r => target'[q] = target[q] /\ key'[q] = key[q]
      BY <1>0, <2>1, <2>4, <3>1, GoesOn DEF TypeOK, Progress
    <3> QED BY <1>0, <2>1, <2>4, <3>2, <3>3, <3>4 DEF ExecProgress
  <2> QED BY <2>2, <2>3, <2>4
<1>4. ASSUME NEW r \in ExecReq, AgentHandles(r) PROVE ExecProgress'
  <2> DEFINE t == WantOf[ReqOf[target[r]]]
  <2>1. /\ r \in Request /\ ExecReq \subseteq Request /\ at[r] = "dialled" /\ Goes(r, "handled")
        /\ UNCHANGED <<fork, result, secrets, target, key>>
    BY <1>4 DEF AgentHandles, Running, Request
  <2>2. PICK a \in IF t \in Signed /\ key[r] # t THEN {"unauthenticated"} ELSE {"ran", "refused"} :
          agent' = [agent EXCEPT ![r] = a]
    BY <1>4 DEF AgentHandles
  <2>3. target[r] \in Id /\ fork[target[r]] # "absent"
    BY <1>0, <2>1 DEF ExecProgress
  <2>4. {t} \cap Signed \subseteq secrets
    BY <1>0, <2>3 DEF ForkProgress
  <2>5. a # "none" /\ (a = "unauthenticated" => \E u, k \in secrets : u # k)
    <3>1. a = "unauthenticated" => t \in Signed /\ key[r] # t
      BY <2>2
    <3>2. t \in Signed => key[r] \in secrets
      BY <1>0, <2>1 DEF ExecProgress
    <3> QED BY <2>2, <2>4, <3>1, <3>2
  <2>6. /\ at'[r] = "handled" /\ status' = status
        /\ \A q \in ExecReq : q # r => at'[q] = at[q]
        /\ agent'[r] = a /\ \A q \in ExecReq : q # r => agent'[q] = agent[q]
    BY <1>0, <2>1, <2>2, GoesOn DEF TypeOK, Progress
  <2> HIDE DEF t
  <2> QED BY <1>0, <2>1, <2>3, <2>5, <2>6 DEF ExecProgress
<1>5. ASSUME NEW r \in ExecReq, ExecHandler(r) PROVE ExecProgress'
  <2>1. CASE Rejected(r)
    BY <1>2, <2>1 DEF Rejected
  <2>2. CASE ExecAnswers(r)
    BY <1>2, <2>2 DEF ExecAnswers, Running
  <2>3. CASE ExecFails(r)
    BY <1>2, <2>3 DEF ExecFails
  <2> QED BY <1>3, <1>4, <1>5, <2>1, <2>2, <2>3 DEF ExecHandler
<1>6. ASSUME NEW r \in ForkReq, ForkHandler(r) PROVE ExecProgress'
  <2>1. r \in Request /\ r \notin ExecReq /\ ExecReq \subseteq Request
    BY ServerAssumption DEF Request
  <2>2. UNCHANGED execVars /\ (Goes(r, "forking") \/ Answers(r, 200) \/ Answers(r, 400) \/ Answers(r, 500))
    BY <1>6 DEF ForkHandler, Rejected, ForkAccepted, ForkReturns
  <2>3. \A q \in Request : q # r => at'[q] = at[q] /\ status'[q] = status[q]
    BY <1>0, <2>1, <2>2, GoesOn, Answered DEF Progress
  <2> QED BY <1>1, <2>1, <2>2, <2>3
<1>7. ASSUME NEW r \in DelReq, DeleteHandler(r) PROVE ExecProgress'
  <2>1. r \in Request /\ r \notin ExecReq /\ ExecReq \subseteq Request
    BY ServerAssumption DEF Request
  <2>2. Goes(r, "tearing") \/ Answers(r, 200) \/ Answers(r, 400)
    BY <1>7 DEF DeleteHandler, DeleteStarts, DeleteEnds
  <2>3. \A q \in ExecReq : at'[q] = at[q] /\ status'[q] = status[q]
    BY <1>0, <2>1, <2>2, GoesOn, Answered DEF Progress
  <2>4. UNCHANGED <<key, agent>> /\ (target' = target \/ \E i \in Id : target' = [target EXCEPT ![r] = i])
    BY <1>7 DEF DeleteHandler, DeleteStarts, DeleteEnds
  <2>5. \A q \in ExecReq : target'[q] = target[q]
    BY <1>0, <2>1, <2>4 DEF TypeOK
  <2> QED BY <1>0, <1>a, <2>3, <2>4, <2>5 DEF ExecProgress
<1>8. CASE Signal \/ Main \/ (\E i \in Id : ForkOne(i)) \/ UNCHANGED vars
  BY <1>1, <1>8 DEF Signal, Main, DrainEnds, ShutdownTearsDown, Exit, ForkOne, vars
<1> QED
  BY <1>5, <1>6, <1>7, <1>8 DEF Next

(* Those who may tear a fork down, a DELETE or Shutdown, are never two.    *)
LEMMA DeleteStep == ASSUME IndInv, [Next]_vars PROVE DeleteProgress'
<1>0. TypeOK /\ RequestProgress /\ DeleteProgress /\ ExitProgress /\ DelReq \subseteq Request
  BY DEF IndInv, Request
<1> USE DEF execVars, mainVars, counters, reqVars
<1>1. ASSUME \A r \in DelReq : at'[r] = at[r] /\ status'[r] = status[r] /\ target'[r] = target[r],
             victims' = victims,
             \A i \in Id : /\ fork'[i] = "leaving" <=> fork[i] = "leaving"
                           /\ fork[i] = "gone" => fork'[i] = "gone"
      PROVE  DeleteProgress'
  BY <1>0, <1>1 DEF DeleteProgress, TypeOK
<1>2. ASSUME NEW r \in ForkReq \cup ExecReq, ForkHandler(r) \/ ExecHandler(r) PROVE DeleteProgress'
  <2>1. r \in Request /\ r \notin DelReq
    BY ServerAssumption DEF Request
  <2>2. /\ UNCHANGED <<fork, victims>>
        /\ \/ Goes(r, "forking") \/ Goes(r, "dialled") \/ Goes(r, "handled")
           \/ Answers(r, 200) \/ Answers(r, 400) \/ Answers(r, 500) \/ Answers(r, 502)
        /\ target' = target \/ \E i \in Id : target' = [target EXCEPT ![r] = i]
    BY <1>2 DEF ForkHandler, ExecHandler, Rejected, ForkAccepted, ForkReturns, ExecStarts, AgentHandles,
       ExecAnswers, ExecFails
  <2>3. \A q \in Request : q # r => at'[q] = at[q] /\ status'[q] = status[q]
    BY <1>0, <2>1, <2>2, GoesOn, Answered DEF Progress
  <2>4. \A q \in DelReq : target'[q] = target[q]
    BY <1>0, <2>1, <2>2 DEF TypeOK
  <2> QED BY <1>0, <1>1, <2>1, <2>2, <2>3, <2>4
<1>3. ASSUME NEW i \in Id, ForkOne(i) PROVE DeleteProgress'
  BY <1>0, <1>1, <1>3 DEF ForkOne, Pool!Publish, TypeOK
<1>4. ASSUME NEW r \in DelReq, DeleteStarts(r) PROVE DeleteProgress'
  <2>1. at[r] = "new" /\ status[r] = 0 /\ r \in Request /\ victims' = victims
    BY <1>0, <1>4 DEF DeleteStarts, Accepted, RequestProgress
  <2>2. PICK i \in Id : \/ fork[i] # "live" /\ Answers(r, 400) /\ UNCHANGED <<fork, target>>
                       \/ /\ Pool!Leave({i}) /\ Goes(r, "tearing")
                          /\ target' = [target EXCEPT ![r] = i]
    BY <1>4 DEF DeleteStarts
  <2>3. CASE Answers(r, 400) /\ UNCHANGED <<fork, target>>
    BY <1>0, <2>1, <2>3, Answered DEF DeleteProgress
  <2>4. CASE /\ Pool!Leave({i}) /\ Goes(r, "tearing")
             /\ target' = [target EXCEPT ![r] = i]
    <3>1. fork[i] = "live" /\ fork'[i] = "leaving" /\ \A j \in Id : j # i => fork'[j] = fork[j]
      BY <2>4 DEF Pool!Leave
    <3>2. /\ at'[r] = "tearing" /\ status' = status /\ target'[r] = i
          /\ \A q \in DelReq : q # r => at'[q] = at[q] /\ target'[q] = target[q]
      BY <1>0, <2>1, <2>4, GoesOn DEF TypeOK, Progress
    <3>3. \A q \in DelReq : at[q] = "tearing" \/ status[q] = 200 => target[q] \in Id /\ target[q] # i
      BY <1>0, <3>1 DEF DeleteProgress
    <3>4. i \notin victims /\ victims \subseteq Id
      BY <1>0, <3>1 DEF DeleteProgress, TypeOK
    <3>5. \A q \in DelReq : at[q] \in {"tearing", "answered"} /\ status[q] \in {0, 200}
            => at[q] = "tearing" \/ status[q] = 200
      BY <1>0 DEF RequestProgress
    <3> QED BY <1>0, <2>1, <3>1, <3>2, <3>3, <3>4, <3>5 DEF DeleteProgress
  <2> QED BY <2>2, <2>3, <2>4
<1>5. ASSUME NEW r \in DelReq, DeleteEnds(r) PROVE DeleteProgress'
  <2>1. at[r] = "tearing" /\ status[r] = 0 /\ r \in Request /\ Answers(r, 200) /\ UNCHANGED <<target, victims>>
    BY <1>0, <1>5 DEF DeleteEnds, Running, RequestProgress
  <2>2. target[r] \in Id /\ target[r] \notin victims
    BY <1>0, <2>1 DEF DeleteProgress
  <2>3. fork'[target[r]] = "gone" /\ \A j \in Id : j # target[r] => fork'[j] = fork[j]
    BY <1>0, <1>5, <2>2 DEF DeleteEnds, Pool!TearDown, TypeOK
  <2>4. /\ at'[r] = "answered" /\ status'[r] = 200
        /\ \A q \in DelReq : q # r => at'[q] = at[q] /\ status'[q] = status[q]
    BY <1>0, <2>1, Answered
  <2>5. \A q \in DelReq : q # r /\ (at[q] = "tearing" \/ status[q] = 200) => target[q] # target[r]
    BY <1>0, <2>1 DEF DeleteProgress, RequestProgress
  <2> QED BY <1>0, <2>1, <2>2, <2>3, <2>4, <2>5 DEF DeleteProgress, TypeOK
<1>6. CASE Signal \/ Exit \/ UNCHANGED vars
  BY <1>1, <1>6 DEF Signal, Exit, vars
<1>7. CASE DrainEnds
  <2>1. /\ victims' = {i \in Id : fork[i] = "live"} /\ UNCHANGED <<reqVars, target>>
        /\ fork' = fork \/ Pool!Leave(victims')
        /\ victims' # {} => Pool!Leave(victims')
    BY <1>7 DEF DrainEnds
  <2>2. \A i \in Id : fork[i] \in {"leaving", "gone"} => fork'[i] = fork[i]
    BY <2>1 DEF Pool!Leave
  <2>3. \A i \in victims' : fork'[i] = "leaving"
    BY <2>1 DEF Pool!Leave
  <2>4. \A r \in DelReq : at[r] = "tearing" => target[r] \notin victims'
    BY <1>0, <2>1 DEF DeleteProgress
  <2>5. \A i \in Id : fork'[i] = "leaving" => i \in victims' \/ (fork[i] = "leaving" /\ i \notin victims)
    BY <1>0, <1>7, <2>1 DEF DrainEnds, Pool!Leave, ExitProgress
  <2> QED BY <1>0, <2>1, <2>2, <2>3, <2>4, <2>5 DEF DeleteProgress
<1>8. ASSUME NEW i \in Id, ShutdownTearsDown(i) PROVE DeleteProgress'
  <2>1. i \in victims /\ victims' = victims \ {i} /\ UNCHANGED <<reqVars, target>>
    BY <1>8 DEF ShutdownTearsDown
  <2>2. fork[i] = "leaving" /\ fork'[i] = "gone" /\ \A j \in Id : j # i => fork'[j] = fork[j]
    BY <1>0, <1>8 DEF ShutdownTearsDown, Pool!TearDown, TypeOK
  <2> QED BY <1>0, <2>1, <2>2 DEF DeleteProgress, TypeOK
<1> QED
  BY <1>2, <1>3, <1>4, <1>5, <1>6, <1>7, <1>8 DEF Next, Main, DeleteHandler

(* After a complete drain no handler runs, and Shutdown has every live     *)
(* fork.                                                                   *)
LEMMA ExitStep == ASSUME IndInv, [Next]_vars PROVE ExitProgress'
<1>0. /\ TypeOK /\ RequestProgress /\ ForkProgress /\ DeleteProgress /\ ExitProgress
      /\ \A i \in Id : ReqOf[i] \in Request
  BY ServerAssumption DEF IndInv, Request
<1> USE DEF execVars, mainVars, counters, reqVars
<1>1. ASSUME UNCHANGED mainVars, http \in {"serving", "draining"} \/ late PROVE ExitProgress'
  BY <1>0, <1>1 DEF ExitProgress, TypeOK
<1>2. ASSUME UNCHANGED mainVars, NEW r \in Request, InFlight(r) \/ http = "serving" PROVE ExitProgress'
  BY <1>0, <1>1, <1>2 DEF ExitProgress, TypeOK
<1>3. ASSUME NEW r \in ForkReq, ForkHandler(r) PROVE ExitProgress'
  BY <1>2, <1>3 DEF ForkHandler, Rejected, ForkAccepted, ForkReturns, Accepted, Running, InFlight, Request
<1>4. ASSUME NEW i \in Id, ForkOne(i) PROVE ExitProgress'
  BY <1>0, <1>2, <1>4 DEF ForkOne, Running, InFlight
<1>5. ASSUME NEW r \in ExecReq, ExecHandler(r) PROVE ExitProgress'
  BY <1>2, <1>5 DEF ExecHandler, Rejected, ExecStarts, AgentHandles, ExecAnswers, ExecFails, Accepted, Running,
     InFlight, Request
<1>6. ASSUME NEW r \in DelReq, DeleteHandler(r) PROVE ExitProgress'
  BY <1>2, <1>6 DEF DeleteHandler, DeleteStarts, DeleteEnds, Accepted, Running, InFlight, Request
<1>7. CASE Signal
  BY <1>0, <1>7 DEF Signal, ExitProgress
<1>8. CASE DrainEnds
  <2>1. /\ http' = "stopping" /\ late' = \E r \in Request : InFlight(r)
        /\ victims' = {i \in Id : fork[i] = "live"} /\ UNCHANGED <<reqVars, result>>
        /\ victims' = {} => fork' = fork
        /\ victims' # {} => Pool!Leave(victims')
    BY <1>8 DEF DrainEnds
  <2>2. ASSUME ~late' PROVE \A r \in Request : ~InFlight(r)'
    BY <2>1, <2>2 DEF InFlight
  <2>3. ASSUME ~late', NEW i \in Id, i \notin victims' PROVE fork'[i] \in {"absent", "gone"}
    <3>1. fork[i] # "live" /\ fork'[i] = fork[i]
      BY <2>1, <2>3 DEF Pool!Leave
    <3>2. fork[i] # "leaving"
      <4>1. victims = {} /\ \A r \in Request : ~InFlight(r)
        BY <1>0, <1>8, <2>1, <2>3 DEF DrainEnds, ExitProgress
      <4> QED BY <1>0, <4>1 DEF DeleteProgress, InFlight, Request
    <3> QED BY <1>0, <3>1, <3>2 DEF TypeOK, Pool!ForkState
  <2> QED BY <2>1, <2>2, <2>3 DEF ExitProgress
<1>9. ASSUME NEW i \in Id, ShutdownTearsDown(i) PROVE ExitProgress'
  <2>1. /\ http = "stopping" /\ victims' = victims \ {i} /\ UNCHANGED <<reqVars, http, late>>
        /\ fork' = [fork EXCEPT ![i] = "gone"]
    BY <1>9 DEF ShutdownTearsDown, Pool!TearDown
  <2> QED BY <1>0, <2>1 DEF ExitProgress, InFlight, TypeOK
<1>10. CASE Exit
  BY <1>0, <1>10 DEF Exit, ExitProgress, InFlight
<1>11. CASE UNCHANGED vars
  BY <1>0, <1>11 DEF vars, ExitProgress, InFlight
<1> QED
  BY <1>3, <1>4, <1>5, <1>6, <1>7, <1>8, <1>9, <1>10, <1>11 DEF Next, Main

(* The counters of forks and execs against the requests that were told.    *)
LEMMA MetricsStep == ASSUME IndInv, [Next]_vars PROVE MetricsAddUp'
<1> DEFINE told == {i \in Id : result[i] = "up" /\ status[ReqOf[i]] = 200}
           heard == {r \in ExecReq : status[r] = 200}
           Unpaid == \A i \in Id :
             fork[i] # "absent" /\ i \notin told => at[ReqOf[i]] = "forking" \/ status[ReqOf[i]] = 500
           Asked == \A r \in heard : agent[r] # "none" /\ fork[target[r]] # "absent"
<1>0. /\ TypeOK /\ RequestProgress /\ ForkProgress /\ ExecProgress /\ MetricsAddUp
      /\ \A i \in Id : ReqOf[i] \in ForkReq /\ ReqOf[i] \in Request
      /\ ExecReq \subseteq Request
  BY ServerAssumption DEF IndInv, Request
<1>a. ForkProgress' /\ ExecProgress'
  BY ForkStep, ExecStep
<1>b. MetricsAddUp <=> totalForks = Cardinality(told) /\ Unpaid /\ totalExecs = Cardinality(heard) /\ Asked
  BY DEF MetricsAddUp
<1>c. MetricsAddUp' <=>
        totalForks' = Cardinality(told') /\ Unpaid' /\ totalExecs' = Cardinality(heard') /\ Asked'
  BY DEF MetricsAddUp
<1>d. Unpaid' /\ Asked'
  BY <1>a, ServerAssumption DEF ForkProgress, ExecProgress
<1> USE DEF execVars, mainVars, counters, reqVars
<1>1. ASSUME told' = told, heard' = heard, UNCHANGED <<totalForks, totalExecs>> PROVE MetricsAddUp'
  BY <1>0, <1>b, <1>c, <1>d, <1>1
<1>2. ASSUME UNCHANGED <<result, totalForks, totalExecs>>, NEW r \in Request, NEW s \in {400, 500, 502},
             (Answers(r, s) /\ status[r] = 0) \/ \E p \in Progress : Goes(r, p)
      PROVE  MetricsAddUp'
  <2>1. \A q \in Request : status'[q] = 200 <=> status[q] = 200
    BY <1>0, <1>2, Answered, GoesOn
  <2> QED BY <1>0, <1>1, <1>2, <2>1
<1>3. ASSUME NEW r \in ForkReq, ForkReturns(r), Answers(r, 200) PROVE MetricsAddUp'
  <2>1. /\ at[r] = "forking" /\ status[r] = 0 /\ r \in Request /\ r \notin ExecReq
        /\ UNCHANGED <<result, totalExecs>>
    BY <1>0, <1>3, ServerAssumption DEF ForkReturns, Running, RequestProgress, Request
  <2>2. status'[r] = 200 /\ \A q \in Request : q # r => status'[q] = status[q]
    BY <1>0, <1>3, <2>1, Answered
  <2>3. totalForks' = totalForks + Cardinality(Made(r))
    BY <1>0, <1>3, <2>1, <2>2 DEF ForkReturns, Answers, TypeOK
  <2>4. heard' = heard
    BY <1>0, <2>1, <2>2
  <2>5. told' = told \cup Made(r) /\ told \cap Made(r) = {}
    BY <1>0, <2>1, <2>2 DEF Made, Forks
  <2>6. IsFiniteSet(told) /\ IsFiniteSet(Made(r))
    <3>1. told \in SUBSET Id
      OBVIOUS
    <3> QED BY <3>1, ServerAssumption, FS_Subset, ForksFinite
  <2>7. Cardinality(told') = Cardinality(told) + Cardinality(Made(r))
    <3>1. /\ Cardinality(told) \in Nat /\ Cardinality(Made(r)) \in Nat
          /\ Cardinality(told \cup Made(r)) = Cardinality(told) + Cardinality(Made(r)) - Cardinality(told \cap Made(r))
      BY <2>6, FS_Union, FS_CardinalityType
    <3>2. Cardinality(told \cap Made(r)) = 0
      BY <2>5, FS_EmptySet
    <3> HIDE DEF told
    <3> QED BY <2>5, <3>1, <3>2
  <2> QED BY <1>0, <1>b, <1>c, <1>d, <2>1, <2>3, <2>4, <2>7
<1>4. ASSUME NEW r \in ExecReq, ExecAnswers(r) PROVE MetricsAddUp'
  <2>1. /\ at[r] = "handled" /\ status[r] = 0 /\ r \in Request /\ r \notin ForkReq
        /\ UNCHANGED <<result, totalForks>> /\ totalExecs' = totalExecs + 1 /\ Answers(r, 200)
    BY <1>0, <1>4, ServerAssumption DEF ExecAnswers, Running, RequestProgress, Request
  <2>2. status'[r] = 200 /\ \A q \in Request : q # r => status'[q] = status[q]
    BY <1>0, <2>1, Answered
  <2>3. told' = told
    BY <1>0, <2>1, <2>2
  <2>4. heard' = heard \cup {r} /\ r \notin heard
    BY <1>0, <2>1, <2>2
  <2>5. IsFiniteSet(heard)
    <3>1. heard \in SUBSET ExecReq
      OBVIOUS
    <3> QED BY <3>1, ServerAssumption, FS_Subset
  <2>6. Cardinality(heard') = Cardinality(heard) + 1
    BY <2>4, <2>5, FS_AddElement
  <2> QED BY <1>0, <1>b, <1>c, <1>d, <2>1, <2>3, <2>6
<1>5. ASSUME NEW i \in Id, ForkOne(i) PROVE MetricsAddUp'
  <2>1. /\ at[ReqOf[i]] = "forking" /\ UNCHANGED <<reqVars, counters>>
        /\ \E o \in {"up", "error"} : result' = [result EXCEPT ![i] = o]
    BY <1>5 DEF ForkOne, Running
  <2>2. status[ReqOf[i]] # 200
    BY <1>0, <2>1 DEF RequestProgress
  <2>3. \A j \in Id : j # i => result'[j] = result[j]
    BY <1>0, <2>1 DEF TypeOK
  <2> QED BY <1>1, <2>1, <2>2, <2>3
<1>6. ASSUME NEW r \in ForkReq, ForkHandler(r) PROVE MetricsAddUp'
  <2>1. r \in Request /\ (at[r] # "answered" => status[r] = 0)
    BY <1>0 DEF RequestProgress, Request
  <2>2. CASE Rejected(r)
    BY <1>2, <2>1, <2>2 DEF Rejected, Accepted
  <2>3. CASE ForkAccepted(r)
    BY <1>2, <2>1, <2>3 DEF ForkAccepted, Progress
  <2>4. CASE ForkReturns(r) /\ Answers(r, 500)
    <3>1. totalForks' = totalForks
      BY <1>0, <2>1, <2>4, Answered DEF ForkReturns
    <3> QED BY <1>2, <2>1, <2>4, <3>1 DEF ForkReturns, Running
  <2> QED BY <1>3, <1>6, <2>2, <2>3, <2>4 DEF ForkHandler, ForkReturns
<1>7. ASSUME NEW r \in ExecReq, ExecHandler(r) PROVE MetricsAddUp'
  <2>1. r \in Request /\ (at[r] # "answered" => status[r] = 0)
    BY <1>0 DEF RequestProgress, Request
  <2>2. CASE Rejected(r)
    BY <1>2, <2>1, <2>2 DEF Rejected, Accepted
  <2>3. CASE ExecStarts(r)
    BY <1>2, <2>1, <2>3 DEF ExecStarts, Accepted, Progress
  <2>4. CASE AgentHandles(r)
    BY <1>2, <2>1, <2>4 DEF AgentHandles, Progress
  <2>5. CASE ExecFails(r)
    BY <1>2, <2>1, <2>5 DEF ExecFails, Running
  <2> QED BY <1>4, <1>7, <2>2, <2>3, <2>4, <2>5 DEF ExecHandler
<1>8. ASSUME NEW r \in DelReq, DeleteHandler(r) PROVE MetricsAddUp'
  <2>1. r \in Request /\ r \notin ForkReq /\ r \notin ExecReq
    BY ServerAssumption DEF Request
  <2>2. UNCHANGED <<result, totalForks, totalExecs>>
    BY <1>8 DEF DeleteHandler, DeleteStarts, DeleteEnds
  <2>3. Goes(r, "tearing") \/ Answers(r, 200) \/ Answers(r, 400)
    BY <1>8 DEF DeleteHandler, DeleteStarts, DeleteEnds
  <2>4. \A q \in Request : q # r => status'[q] = status[q]
    BY <1>0, <2>1, <2>3, GoesOn, Answered DEF Progress
  <2> QED BY <1>0, <1>1, <2>1, <2>2, <2>4
<1>9. CASE Signal \/ Main \/ UNCHANGED vars
  BY <1>1, <1>9 DEF Signal, Main, DrainEnds, Exit, ShutdownTearsDown, vars
<1> QED
  BY <1>5, <1>6, <1>7, <1>8, <1>9 DEF Next

LEMMA StepInv == IndInv /\ [Next]_vars => IndInv'
BY TypeStep, RequestStep, ForkStep, ExecStep, DeleteStep, ExitStep, MetricsStep DEF IndInv

(* The invariant behind the others: how far each request is, with its      *)
(* status, its forks, its target and its secret; who tears which fork      *)
(* down; and what Shutdown has still to do.                                *)
THEOREM IndInvHolds == Spec => []IndInv
BY InitInv, StepInv, PTL DEF Spec

(* /v1/metrics adds up in every reachable state: total_forks counts the    *)
(* forks that were returned to a client, total_execs the execs that were   *)
(* answered 200, however the handlers interleave.                          *)
THEOREM MetricsCorrect == Spec => []MetricsAddUp
<1>1. IndInv => MetricsAddUp
  BY DEF IndInv
<1> QED BY <1>1, IndInvHolds, PTL

(* No two DELETEs of a fork are both told that they released it, and the   *)
(* one that was is told after the VM is gone, Shutdown or not.             *)
THEOREM ReleasedOnce == Spec => []DeletedOnce
<1>1. IndInv => DeletedOnce
  <2> SUFFICES ASSUME IndInv, NEW i \in Id
               PROVE  /\ Cardinality(Releases(i)) <= 1
                      /\ Releases(i) # {} => fork[i] = "gone" /\ i \notin victims
    BY DEF DeletedOnce
  <2>1. DeleteProgress /\ RequestProgress /\ DelReq \subseteq Request
    BY DEF IndInv, Request
  <2>2. \A r \in Releases(i) : fork[i] = "gone" /\ i \notin victims
    BY <2>1 DEF Releases, DeleteProgress
  <2>3. \A r, q \in Releases(i) : r = q
    BY <2>1 DEF Releases, DeleteProgress, RequestProgress
  <2>4. CASE Releases(i) = {}
    BY <2>4, FS_EmptySet
  <2>5. CASE Releases(i) # {}
    <3>1. PICK r \in Releases(i) : Releases(i) = {r}
      BY <2>3, <2>5
    <3>2. Cardinality(Releases(i)) = 1
      BY <3>1, FS_Singleton
    <3> QED BY <2>2, <3>1, <3>2
  <2> QED BY <2>4, <2>5
<1> QED BY <1>1, IndInvHolds, PTL

(* An exec is refused for its signature only once a second secret is       *)
(* cached: before that every exec signs with the secret of its fork.       *)
THEOREM SecretCachedFirst == Spec => []SecretIsReady
<1>1. IndInv => SecretIsReady
  <2> SUFFICES ASSUME IndInv, NEW r \in ExecReq, agent[r] = "unauthenticated"
               PROVE  Cardinality(secrets) > 1
    BY DEF SecretIsReady
  <2>0. \E t, k \in secrets : t # k
    BY DEF IndInv, ExecProgress
  <2>1. PICK t \in secrets, k \in secrets : t # k
    BY <2>0
  <2>2. IsFiniteSet(secrets)
    <3>1. secrets \in SUBSET Template
      BY ServerAssumption DEF IndInv, TypeOK
    <3> QED BY <3>1, ServerAssumption, FS_Subset
  <2>3. Cardinality(secrets) \in Nat /\ Cardinality(secrets) # 0 /\ Cardinality(secrets) # 1
    BY <2>1, <2>2, FS_CardinalityType, FS_EmptySet, FS_Singleton
  <2> QED BY <2>3
<1> QED BY <1>1, IndInvHolds, PTL

(* A server whose drain was complete leaves no VM behind when it exits:    *)
(* every fork it ever made has been torn down.                             *)
THEOREM ShutdownIsClean == Spec => []ExitsClean
<1>1. IndInv => ExitsClean
  BY DEF IndInv, ExitProgress, ExitsClean
<1> QED BY <1>1, IndInvHolds, PTL
=============================================================================
