------------------------ MODULE TunnelPromiseProofs -------------------------
(***************************************************************************)
(* The theorem that TunnelServer keeps the promise of TunnelPromise: each  *)
(* step of a task is a step of the promise, or one the adapters and the    *)
(* callers do not see.                                                     *)
(***************************************************************************)
EXTENDS TunnelServerProofs, TunnelServerRefinement

(***************************************************************************)
(* What the invariant does not say of a failed request                     *)
(***************************************************************************)

\* dispatch finishes with the error it met, and reports a disconnect only if no
\* answer had come.
Failures ==
    \A r \in Reqs :
        /\ reqPc[r] = "failing" => result[r] \in TunnelErrors \ {"not_connected"}
        /\ result[r] = "disconnected" => slot[r] = NoConn /\ ~Listening(r)
        /\ reqPc[r] = "idle" => result[r] = "none"

\* Every step keeps Failures.
LEMMA FailuresStep == IInv /\ Failures /\ [Next]_vars => Failures'
<1> SUFFICES ASSUME IInv, Failures, [Next]_vars PROVE Failures'
    OBVIOUS
<1> USE DEF Failures, Listening
<1>0. /\ TypeOK /\ reqPc \in [Reqs -> ReqPcs]
      /\ result \in [Reqs -> {"none", "ok"} \cup TunnelErrors]
      /\ slot \in [Reqs -> 0 .. MaxConns]
    BY DEF IInv, TypeOK
<1>1. CASE UNCHANGED <<reqPc, result, slot>>
    BY <1>1
<1>2. ASSUME NEW c \in Conns, RelayRecv(c) PROVE Failures'
  <2>1. UNCHANGED <<reqPc, result>>
    BY <1>0, <1>2, RelayRecvFrame
  <2>2. CASE UNCHANGED slot
    BY <1>1, <2>1, <2>2
  <2>3. CASE ~UNCHANGED slot
    <3>1. PICK r \in Reqs : Listening(r) /\ slot' = [slot EXCEPT ![r] = c]
      BY <1>0, <1>2, <2>3, RelayRecvCases
    <3> QED BY <1>0, <2>1, <3>1
  <2> QED BY <2>2, <2>3
<1>3. ASSUME NEW r \in Reqs, Dispatch(r) PROVE Failures'
  <2>1. reqPc[r] = "idle" /\ UNCHANGED slot
    BY <1>0, <1>3, DispatchCases
  <2>2. \/ reqPc' = [reqPc EXCEPT ![r] = "done"] /\ result' = [result EXCEPT ![r] = "not_connected"]
        \/ reqPc' = [reqPc EXCEPT ![r] = "sending"] /\ UNCHANGED result
    BY <1>0, <1>3, DispatchCases
  <2> QED BY <1>0, <2>1, <2>2
<1>4. ASSUME NEW r \in Reqs, SendRequest(r) PROVE Failures'
  BY <1>0, <1>4 DEF SendRequest
<1>5. ASSUME NEW r \in Reqs, SendLost(r) \/ Timeout(r) PROVE Failures'
  BY <1>0, <1>5 DEF SendLost, Timeout, Fail, TunnelErrors
<1>6. ASSUME NEW r \in Reqs, RecvDropped(r) PROVE Failures'
  BY <1>0, <1>6 DEF RecvDropped, Fail, TunnelErrors
<1>7. ASSUME NEW r \in Reqs, RecvResponse(r) PROVE Failures'
  BY <1>0, <1>7 DEF RecvResponse
<1>8. ASSUME NEW r \in Reqs, Finish(r) \/ Cancel(r) PROVE Failures'
  BY <1>0, <1>8 DEF Finish, Cancel, InDispatch
<1> HIDE DEF Failures, Listening
<1> QED
  BY <1>1, <1>2, <1>3, <1>4, <1>5, <1>6, <1>7, <1>8, AdapterFrame, DrainFrame, RunFrame
     DEF Next, RunTask, RequestTask, Run, AuthRecv, AuthTimeout, AuthClosed, Register,
         CloseReplaced, RelayClosed, Cleanup, Return, CreateConnection, Stopped, vars, reqVars

(***************************************************************************)
(* The steps of the promise                                                *)
(***************************************************************************)
Mapped == <<phaseMap, services, brokenMap, stateMap, reqConn, answeredMap, outcomeMap>>

\* The promise sees nothing of a step that leaves what it is about alone.
LEMMA Unseen ==
    ASSUME UNCHANGED <<services, reqConn, slot>>, phaseMap' = phaseMap,
           brokenMap' = brokenMap, stateMap' = stateMap, outcomeMap' = outcomeMap
    PROVE  UNCHANGED Mapped
BY DEF Mapped, answeredMap

\* A run() that does not register or end changes no phase.
LEMMA SamePhase ==
    ASSUME TypeOK, NEW c \in Conns, NEW pc \in RunPcs, runPc' = [runPc EXCEPT ![c] = pc],
           PhaseOf(pc) = PhaseOf(runPc[c])
    PROVE  phaseMap' = phaseMap
BY DEF TypeOK, phaseMap

\* A dispatch that goes on changes no state.
LEMMA SameState ==
    ASSUME TypeOK, NEW r \in Reqs, NEW pc \in InDispatch, reqPc' = [reqPc EXCEPT ![r] = pc],
           reqPc[r] \in InDispatch, \A q \in Reqs \ {r} : result'[q] = result[q]
    PROVE  stateMap' = stateMap /\ outcomeMap' = outcomeMap
BY DEF TypeOK, stateMap, outcomeMap, StateOf, InDispatch, ReqPcs

\* run() as the promise sees it: a connection claims a service when run()
\* registers it, ends when run() cleans up or gives up, and answers when its
\* relay loop passes a response on.
LEMMA RunSteps ==
    ASSUME IInv, DrainStarted, NEW c \in Conns, RunTask(c) \/ AuthTimeout(c)
    PROVE  Promise!PromiseNext \/ UNCHANGED Mapped
<1> USE DEF PhaseOf, Relaying, Past, RunPcs
<1>0. /\ TypeOK /\ runPc \in [Conns -> RunPcs] /\ services \in [Services -> 0 .. MaxConns]
      /\ auth \in [Conns -> AuthMessages \cup {NoAuth}]
      /\ drain \in [Conns -> {"none", "running", "panicked", "ended"}]
      /\ reqPc \in [Reqs -> ReqPcs]
  BY DEF IInv, TypeOK
<1>1. UNCHANGED <<reqPc, reqConn, result>> /\ stateMap' = stateMap /\ outcomeMap' = outcomeMap
  BY RunFrame DEF stateMap, outcomeMap
<1>2. UNCHANGED drain => brokenMap' = brokenMap
  BY DEF brokenMap
<1>3. UNCHANGED slot => answeredMap' = answeredMap
  BY DEF answeredMap
<1>4. CASE Run(c)
  <2>1. UNCHANGED <<services, slot>> /\ phaseMap' = phaseMap
    BY <1>0, <1>4, SamePhase DEF Run, serverVars, reqVars
  <2>2. brokenMap' = brokenMap
    <3>1. drain[c] = "none"
      BY <1>4 DEF Run, DrainStarted
    <3> QED BY <1>0, <1>4, <3>1 DEF Run, brokenMap
  <2> QED BY <1>1, <2>1, <2>2, Unseen
<1>5. ASSUME runPc[c] \notin Relaying \cup Past, runPc' = [runPc EXCEPT ![c] = "drain"],
             UNCHANGED <<services, drain, slot>>
      PROVE  Promise!End(c)
  <2>1. phaseMap[c] = "new" /\ phaseMap' = [phaseMap EXCEPT ![c] = "ended"]
    BY <1>0, <1>5 DEF phaseMap
  <2>2. \A s \in Services : services[s] # c
    BY <1>5, ServerAssumption DEF IInv, RegisteredIsRelaying, Conns, NoConn
  <2>3. services' = [s \in Services |-> IF services[s] = c THEN NoConn ELSE services[s]]
    BY <1>0, <1>5, <2>2
  <2> QED BY <1>1, <1>2, <1>3, <1>5, <2>1, <2>3 DEF Promise!End
<1>6. CASE AuthTimeout(c)
  BY <1>5, <1>6, AuthTimeoutCases DEF Promise!PromiseNext
<1>7. CASE AuthClosed(c)
  BY <1>5, <1>7 DEF AuthClosed, serverVars, reqVars, Promise!PromiseNext
<1>8. CASE AuthRecv(c)
  <2>1. /\ runPc[c] = "auth" /\ UNCHANGED <<services, drain, slot>>
        /\ \/ runPc' = [runPc EXCEPT ![c] = "authed"]
           \/ runPc' = [runPc EXCEPT ![c] = "drain"]
    BY <1>0, <1>8, AuthRecvCases
  <2>2. CASE runPc' = [runPc EXCEPT ![c] = "authed"]
    BY <1>0, <1>1, <1>2, <2>1, <2>2, SamePhase, Unseen
  <2>3. CASE runPc' = [runPc EXCEPT ![c] = "drain"]
    BY <1>5, <2>1, <2>3 DEF Promise!PromiseNext
  <2> QED BY <2>1, <2>2, <2>3
<1>9. CASE Register(c)
  <2> DEFINE s == auth[c].service
  <2>1. s \in Services
    <3>1. auth[c] \in AuthMessages
      BY <1>9 DEF Register, IInv, AuthenticatedIfServed, Authenticated
    <3> QED BY <3>1 DEF AuthMessages, AuthMessage
  <2>2. /\ services' = [services EXCEPT ![s] = c]
        /\ runPc[c] = "authed"
        /\ \E pc \in Relaying : runPc' = [runPc EXCEPT ![c] = pc]
        /\ UNCHANGED <<drain, slot>>
    BY <1>9 DEF Register, connVars, reqVars
  <2>3. phaseMap[c] = "new" /\ phaseMap' = [phaseMap EXCEPT ![c] = "serving"]
    BY <1>0, <2>2 DEF phaseMap
  <2>4. Promise!Claim(c, s)
    BY <1>1, <1>2, <1>3, <2>2, <2>3 DEF Promise!Claim
  <2> QED BY <2>1, <2>4 DEF Promise!PromiseNext
<1>10. CASE CloseReplaced(c) \/ RelayClosed(c) \/ Return(c)
  <2>1. UNCHANGED <<services, drain, slot>> /\ phaseMap' = phaseMap
    BY <1>0, <1>10, SamePhase DEF CloseReplaced, RelayClosed, Return, serverVars, reqVars
  <2> QED BY <1>1, <1>2, <2>1, Unseen
<1>11. CASE RelayRecv(c)
  <2>1. /\ runPc[c] = "relay" /\ UNCHANGED <<services, runPc, drain>>
        /\ phaseMap' = phaseMap /\ brokenMap' = brokenMap
    BY <1>0, <1>11, RelayRecvCases DEF phaseMap, brokenMap
  <2>2. CASE UNCHANGED slot
    BY <1>1, <2>1, <2>2, Unseen
  <2>3. CASE ~UNCHANGED slot
    <3>1. PICK r \in Reqs : pending[r] = c /\ Listening(r) /\ slot' = [slot EXCEPT ![r] = c]
      BY <1>0, <1>11, <2>3, RelayRecvCases
    <3>2. stateMap[r] = "open"
      BY <3>1 DEF stateMap, StateOf, Listening, InDispatch
    <3>3. reqConn[r] = c /\ phaseMap[c] = "serving"
      BY <2>1, <3>1, ServerAssumption DEF IInv, PendingOnLiveConnection, phaseMap, Conns, NoConn
    <3>4. answeredMap' = answeredMap \cup {r}
      BY <3>1, <1>0, ServerAssumption DEF answeredMap, TypeOK, Conns, NoConn
    <3>5. Promise!Answer(r)
      BY <1>1, <2>1, <3>2, <3>3, <3>4 DEF Promise!Answer
    <3> QED BY <3>5 DEF Promise!PromiseNext
  <2> QED BY <2>2, <2>3
<1>12. CASE Cleanup(c)
  <2>1. /\ runPc[c] = "cleanup" /\ runPc' = [runPc EXCEPT ![c] = "drain"]
        /\ services' = ServicesWithout(c) /\ UNCHANGED <<drain, slot>>
    BY <1>12 DEF Cleanup, reqVars
  <2>2. phaseMap[c] = "serving" /\ phaseMap' = [phaseMap EXCEPT ![c] = "ended"]
    BY <1>0, <2>1 DEF phaseMap
  <2>3. \A s \in Services : services[s] = c => s = auth[c].service
    BY ServerAssumption DEF IInv, RegisteredIsRelaying, Conns, NoConn
  <2>4. services' = [s \in Services |-> IF services[s] = c THEN NoConn ELSE services[s]]
    BY <1>0, <2>1, <2>3 DEF ServicesWithout
  <2>5. Promise!End(c)
    BY <1>1, <1>2, <1>3, <2>1, <2>2, <2>4 DEF Promise!End
  <2> QED BY <2>5 DEF Promise!PromiseNext
<1> QED BY <1>4, <1>6, <1>7, <1>8, <1>9, <1>10, <1>11, <1>12 DEF RunTask

\* The drain task delivers and ends unseen; a panic of the callback breaks the
\* connection's way out.
LEMMA DrainSteps ==
    ASSUME IInv, NEW c \in Conns, DrainTask(c) \/ CallbackPanics(c)
    PROVE  Promise!PromiseNext \/ UNCHANGED Mapped
<1>0. drain \in [Conns -> {"none", "running", "panicked", "ended"}]
  BY DEF IInv, TypeOK
<1>1. /\ UNCHANGED <<services, reqConn, slot>> /\ phaseMap' = phaseMap
      /\ stateMap' = stateMap /\ outcomeMap' = outcomeMap /\ answeredMap' = answeredMap
  BY DrainFrame DEF phaseMap, stateMap, outcomeMap, answeredMap
<1>2. CASE DrainTask(c)
  <2>1. brokenMap' = brokenMap
    BY <1>0, <1>2 DEF DrainTask, DrainDeliver, DrainEnd, brokenMap
  <2> QED BY <1>1, <2>1, Unseen
<1>3. CASE CallbackPanics(c)
  <2>1. brokenMap' = brokenMap \cup {c}
    BY <1>0, <1>3 DEF CallbackPanics, brokenMap
  <2> QED BY <1>1, <2>1 DEF Promise!Break, Promise!PromiseNext
<1> QED BY <1>2, <1>3

\* dispatch as the promise sees it: it refuses or accepts the request, and
\* tells the caller the answer, an error that is true, or nothing if it is
\* dropped.
LEMMA RequestSteps ==
    ASSUME IInv, Failures, NEW r \in Reqs,
           Dispatch(r) \/ RequestTask(r) \/ Timeout(r) \/ Cancel(r)
    PROVE  Promise!PromiseNext \/ UNCHANGED Mapped
<1> USE DEF StateOf, InDispatch, ReqPcs
<1>0. /\ TypeOK /\ reqPc \in [Reqs -> ReqPcs] /\ reqConn \in [Reqs -> 0 .. MaxConns]
      /\ result \in [Reqs -> {"none", "ok"} \cup TunnelErrors]
  BY DEF IInv, TypeOK
<1>1. /\ UNCHANGED <<services, slot>> /\ phaseMap' = phaseMap
      /\ brokenMap' = brokenMap /\ answeredMap' = answeredMap
  BY RequestFrame DEF phaseMap, brokenMap, answeredMap
<1>2. CASE Dispatch(r)
  <2>1. stateMap[r] = "idle" /\ reqPc[r] = "idle" /\ result[r] = "none"
    BY <1>0, <1>2, DispatchCases DEF stateMap, Failures
  <2>2. CASE services[ServiceOf[r]] = NoConn
    <3>1. /\ reqPc' = [reqPc EXCEPT ![r] = "done"] /\ UNCHANGED reqConn
          /\ result' = [result EXCEPT ![r] = "not_connected"]
      BY <1>2, <2>2 DEF Dispatch
    <3>2. /\ stateMap' = [stateMap EXCEPT ![r] = "done"]
          /\ outcomeMap' = [outcomeMap EXCEPT ![r] = "not_connected"]
      BY <1>0, <3>1 DEF stateMap, outcomeMap
    <3> QED BY <1>1, <2>1, <2>2, <3>1, <3>2
            DEF Promise!Refuse, Promise!Tell, Promise!PromiseNext
  <2>3. CASE services[ServiceOf[r]] # NoConn
    <3>1. /\ reqPc' = [reqPc EXCEPT ![r] = "sending"] /\ UNCHANGED result
          /\ reqConn' = [reqConn EXCEPT ![r] = services[ServiceOf[r]]]
      BY <1>2, <2>3 DEF Dispatch
    <3>2. stateMap' = [stateMap EXCEPT ![r] = "open"] /\ outcomeMap' = outcomeMap
      BY <1>0, <2>1, <3>1 DEF stateMap, outcomeMap
    <3> QED BY <1>1, <2>1, <2>3, <3>1, <3>2 DEF Promise!Accept, Promise!PromiseNext
  <2> QED BY <2>2, <2>3
<1>3. CASE ~Dispatch(r)
  <2>0. UNCHANGED reqConn
    BY <1>3, RequestFrame
  <2>1. ASSUME NEW pc \in {"waiting", "failing"}, reqPc[r] \in InDispatch,
               reqPc' = [reqPc EXCEPT ![r] = pc],
               \A q \in Reqs \ {r} : result'[q] = result[q]
        PROVE  UNCHANGED Mapped
    <3>1. stateMap' = stateMap /\ outcomeMap' = outcomeMap
      BY <1>0, <2>1, SameState
    <3> QED BY <1>1, <2>0, <3>1, Unseen
  <2>2. CASE SendRequest(r)
    BY <2>1, <2>2 DEF SendRequest
  <2>3. CASE SendLost(r) \/ RecvDropped(r) \/ Timeout(r)
    BY <1>0, <2>1, <2>3 DEF SendLost, RecvDropped, Timeout, Fail
  <2>4. CASE RecvResponse(r)
    <3>1. /\ stateMap[r] = "open" /\ r \in answeredMap
          /\ stateMap' = [stateMap EXCEPT ![r] = "done"]
          /\ outcomeMap' = [outcomeMap EXCEPT ![r] = "ok"]
      BY <1>0, <2>4 DEF RecvResponse, stateMap, outcomeMap, answeredMap
    <3> QED BY <1>1, <2>0, <3>1 DEF Promise!Complete, Promise!Tell, Promise!PromiseNext
  <2>5. CASE Finish(r)
    <3> DEFINE what == result[r]
    <3>1. /\ reqPc[r] = "failing" /\ reqPc' = [reqPc EXCEPT ![r] = "done"]
          /\ UNCHANGED result
      BY <2>5 DEF Finish
    <3>2. /\ stateMap[r] = "open" /\ stateMap' = [stateMap EXCEPT ![r] = "done"]
          /\ outcomeMap' = [outcomeMap EXCEPT ![r] = what]
      BY <1>0, <3>1 DEF stateMap, outcomeMap
    <3>3. Promise!Tell(r, what)
      BY <1>1, <2>0, <3>2 DEF Promise!Tell
    <3>4. reqConn[r] \in Conns
      BY <1>0, <3>1, ServerAssumption DEF IInv, UntouchedRequests, Conns, NoConn
    <3>5. what \in {"connection_lost", "disconnected", "timeout"}
      BY <3>1 DEF Failures, TunnelErrors
    <3>6. CASE what = "connection_lost"
      <4>1. reqConn[r] \in brokenMap
        BY <3>4, <3>6 DEF IInv, FailureIsTrue, brokenMap
      <4> QED BY <3>2, <3>3, <3>6, <4>1 DEF Promise!Lose, Promise!PromiseNext
    <3>7. CASE what = "disconnected"
      <4>1. r \notin answeredMap
        BY <3>7 DEF Failures, answeredMap
      <4>2. phaseMap[reqConn[r]] = "ended"
        BY <3>4, <3>7 DEF IInv, FailureIsTrue, phaseMap, PhaseOf, Past, Relaying
      <4> QED BY <3>2, <3>3, <3>7, <4>1, <4>2 DEF Promise!Disconnect, Promise!PromiseNext
    <3>8. CASE what = "timeout"
      BY <3>2, <3>3, <3>8 DEF Promise!TimeUp, Promise!PromiseNext
    <3> QED BY <3>5, <3>6, <3>7, <3>8
  <2>6. CASE Cancel(r)
    <3>1. /\ stateMap[r] = "open" /\ outcomeMap' = outcomeMap
          /\ stateMap' = [stateMap EXCEPT ![r] = "abandoned"]
      BY <1>0, <2>6 DEF Cancel, stateMap, outcomeMap
    <3> QED BY <1>1, <2>0, <3>1 DEF Promise!Abandon, Promise!PromiseNext
  <2> QED BY <1>3, <2>2, <2>3, <2>4, <2>5, <2>6 DEF RequestTask
<1> QED BY <1>2, <1>3

\* Every step of the core is one of the promise or unseen by it.
LEMMA StepMap ==
    ASSUME IInv, DrainStarted, Failures, [Next]_vars
    PROVE  Promise!PromiseNext \/ UNCHANGED Mapped
<1>1. CASE CreateConnection
  <2>1. nextConnId \in Conns /\ runPc[nextConnId] = "none"
    BY <1>1 DEF CreateConnection, IInv, FreshConnections, TypeOK, Conns
  <2>2. phaseMap' = phaseMap
    BY <1>1, <2>1, SamePhase DEF CreateConnection, IInv, PhaseOf, Relaying, Past, RunPcs
  <2>3. UNCHANGED <<services, drain, reqPc, reqConn, slot, result>>
    BY <1>1 DEF CreateConnection, reqVars
  <2> QED BY <2>2, <2>3, Unseen DEF brokenMap, stateMap, outcomeMap
<1>2. ASSUME NEW c \in Conns, Adapter(c) PROVE UNCHANGED Mapped
  BY <1>2, AdapterFrame, Unseen DEF phaseMap, brokenMap, stateMap, outcomeMap
<1>3. CASE UNCHANGED vars
  BY <1>3, Unseen DEF vars, phaseMap, brokenMap, stateMap, outcomeMap
<1> QED BY <1>1, <1>2, <1>3, RunSteps, DrainSteps, RequestSteps DEF Next, Stopped

\* The maps of the initial state are those of a promise nobody has used yet.
LEMMA InitMap == Init => Promise!PromiseInit
<1> SUFFICES ASSUME Init PROVE Promise!PromiseInit
  OBVIOUS
<1>1. brokenMap = {} /\ answeredMap = {}
  BY DEF Init, brokenMap, answeredMap
<1>2. phaseMap = [c \in Conns |-> "new"]
  BY DEF Init, phaseMap, PhaseOf, Relaying, Past
<1>3. stateMap = [r \in Reqs |-> "idle"] /\ outcomeMap = [r \in Reqs |-> "none"]
  BY DEF Init, stateMap, outcomeMap, StateOf, InDispatch
<1> QED BY <1>1, <1>2, <1>3 DEF Init, Promise!PromiseInit

\* The core keeps its promise to the adapters: whatever the interleaving of
\* registrations, answers, failures and timeouts, a request ends with the answer
\* of the connection it was sent to or with an error that is true.
THEOREM PromiseKept == Spec => KeepsPromise
<1>1. Init => Promise!PromiseInit /\ DrainStarted /\ Failures
  BY InitMap DEF Init, DrainStarted, Failures, Listening
<1>2. IInv /\ DrainStarted /\ Failures /\ [Next]_vars
      => DrainStarted' /\ Failures' /\ [Promise!PromiseNext]_(Promise!promiseVars)
  BY StepMap, DrainStays, FailuresStep DEF Mapped, Promise!promiseVars
<1> QED BY <1>1, <1>2, Invariance, PTL DEF Spec, KeepsPromise, Promise!PromiseSpec
=============================================================================
