------------------------- MODULE TunnelServerProofs -------------------------
(***************************************************************************)
(* Theorems about TunnelServer, for every number of connections, requests, *)
(* services and push_message calls and every capacity of the channels.     *)
(* They follow from the invariant of TunnelServerInduction.                *)
(***************************************************************************)
EXTENDS TunnelServerInduction, Functions, FiniteSetTheorems

(***************************************************************************)
(* The safety properties                                                   *)
(***************************************************************************)

\* Every variable of the core keeps its type, and neither channel of a
\* connection ever holds more than its capacity.
THEOREM TypeCorrectness == Spec => []TypeOK
<1>1. IInv => TypeOK
    BY DEF IInv
<1> QED BY <1>1, Invariance, PTL

\* No entry of services outlives the run() that registered it.
THEOREM RegisteredServices == Spec => []RegisteredIsRelaying
<1>1. IInv => RegisteredIsRelaying
    BY DEF IInv
<1> QED BY <1>1, Invariance, PTL

\* cleanup_connection leaves no entry of pending behind, and none can be made
\* for the connection afterwards.
THEOREM PendingConnections == Spec => []PendingOnLiveConnection
<1>1. IInv => PendingOnLiveConnection
    BY DEF IInv
<1> QED BY <1>1, Invariance, PTL

\* No race of answers, timeouts, replacements and cleanups leaves a dispatch
\* with nothing to wait for but its timeout.
THEOREM WaitersServed == Spec => []WaiterIsServed
<1>1. IInv => WaiterIsServed
    BY DEF IInv
<1> QED BY <1>1, Invariance, PTL

\* dispatch reports a lost connection only when it is true.
THEOREM TrueFailures == Spec => []FailureIsTrue
<1>1. IInv => FailureIsTrue
    BY DEF IInv
<1> QED BY <1>1, Invariance, PTL

\* A connection that lost its service to another is closed, or about to be.
THEOREM ReplacedConnections == Spec => []ReplacedIsClosed
<1>1. IInv => ReplacedIsClosed
    BY DEF IInv
<1> QED BY <1>1, Invariance, PTL

\* Without the configured, non-empty secret a client gets no service, no
\* auth_ok and no request.
THEOREM Authentication == Spec => []OnlyAuthenticated
<1>1. IInv => OnlyAuthenticated
    <2> SUFFICES ASSUME IInv, NEW c \in Conns,
                        \/ runPc[c] \in {"authed"} \cup Relaying
                        \/ \E s \in Services : services[s] = c
                        \/ \E m \in handed[c] : m.type \in {"auth_ok", "request"}
                 PROVE  Secret # EmptyToken /\ auth[c].token = Secret
        BY DEF OnlyAuthenticated
    <2>1. CASE runPc[c] \in {"authed"} \cup Relaying
        BY <2>1 DEF IInv, AuthenticatedIfServed, Authenticated
    <2>2. CASE \E s \in Services : services[s] = c
        <3>1. runPc[c] \in Relaying
            BY <2>2, ServerAssumption DEF IInv, RegisteredIsRelaying, Conns, NoConn
        <3> QED BY <2>1, <3>1
    <2>3. CASE \E m \in handed[c] : m.type \in {"auth_ok", "request"}
        <3>1. handed[c] \subseteq ServerMessages
            BY DEF IInv, TypeOK
        <3> QED BY <2>3, <3>1 DEF IInv, AuthenticatedIfServed, Authenticated
    <2> QED BY <2>1, <2>2, <2>3
<1> QED BY <1>1, Invariance, PTL

(***************************************************************************)
(* The action properties                                                   *)
(***************************************************************************)

\* Only the cleanup of the registered connection makes a service unavailable.
THEOREM StaleDisconnects == Spec => StaleDisconnectHarmless
<1> DEFINE Harmless ==
        \A s \in Services :
            services[s] # NoConn /\ services'[s] = NoConn
                => runPc[services[s]] = "cleanup" /\ runPc'[services[s]] = "drain"
<1>1. IInv /\ [Next]_vars => [Harmless]_vars
    <2> SUFFICES ASSUME TypeOK, [Next]_vars PROVE Harmless
        BY DEF IInv
    <2>0. services \in [Services -> 0 .. MaxConns] /\ runPc \in [Conns -> RunPcs]
        BY DEF TypeOK
    <2>1. CASE UNCHANGED services
        BY <2>1
    <2>2. ASSUME NEW c \in Conns, Register(c) PROVE Harmless
        BY <2>0, <2>2, ServerAssumption DEF Register, Conns, NoConn
    <2>3. ASSUME NEW c \in Conns, Cleanup(c) PROVE Harmless
        BY <2>0, <2>3 DEF Cleanup, ServicesWithout, PendingWithout
    <2> HIDE DEF Harmless
    <2> QED
        BY <2>1, <2>2, <2>3, AdapterFrame, DrainFrame, RequestFrame, RelayRecvFrame
           DEF Next, RunTask, Run, AuthRecv, AuthTimeout, AuthClosed, CloseReplaced,
               RelayClosed, Return, CreateConnection, Stopped, vars, serverVars
<1> QED BY <1>1, Invariance, PTL DEF Spec, StaleDisconnectHarmless

\* A result stays what the caller was told, and the pending entry of a request
\* that has returned stays removed.
THEOREM FinalResults == Spec => ResultIsFinal
<1> DEFINE Final ==
        \A r \in Reqs : reqPc[r] = "done" =>
            result'[r] = result[r] /\ pending'[r] = NoConn
<1>1. IInv /\ [Next]_vars => [Final]_vars
    <2> SUFFICES ASSUME TypeOK, UntouchedRequests, [Next]_vars PROVE Final
        BY DEF IInv
    <2>0. /\ pending \in [Reqs -> 0 .. MaxConns]
          /\ reqPc \in [Reqs -> ReqPcs]
          /\ result \in [Reqs -> {"none", "ok"} \cup TunnelErrors]
          /\ \A r \in Reqs : reqPc[r] = "done" => pending[r] = NoConn
        BY DEF TypeOK, UntouchedRequests
    <2>1. CASE UNCHANGED <<pending, result>>
        BY <2>0, <2>1
    <2>2. ASSUME NEW c \in Conns, RelayRecv(c) PROVE Final
        BY <2>0, <2>2, RelayRecvCases
    <2>3. ASSUME NEW c \in Conns, Cleanup(c) PROVE Final
        BY <2>0, <2>3 DEF Cleanup, ServicesWithout, PendingWithout, reqVars
    <2>4. ASSUME NEW r \in Reqs, Dispatch(r) PROVE Final
        BY <2>0, <2>4, DispatchCases
    <2>5. ASSUME NEW r \in Reqs,
                 \/ SendLost(r) \/ RecvResponse(r) \/ RecvDropped(r)
                 \/ Timeout(r) \/ Finish(r)
          PROVE  Final
        BY <2>0, <2>5 DEF SendLost, RecvResponse, RecvDropped, Timeout, Finish,
                          Fail, serverVars
    <2> HIDE DEF Final
    <2> QED
        BY <2>1, <2>2, <2>3, <2>4, <2>5, AdapterFrame, DrainFrame, RunFrame
           DEF Next, RunTask, Run, AuthRecv, AuthTimeout, AuthClosed, Register,
               CloseReplaced, RelayClosed, Return, RequestTask, SendRequest, Cancel,
               CreateConnection, Stopped, vars, serverVars, reqVars
<1> QED BY <1>1, Invariance, PTL DEF Spec, ResultIsFinal

(***************************************************************************)
(* auth_ok comes first.  It is in the outgoing channel before run()        *)
(* registers the connection, so before any dispatch can send a request.    *)
(***************************************************************************)
OkSent(c) ==
    \/ AuthOk \in handed[c]
    \/ \E i \in 1 .. Len(outQ[c]) : outQ[c][i] = AuthOk

\* A dispatch may send, or may soon be able to.
MayBeAsked(c) ==
    runPc[c] \in {"authed"} \cup Relaying \/ \E r \in Reqs : reqConn[r] = c

OkAhead(c, i) ==
    AuthOk \in handed[c] \/ \E j \in 1 .. Len(outQ[c]) : j < i /\ outQ[c][j] = AuthOk

OkInOrder(c) ==
    /\ drain[c] = "running" /\ MayBeAsked(c) => OkSent(c)
    /\ \A i \in 1 .. Len(outQ[c]) : outQ[c][i].type = "request" => OkAhead(c, i)
    /\ \A m \in handed[c] : m.type = "request" => AuthOk \in handed[c]

OkOrder == \A c \in Conns : OkInOrder(c)

\* No step puts a request ahead of auth_ok.
LEMMA OkOrderStep == IInv /\ OkOrder /\ [Next]_vars => OkOrder'
<1> SUFFICES ASSUME IInv, OkOrder, [Next]_vars PROVE OkOrder'
    OBVIOUS
<1>0. /\ TypeOK
      /\ runPc \in [Conns -> RunPcs]
      /\ outQ \in [Conns -> Seq(ServerMessages)]
      /\ handed \in [Conns -> SUBSET ServerMessages]
      /\ drain \in [Conns -> {"none", "running", "panicked", "ended"}]
      /\ reqConn \in [Reqs -> 0 .. MaxConns]
      /\ Conns \subseteq Nat \ {0}
    BY DEF IInv, TypeOK, Conns
<1>1. ASSUME UNCHANGED <<outQ, handed>>,
             \A c \in Conns : drain'[c] = "running" /\ MayBeAsked(c)'
                                => OkSent(c)
      PROVE  OkOrder'
    BY <1>1 DEF OkOrder, OkInOrder, OkSent, OkAhead
<1>2. ASSUME UNCHANGED <<outQ, handed, drain, reqConn>>,
             \A c \in Conns : runPc'[c] \in {"authed"} \cup Relaying
                                => runPc[c] \in {"authed"} \cup Relaying
      PROVE  OkOrder'
    BY <1>1, <1>2 DEF OkOrder, OkInOrder, MayBeAsked
<1>b. ASSUME NEW c \in Conns, OkInOrder(c)',
             \A d \in Conns \ {c} :
                /\ outQ'[d] = outQ[d] /\ handed'[d] = handed[d]
                /\ drain'[d] = "running" => drain[d] = "running"
                /\ MayBeAsked(d)' => MayBeAsked(d)
      PROVE  OkOrder'
    <2>1. ASSUME NEW d \in Conns \ {c} PROVE OkInOrder(d)'
        BY <1>b, <2>1 DEF OkOrder, OkInOrder, OkSent, OkAhead
    <2> QED BY <1>b, <2>1 DEF OkOrder
<1>3. CASE UNCHANGED <<runPc, outQ, handed, drain, reqConn>>
    BY <1>2, <1>3
<1>4. CASE CreateConnection
    BY <1>0, <1>2, <1>4 DEF CreateConnection, Relaying, reqVars
<1>5. ASSUME NEW c \in Conns,
             \/ AuthClosed(c) \/ Register(c) \/ CloseReplaced(c) \/ RelayClosed(c)
             \/ Cleanup(c) \/ Return(c)
      PROVE  OkOrder'
    BY <1>0, <1>2, <1>5 DEF AuthClosed, Register, CloseReplaced, RelayClosed,
        Cleanup, Return, Relaying, reqVars
<1>a. \A c \in Conns : runPc[c] \in {"created", "auth"} =>
          \A r \in Reqs : reqConn[r] # c
    BY ServerAssumption DEF IInv, RequestTargets, Relaying, Past, Conns, NoConn
<1>6. ASSUME NEW c \in Conns, Run(c)
      PROVE  OkOrder'
    <2>1. /\ runPc[c] = "created" /\ runPc' = [runPc EXCEPT ![c] = "auth"]
          /\ drain' = [drain EXCEPT ![c] = "running"]
          /\ UNCHANGED <<outQ, handed, reqConn>>
        BY <1>6 DEF Run, reqVars
    <2>2. ~MayBeAsked(c)'
        BY <1>0, <1>a, <2>1 DEF MayBeAsked, Relaying
    <2>3. \A d \in Conns \ {c} : /\ drain'[d] = drain[d]
                                 /\ MayBeAsked(d)' => MayBeAsked(d)
        BY <1>0, <2>1 DEF MayBeAsked
    <2> QED BY <1>1, <2>1, <2>2, <2>3 DEF OkOrder, OkInOrder
<1>7. ASSUME NEW c \in Conns, AuthRecv(c) \/ AuthTimeout(c)
      PROVE  OkOrder'
    <2>1. PICK pc \in {"authed", "drain"}, msg \in ServerMessages :
              /\ runPc' = [runPc EXCEPT ![c] = pc]
              /\ outQ' = [outQ EXCEPT ![c] = Append(@, msg)]
              /\ \/ pc = "authed" /\ msg = AuthOk
                 \/ pc = "drain" /\ msg \in AuthErrors
        <3>1. CASE AuthRecv(c)
            <4>1. PICK pc \in {"authed", "drain"}, msg \in ServerMessages,
                       a \in AuthMessages \cup {NoAuth} :
                      /\ runPc' = [runPc EXCEPT ![c] = pc]
                      /\ outQ' = [outQ EXCEPT ![c] = Append(@, msg)]
                      /\ \/ pc = "authed" /\ msg = AuthOk
                         \/ pc = "drain" /\ msg \in AuthErrors
                BY <1>0, <3>1, AuthRecvCases
            <4> QED BY <4>1
        <3>2. CASE AuthTimeout(c)
            <4>1. PICK msg \in AuthErrors : outQ' = [outQ EXCEPT ![c] = Append(@, msg)]
                BY <3>2, AuthTimeoutCases
            <4> QED BY <3>2, <4>1, AuthTimeoutCases, ServerMessageTypes
        <3> QED BY <1>7, <3>1, <3>2
    <2>2. runPc[c] = "auth" /\ UNCHANGED <<handed, drain, reqConn>>
        BY <1>0, <1>7, AuthRecvCases, AuthTimeoutCases
    <2>3. outQ[c] = <<>> /\ handed[c] = {}
        BY <2>2 DEF IInv, QuietBeforeAuth
    <2>4. Len(outQ'[c]) = 1 /\ outQ'[c][1] = msg
        BY <1>0, <2>1, <2>3, AppendProperties
    <2>5. msg.type # "request"
        BY <2>1, AuthErrorType DEF AuthOk
    <2>6. MayBeAsked(c)' => OkSent(c)'
        BY <1>0, <1>a, <2>1, <2>2, <2>4 DEF MayBeAsked, OkSent, Relaying
    <2>7. \A d \in Conns \ {c} : /\ outQ'[d] = outQ[d]
                                 /\ MayBeAsked(d)' => MayBeAsked(d)
        BY <1>0, <2>1, <2>2 DEF MayBeAsked
    <2>8. OkInOrder(c)'
        BY <2>2, <2>3, <2>4, <2>5, <2>6 DEF OkInOrder
    <2> QED BY <1>b, <2>2, <2>7, <2>8
<1>8. ASSUME NEW r \in Reqs, Dispatch(r)
      PROVE  OkOrder'
    <2>1. UNCHANGED <<runPc, outQ, handed, drain>>
        BY <1>0, <1>8, DispatchCases
    <2>2. CASE UNCHANGED reqConn
        BY <1>3, <2>1, <2>2
    <2>3. CASE ~UNCHANGED reqConn
        <3>1. PICK c \in Conns : /\ c = services[ServiceOf[r]] /\ ServiceOf[r] \in Services
                                 /\ reqConn' = [reqConn EXCEPT ![r] = c]
            BY <1>0, <1>8, <2>3, DispatchCases
        <3>2. MayBeAsked(c)
            BY <1>0, <3>1 DEF IInv, RegisteredIsRelaying, MayBeAsked, NoConn
        <3>3. \A d \in Conns : MayBeAsked(d)' => MayBeAsked(d)
            BY <1>0, <2>1, <3>1, <3>2 DEF MayBeAsked
        <3> QED BY <1>1, <2>1, <3>3 DEF OkOrder, OkInOrder
    <2> QED BY <2>2, <2>3
<1>9. ASSUME NEW r \in Reqs, SendRequest(r)
      PROVE  OkOrder'
    <2> DEFINE m == TunnelRequest(r)
    <2>a. reqConn[r] \in Conns
        BY <1>0, <1>9, ServerAssumption
           DEF SendRequest, IInv, UntouchedRequests, InDispatch, Conns, NoConn
    <2>1. PICK c \in Conns :
              /\ reqConn[r] = c
              /\ outQ' = [outQ EXCEPT ![c] = Append(@, m)]
              /\ drain[c] = "running"
              /\ UNCHANGED <<runPc, handed, drain, reqConn>>
        BY <1>9, <2>a DEF SendRequest
    <2> DEFINE q == outQ[c]
    <2>2. MayBeAsked(c)
        BY <2>1 DEF MayBeAsked
    <2>3. OkSent(c)
        BY <2>1, <2>2 DEF OkOrder, OkInOrder
    <2>4. /\ Len(outQ'[c]) = Len(q) + 1 /\ Len(q) \in Nat
          /\ \A i \in 1 .. Len(q) : outQ'[c][i] = q[i]
        <3>1. outQ'[c] = Append(q, m) /\ q \in Seq(ServerMessages) /\ m \in ServerMessages
            BY <1>0, <2>1, ServerMessageTypes
        <3> HIDE DEF q, m
        <3> QED BY <3>1, AppendProperties, LenProperties
    <2>5. OkSent(c)' /\ \A i \in 1 .. Len(outQ'[c]) :
              outQ'[c][i].type = "request" => OkAhead(c, i)'
        <3>1. OkSent(c)'
            BY <2>1, <2>3, <2>4 DEF OkSent
        <3>2. ASSUME NEW i \in 1 .. Len(q), outQ'[c][i].type = "request"
              PROVE  OkAhead(c, i)'
            BY <2>1, <2>2, <2>4, <3>2 DEF OkOrder, OkInOrder, OkAhead
        <3>3. ASSUME NEW i \in Nat, i = Len(q) + 1
              PROVE  OkAhead(c, i)'
            BY <2>1, <2>3, <2>4, <3>3 DEF OkSent, OkAhead
        <3>4. \A i \in 1 .. Len(outQ'[c]) : i \in 1 .. Len(q) \/ i = Len(q) + 1
            BY <2>4
        <3> HIDE DEF q
        <3> QED BY <3>1, <3>2, <3>3, <3>4
    <2>6. \A d \in Conns \ {c} : outQ'[d] = outQ[d]
        BY <1>0, <2>1
    <2>7. OkInOrder(c)'
        BY <2>1, <2>5 DEF OkOrder, OkInOrder
    <2>8. \A d \in Conns : MayBeAsked(d)' => MayBeAsked(d)
        BY <2>1 DEF MayBeAsked
    <2> QED BY <1>b, <2>1, <2>6, <2>7, <2>8
<1>10. ASSUME NEW c \in Conns, DrainDeliver(c)
      PROVE  OkOrder'
    <2> DEFINE q == outQ[c]
    <2>1. /\ q # <<>>
          /\ handed' = [handed EXCEPT ![c] = @ \cup {Head(q)}]
          /\ outQ' = [outQ EXCEPT ![c] = Tail(@)]
          /\ UNCHANGED <<runPc, drain, reqConn>>
        BY <1>10 DEF DrainDeliver, reqVars
    <2>2. /\ q \in Seq(ServerMessages) /\ Len(q) \in Nat \ {0}
          /\ Head(q) = q[1]
          /\ Len(Tail(q)) = Len(q) - 1
          /\ \A i \in 1 .. Len(Tail(q)) : Tail(q)[i] = q[i + 1]
        BY <1>0, <2>1, HeadTailProperties, EmptySeq
    <2>3. /\ handed'[c] = handed[c] \cup {q[1]} /\ outQ'[c] = Tail(q)
          /\ \A d \in Conns \ {c} : outQ'[d] = outQ[d] /\ handed'[d] = handed[d]
        BY <1>0, <2>1, <2>2
    <2>4. ASSUME NEW i \in 1 .. Len(q), q[i] = AuthOk
          PROVE  AuthOk \in handed'[c] \/ (i - 1 \in 1 .. Len(Tail(q)) /\ Tail(q)[i - 1] = AuthOk)
        <3>1. CASE i = 1
            BY <2>3, <2>4, <3>1
        <3>2. CASE i # 1
            <4>1. i - 1 \in 1 .. Len(Tail(q)) /\ (i - 1) + 1 = i
                BY <2>2, <3>2
            <4> QED BY <2>2, <2>4, <4>1
        <3> QED BY <3>1, <3>2
    <2> HIDE DEF q
    <2>5. OkSent(c) => OkSent(c)'
        BY <2>3, <2>4 DEF OkSent, q
    <2>6. ASSUME NEW i \in 1 .. Len(Tail(q)), Tail(q)[i].type = "request"
          PROVE  OkAhead(c, i)'
        <3>1. i + 1 \in 1 .. Len(q) /\ q[i + 1].type = "request"
            BY <2>2, <2>6
        <3>2. OkAhead(c, i + 1)
            BY <3>1 DEF OkOrder, OkInOrder, q
        <3>3. CASE AuthOk \in handed[c]
            BY <2>3, <3>3 DEF OkAhead
        <3>4. CASE AuthOk \notin handed[c]
            <4>1. PICK j \in 1 .. Len(q) : j < i + 1 /\ q[j] = AuthOk
                BY <3>2, <3>4 DEF OkAhead, q
            <4>2. j - 1 < i
                BY <2>2, <4>1
            <4> QED BY <2>3, <2>4, <4>1, <4>2 DEF OkAhead
        <3> QED BY <3>3, <3>4
    <2>7. ASSUME q[1].type = "request" PROVE AuthOk \in handed[c]
        <3>1. 1 \in 1 .. Len(q)
            BY <2>2
        <3>2. OkAhead(c, 1)
            BY <2>7, <3>1 DEF OkOrder, OkInOrder, q
        <3> QED BY <2>2, <3>2 DEF OkAhead, q
    <2>8. \A m \in handed'[c] : m.type = "request" => AuthOk \in handed'[c]
        BY <2>3, <2>7 DEF OkOrder, OkInOrder
    <2>9. MayBeAsked(c)' => MayBeAsked(c)
        BY <2>1 DEF MayBeAsked
    <2>10. OkInOrder(c)'
        BY <2>1, <2>3, <2>5, <2>6, <2>8, <2>9 DEF OkOrder, OkInOrder
    <2>11. \A d \in Conns : MayBeAsked(d)' => MayBeAsked(d)
        BY <2>1 DEF MayBeAsked
    <2> QED BY <1>b, <2>1, <2>3, <2>10, <2>11
<1>11. ASSUME NEW c \in Conns, CallbackPanics(c)
      PROVE  OkOrder'
    <2>1. /\ drain' = [drain EXCEPT ![c] = "panicked"]
          /\ outQ' = [outQ EXCEPT ![c] = <<>>]
          /\ UNCHANGED <<runPc, handed, reqConn>>
        BY <1>11 DEF CallbackPanics, reqVars
    <2>2. drain'[c] # "running" /\ outQ'[c] = <<>> /\ Len(outQ'[c]) = 0
        BY <1>0, <2>1, EmptySeq
    <2>3. \A d \in Conns \ {c} : outQ'[d] = outQ[d] /\ drain'[d] = drain[d]
        BY <1>0, <2>1
    <2>4. OkInOrder(c)'
        BY <2>1, <2>2 DEF OkOrder, OkInOrder
    <2>5. \A d \in Conns : MayBeAsked(d)' => MayBeAsked(d)
        BY <2>1 DEF MayBeAsked
    <2> QED BY <1>b, <2>1, <2>3, <2>4, <2>5
<1>12. ASSUME NEW c \in Conns, DrainEnd(c)
      PROVE  OkOrder'
    <2>1. /\ \A d \in Conns : drain'[d] = "running" => drain[d] = "running"
          /\ UNCHANGED <<runPc, outQ, handed, reqConn>>
        BY <1>0, <1>12 DEF DrainEnd, reqVars
    <2> QED BY <1>1, <2>1 DEF OkOrder, OkInOrder, MayBeAsked
<1>13. ASSUME NEW r \in Reqs, RequestTask(r) \/ Timeout(r) \/ Cancel(r)
      PROVE  OkOrder'
    BY <1>3, <1>9, <1>13, RequestFrame DEF RequestTask, Dispatch, SendLost,
       RecvResponse, RecvDropped, Finish, Timeout, Cancel, Fail, connVars
<1> QED
    BY <1>3, <1>4, <1>5, <1>6, <1>7, <1>8, <1>10, <1>11, <1>12, <1>13, AdapterFrame,
       RelayRecvFrame
       DEF Next, RunTask, DrainTask, Stopped, vars

\* The first thing a client reads is the answer to its auth message, whichever
\* tasks send to it meanwhile.
THEOREM AuthOkComesFirst == Spec => []AuthOkFirst
<1>1. Init => OkOrder
    BY DEF Init, OkOrder, OkInOrder, MayBeAsked, Relaying
<1>2. IInv /\ OkOrder => AuthOkFirst
    <2> SUFFICES ASSUME IInv, OkOrder, NEW c \in Conns, NEW r \in Reqs,
                        TunnelRequest(r) \in handed[c]
                 PROVE  AuthOk \in handed[c]
        BY DEF AuthOkFirst
    <2>1. TunnelRequest(r).type = "request"
        BY DEF TunnelRequest
    <2> QED BY <2>1 DEF OkOrder, OkInOrder
<1> QED BY <1>1, <1>2, OkOrderStep, Invariance, PTL DEF Spec

(***************************************************************************)
(* The drain tasks, for the modules that build on the core                 *)
(***************************************************************************)
Over == {"ended", "panicked"}

\* Before run() there is no drain task.
DrainStarted ==
    \A c \in Conns : runPc[c] \in {"none", "created"} => drain[c] = "none"

\* A drain task that has ended is never started again.
LEMMA DrainStays ==
    ASSUME IInv, DrainStarted, [Next]_vars
    PROVE  /\ DrainStarted'
           /\ \A c \in Conns : drain[c] \in Over => drain'[c] \in Over
<1> DEFINE Stays == \A c \in Conns : drain[c] \in Over => drain'[c] \in Over
<1> USE DEF DrainStarted, Over, Relaying
<1>0. /\ TypeOK
      /\ runPc \in [Conns -> RunPcs]
      /\ drain \in [Conns -> {"none", "running", "panicked", "ended"}]
    BY DEF IInv, TypeOK
<1>1. CASE UNCHANGED <<runPc, drain>>
    BY <1>1
<1>2. CASE CreateConnection
    BY <1>0, <1>2 DEF CreateConnection, IInv, FreshConnections, connVars, Conns,
        TypeOK
<1>3. ASSUME NEW c \in Conns, Run(c)
      PROVE  DrainStarted' /\ Stays
    BY <1>0, <1>3 DEF Run
<1>4. ASSUME NEW c \in Conns, NEW pc \in RunPcs \ {"none", "created"},
             runPc' = [runPc EXCEPT ![c] = pc], UNCHANGED drain
      PROVE  DrainStarted' /\ Stays
    BY <1>0, <1>4
<1>5. ASSUME NEW c \in Conns, NEW d \in Over, drain[c] = "running",
             drain' = [drain EXCEPT ![c] = d], UNCHANGED runPc
      PROVE  DrainStarted' /\ Stays
    BY <1>0, <1>5
<1>6. ASSUME NEW c \in Conns, DrainEnd(c) \/ CallbackPanics(c)
      PROVE  DrainStarted' /\ Stays
    BY <1>5, <1>6 DEF DrainEnd, CallbackPanics
<1>7. ASSUME NEW c \in Conns, AuthRecv(c) \/ AuthTimeout(c)
      PROVE  DrainStarted' /\ Stays
    <2>1. UNCHANGED drain
        BY <1>0, <1>7, AuthRecvCases, AuthTimeoutCases
    <2>2. \E pc \in {"authed", "drain"} : runPc' = [runPc EXCEPT ![c] = pc]
        BY <1>0, <1>7, AuthRecvOutcome, AuthTimeoutCases
    <2> QED BY <1>4, <2>1, <2>2 DEF RunPcs
<1>8. ASSUME NEW c \in Conns,
             \/ AuthClosed(c) \/ Register(c) \/ CloseReplaced(c)
             \/ RelayClosed(c) \/ Cleanup(c) \/ Return(c)
      PROVE  DrainStarted' /\ Stays
    BY <1>4, <1>8 DEF AuthClosed, Register, CloseReplaced, RelayClosed, Cleanup,
        Return, RunPcs
<1>9. ASSUME NEW c \in Conns, Adapter(c)
      PROVE  DrainStarted' /\ Stays
    BY <1>1, <1>9, AdapterFrame
<1>10. ASSUME NEW c \in Conns, RelayRecv(c) \/ DrainDeliver(c)
       PROVE  DrainStarted' /\ Stays
    BY <1>1, <1>10 DEF RelayRecv, DrainDeliver
<1>11. ASSUME NEW r \in Reqs,
              Dispatch(r) \/ RequestTask(r) \/ Timeout(r) \/ Cancel(r)
       PROVE  DrainStarted' /\ Stays
    BY <1>1, <1>11, RequestFrame
<1>12. CASE Stopped \/ UNCHANGED vars
    BY <1>1, <1>12 DEF Stopped, vars
<1> HIDE DEF DrainStarted, Over, Relaying, Stays
<1> QED
    BY <1>2, <1>3, <1>6, <1>7, <1>8, <1>9, <1>10, <1>11, <1>12
       DEF Next, RunTask, DrainTask, Stays

(***************************************************************************)
(* Sequences of messages                                                   *)
(***************************************************************************)

\* A message sent to a channel is in it, and those it held still are.
LEMMA RangeAppend ==
    ASSUME NEW S, NEW q \in Seq(S), NEW x \in S
    PROVE  Range(Append(q, x)) = Range(q) \cup {x}
<1>1. /\ Append(q, x) \in Seq(S)
      /\ DOMAIN q = 1 .. Len(q) /\ Len(q) \in Nat
      /\ DOMAIN Append(q, x) = 1 .. Len(q) + 1
      /\ \A i \in 1 .. Len(q) : Append(q, x)[i] = q[i]
      /\ Append(q, x)[Len(q) + 1] = x
    BY AppendProperties, LenProperties
<1>2. \A i \in 1 .. Len(q) + 1 : i \in 1 .. Len(q) \/ i = Len(q) + 1
    BY <1>1
<1>3. 1 .. Len(q) \subseteq 1 .. Len(q) + 1 /\ Len(q) + 1 \in 1 .. Len(q) + 1
    BY <1>1
<1>4. Range(Append(q, x)) \subseteq Range(q) \cup {x}
    BY <1>1, <1>2 DEF Range
<1>5. Range(q) \cup {x} \subseteq Range(Append(q, x))
    BY <1>1, <1>3 DEF Range
<1> QED BY <1>4, <1>5

\* Receiving a message takes that one from the channel and no other.
LEMMA RangeTail ==
    ASSUME NEW S, NEW q \in Seq(S), q # <<>>
    PROVE  Range(q) = {Head(q)} \cup Range(Tail(q))
<1>1. /\ Len(q) \in Nat \ {0} /\ DOMAIN q = 1 .. Len(q)
      /\ Head(q) = q[1]
      /\ Tail(q) \in Seq(S) /\ DOMAIN Tail(q) = 1 .. Len(q) - 1
      /\ \A i \in 1 .. Len(q) - 1 : Tail(q)[i] = q[i + 1]
    BY HeadTailProperties, EmptySeq, LenProperties
<1>2. ASSUME NEW i \in 1 .. Len(q), i # 1
      PROVE  q[i] \in Range(Tail(q))
    <2>1. i - 1 \in 1 .. Len(q) - 1 /\ (i - 1) + 1 = i
        BY <1>1, <1>2
    <2>2. Tail(q)[i - 1] = q[i]
        BY <1>1, <2>1
    <2> QED BY <1>1, <2>1, <2>2 DEF Range
<1>3. Range(q) \subseteq {Head(q)} \cup Range(Tail(q))
    BY <1>1, <1>2 DEF Range
<1>4. \A i \in 1 .. Len(q) - 1 : i + 1 \in 1 .. Len(q)
    BY <1>1
<1>5. {Head(q)} \cup Range(Tail(q)) \subseteq Range(q)
    <2>1. 1 \in DOMAIN q
        BY <1>1
    <2> QED BY <1>1, <1>4, <2>1 DEF Range
<1> QED BY <1>3, <1>5

(***************************************************************************)
(* Channels between the callback and a socket keep the order               *)
(***************************************************************************)

\* A request in channel q comes after auth_ok, which is in `before' or ahead of
\* it in q.
OkLeads(before, q) ==
    \A i \in 1 .. Len(q) : q[i].type = "request" =>
        AuthOk \in before \/ \E j \in 1 .. Len(q) : j < i /\ q[j] = AuthOk

\* A message may be sent to the channel if it is no request, or auth_ok was
\* sent.
LEMMA OkLeadsAppend ==
    ASSUME NEW q \in Seq(ServerMessages), NEW m \in ServerMessages, NEW before,
           OkLeads(before, q),
           m.type = "request" => AuthOk \in before \cup Range(q)
    PROVE  OkLeads(before, Append(q, m))
<1> DEFINE s == Append(q, m)
<1>1. /\ Len(q) \in Nat /\ Len(s) = Len(q) + 1
      /\ \A i \in 1 .. Len(q) : s[i] = q[i]
      /\ s[Len(q) + 1] = m
    BY AppendProperties, LenProperties
<1>2. Range(q) = {q[i] : i \in 1 .. Len(q)}
    BY LenProperties DEF Range
<1> HIDE DEF s
<1> SUFFICES ASSUME NEW i \in 1 .. Len(s), s[i].type = "request", AuthOk \notin before
             PROVE  \E j \in 1 .. Len(s) : j < i /\ s[j] = AuthOk
    BY DEF OkLeads, s
<1>3. CASE i = Len(q) + 1
    <2>1. PICK j \in 1 .. Len(q) : q[j] = AuthOk
        BY <1>1, <1>2, <1>3
    <2> QED BY <1>1, <1>3, <2>1
<1>4. CASE i # Len(q) + 1
    <2>1. i \in 1 .. Len(q) /\ q[i].type = "request"
        BY <1>1, <1>4
    <2>2. PICK j \in 1 .. Len(q) : j < i /\ q[j] = AuthOk
        BY <2>1 DEF OkLeads
    <2> QED BY <1>1, <2>2
<1> QED BY <1>3, <1>4

\* The first message of the channel, taken from it, is no request unless
\* auth_ok was taken before, and leaves the order as it was.
LEMMA OkLeadsTail ==
    ASSUME NEW q \in Seq(ServerMessages), q # <<>>, NEW before, OkLeads(before, q)
    PROVE  /\ Head(q).type = "request" => AuthOk \in before
           /\ OkLeads(before \cup {Head(q)}, Tail(q))
<1>1. /\ Len(q) \in Nat \ {0}
      /\ Head(q) = q[1]
      /\ Len(Tail(q)) = Len(q) - 1
      /\ \A i \in 1 .. Len(Tail(q)) : Tail(q)[i] = q[i + 1]
    BY HeadTailProperties, EmptySeq
<1>2. Head(q).type = "request" => AuthOk \in before
    <2>1. 1 \in 1 .. Len(q) /\ ~ \E j \in 1 .. Len(q) : j < 1
        BY <1>1
    <2> QED BY <1>1, <2>1 DEF OkLeads
<1>3. ASSUME NEW i \in 1 .. Len(Tail(q)), Tail(q)[i].type = "request",
             AuthOk \notin before \cup {Head(q)}
      PROVE  \E j \in 1 .. Len(Tail(q)) : j < i /\ Tail(q)[j] = AuthOk
    <2>1. i + 1 \in 1 .. Len(q) /\ q[i + 1].type = "request"
        BY <1>1, <1>3
    <2>2. PICK j \in 1 .. Len(q) : j < i + 1 /\ q[j] = AuthOk
        BY <1>3, <2>1 DEF OkLeads
    <2>3. j # 1
        BY <1>1, <1>3, <2>2
    <2>4. j - 1 \in 1 .. Len(Tail(q)) /\ j - 1 < i /\ (j - 1) + 1 = j
        BY <1>1, <2>2, <2>3
    <2> QED BY <1>1, <2>2, <2>4
<1> QED BY <1>2, <1>3 DEF OkLeads

\* What the drain task delivers next may follow what it delivered before.
LEMMA DeliveredInOrder ==
    ASSUME IInv, AuthOkFirst', NEW c \in Conns, DrainDeliver(c)
    PROVE  Head(outQ[c]).type = "request" => AuthOk \in handed[c]
<1>1. /\ outQ[c] \in Seq(ServerMessages) /\ outQ[c] # <<>>
      /\ handed \in [Conns -> SUBSET ServerMessages]
      /\ handed' = [handed EXCEPT ![c] = @ \cup {Head(outQ[c])}]
    BY DEF IInv, TypeOK, DrainDeliver
<1> DEFINE m == Head(outQ[c])
<1>2. m \in ServerMessages /\ handed'[c] = handed[c] \cup {m}
    BY <1>1, HeadTailProperties
<1> SUFFICES ASSUME m.type = "request" PROVE AuthOk \in handed[c]
    OBVIOUS
<1> HIDE DEF m
<1>3. PICK r \in Reqs : m = TunnelRequest(r)
    BY <1>2, AuthErrorType DEF ServerMessages, AuthOk, TunnelRequests
<1>4. AuthOk \in handed'[c]
    BY <1>2, <1>3 DEF AuthOkFirst
<1>5. AuthOk # m
    BY DEF AuthOk
<1> QED BY <1>2, <1>4, <1>5

(***************************************************************************)
(* Nobody waits in a circle (NothingStuck).                                *)
(***************************************************************************)

\* Once run() has started there is, or was, a drain task, which runs until
\* handle_auth sends something.  When it is over nothing is left to deliver.
DrainSpawned ==
    \A c \in Conns :
        /\ runPc[c] \notin {"none", "created"} => drain[c] # "none"
        /\ runPc[c] = "auth" => drain[c] = "running"
        /\ drain[c] \in Over => outQ[c] = <<>>

\* A request that is waited for was sent, and is with the client or on its way.
RequestOnItsWay(r) == GivenToClient(r) \/ TunnelRequest(r) \in Range(outQ[reqConn[r]])

SentIfWaiting == \A r \in Reqs : reqPc[r] = "waiting" => RequestOnItsWay(r)

\* A message of the core stays in the outgoing channel until the callback is
\* given it, or has panicked.
LEMMA MessageStays ==
    ASSUME IInv, DrainStarted, [Next]_vars, NEW c \in Conns, NEW m \in ServerMessages,
           m \in handed[c] \/ drain[c] = "panicked" \/ m \in Range(outQ[c])
    PROVE  (m \in handed[c] \/ drain[c] = "panicked" \/ m \in Range(outQ[c]))'
<1>0. /\ TypeOK
      /\ runPc \in [Conns -> RunPcs]
      /\ outQ \in [Conns -> Seq(ServerMessages)]
      /\ handed \in [Conns -> SUBSET ServerMessages]
      /\ drain \in [Conns -> {"none", "running", "panicked", "ended"}]
      /\ outQ[c] \in Seq(ServerMessages)
    BY DEF IInv, TypeOK
<1>1. ASSUME handed[c] \subseteq handed'[c],
             drain[c] = "panicked" => drain'[c] = "panicked",
             \/ Range(outQ[c]) \subseteq Range(outQ'[c]) \cup handed'[c]
             \/ drain'[c] = "panicked"
      PROVE  (m \in handed[c] \/ drain[c] = "panicked" \/ m \in Range(outQ[c]))'
    BY <1>1
<1>2. CASE UNCHANGED <<outQ, handed, drain>>
    BY <1>1, <1>2
<1>3. ASSUME NEW d \in Conns, Run(d)
      PROVE  (m \in handed[c] \/ drain[c] = "panicked" \/ m \in Range(outQ[c]))'
    <2>1. drain[d] # "panicked"
        BY <1>3 DEF DrainStarted, Run
    <2> QED BY <1>0, <1>1, <1>3, <2>1 DEF Run
<1>4. ASSUME NEW d \in Conns, NEW x \in ServerMessages,
             outQ' = [outQ EXCEPT ![d] = Append(@, x)], UNCHANGED <<handed, drain>>
      PROVE  (m \in handed[c] \/ drain[c] = "panicked" \/ m \in Range(outQ[c]))'
    <2>1. Range(outQ[c]) \subseteq Range(outQ'[c])
        <3>1. CASE c = d
            BY <1>0, <1>4, <3>1, RangeAppend
        <3>2. CASE c # d
            BY <1>0, <1>4, <3>2
        <3> QED BY <3>1, <3>2
    <2> QED BY <1>1, <1>4, <2>1
<1>5. ASSUME NEW d \in Conns, AuthRecv(d) \/ AuthTimeout(d)
      PROVE  (m \in handed[c] \/ drain[c] = "panicked" \/ m \in Range(outQ[c]))'
    <2>1. \E x \in ServerMessages : outQ' = [outQ EXCEPT ![d] = Append(@, x)]
        BY <1>0, <1>5, AuthRecvCases, AuthTimeoutCases, ServerMessageTypes
    <2>2. UNCHANGED <<handed, drain>>
        BY <1>0, <1>5, AuthRecvCases, AuthTimeoutCases
    <2> QED BY <1>4, <2>1, <2>2
<1>6. ASSUME NEW r \in Reqs, SendRequest(r)
      PROVE  (m \in handed[c] \/ drain[c] = "panicked" \/ m \in Range(outQ[c]))'
    <2>1. reqConn[r] \in Conns
        BY <1>6, ServerAssumption
           DEF SendRequest, IInv, UntouchedRequests, InDispatch, Conns, NoConn, TypeOK
    <2> QED BY <1>4, <1>6, <2>1, ServerMessageTypes DEF SendRequest
<1>7. ASSUME NEW d \in Conns, DrainDeliver(d)
      PROVE  (m \in handed[c] \/ drain[c] = "panicked" \/ m \in Range(outQ[c]))'
    <2>1. /\ outQ[d] # <<>> /\ outQ[d] \in Seq(ServerMessages)
          /\ handed' = [handed EXCEPT ![d] = @ \cup {Head(outQ[d])}]
          /\ outQ' = [outQ EXCEPT ![d] = Tail(@)]
          /\ UNCHANGED drain
        BY <1>0, <1>7 DEF DrainDeliver
    <2>2. Range(outQ[d]) = {Head(outQ[d])} \cup Range(Tail(outQ[d]))
        BY <2>1, RangeTail
    <2> QED BY <1>0, <1>1, <2>1, <2>2
<1>8. ASSUME NEW d \in Conns, CallbackPanics(d)
      PROVE  (m \in handed[c] \/ drain[c] = "panicked" \/ m \in Range(outQ[c]))'
    BY <1>0, <1>1, <1>8 DEF CallbackPanics
<1>9. ASSUME NEW d \in Conns, DrainEnd(d)
      PROVE  (m \in handed[c] \/ drain[c] = "panicked" \/ m \in Range(outQ[c]))'
    BY <1>0, <1>1, <1>9 DEF DrainEnd
<1>10. ASSUME NEW r \in Reqs,
              Dispatch(r) \/ RequestTask(r) \/ Timeout(r) \/ Cancel(r)
       PROVE  (m \in handed[c] \/ drain[c] = "panicked" \/ m \in Range(outQ[c]))'
    BY <1>2, <1>6, <1>10, RequestFrame
<1>11. ASSUME NEW d \in Conns, Adapter(d)
       PROVE  (m \in handed[c] \/ drain[c] = "panicked" \/ m \in Range(outQ[c]))'
    BY <1>2, <1>11, AdapterFrame
<1>12. CASE Stopped \/ UNCHANGED vars \/ CreateConnection
    BY <1>2, <1>12 DEF Stopped, vars, CreateConnection
<1>13. ASSUME NEW d \in Conns,
              \/ AuthClosed(d) \/ Register(d) \/ CloseReplaced(d) \/ RelayRecv(d)
              \/ RelayClosed(d) \/ Cleanup(d) \/ Return(d)
       PROVE  (m \in handed[c] \/ drain[c] = "panicked" \/ m \in Range(outQ[c]))'
    BY <1>2, <1>13 DEF AuthClosed, Register, CloseReplaced, RelayRecv, RelayClosed,
        Cleanup, Return
<1> QED BY <1>3, <1>5, <1>7, <1>8, <1>9, <1>10, <1>11, <1>12, <1>13
        DEF Next, RunTask, DrainTask

\* Only handle_auth and a dispatch send, and only while the drain task runs.
LEMMA DrainSpawnedStep ==
    ASSUME IInv, DrainStarted, DrainSpawned, [Next]_vars
    PROVE  DrainSpawned'
<1> USE DEF DrainSpawned, Over
<1>0. /\ TypeOK
      /\ runPc \in [Conns -> RunPcs]
      /\ outQ \in [Conns -> Seq(ServerMessages)]
      /\ drain \in [Conns -> {"none", "running", "panicked", "ended"}]
    BY DEF IInv, TypeOK
<1>1. CASE UNCHANGED <<runPc, outQ, drain>>
    BY <1>1
<1>2. CASE CreateConnection
    BY <1>0, <1>2 DEF CreateConnection
<1>3. ASSUME NEW c \in Conns, Run(c)
      PROVE  DrainSpawned'
    BY <1>0, <1>3 DEF Run
<1>4. ASSUME NEW c \in Conns, AuthRecv(c) \/ AuthTimeout(c)
      PROVE  DrainSpawned'
    <2>1. \E pc \in {"authed", "drain"} : runPc' = [runPc EXCEPT ![c] = pc]
        BY <1>0, <1>4, AuthRecvCases, AuthTimeoutCases
    <2>2. \E x \in ServerMessages : outQ' = [outQ EXCEPT ![c] = Append(@, x)]
        BY <1>0, <1>4, AuthRecvCases, AuthTimeoutCases, ServerMessageTypes
    <2>3. runPc[c] = "auth" /\ UNCHANGED drain
        BY <1>0, <1>4, AuthRecvCases, AuthTimeoutCases
    <2> QED BY <1>0, <2>1, <2>2, <2>3
<1>5. ASSUME NEW c \in Conns,
             \/ AuthClosed(c) \/ Register(c) \/ CloseReplaced(c)
             \/ RelayClosed(c) \/ Cleanup(c) \/ Return(c)
      PROVE  DrainSpawned'
    BY <1>0, <1>5 DEF AuthClosed, Register, CloseReplaced, RelayClosed, Cleanup, Return
<1>6. ASSUME NEW c \in Conns, DrainTask(c) \/ CallbackPanics(c)
      PROVE  DrainSpawned'
    <2>1. UNCHANGED runPc /\ drain[c] = "running"
        BY <1>6, DrainFrame DEF DrainTask, DrainDeliver, DrainEnd, CallbackPanics
    <2>2. ~(runPc[c] = "auth" /\ outQ[c] # <<>>)
        BY DEF IInv, QuietBeforeAuth
    <2>3. ~(runPc[c] = "auth" /\ ~HasSender(c))
        BY DEF HasSender
    <2> QED BY <1>0, <1>6, <2>1, <2>2, <2>3
            DEF DrainTask, DrainDeliver, DrainEnd, CallbackPanics
<1>7. ASSUME NEW r \in Reqs,
             Dispatch(r) \/ RequestTask(r) \/ Timeout(r) \/ Cancel(r)
      PROVE  DrainSpawned'
    <2>1. CASE SendRequest(r)
        BY <1>0, <2>1 DEF SendRequest
    <2>2. CASE ~SendRequest(r)
        BY <1>1, <1>7, <2>2, RequestFrame
    <2> QED BY <2>1, <2>2
<1>8. ASSUME NEW c \in Conns, Adapter(c)
      PROVE  DrainSpawned'
    BY <1>1, <1>8, AdapterFrame
<1>9. ASSUME NEW c \in Conns, RelayRecv(c)
      PROVE  DrainSpawned'
    BY <1>1, <1>9 DEF RelayRecv
<1>10. CASE Stopped \/ UNCHANGED vars
    BY <1>1, <1>10 DEF Stopped, vars
<1> HIDE DEF DrainSpawned, Over
<1> QED
    BY <1>2, <1>3, <1>4, <1>5, <1>6, <1>7, <1>8, <1>9, <1>10
       DEF Next, RunTask

\* The request of a dispatch that waits reached the outgoing channel and is
\* never lost from it.
LEMMA SentStep ==
    ASSUME IInv, DrainStarted, SentIfWaiting, [Next]_vars
    PROVE  SentIfWaiting'
<1>0. /\ TypeOK
      /\ reqPc \in [Reqs -> ReqPcs]
      /\ reqConn \in [Reqs -> 0 .. MaxConns]
      /\ outQ \in [Conns -> Seq(ServerMessages)]
    BY DEF IInv, TypeOK
<1> SUFFICES ASSUME NEW r \in Reqs, reqPc'[r] = "waiting"
             PROVE  RequestOnItsWay(r)'
    BY DEF SentIfWaiting
<1>1. CASE reqPc[r] = "waiting" /\ reqConn'[r] = reqConn[r]
    <2>1. reqConn[r] \in Conns
        BY <1>0, <1>1, ServerAssumption DEF IInv, UntouchedRequests, InDispatch, Conns, NoConn
    <2>2. RequestOnItsWay(r)
        BY <1>1 DEF SentIfWaiting
    <2>3. TunnelRequest(r) \in ServerMessages
        BY ServerMessageTypes
    <2> DEFINE c == reqConn[r]
    <2>4. (TunnelRequest(r) \in handed[c] \/ drain[c] = "panicked"
              \/ TunnelRequest(r) \in Range(outQ[c]))
        BY <2>2 DEF RequestOnItsWay, GivenToClient
    <2>5. \/ TunnelRequest(r) \in handed'[c] \/ drain'[c] = "panicked"
          \/ TunnelRequest(r) \in Range(outQ'[c])
        <3> HIDE DEF c
        <3>1. c \in Conns
            BY <2>1 DEF c
        <3> QED BY <2>3, <2>4, <3>1, MessageStays
    <2> QED BY <1>1, <2>5 DEF RequestOnItsWay, GivenToClient
<1>2. CASE SendRequest(r)
    <2>1. /\ reqConn[r] \in Conns /\ UNCHANGED reqConn
          /\ outQ' = [outQ EXCEPT ![reqConn[r]] = Append(@, TunnelRequest(r))]
        BY <1>0, <1>2, ServerAssumption
           DEF SendRequest, IInv, UntouchedRequests, InDispatch, Conns, NoConn
    <2>2. Range(outQ'[reqConn[r]]) = Range(outQ[reqConn[r]]) \cup {TunnelRequest(r)}
        <3> DEFINE q == outQ[reqConn[r]]
        <3>1. q \in Seq(ServerMessages) /\ outQ'[reqConn[r]] = Append(q, TunnelRequest(r))
            BY <1>0, <2>1
        <3> HIDE DEF q
        <3>2. Range(Append(q, TunnelRequest(r))) = Range(q) \cup {TunnelRequest(r)}
            BY <3>1, RangeAppend, ServerMessageTypes
        <3> QED BY <3>1, <3>2 DEF q
    <2> QED BY <2>1, <2>2 DEF RequestOnItsWay
<1>3. ASSUME NEW q \in Reqs, Dispatch(q) \/ RequestTask(q) \/ Timeout(q) \/ Cancel(q),
             q # r
      PROVE  reqPc[r] = "waiting" /\ reqConn'[r] = reqConn[r]
    <2>1. CASE Dispatch(q)
        BY <1>0, <1>3, <2>1 DEF Dispatch
    <2>2. CASE RequestTask(q) \/ Timeout(q) \/ Cancel(q)
        BY <1>0, <1>3, <2>2 DEF RequestTask, SendRequest, SendLost, RecvResponse, RecvDropped,
            Finish, Timeout, Cancel, Fail
    <2> QED BY <1>3, <2>1, <2>2
<1>4. CASE Dispatch(r) \/ RequestTask(r) \/ Timeout(r) \/ Cancel(r)
    <2>1. SendRequest(r)
        BY <1>0, <1>4 DEF Dispatch, RequestTask, SendRequest, SendLost, RecvResponse, RecvDropped,
            Finish, Timeout, Cancel, Fail
    <2> QED BY <1>2, <2>1
<1>5. CASE UNCHANGED <<reqPc, reqConn>>
    BY <1>1, <1>5
<1> QED
    BY <1>1, <1>3, <1>4, <1>5, AdapterFrame, DrainFrame, RunFrame
       DEF Next, Stopped, vars, CreateConnection, reqVars

\* What the code awaits, and what the invariants say of who brings it.
LEMMA WaitsMove ==
    ASSUME IInv, DrainSpawned, SentIfWaiting
    PROVE  NothingStuck
<1>0. /\ TypeOK
      /\ runPc \in [Conns -> RunPcs]
      /\ outQ \in [Conns -> Seq(ServerMessages)]
      /\ inQ \in [Conns -> Seq(Frames)]
      /\ drain \in [Conns -> {"none", "running", "panicked", "ended"}]
      /\ reqPc \in [Reqs -> ReqPcs]
      /\ reqConn \in [Reqs -> 0 .. MaxConns]
    BY DEF IInv, TypeOK
<1>1. ASSUME NEW c \in Conns, inQ[c] = <<>> PROVE Room(c)
    BY <1>1, ServerAssumption, EmptySeq DEF Room
<1>2. ASSUME NEW c \in Conns, runPc[c] = "relay"
      PROVE  Moves(c) \/ Idle(c)
    <2> SUFFICES ASSUME ~Moves(c) PROVE Idle(c)
        OBVIOUS
    <2>1. inQ[c] = <<>> /\ ~IncomingClosed(c)
        BY <1>2 DEF Moves, CanRun
    <2>2. \A p \in Pushers : pushing[c][p] = NoFrame
        BY <1>1, <2>1 DEF Moves, CanPush
    <2>3. inTx[c]
        BY <2>1, <2>2 DEF IncomingClosed
    <2>4. outQ[c] = <<>>
        BY <1>2, <1>0 DEF Moves, CanDrain, DrainSpawned, Over
    <2> QED BY <1>2, <2>1, <2>2, <2>3, <2>4 DEF Idle
<1>3. ASSUME NEW c \in Conns, runPc[c] = "drain" \/ runPc[c] = "done",
             drain[c] = "running"
      PROVE  Moves(c)
    <2> SUFFICES ASSUME ~Moves(c) PROVE FALSE
        OBVIOUS
    <2>1. outQ[c] = <<>> /\ HasSender(c)
        BY <1>3 DEF Moves, CanDrain
    <2>2. ~ \E s \in Services : services[s] = c
        BY <1>3, ServerAssumption DEF IInv, RegisteredIsRelaying, Relaying, Conns, NoConn
    <2>3. PICK r \in Reqs : reqPc[r] \in InDispatch /\ reqConn[r] = c
        BY <1>3, <2>1, <2>2 DEF HasSender, Moves, Relaying
    <2>4. ~CanServe(r)
        BY <2>3 DEF Moves
    <2>5. reqPc[r] # "sending"
        BY <2>1, <2>3, <2>4, ServerAssumption, EmptySeq DEF CanServe
    <2>6. reqPc[r] = "waiting" => pending[r] = NoConn
        BY <1>3, <2>3 DEF IInv, PendingOnLiveConnection, Relaying
    <2> QED BY <2>3, <2>4, <2>5, <2>6 DEF CanServe, InDispatch
<1>4. ASSUME NEW c \in Conns, runPc[c] \notin {"none", "done"}
      PROVE  Moves(c) \/ Idle(c)
    <2>1. CASE runPc[c] \in {"created", "authed", "closeOld", "cleanup", "auth"}
        BY <2>1 DEF Moves, CanRun
    <2>2. CASE runPc[c] = "drain"
        <3>1. drain[c] = "running" \/ drain[c] \in {"ended", "panicked"}
            BY <1>0, <2>2 DEF DrainSpawned
        <3>2. drain[c] \in {"ended", "panicked"} => CanRun(c)
            BY <2>2 DEF CanRun
        <3> QED BY <1>3, <2>2, <3>1, <3>2 DEF Moves
    <2> QED BY <1>0, <1>2, <1>4, <2>1, <2>2 DEF RunPcs
<1>5. ASSUME NEW r \in Reqs, reqPc[r] \in InDispatch
      PROVE  \/ Moves(reqConn[r])
             \/ reqPc[r] = "waiting" /\ Idle(reqConn[r]) /\ GivenToClient(r)
    <2> DEFINE c == reqConn[r]
    <2> SUFFICES ASSUME ~Moves(c)
                 PROVE  reqPc[r] = "waiting" /\ Idle(c) /\ GivenToClient(r)
        OBVIOUS
    <2>1. c \in Conns
        BY <1>0, <1>5, ServerAssumption DEF IInv, UntouchedRequests, InDispatch, Conns, NoConn
    <2>2. runPc[c] \in Relaying \cup Past
        BY <1>5 DEF IInv, UntouchedRequests, RequestTargets, InDispatch
    <2>3. ~CanServe(r)
        BY <1>5 DEF Moves
    <2>4. drain[c] \in {"running", "panicked"}
        BY <1>5 DEF IInv, DrainOutlivesSenders
    <2> HIDE DEF c
    <2>5. c = reqConn[r]
        BY DEF c
    <2>6. drain[c] = "running" => outQ[c] = <<>>
        BY <2>1, <2>4 DEF Moves, CanDrain
    <2>7. reqPc[r] = "waiting" /\ pending[r] # NoConn
        BY <1>0, <1>5, <2>1, <2>3, <2>5, <2>6, ServerAssumption, EmptySeq DEF CanServe, InDispatch
    <2>8. runPc[c] \in Relaying
        BY <2>5, <2>7 DEF IInv, PendingOnLiveConnection
    <2>9. Idle(c)
        BY <1>4, <2>1, <2>8 DEF Relaying
    <2>10. GivenToClient(r)
        <3>1. outQ[c] = <<>>
            BY <2>9 DEF Idle
        <3>2. Range(outQ[c]) = {}
            BY <3>1 DEF Range
        <3> QED BY <2>5, <2>7, <3>2 DEF SentIfWaiting, RequestOnItsWay
    <2> QED BY <2>7, <2>9, <2>10
<1> QED BY <1>4, <1>5 DEF NothingStuck

\* Nobody waits in a circle: a run() that has not ended and a dispatch that
\* has not returned move on, or wait for the client and for nothing else.
THEOREM NoWaitCycle == Spec => []NothingStuck
<1>1. Init => DrainStarted /\ DrainSpawned /\ SentIfWaiting
    BY DEF Init, DrainStarted, DrainSpawned, SentIfWaiting, Over
<1>2. IInv /\ DrainStarted /\ DrainSpawned /\ SentIfWaiting /\ [Next]_vars
        => (DrainStarted /\ DrainSpawned /\ SentIfWaiting)'
    BY DrainStays, DrainSpawnedStep, SentStep
<1> QED BY <1>1, <1>2, WaitsMove, Invariance, PTL DEF Spec

(***************************************************************************)
(* Every request returns.  The rules for fairness need to know when an     *)
(* action is enabled, which is beyond the provers.  GuardsAreExact says    *)
(* it: each equivalence is read off the definition of its action, and it   *)
(* is a hypothesis of the theorems that use fairness.                      *)
(***************************************************************************)

RunEnabled(c) == ENABLED <<RunTask(c)>>_vars

\* A fair action is enabled when what its task awaits has come, and a timer as
\* long as what it bounds goes on, the wait for room of dispatch included.
GuardsAreExact ==
    /\ \A c \in Conns :
          /\ CanRun(c) <=> RunEnabled(c)
          /\ CanDrain(c) <=> ENABLED <<DrainTask(c)>>_vars
          /\ runPc[c] = "auth" <=> ENABLED <<AuthTimeout(c)>>_vars
          /\ \A p \in Pushers :
                CanPush(c, p) <=> ENABLED <<PushSent(c, p) \/ PushFailed(c, p)>>_vars
    /\ \A r \in Reqs :
          /\ CanServe(r) <=> ENABLED <<RequestTask(r)>>_vars
          /\ Listening(r) <=> ENABLED <<Timeout(r)>>_vars

\* dispatch has its outcome and has yet to remove its pending entry.
Failing(r) == reqPc[r] = "failing"

\* Where a dispatch may go from where it is.
LEMMA DispatchPath ==
    ASSUME NEW r \in Reqs, TypeOK, [Next]_vars
    PROVE  /\ Listening(r) => (Listening(r) \/ Failing(r) \/ Returned(r))'
           /\ Failing(r) => (Failing(r) \/ Returned(r))'
<1> USE DEF Listening, Failing, Returned
<1>0. reqPc \in [Reqs -> ReqPcs]
    BY DEF TypeOK
<1>1. CASE UNCHANGED reqPc
    BY <1>1
<1>2. ASSUME NEW q \in Reqs, Dispatch(q)
      PROVE  reqPc[q] = "idle" /\ \A s \in Reqs \ {q} : reqPc'[s] = reqPc[s]
    BY <1>0, <1>2 DEF Dispatch
<1>3. ASSUME NEW q \in Reqs, RequestTask(q) \/ Timeout(q) \/ Cancel(q)
      PROVE  /\ Listening(q) => (Listening(q) \/ Failing(q) \/ Returned(q))'
             /\ Failing(q) => (Failing(q) \/ Returned(q))'
             /\ \A s \in Reqs \ {q} : reqPc'[s] = reqPc[s]
    BY <1>0, <1>3 DEF RequestTask, SendRequest, SendLost, RecvResponse, RecvDropped,
       Finish, Timeout, Cancel, Fail
<1> QED
    BY <1>1, <1>2, <1>3, AdapterFrame, DrainFrame, RunFrame
       DEF Next, Stopped, vars, CreateConnection, reqVars

\* A request returns if its timer and its task run.
LEMMA RequestReturns ==
    ASSUME NEW r \in Reqs
    PROVE  Spec /\ []GuardsAreExact /\ TimerFair(r) => (Called(r) ~> Returned(r))
<1>1. TypeOK => (Called(r) => Listening(r) \/ Failing(r) \/ Returned(r))
    BY DEF TypeOK, Called, Listening, Failing, Returned, ReqPcs
<1>2. TypeOK /\ Listening(r) /\ [Next]_vars => (Listening(r) \/ Failing(r) \/ Returned(r))'
    BY DispatchPath
<1>3. TypeOK /\ Listening(r) /\ <<Timeout(r)>>_vars => Failing(r)'
    BY DEF TypeOK, Timeout, Fail, Failing
<1>4. TypeOK /\ Failing(r) /\ [Next]_vars => (Failing(r) \/ Returned(r))'
    BY DispatchPath
<1>5. TypeOK /\ Failing(r) /\ <<RequestTask(r)>>_vars => Returned(r)'
    BY DEF TypeOK, Failing, Returned, RequestTask, SendRequest, SendLost,
       RecvResponse, RecvDropped, Finish
<1>6. GuardsAreExact =>
        /\ Listening(r) => ENABLED <<Timeout(r)>>_vars
        /\ Failing(r) => ENABLED <<RequestTask(r)>>_vars
    <2>1. Failing(r) => CanServe(r)
        BY DEF Failing, CanServe
    <2> QED BY <2>1 DEF GuardsAreExact
<1>7. []TypeOK /\ [][Next]_vars /\ []GuardsAreExact /\ WF_vars(RequestTask(r))
        => (Failing(r) ~> Returned(r))
    BY <1>4, <1>5, <1>6, PTL
<1>8. []TypeOK /\ [][Next]_vars /\ []GuardsAreExact /\ WF_vars(Timeout(r))
        => (Listening(r) ~> (Failing(r) \/ Returned(r)))
    BY <1>2, <1>3, <1>6, PTL
<1> QED BY <1>1, <1>7, <1>8, TypeCorrectness, PTL DEF Spec, TimerFair, ServeFair

\* Every request returns, whatever the client and the other tasks do, as long
\* as its own task and timer run.
THEOREM EveryRequestReturns == Spec /\ []GuardsAreExact => RequestsReturn
<1> SUFFICES ASSUME Spec /\ []GuardsAreExact, TimerFairness, NEW r \in Reqs
             PROVE  Called(r) ~> Returned(r)
    BY DEF RequestsReturn
<1>1. TimerFair(r)
    BY DEF TimerFairness
<1> QED BY <1>1, RequestReturns

(***************************************************************************)
(* A client that does not authenticate is turned away.  After handle_auth  *)
(* has failed nobody but run() knows of the connection, so its channel     *)
(* holds the one answer and the drain task has nobody to wait for.         *)
(***************************************************************************)

\* A handle that was replaced belongs to a connection that had registered.
HandlesRegistered ==
    \A d \in Conns : runPc[d] = "closeOld" =>
        replaced[d] \in Conns /\ runPc[replaced[d]] \in Relaying \cup Past

\* No handle of connection c is left outside run().
Unknown(c) ==
    /\ \A s \in Services : services[s] # c
    /\ \A d \in Conns : runPc[d] = "closeOld" => replaced[d] # c
    /\ \A r \in Reqs : reqConn[r] # c

\* The phases of a connection that was turned away.
TurnedAway(c) == runPc[c] = "drain" /\ Unknown(c)
Answering(c) == TurnedAway(c) /\ drain[c] = "running" /\ Len(outQ[c]) = 1
Answered(c) == TurnedAway(c) /\ drain[c] = "running" /\ outQ[c] = <<>>
Drained(c) == TurnedAway(c) /\ drain[c] \in Over

Admitted(c) == runPc[c] = "authed"

\* The auth message of an authenticated connection names a service.
LEMMA ServiceOfAuth ==
    ASSUME IInv, NEW c \in Conns, runPc[c] \in {"authed"} \cup Relaying
    PROVE  auth[c].service \in Services
<1>1. auth[c] \in AuthMessages
    BY DEF IInv, AuthenticatedIfServed, Authenticated
<1>2. PICK t \in Tokens, s \in Services : auth[c] = AuthMessage(t, s)
    BY <1>1 DEF AuthMessages
<1> QED BY <1>2 DEF AuthMessage

\* A new connection was not there before.
LEMMA NewConnection ==
    ASSUME IInv, CreateConnection
    PROVE  /\ nextConnId \in Conns /\ runPc[nextConnId] = "none"
           /\ runPc' = [runPc EXCEPT ![nextConnId] = "created"]
           /\ UNCHANGED <<services, replaced, outQ, drain, reqConn>>
BY ServerAssumption
   DEF CreateConnection, IInv, FreshConnections, Conns, TypeOK, reqVars

\* Only a registered connection is replaced, and it never unregisters into a
\* state before its registration.
LEMMA HandlesStep ==
    ASSUME IInv, HandlesRegistered, [Next]_vars
    PROVE  HandlesRegistered'
<1> USE DEF HandlesRegistered
<1>0. /\ TypeOK
      /\ runPc \in [Conns -> RunPcs]
      /\ replaced \in [Conns -> 0 .. MaxConns]
    BY DEF IInv, TypeOK
<1>1. CASE UNCHANGED <<runPc, replaced>>
    BY <1>1
<1>2. CASE CreateConnection
    BY <1>0, <1>2, NewConnection DEF Relaying, Past
<1>3. ASSUME NEW c \in Conns, Run(c)
      PROVE  HandlesRegistered'
    BY <1>0, <1>3 DEF Run, Relaying, Past
<1>4. ASSUME NEW c \in Conns, AuthRecv(c) \/ AuthTimeout(c)
      PROVE  HandlesRegistered'
    <2>1. \E pc \in {"authed", "drain"} : runPc' = [runPc EXCEPT ![c] = pc]
        BY <1>0, <1>4, AuthRecvCases, AuthTimeoutCases
    <2>2. runPc[c] = "auth" /\ UNCHANGED replaced
        BY <1>0, <1>4, AuthRecvCases, AuthTimeoutCases
    <2> QED BY <1>0, <2>1, <2>2 DEF Relaying, Past
<1>5. ASSUME NEW c \in Conns, Register(c)
      PROVE  HandlesRegistered'
    <2> DEFINE s == auth[c].service
    <2>1. s \in Services
        BY <1>5, ServiceOfAuth DEF Register
    <2> HIDE DEF s
    <2>2. services[s] # NoConn => services[s] \in Conns /\ runPc[services[s]] \in Relaying
        BY <1>0, <2>1, ServerAssumption
           DEF IInv, RegisteredIsRelaying, TypeOK, Conns, NoConn
    <2>3. /\ runPc[c] = "authed"
          /\ replaced' = [replaced EXCEPT ![c] = services[s]]
          /\ runPc' = [runPc EXCEPT ![c] = IF services[s] = NoConn THEN "relay" ELSE "closeOld"]
        BY <1>5 DEF Register, s
    <2> QED BY <1>0, <2>2, <2>3 DEF Relaying, Past
<1>6. ASSUME NEW c \in Conns,
             \/ AuthClosed(c) \/ CloseReplaced(c) \/ RelayClosed(c) \/ Cleanup(c) \/ Return(c)
      PROVE  HandlesRegistered'
    BY <1>0, <1>6 DEF AuthClosed, CloseReplaced, RelayClosed, Cleanup, Return, Relaying, Past
<1>7. ASSUME NEW c \in Conns, RelayRecv(c)
      PROVE  HandlesRegistered'
    BY <1>1, <1>7, RelayRecvFrame
<1> HIDE DEF HandlesRegistered
<1> QED
    BY <1>1, <1>2, <1>3, <1>4, <1>5, <1>6, <1>7, AdapterFrame, DrainFrame, RequestFrame
       DEF Next, RunTask, Stopped, vars

\* Nobody gets a handle of a connection that is not registered.
LEMMA UnknownStays ==
    ASSUME IInv, [Next]_vars, NEW c \in Conns, TurnedAway(c)
    PROVE  Unknown(c)' /\ (runPc'[c] = "drain" \/ Settled(c)')
<1> USE DEF TurnedAway, Unknown
<1>0. /\ TypeOK
      /\ runPc \in [Conns -> RunPcs]
      /\ services \in [Services -> 0 .. MaxConns]
      /\ replaced \in [Conns -> 0 .. MaxConns]
      /\ reqConn \in [Reqs -> 0 .. MaxConns]
    BY DEF IInv, TypeOK
<1>1. CASE UNCHANGED <<runPc, services, replaced, reqConn>>
    BY <1>1
<1>2. CASE CreateConnection
    BY <1>0, <1>2, NewConnection
<1>3. ASSUME NEW d \in Conns, Run(d) \/ AuthClosed(d) \/ RelayClosed(d) \/ Return(d)
      PROVE  Unknown(c)' /\ (runPc'[c] = "drain" \/ Settled(c)')
    BY <1>0, <1>3 DEF Run, AuthClosed, RelayClosed, Return, serverVars, reqVars, Settled
<1>4. ASSUME NEW d \in Conns, AuthRecv(d) \/ AuthTimeout(d)
      PROVE  Unknown(c)' /\ (runPc'[c] = "drain" \/ Settled(c)')
    <2>1. \E pc \in {"authed", "drain"} : runPc' = [runPc EXCEPT ![d] = pc]
        BY <1>0, <1>4, AuthRecvCases, AuthTimeoutCases
    <2>2. runPc[d] = "auth" /\ UNCHANGED <<services, replaced, reqConn>>
        BY <1>0, <1>4, AuthRecvCases, AuthTimeoutCases
    <2> QED BY <1>0, <2>1, <2>2
<1>5. ASSUME NEW d \in Conns, Register(d) \/ CloseReplaced(d) \/ Cleanup(d)
      PROVE  Unknown(c)' /\ (runPc'[c] = "drain" \/ Settled(c)')
    <2>1. d # c
        BY <1>5 DEF Register, CloseReplaced, Cleanup
    <2>2. auth[d].service \in Services
        BY <1>5, ServiceOfAuth DEF Register, CloseReplaced, Cleanup, Relaying
    <2>3. \A s \in Services : services'[s] \in {services[s], d, NoConn}
        BY <1>0, <1>5, <2>2 DEF Register, CloseReplaced, Cleanup, ServicesWithout, serverVars
    <2>4. \A e \in Conns : runPc'[e] = "closeOld" =>
             \/ runPc[e] = "closeOld" /\ replaced'[e] = replaced[e]
             \/ \E s \in Services : replaced'[e] = services[s]
        BY <1>0, <1>5, <2>2 DEF Register, CloseReplaced, Cleanup
    <2>5. UNCHANGED reqConn /\ runPc'[c] = runPc[c]
        BY <1>0, <1>5, <2>1 DEF Register, CloseReplaced, Cleanup, reqVars
    <2> QED BY <2>1, <2>3, <2>4, <2>5, ServerAssumption DEF Conns, NoConn
<1>6. ASSUME NEW d \in Conns, RelayRecv(d)
      PROVE  Unknown(c)' /\ (runPc'[c] = "drain" \/ Settled(c)')
    BY <1>1, <1>6, RelayRecvFrame
<1>7. ASSUME NEW r \in Reqs, Dispatch(r)
      PROVE  Unknown(c)' /\ (runPc'[c] = "drain" \/ Settled(c)')
    BY <1>0, <1>7, DispatchCases
<1>8. ASSUME NEW r \in Reqs, RequestTask(r) \/ Timeout(r) \/ Cancel(r)
      PROVE  Unknown(c)' /\ (runPc'[c] = "drain" \/ Settled(c)')
    <2>1. ~Dispatch(r) \/ Dispatch(r)
        OBVIOUS
    <2> QED BY <1>1, <1>7, <1>8, <2>1, RequestFrame
<1> HIDE DEF TurnedAway, Unknown
<1> QED
    BY <1>1, <1>2, <1>3, <1>4, <1>5, <1>6, <1>7, <1>8, AdapterFrame, DrainFrame
       DEF Next, RunTask, Stopped, vars

\* Its channel only loses messages and its drain task ends but does not start.
LEMMA TurnedAwayChannel ==
    ASSUME IInv, [Next]_vars, NEW c \in Conns, TurnedAway(c)
    PROVE  \/ UNCHANGED <<outQ[c], drain[c]>>
           \/ /\ outQ[c] # <<>> /\ drain[c] = "running"
              /\ outQ'[c] = Tail(outQ[c]) /\ drain'[c] = drain[c]
           \/ outQ'[c] = <<>> /\ drain'[c] \in Over
<1> USE DEF TurnedAway, Unknown
<1>0. /\ TypeOK
      /\ outQ \in [Conns -> Seq(ServerMessages)]
      /\ drain \in [Conns -> {"none", "running", "panicked", "ended"}]
      /\ runPc \in [Conns -> RunPcs]
      /\ reqConn \in [Reqs -> 0 .. MaxConns]
    BY DEF IInv, TypeOK
<1>1. ASSUME NEW d \in Conns, AuthRecv(d) \/ AuthTimeout(d)
      PROVE  UNCHANGED <<outQ[c], drain[c]>>
    <2>1. \E x \in ServerMessages : outQ' = [outQ EXCEPT ![d] = Append(@, x)]
        BY <1>0, <1>1, AuthRecvCases, AuthTimeoutCases, ServerMessageTypes
    <2>2. runPc[d] = "auth" /\ UNCHANGED drain
        BY <1>0, <1>1, AuthRecvCases, AuthTimeoutCases
    <2> QED BY <1>0, <2>1, <2>2
<1>2. ASSUME NEW d \in Conns, Run(d)
      PROVE  UNCHANGED <<outQ[c], drain[c]>>
    BY <1>0, <1>2 DEF Run
<1>3. ASSUME NEW d \in Conns,
             \/ AuthClosed(d) \/ Register(d) \/ CloseReplaced(d) \/ RelayRecv(d)
             \/ RelayClosed(d) \/ Cleanup(d) \/ Return(d)
      PROVE  UNCHANGED <<outQ[c], drain[c]>>
    BY <1>3 DEF AuthClosed, Register, CloseReplaced, RelayRecv, RelayClosed, Cleanup, Return
<1>4. ASSUME NEW d \in Conns, DrainTask(d) \/ CallbackPanics(d)
      PROVE  \/ UNCHANGED <<outQ[c], drain[c]>>
             \/ /\ outQ[c] # <<>> /\ drain[c] = "running"
                /\ outQ'[c] = Tail(outQ[c]) /\ drain'[c] = drain[c]
             \/ outQ'[c] = <<>> /\ drain'[c] \in Over
    BY <1>0, <1>4 DEF DrainTask, DrainDeliver, DrainEnd, CallbackPanics, Over
<1>5. ASSUME NEW r \in Reqs,
             Dispatch(r) \/ RequestTask(r) \/ Timeout(r) \/ Cancel(r)
      PROVE  UNCHANGED <<outQ[c], drain[c]>>
    <2>1. CASE SendRequest(r)
        BY <1>0, <2>1 DEF SendRequest
    <2> QED BY <1>5, <2>1, RequestFrame
<1>6. ASSUME NEW d \in Conns, Adapter(d)
      PROVE  UNCHANGED <<outQ[c], drain[c]>>
    BY <1>6, AdapterFrame
<1>7. CASE Stopped \/ UNCHANGED vars \/ CreateConnection
    BY <1>7 DEF Stopped, vars, CreateConnection
<1> HIDE DEF TurnedAway, Unknown
<1> QED BY <1>1, <1>2, <1>3, <1>4, <1>5, <1>6, <1>7 DEF Next, RunTask

\* Where handle_auth leads: the client is admitted or turned away.
LEMMA AuthPath ==
    ASSUME IInv, HandlesRegistered, DrainSpawned, [Next]_vars, NEW c \in Conns, InAuth(c)
    PROVE  /\ (InAuth(c) \/ Admitted(c) \/ Answering(c) \/ Answered(c))'
           /\ AuthTimeout(c) => Answering(c)'
<1> USE DEF InAuth, Admitted, Answering, Answered, TurnedAway
<1>0. /\ TypeOK
      /\ runPc \in [Conns -> RunPcs]
      /\ outQ \in [Conns -> Seq(ServerMessages)]
      /\ drain[c] = "running" /\ outQ[c] = <<>>
    BY DEF IInv, TypeOK, DrainSpawned, QuietBeforeAuth
<1>1. Unknown(c)
    <2>1. \A s \in Services : services[s] # c
        BY ServerAssumption DEF IInv, RegisteredIsRelaying, Relaying, Conns, NoConn
    <2>2. \A d \in Conns : runPc[d] = "closeOld" => replaced[d] # c
        BY DEF HandlesRegistered, Relaying, Past
    <2>3. \A r \in Reqs : reqConn[r] # c
        BY ServerAssumption DEF IInv, RequestTargets, Relaying, Past, Conns, NoConn
    <2> QED BY <2>1, <2>2, <2>3 DEF Unknown
<1>2. ASSUME AuthRecv(c) \/ AuthTimeout(c)
      PROVE  (Admitted(c) \/ Answering(c))' /\ (AuthTimeout(c) => Answering(c)')
    <2>1. PICK pc \in {"authed", "drain"} :
              runPc' = [runPc EXCEPT ![c] = pc] /\ (AuthTimeout(c) => pc = "drain")
        BY <1>0, <1>2, AuthRecvCases, AuthTimeoutCases
    <2>2. PICK x \in ServerMessages : outQ' = [outQ EXCEPT ![c] = Append(@, x)]
        BY <1>0, <1>2, AuthRecvCases, AuthTimeoutCases, ServerMessageTypes
    <2>3. UNCHANGED <<drain, services, replaced, reqConn>>
        BY <1>0, <1>2, AuthRecvCases, AuthTimeoutCases
    <2>4. Len(outQ'[c]) = 1
        BY <1>0, <2>2
    <2>5. Unknown(c)'
        BY <1>0, <1>1, <2>1, <2>3 DEF Unknown
    <2> QED BY <1>0, <2>1, <2>3, <2>4, <2>5
<1>3. ASSUME AuthClosed(c)
      PROVE  Answered(c)'
    <2>1. Unknown(c)'
        BY <1>0, <1>1, <1>3 DEF AuthClosed, Unknown, serverVars, reqVars
    <2> QED BY <1>0, <1>3, <2>1 DEF AuthClosed
<1>4. ASSUME NEW d \in Conns, RunTask(d), d # c
      PROVE  InAuth(c)'
    <2>1. CASE AuthRecv(d)
        BY <1>0, <1>4, <2>1, AuthRecvCases
    <2> QED BY <1>0, <1>4, <2>1 DEF RunTask, Run, AuthClosed, Register, CloseReplaced,
            RelayRecv, RelayClosed, Cleanup, Return
<1>5. ASSUME NEW d \in Conns, AuthTimeout(d), d # c
      PROVE  InAuth(c)'
    BY <1>0, <1>5, AuthTimeoutCases
<1>6. ASSUME RunTask(c)
      PROVE  (InAuth(c) \/ Admitted(c) \/ Answering(c) \/ Answered(c))'
    BY <1>2, <1>3, <1>6 DEF RunTask, Run, AuthClosed, Register, CloseReplaced,
        RelayRecv, RelayClosed, Cleanup, Return
<1>7. ASSUME CreateConnection
      PROVE  InAuth(c)'
    BY <1>0, <1>7, NewConnection
<1>8. ASSUME UNCHANGED runPc
      PROVE  InAuth(c)'
    BY <1>8
<1>9. (InAuth(c) \/ Admitted(c) \/ Answering(c) \/ Answered(c))'
    BY <1>2, <1>4, <1>5, <1>6, <1>7, <1>8, AdapterFrame, DrainFrame, RequestFrame
       DEF Next, Stopped, vars
<1> QED BY <1>2, <1>9

\* A client that was admitted gets its service.
LEMMA AdmittedPath ==
    ASSUME IInv, [Next]_vars, NEW c \in Conns, Admitted(c)
    PROVE  /\ (Admitted(c) \/ Settled(c))'
           /\ RunTask(c) => Settled(c)'
<1> USE DEF Admitted, Settled
<1>0. TypeOK /\ runPc \in [Conns -> RunPcs]
    BY DEF IInv, TypeOK
<1>1. CASE RunTask(c)
    BY <1>0, <1>1 DEF RunTask, Run, AuthRecv, AuthClosed, Register, CloseReplaced,
        RelayRecv, RelayClosed, Cleanup, Return, Relaying
<1>2. ASSUME NEW d \in Conns, RunTask(d) \/ AuthTimeout(d), ~RunTask(c)
      PROVE  Admitted(c)'
    <2>1. CASE AuthRecv(d) \/ AuthTimeout(d)
        BY <1>0, <1>2, <2>1, AuthRecvCases, AuthTimeoutCases
    <2> QED BY <1>0, <1>2, <2>1 DEF RunTask, Run, AuthClosed, Register, CloseReplaced,
            RelayRecv, RelayClosed, Cleanup, Return
<1>3. ASSUME CreateConnection
      PROVE  Admitted(c)'
    BY <1>0, <1>3, NewConnection
<1>4. ASSUME UNCHANGED runPc
      PROVE  Admitted(c)'
    BY <1>4
<1> QED
    BY <1>1, <1>2, <1>3, <1>4, AdapterFrame, DrainFrame, RequestFrame DEF Next, Stopped, vars

\* The way of a connection that was turned away: its one answer is delivered,
\* or the callback panics, the drain task ends and run() returns.
LEMMA TurnedAwayPath ==
    ASSUME IInv, [Next]_vars, NEW c \in Conns
    PROVE  /\ Answering(c) => (Answering(c) \/ Answered(c) \/ Drained(c) \/ Settled(c))'
           /\ Answering(c) /\ DrainTask(c) => (Answered(c) \/ Drained(c) \/ Settled(c))'
           /\ Answered(c) => (Answered(c) \/ Drained(c) \/ Settled(c))'
           /\ Answered(c) /\ DrainTask(c) => (Drained(c) \/ Settled(c))'
           /\ Drained(c) => (Drained(c) \/ Settled(c))'
           /\ Drained(c) /\ RunTask(c) => Settled(c)'
<1>0. /\ TypeOK
      /\ outQ[c] \in Seq(ServerMessages)
      /\ drain \in [Conns -> {"none", "running", "panicked", "ended"}]
      /\ outQ \in [Conns -> Seq(ServerMessages)]
      /\ runPc \in [Conns -> RunPcs]
    BY DEF IInv, TypeOK
<1>1. TurnedAway(c) => (TurnedAway(c)' \/ Settled(c)')
    BY UnknownStays DEF TurnedAway
<1>2. CASE Answering(c)
    <2>1. Tail(outQ[c]) = <<>>
        <3>0. outQ[c] = <<>> => Len(outQ[c]) = 0
            BY EmptySeq
        <3>1. Len(outQ[c]) = 1 /\ outQ[c] # <<>>
            BY <1>2, <3>0 DEF Answering
        <3>2. Tail(outQ[c]) \in Seq(ServerMessages) /\ Len(Tail(outQ[c])) = 0
            BY <1>0, <3>1, HeadTailProperties
        <3> QED BY <3>2, EmptySeq
    <2>2. (Answering(c) \/ Answered(c) \/ Drained(c) \/ Settled(c))'
        BY <1>1, <1>2, <2>1, TurnedAwayChannel DEF Answering, Answered, Drained
    <2>3. DrainTask(c) => ~Answering(c)'
        BY <1>0, <1>2, <2>1 DEF DrainTask, DrainDeliver, DrainEnd, Answering
    <2> QED BY <1>0, <1>2, <2>2, <2>3 DEF Answering, Answered, Drained, Over
<1>3. CASE Answered(c)
    <2>1. (Answered(c) \/ Drained(c) \/ Settled(c))'
        BY <1>1, <1>3, TurnedAwayChannel DEF Answered, Drained
    <2>2. DrainTask(c) => ~Answered(c)'
        BY <1>0, <1>3 DEF DrainTask, DrainDeliver, DrainEnd, Answered
    <2> QED BY <1>0, <1>3, <2>1, <2>2 DEF Answering, Answered, Drained, Over
<1>4. CASE Drained(c)
    <2>1. (Drained(c) \/ Settled(c))'
        BY <1>1, <1>4, TurnedAwayChannel DEF Drained, Over
    <2>2. RunTask(c) => Settled(c)'
        BY <1>0, <1>4 DEF RunTask, Run, AuthRecv, AuthClosed, Register, CloseReplaced,
            RelayRecv, RelayClosed, Cleanup, Return, Settled, Drained, TurnedAway
    <2> QED BY <1>0, <1>4, <2>1, <2>2 DEF Answering, Answered, Drained, Over
<1> QED BY <1>2, <1>3, <1>4

\* A connection in handle_auth registers or ends if its tasks and its timer
\* run.
LEMMA AuthEnds ==
    ASSUME NEW c \in Conns
    PROVE  Spec /\ []GuardsAreExact /\ TaskFair(c) => (InAuth(c) ~> Settled(c))
<1> DEFINE J == IInv /\ DrainStarted /\ DrainSpawned /\ HandlesRegistered
<1>1. Spec => []J
    <2>1. Init => DrainStarted /\ DrainSpawned /\ HandlesRegistered
        BY DEF Init, DrainStarted, DrainSpawned, HandlesRegistered, Over
    <2>2. IInv /\ DrainStarted /\ DrainSpawned /\ HandlesRegistered /\ [Next]_vars
            => (DrainStarted /\ DrainSpawned /\ HandlesRegistered)'
        BY DrainStays, DrainSpawnedStep, HandlesStep
    <2> QED BY <2>1, <2>2, Invariance, PTL DEF Spec
<1>2. J /\ InAuth(c) /\ [Next]_vars
        => (InAuth(c) \/ Admitted(c) \/ Answering(c) \/ Answered(c))'
    BY AuthPath
<1>3. J /\ InAuth(c) /\ <<Next /\ AuthTimeout(c)>>_vars => Answering(c)'
    BY AuthPath
<1>4. J /\ Admitted(c) /\ [Next]_vars => (Admitted(c) \/ Settled(c))'
    BY AdmittedPath
<1>5. J /\ Admitted(c) /\ <<Next /\ RunTask(c)>>_vars => Settled(c)'
    BY AdmittedPath
<1>6. J /\ Answering(c) /\ [Next]_vars
        => (Answering(c) \/ Answered(c) \/ Drained(c) \/ Settled(c))'
    BY TurnedAwayPath
<1>7. J /\ Answering(c) /\ <<Next /\ DrainTask(c)>>_vars
        => (Answered(c) \/ Drained(c) \/ Settled(c))'
    BY TurnedAwayPath
<1>8. J /\ Answered(c) /\ [Next]_vars => (Answered(c) \/ Drained(c) \/ Settled(c))'
    BY TurnedAwayPath
<1>9. J /\ Answered(c) /\ <<Next /\ DrainTask(c)>>_vars => (Drained(c) \/ Settled(c))'
    BY TurnedAwayPath
<1>10. J /\ Drained(c) /\ [Next]_vars => (Drained(c) \/ Settled(c))'
    BY TurnedAwayPath
<1>11. J /\ Drained(c) /\ <<Next /\ RunTask(c)>>_vars => Settled(c)'
    BY TurnedAwayPath
<1>12. GuardsAreExact =>
         /\ InAuth(c) => ENABLED <<AuthTimeout(c)>>_vars
         /\ Admitted(c) => ENABLED <<RunTask(c)>>_vars
         /\ J /\ Answering(c) => ENABLED <<DrainTask(c)>>_vars
         /\ Answered(c) => ENABLED <<DrainTask(c)>>_vars
         /\ Drained(c) => ENABLED <<RunTask(c)>>_vars
    <2>1. Admitted(c) \/ Drained(c) => CanRun(c)
        BY DEF Admitted, Drained, TurnedAway, Over, CanRun
    <2>2. IInv /\ Answering(c) => CanDrain(c)
        <3>1. outQ[c] = <<>> => Len(outQ[c]) = 0
            BY EmptySeq
        <3> QED BY <3>1 DEF Answering, CanDrain
    <2>3. Answered(c) => CanDrain(c)
        BY DEF Answered, TurnedAway, Unknown, HasSender, CanDrain, InDispatch, Relaying
    <2> HIDE DEF J
    <2>4. J => IInv
        BY DEF J
    <2> QED BY <2>1, <2>2, <2>3, <2>4 DEF GuardsAreExact, RunEnabled, InAuth
<1> HIDE DEF J
<1>13. []J /\ [][Next]_vars /\ []GuardsAreExact /\ WF_vars(RunTask(c))
        => (Drained(c) ~> Settled(c)) /\ (Admitted(c) ~> Settled(c))
    BY <1>4, <1>5, <1>10, <1>11, <1>12, PTL
<1>14. []J /\ [][Next]_vars /\ []GuardsAreExact /\ WF_vars(DrainTask(c))
        => /\ Answered(c) ~> (Drained(c) \/ Settled(c))
           /\ Answering(c) ~> (Answered(c) \/ Drained(c) \/ Settled(c))
    BY <1>6, <1>7, <1>8, <1>9, <1>12, PTL
<1>15. []J /\ [][Next]_vars /\ []GuardsAreExact /\ WF_vars(AuthTimeout(c))
        => (InAuth(c) ~> (Admitted(c) \/ Answering(c) \/ Answered(c)))
    BY <1>2, <1>3, <1>12, PTL
<1> QED BY <1>1, <1>13, <1>14, <1>15, PTL DEF Spec, TaskFair

\* A client that does not authenticate does not hold its connection: run()
\* registers it or returns, by the tasks of the connection and its timer alone.
THEOREM UnauthenticatedReturn == Spec /\ []GuardsAreExact => UnauthenticatedEnds
<1> SUFFICES ASSUME Spec /\ []GuardsAreExact, TaskFairness, NEW c \in Conns
             PROVE  InAuth(c) ~> Settled(c)
    BY DEF UnauthenticatedEnds
<1>1. TaskFair(c)
    BY DEF TaskFairness
<1> QED BY <1>1, AuthEnds

(***************************************************************************)
(* What the proofs about the adapters need: the core goes forward          *)
(***************************************************************************)

\* run() starts once and ends once, after its drain task; a connection that
\* was closed stays closed.
LEMMA CoreGoesForward ==
    ASSUME IInv, DrainStarted, [Next]_vars, NEW c \in Conns
    PROVE  /\ runPc[c] # "none" => runPc'[c] # "none"
           /\ runPc[c] = "done" => runPc'[c] = "done"
           /\ runPc[c] # "none" /\ ~inTx[c] => ~inTx'[c]
           /\ runPc'[c] = "done" => drain'[c] \in Over \/ runPc[c] = "done"
           /\ drain[c] \in Over => drain'[c] \in Over
<1> USE DEF Over
<1>0. /\ TypeOK
      /\ runPc \in [Conns -> RunPcs]
      /\ inTx \in [Conns -> BOOLEAN]
      /\ replaced \in [Conns -> 0 .. MaxConns]
      /\ drain \in [Conns -> {"none", "running", "panicked", "ended"}]
    BY DEF IInv, TypeOK
<1> DEFINE Forward ==
           /\ runPc[c] # "none" => runPc'[c] # "none"
           /\ runPc[c] = "done" => runPc'[c] = "done"
           /\ runPc[c] # "none" /\ ~inTx[c] => ~inTx'[c]
           /\ runPc'[c] = "done" => drain'[c] \in Over \/ runPc[c] = "done"
           /\ drain[c] \in Over => drain'[c] \in Over
<1>1. CASE UNCHANGED <<runPc, inTx, drain>>
    BY <1>1
<1>2. ASSUME CreateConnection PROVE Forward
    <2>1. inTx' = [inTx EXCEPT ![nextConnId] = TRUE]
        BY <1>2 DEF CreateConnection
    <2> QED BY <1>0, <1>2, <2>1, NewConnection
<1>3. ASSUME NEW d \in Conns, Run(d) PROVE Forward
    BY <1>0, <1>3 DEF Run, DrainStarted
<1>4. ASSUME NEW d \in Conns, AuthRecv(d) \/ AuthTimeout(d) PROVE Forward
    <2>1. \E pc \in {"authed", "drain"} : runPc' = [runPc EXCEPT ![d] = pc]
        BY <1>0, <1>4, AuthRecvCases, AuthTimeoutCases
    <2>2. runPc[d] = "auth" /\ UNCHANGED <<drain, inTx>>
        BY <1>0, <1>4, AuthRecvCases, AuthTimeoutCases
    <2> QED BY <1>0, <2>1, <2>2
<1>5. ASSUME NEW d \in Conns,
             \/ AuthClosed(d) \/ Register(d) \/ CloseReplaced(d) \/ RelayClosed(d)
             \/ Cleanup(d) \/ Return(d)
      PROVE  Forward
    <2>1. CASE CloseReplaced(d)
        BY <1>0, <2>1 DEF CloseReplaced
    <2>2. CASE Return(d)
        BY <1>0, <2>2 DEF Return
    <2> QED BY <1>0, <1>5, <2>1, <2>2 DEF AuthClosed, Register, RelayClosed, Cleanup
<1>6. ASSUME NEW d \in Conns, DrainTask(d) \/ CallbackPanics(d) PROVE Forward
    <2>1. UNCHANGED <<runPc, inTx>>
        BY <1>6, DrainFrame
    <2>2. drain[c] \in Over => drain'[c] \in Over
        BY <1>0, <1>6 DEF DrainTask, DrainDeliver, DrainEnd, CallbackPanics
    <2> QED BY <2>1, <2>2
<1>7. ASSUME NEW d \in Conns, Adapter(d) PROVE Forward
    <2>1. UNCHANGED <<runPc, drain>>
        BY <1>7, AdapterFrame
    <2>2. ~inTx[c] => ~inTx'[c]
        BY <1>0, <1>7, AdapterFrame DEF Close
    <2> QED BY <2>1, <2>2
<1>8. ASSUME NEW d \in Conns, RelayRecv(d) PROVE Forward
    BY <1>1, <1>8, RelayRecvFrame
<1> HIDE DEF Forward
<1>9. ASSUME UNCHANGED <<runPc, inTx, drain>> PROVE Forward
    BY <1>9 DEF Forward
<1>10. Forward
    BY <1>2, <1>3, <1>4, <1>5, <1>6, <1>7, <1>8, <1>9, RequestFrame
       DEF Next, RunTask, Stopped, vars
<1> QED BY <1>10 DEF Forward

(***************************************************************************)
(* A request reaches one client, once, and its answer comes from there.    *)
(***************************************************************************)

\* The message was handed to the client of connection c or is on its way there.
SentTo(r, c) == TunnelRequest(r) \in handed[c] \/ Places(r, c) # {}

\* Only dispatch sends a request, when it is done with waiting for room.
SentOnce ==
    \A r \in Reqs, c \in Conns :
        /\ SentTo(r, c) => reqConn[r] = c /\ reqPc[r] \notin {"idle", "sending"}
        /\ TunnelRequest(r) \in handed[c] => Places(r, c) = {}
        /\ \A i, j \in Places(r, c) : i = j

\* Two requests have different ids, and what handle_auth answers is no request.
LEMMA RequestsDiffer ==
    /\ \A r, q \in Reqs : TunnelRequest(r) = TunnelRequest(q) => r = q
    /\ \A r \in Reqs : TunnelRequest(r) # AuthOk /\ TunnelRequest(r) \notin AuthErrors
<1>1. \A r \in Reqs : TunnelRequest(r).request_id = r /\ TunnelRequest(r).type = "request"
    BY DEF TunnelRequest
<1>2. AuthOk.type = "auth_ok"
    BY DEF AuthOk
<1> QED BY <1>1, <1>2, AuthErrorType

\* Where a request is in a channel another message is sent to.
LEMMA PlacesAppend ==
    ASSUME NEW c \in Conns, NEW r \in Reqs, NEW m \in ServerMessages,
           outQ[c] \in Seq(ServerMessages), outQ'[c] = Append(outQ[c], m)
    PROVE  /\ m # TunnelRequest(r) => Places(r, c)' = Places(r, c)
           /\ m = TunnelRequest(r) => Places(r, c)' = Places(r, c) \cup {Len(outQ[c]) + 1}
<1> DEFINE q == outQ[c]
<1>1. /\ Len(q) \in Nat
      /\ Len(outQ'[c]) = Len(q) + 1
      /\ \A i \in 1 .. Len(q) : outQ'[c][i] = q[i]
      /\ outQ'[c][Len(q) + 1] = m
    <2>1. q \in Seq(ServerMessages) /\ outQ'[c] = Append(q, m)
        OBVIOUS
    <2> HIDE DEF q
    <2> QED BY <2>1, AppendProperties, LenProperties
<1>2. 1 .. Len(outQ'[c]) = 1 .. Len(q) \cup {Len(q) + 1}
    BY <1>1
<1> QED BY <1>1, <1>2 DEF Places

\* Where a request is in a channel after its first message was received.
LEMMA PlacesTail ==
    ASSUME NEW c \in Conns, NEW r \in Reqs,
           outQ[c] \in Seq(ServerMessages), outQ[c] # <<>>, outQ'[c] = Tail(outQ[c])
    PROVE  /\ \A i \in Places(r, c)' : i + 1 \in Places(r, c) /\ i + 1 # 1 /\ i \in Int
           /\ Head(outQ[c]) = TunnelRequest(r) => 1 \in Places(r, c)
<1> DEFINE q == outQ[c]
<1>1. /\ Len(q) \in Nat \ {0}
      /\ Head(q) = q[1]
      /\ Len(outQ'[c]) = Len(q) - 1
      /\ \A i \in 1 .. Len(q) - 1 : outQ'[c][i] = q[i + 1]
    BY HeadTailProperties, EmptySeq
<1> QED BY <1>1 DEF Places

\* No step sends a request twice, or to a connection other than its own.
LEMMA SentOnceStep ==
    ASSUME IInv, SentOnce, [Next]_vars
    PROVE  SentOnce'
<1>0. /\ TypeOK
      /\ reqPc \in [Reqs -> ReqPcs]
      /\ reqConn \in [Reqs -> 0 .. MaxConns]
      /\ outQ \in [Conns -> Seq(ServerMessages)]
      /\ handed \in [Conns -> SUBSET ServerMessages]
    BY DEF IInv, TypeOK
<1> DEFINE Kept(r) == reqPc[r] \notin {"idle", "sending"} =>
                        reqConn'[r] = reqConn[r] /\ reqPc'[r] \notin {"idle", "sending"}
           OneTrace(r, c) ==
                /\ SentTo(r, c) => reqConn[r] = c /\ reqPc[r] \notin {"idle", "sending"}
                /\ TunnelRequest(r) \in handed[c] => Places(r, c) = {}
                /\ \A i, j \in Places(r, c) : i = j
<1>a. ASSUME NEW r \in Reqs, NEW c \in Conns, Kept(r),
             TunnelRequest(r) \in handed'[c] => TunnelRequest(r) \in handed[c],
             Places(r, c)' = Places(r, c) \/ Places(r, c)' = {}
      PROVE  OneTrace(r, c)'
    BY <1>a DEF SentOnce, SentTo
<1>b. ASSUME UNCHANGED <<outQ, handed>>, \A r \in Reqs : Kept(r)
      PROVE  SentOnce'
    <2>1. \A r \in Reqs, c \in Conns : Places(r, c)' = Places(r, c)
        BY <1>b DEF Places
    <2> HIDE DEF Kept, OneTrace
    <2>2. \A r \in Reqs, c \in Conns : OneTrace(r, c)'
        BY <1>a, <1>b, <2>1
    <2> QED BY <2>2 DEF SentOnce, OneTrace
<1>1. CASE UNCHANGED <<outQ, handed, reqPc, reqConn>>
    BY <1>1, <1>b
<1>2. ASSUME NEW d \in Conns, AuthRecv(d) \/ AuthTimeout(d)
      PROVE  SentOnce'
    <2>1. PICK m \in {AuthOk} \cup AuthErrors : outQ' = [outQ EXCEPT ![d] = Append(@, m)]
        BY <1>0, <1>2, AuthRecvCases, AuthTimeoutCases
    <2>2. UNCHANGED <<handed, reqPc, reqConn>>
        BY <1>0, <1>2, AuthRecvCases, AuthTimeoutCases
    <2>3. m \in ServerMessages /\ \A r \in Reqs : m # TunnelRequest(r)
        BY RequestsDiffer, ServerMessageTypes
    <2>4. ASSUME NEW r \in Reqs, NEW c \in Conns PROVE Places(r, c)' = Places(r, c)
        <3>1. CASE c = d
            BY <1>0, <2>1, <2>3, <3>1, PlacesAppend
        <3>2. CASE c # d
            BY <1>0, <2>1, <3>2 DEF Places
        <3> QED BY <3>1, <3>2
    <2>5. \A r \in Reqs, c \in Conns : OneTrace(r, c)'
        BY <1>a, <2>2, <2>4
    <2> QED BY <2>5 DEF SentOnce
<1>3. ASSUME NEW d \in Conns, DrainDeliver(d)
      PROVE  SentOnce'
    <2>1. /\ outQ[d] # <<>> /\ outQ[d] \in Seq(ServerMessages)
          /\ handed' = [handed EXCEPT ![d] = @ \cup {Head(outQ[d])}]
          /\ outQ' = [outQ EXCEPT ![d] = Tail(@)]
          /\ UNCHANGED <<reqPc, reqConn>>
        BY <1>0, <1>3 DEF DrainDeliver, reqVars
    <2>2. ASSUME NEW r \in Reqs, NEW c \in Conns, c # d PROVE OneTrace(r, c)'
        <3>1. outQ'[c] = outQ[c] /\ handed'[c] = handed[c]
            BY <1>0, <2>1, <2>2
        <3>2. Places(r, c)' = Places(r, c)
            BY <3>1 DEF Places
        <3> QED BY <1>a, <2>1, <3>1, <3>2
    <2>3. ASSUME NEW r \in Reqs PROVE OneTrace(r, d)'
        <3>1. /\ outQ'[d] = Tail(outQ[d])
              /\ handed'[d] = handed[d] \cup {Head(outQ[d])}
            BY <1>0, <2>1
        <3>2. /\ \A i \in Places(r, d)' : i + 1 \in Places(r, d) /\ i + 1 # 1 /\ i \in Int
              /\ Head(outQ[d]) = TunnelRequest(r) => 1 \in Places(r, d)
            BY <2>1, <3>1, PlacesTail
        <3>3. SentTo(r, d)' => SentTo(r, d)
            BY <3>1, <3>2 DEF SentTo
        <3>4. TunnelRequest(r) \in handed'[d] => Places(r, d)' = {}
            BY <3>1, <3>2 DEF SentOnce
        <3>5. ASSUME NEW i \in Places(r, d)', NEW j \in Places(r, d)' PROVE i = j
            <4>1. i + 1 = j + 1 /\ i \in Int /\ j \in Int
                BY <3>2 DEF SentOnce
            <4> QED BY <4>1
        <3> QED BY <2>1, <3>3, <3>4, <3>5 DEF SentOnce
    <2> QED BY <2>2, <2>3 DEF SentOnce
<1>4. ASSUME NEW d \in Conns, CallbackPanics(d)
      PROVE  SentOnce'
    <2>1. /\ outQ' = [outQ EXCEPT ![d] = <<>>]
          /\ UNCHANGED <<handed, reqPc, reqConn>>
        BY <1>4 DEF CallbackPanics, reqVars
    <2>2. ASSUME NEW r \in Reqs, NEW c \in Conns
          PROVE  Places(r, c)' = Places(r, c) \/ Places(r, c)' = {}
        <3>1. CASE c = d
            <4>1. Len(outQ'[c]) = 0
                BY <1>0, <2>1, <3>1, EmptySeq
            <4> QED BY <4>1 DEF Places
        <3>2. CASE c # d
            BY <1>0, <2>1, <3>2 DEF Places
        <3> QED BY <3>1, <3>2
    <2>3. \A r \in Reqs, c \in Conns : OneTrace(r, c)'
        BY <1>a, <2>1, <2>2
    <2> QED BY <2>3 DEF SentOnce
<1>5. ASSUME NEW q \in Reqs, Dispatch(q)
      PROVE  SentOnce'
    <2>1. /\ reqPc[q] = "idle"
          /\ \A r \in Reqs \ {q} : reqPc'[r] = reqPc[r] /\ reqConn'[r] = reqConn[r]
          /\ UNCHANGED <<outQ, handed>>
        BY <1>0, <1>5, DispatchCases
    <2>2. \A r \in Reqs : Kept(r)
        BY <2>1
    <2> QED BY <1>b, <2>1, <2>2
<1>6. ASSUME NEW q \in Reqs, SendRequest(q)
      PROVE  SentOnce'
    <2> DEFINE m == TunnelRequest(q)
    <2>1. reqConn[q] \in Conns
        BY <1>0, <1>6, ServerAssumption
           DEF SendRequest, IInv, UntouchedRequests, InDispatch, Conns, NoConn
    <2>2. PICK d \in Conns :
              /\ reqConn[q] = d
              /\ outQ' = [outQ EXCEPT ![d] = Append(@, m)]
              /\ reqPc[q] = "sending" /\ reqPc' = [reqPc EXCEPT ![q] = "waiting"]
              /\ UNCHANGED <<handed, reqConn>>
        BY <1>6, <2>1 DEF SendRequest
    <2>3. \A r \in Reqs : Kept(r)
        BY <1>0, <2>2
    <2>4. ASSUME NEW r \in Reqs, NEW c \in Conns, c # d \/ r # q
          PROVE  Places(r, c)' = Places(r, c)
        <3>1. CASE c # d
            BY <1>0, <2>2, <3>1 DEF Places
        <3>2. CASE c = d
            <4>1. m # TunnelRequest(r) /\ m \in ServerMessages /\ outQ'[c] = Append(outQ[c], m)
                BY <1>0, <2>2, <2>4, <3>2, RequestsDiffer, ServerMessageTypes
            <4> HIDE DEF m
            <4> QED BY <1>0, <4>1, PlacesAppend
        <3> QED BY <3>1, <3>2
    <2>5. ASSUME NEW r \in Reqs, NEW c \in Conns, c # d \/ r # q PROVE OneTrace(r, c)'
        BY <1>a, <2>2, <2>3, <2>4, <2>5
    <2>6. OneTrace(q, d)'
        <3>1. TunnelRequest(q) \notin handed[d] /\ Places(q, d) = {}
            BY <2>2 DEF SentOnce, SentTo
        <3>2. Places(q, d)' = {Len(outQ[d]) + 1}
            <4>1. outQ'[d] = Append(outQ[d], m) /\ m \in ServerMessages
                BY <1>0, <2>2, ServerMessageTypes
            <4> QED BY <1>0, <3>1, <4>1, PlacesAppend
        <3> QED BY <1>0, <2>2, <3>1, <3>2
    <2>7. \A r \in Reqs, c \in Conns : OneTrace(r, c)'
        BY <2>5, <2>6
    <2> QED BY <2>7 DEF SentOnce
<1>7. ASSUME NEW q \in Reqs, RequestTask(q) \/ Timeout(q) \/ Cancel(q), ~SendRequest(q)
      PROVE  SentOnce'
    <2>1. UNCHANGED <<outQ, handed, reqConn>>
        BY <1>7 DEF RequestTask, SendLost, RecvResponse, RecvDropped, Finish, Timeout,
            Cancel, Fail, connVars
    <2>2. \A r \in Reqs : Kept(r)
        BY <1>0, <1>7, <2>1 DEF RequestTask, SendLost, RecvResponse, RecvDropped, Finish,
            Timeout, Cancel, Fail
    <2> QED BY <1>b, <2>1, <2>2
<1>8. ASSUME NEW d \in Conns, RunTask(d), ~AuthRecv(d)
      PROVE  SentOnce'
    BY <1>1, <1>8, RelayRecvFrame DEF RunTask, Run, AuthClosed, Register, CloseReplaced,
       RelayClosed, Cleanup, Return, reqVars
<1>9. ASSUME NEW d \in Conns, Adapter(d) \/ DrainEnd(d)
      PROVE  SentOnce'
    BY <1>1, <1>9, AdapterFrame DEF DrainEnd, reqVars
<1>10. CASE CreateConnection \/ Stopped \/ UNCHANGED vars
    BY <1>1, <1>10 DEF CreateConnection, Stopped, vars, reqVars
<1> QED
    BY <1>2, <1>3, <1>4, <1>5, <1>6, <1>7, <1>8, <1>9, <1>10 DEF Next, DrainTask

\* Every step keeps the requests sent once, in every behaviour.
LEMMA SentOnceAlways == Spec => []SentOnce
<1>1. Init => SentOnce
    <2> SUFFICES ASSUME Init, NEW r \in Reqs, NEW c \in Conns
                 PROVE  TunnelRequest(r) \notin handed[c] /\ Places(r, c) = {}
        BY DEF SentOnce, SentTo
    <2>1. outQ[c] = <<>> /\ handed[c] = {}
        BY DEF Init
    <2>2. Len(outQ[c]) = 0
        BY <2>1, EmptySeq
    <2> QED BY <2>1, <2>2 DEF Places
<1> QED BY <1>1, SentOnceStep, Invariance, PTL DEF Spec

\* A request reaches one client at most, once: neither a replacement nor a
\* timeout gives it to another client or to the same one again.
THEOREM RequestsReachOneClient == Spec => []RequestsArriveOnce
<1>1. IInv /\ SentOnce => RequestsArriveOnce
    <2> SUFFICES ASSUME IInv, SentOnce, NEW r \in Reqs, NEW c \in Conns, SentTo(r, c)
                 PROVE  reqConn[r] = c /\ auth[c].service = ServiceOf[r]
        BY DEF RequestsArriveOnce, SentOnce, SentTo
    <2>1. reqConn[r] = c
        BY DEF SentOnce
    <2> QED BY <2>1, ServerAssumption DEF IInv, RequestTargets, Conns, NoConn
<1> QED BY <1>1, SentOnceAlways, Invariance, PTL

(***************************************************************************)
(* Channels between the callback and a socket repeat no request            *)
(***************************************************************************)

\* A request in channel q is there once, and was not taken from it `before'.
Fresh(before, q) ==
    \A i \in 1 .. Len(q) : q[i].type = "request" =>
        q[i] \notin before /\ \A j \in 1 .. Len(q) : q[j] = q[i] => j = i

\* A request that is new to the channel and to those taken may be sent to it.
LEMMA FreshAppend ==
    ASSUME NEW q \in Seq(ServerMessages), NEW m \in ServerMessages, NEW before,
           Fresh(before, q),
           m.type = "request" => m \notin before \cup Range(q)
    PROVE  Fresh(before, Append(q, m))
<1> DEFINE s == Append(q, m)
<1>1. /\ Len(q) \in Nat /\ Len(s) = Len(q) + 1
      /\ \A i \in 1 .. Len(q) : s[i] = q[i]
      /\ s[Len(q) + 1] = m
    BY AppendProperties, LenProperties
<1>2. Range(q) = {q[i] : i \in 1 .. Len(q)}
    BY LenProperties DEF Range
<1> HIDE DEF s
<1> SUFFICES ASSUME NEW i \in 1 .. Len(s), s[i].type = "request"
             PROVE  s[i] \notin before /\ \A j \in 1 .. Len(s) : s[j] = s[i] => j = i
    BY DEF Fresh, s
<1>3. CASE i = Len(q) + 1
    <2>1. m \notin before /\ \A j \in 1 .. Len(q) : q[j] # m
        BY <1>1, <1>2, <1>3
    <2> QED BY <1>1, <1>3, <2>1
<1>4. CASE i # Len(q) + 1
    <2>1. i \in 1 .. Len(q) /\ q[i].type = "request"
        BY <1>1, <1>4
    <2>2. q[i] \notin before /\ \A j \in 1 .. Len(q) : q[j] = q[i] => j = i
        BY <2>1 DEF Fresh
    <2>3. q[i] # m
        BY <1>2, <2>1
    <2> QED BY <1>1, <2>1, <2>2, <2>3
<1> QED BY <1>3, <1>4

\* A request taken from the channel was not taken before, and is not left in it.
LEMMA FreshTail ==
    ASSUME NEW q \in Seq(ServerMessages), q # <<>>, NEW before, Fresh(before, q)
    PROVE  /\ Head(q).type = "request" => Head(q) \notin before
           /\ Fresh(before \cup {Head(q)}, Tail(q))
<1>1. /\ Len(q) \in Nat \ {0}
      /\ Head(q) = q[1]
      /\ Len(Tail(q)) = Len(q) - 1
      /\ \A i \in 1 .. Len(Tail(q)) : Tail(q)[i] = q[i + 1]
    BY HeadTailProperties, EmptySeq
<1>2. Head(q).type = "request" => Head(q) \notin before
    BY <1>1 DEF Fresh
<1>3. ASSUME NEW i \in 1 .. Len(Tail(q)), Tail(q)[i].type = "request"
      PROVE  /\ Tail(q)[i] \notin before \cup {Head(q)}
             /\ \A j \in 1 .. Len(Tail(q)) : Tail(q)[j] = Tail(q)[i] => j = i
    <2>1. i + 1 \in 1 .. Len(q) /\ q[i + 1].type = "request" /\ 1 \in 1 .. Len(q)
        BY <1>1, <1>3
    <2>2. /\ q[i + 1] \notin before
          /\ \A j \in 1 .. Len(q) : q[j] = q[i + 1] => j = i + 1
        BY <2>1 DEF Fresh
    <2>3. q[1] # q[i + 1]
        BY <1>1, <2>1, <2>2
    <2>4. \A j \in 1 .. Len(Tail(q)) : j + 1 \in 1 .. Len(q) /\ (j + 1 = i + 1 => j = i)
        BY <1>1
    <2> QED BY <1>1, <2>2, <2>3, <2>4
<1> QED BY <1>2, <1>3 DEF Fresh

\* What the drain task delivers next it has not delivered before.
LEMMA DeliveredOnce ==
    ASSUME IInv, RequestsArriveOnce, NEW c \in Conns, DrainDeliver(c)
    PROVE  Head(outQ[c]).type = "request" => Head(outQ[c]) \notin handed[c]
<1>1. /\ outQ[c] \in Seq(ServerMessages) /\ outQ[c] # <<>>
    BY DEF IInv, TypeOK, DrainDeliver
<1>2. /\ Head(outQ[c]) \in ServerMessages
      /\ Head(outQ[c]) = outQ[c][1] /\ 1 \in 1 .. Len(outQ[c])
    BY <1>1, HeadTailProperties, EmptySeq, LenProperties
<1> DEFINE m == Head(outQ[c])
<1> SUFFICES ASSUME m.type = "request" PROVE m \notin handed[c]
    OBVIOUS
<1>3. PICK r \in Reqs : m = TunnelRequest(r)
    BY <1>2, AuthErrorType DEF ServerMessages, AuthOk, TunnelRequests
<1>4. 1 \in Places(r, c)
    BY <1>2, <1>3 DEF Places
<1> QED BY <1>3, <1>4 DEF RequestsArriveOnce

(***************************************************************************)
(* A caller is answered by a client that was asked                         *)
(***************************************************************************)

\* A frame that answers a request is sent only after the request was handed to
\* a client, whichever call or queue it is in.
FramesKnown ==
    \A c \in Conns :
        /\ \A p \in Pushers : pushing[c][p] # NoFrame => Known(pushing[c][p])
        /\ \A i \in 1 .. Len(inQ[c]) : Known(inQ[c][i])

\* A connection that answered had been given the request.
AnswererAsked == \A r \in Reqs : slot[r] # NoConn => TunnelRequest(r) \in handed[slot[r]]

\* What the callback was given it keeps.
LEMMA HandedGrows ==
    ASSUME TypeOK, [Next]_vars
    PROVE  \A c \in Conns : handed[c] \subseteq handed'[c]
<1>1. CASE UNCHANGED handed
    BY <1>1
<1>2. ASSUME NEW d \in Conns, DrainDeliver(d)
      PROVE  \A c \in Conns : handed[c] \subseteq handed'[c]
    BY <1>2 DEF TypeOK, DrainDeliver
<1> QED
    BY <1>1, <1>2, AdapterFrame, RunFrame, RequestFrame
       DEF Next, DrainTask, DrainEnd, CallbackPanics, CreateConnection, Stopped, vars

\* A frame known once stays known.
LEMMA KnownStays ==
    ASSUME TypeOK, [Next]_vars, NEW f, Known(f)
    PROVE  Known(f)'
BY HandedGrows DEF Known

\* No step puts an answer to a request nobody was given into a queue.
LEMMA FramesKnownStep ==
    ASSUME IInv, FramesKnown, [Next]_vars
    PROVE  FramesKnown'
<1>0. /\ TypeOK
      /\ pushing \in [Conns -> [Pushers -> Frames \cup {NoFrame}]]
      /\ inQ \in [Conns -> Seq(Frames)]
    BY DEF IInv, TypeOK
<1>1. ASSUME NEW c \in Conns, NEW p \in Pushers, pushing'[c][p] = pushing[c][p],
             pushing'[c][p] # NoFrame
      PROVE  Known(pushing[c][p])'
    BY <1>0, <1>1, KnownStays DEF FramesKnown
<1>2. ASSUME NEW c \in Conns, NEW i \in 1 .. Len(inQ'[c]),
             \E j \in 1 .. Len(inQ[c]) : inQ'[c][i] = inQ[c][j]
      PROVE  Known(inQ[c][i])'
    BY <1>0, <1>2, KnownStays DEF FramesKnown
<1>3. ASSUME UNCHANGED pushing,
             \A c \in Conns : \A i \in 1 .. Len(inQ'[c]) :
                \E j \in 1 .. Len(inQ[c]) : inQ'[c][i] = inQ[c][j]
      PROVE  FramesKnown'
    BY <1>1, <1>2, <1>3 DEF FramesKnown
<1>4. CASE UNCHANGED <<pushing, inQ>>
    BY <1>3, <1>4
<1>5. ASSUME NEW d \in Conns, NEW p \in Pushers, NEW f \in Frames, PushMessage(d, p, f)
      PROVE  FramesKnown'
    <2>1. /\ pushing' = [pushing EXCEPT ![d][p] = f]
          /\ UNCHANGED inQ /\ Known(f)'
        BY <1>0, <1>5, KnownStays DEF PushMessage
    <2>2. ASSUME NEW c \in Conns, NEW x \in Pushers, pushing'[c][x] # NoFrame
          PROVE  Known(pushing[c][x])'
        <3>1. (pushing'[c][x] = f) \/ (pushing'[c][x] = pushing[c][x])
            BY <1>0, <2>1
        <3>2. CASE pushing'[c][x] = f
            BY <2>1, <3>2 DEF Known
        <3>3. CASE pushing'[c][x] = pushing[c][x]
            BY <1>1, <2>2, <3>3
        <3> QED BY <3>1, <3>2, <3>3
    <2> QED BY <1>2, <2>1, <2>2 DEF FramesKnown
<1>6. ASSUME NEW d \in Conns, NEW p \in Pushers, PushSent(d, p)
      PROVE  FramesKnown'
    <2>1. PICK f \in Frames :
             /\ Known(f)
             /\ inQ' = [inQ EXCEPT ![d] = Append(@, f)]
             /\ pushing' = [pushing EXCEPT ![d][p] = NoFrame]
        BY <1>0, <1>6 DEF PushSent, FramesKnown
    <2>2. Known(f)'
        BY <1>0, <2>1, KnownStays
    <2>3. ASSUME NEW c \in Conns, NEW x \in Pushers, pushing'[c][x] # NoFrame
          PROVE  Known(pushing[c][x])'
        <3>1. pushing'[c][x] = pushing[c][x]
            BY <1>0, <2>1, <2>3
        <3> QED BY <1>1, <2>3, <3>1
    <2>4. ASSUME NEW c \in Conns, NEW i \in 1 .. Len(inQ'[c])
          PROVE  Known(inQ[c][i])'
        <3>1. (inQ'[c][i] = f) \/ (\E j \in 1 .. Len(inQ[c]) : inQ'[c][i] = inQ[c][j])
            <4>1. CASE c = d
                <5>1. inQ[c] \in Seq(Frames) /\ inQ'[c] = Append(inQ[c], f)
                    BY <1>0, <2>1, <4>1
                <5> QED BY <2>1, <2>4, <5>1, AppendElement
            <4>2. CASE c # d
                BY <1>0, <2>1, <2>4, <4>2
            <4> QED BY <4>1, <4>2
        <3>2. CASE inQ'[c][i] = f
            BY <2>2, <3>2 DEF Known
        <3> QED BY <1>2, <2>4, <3>1, <3>2
    <2> QED BY <2>3, <2>4 DEF FramesKnown
<1>7. ASSUME NEW d \in Conns, NEW p \in Pushers, PushFailed(d, p) \/ PushCancelled(d, p)
      PROVE  FramesKnown'
    <2>1. /\ pushing' = [pushing EXCEPT ![d][p] = NoFrame]
          /\ UNCHANGED inQ
        BY <1>7 DEF PushFailed, PushCancelled, PushEnds
    <2>2. ASSUME NEW c \in Conns, NEW x \in Pushers, pushing'[c][x] # NoFrame
          PROVE  Known(pushing[c][x])'
        BY <1>0, <1>1, <2>1, <2>2
    <2> QED BY <1>2, <2>1, <2>2 DEF FramesKnown
<1>8. ASSUME NEW d \in Conns, AuthRecv(d) \/ RelayRecv(d)
      PROVE  FramesKnown'
    <2>1. /\ inQ[d] # <<>> /\ inQ[d] \in Seq(Frames)
          /\ inQ' = [inQ EXCEPT ![d] = Tail(@)]
          /\ UNCHANGED pushing
        BY <1>0, <1>8 DEF AuthRecv, RelayRecv
    <2>2. ASSUME NEW c \in Conns, NEW i \in 1 .. Len(inQ'[c])
          PROVE  \E j \in 1 .. Len(inQ[c]) : inQ'[c][i] = inQ[c][j]
        <3>1. CASE c = d
            <4>1. inQ'[c] = Tail(inQ[c])
                BY <1>0, <2>1, <3>1
            <4>2. \E j \in 1 .. Len(inQ[c]) : inQ[c][j] = Tail(inQ[c])[i]
                BY <2>1, <2>2, <3>1, <4>1, TailElement
            <4> QED BY <4>1, <4>2
        <3>2. CASE c # d
            BY <1>0, <2>1, <2>2, <3>2
        <3> QED BY <3>1, <3>2
    <2> QED BY <1>3, <2>1, <2>2
<1>9. ASSUME NEW d \in Conns, Return(d)
      PROVE  FramesKnown'
    <2>1. inQ' = [inQ EXCEPT ![d] = <<>>] /\ UNCHANGED pushing
        BY <1>9 DEF Return
    <2>2. ASSUME NEW c \in Conns, NEW i \in 1 .. Len(inQ'[c])
          PROVE  \E j \in 1 .. Len(inQ[c]) : inQ'[c][i] = inQ[c][j]
        <3>1. c # d
            <4>1. c = d => Len(inQ'[c]) = 0
                BY <1>0, <2>1, EmptySeq
            <4> QED BY <2>2, <4>1
        <3> QED BY <1>0, <2>1, <2>2, <3>1
    <2> QED BY <1>3, <2>1, <2>2
<1>10. ASSUME NEW d \in Conns,
              \/ Run(d) \/ AuthClosed(d) \/ Register(d) \/ CloseReplaced(d)
              \/ RelayClosed(d) \/ Cleanup(d) \/ AuthTimeout(d) \/ Close(d)
       PROVE  FramesKnown'
    BY <1>4, <1>10 DEF Run, AuthClosed, Register, CloseReplaced, RelayClosed, Cleanup,
       AuthTimeout, Close
<1>11. CASE CreateConnection \/ Stopped \/ UNCHANGED vars
    BY <1>4, <1>11 DEF CreateConnection, Stopped, vars
<1> QED
    BY <1>4, <1>5, <1>6, <1>7, <1>8, <1>9, <1>10, <1>11, DrainFrame, RequestFrame
       DEF Next, Adapter, RunTask

\* No step completes a request with the answer of a connection that was not
\* given it.
LEMMA AnswererStep ==
    ASSUME IInv, SentOnce, FramesKnown, AnswererAsked, [Next]_vars
    PROVE  AnswererAsked'
<1>0. /\ TypeOK
      /\ slot \in [Reqs -> 0 .. MaxConns]
    BY DEF IInv, TypeOK
<1>1. ASSUME NEW r \in Reqs, slot'[r] = slot[r], slot'[r] # NoConn
      PROVE  TunnelRequest(r) \in handed'[slot'[r]]
    <2>1. slot[r] \in Conns
        BY <1>0, <1>1, ServerAssumption DEF Conns, NoConn
    <2> QED BY <1>0, <1>1, <2>1, HandedGrows DEF AnswererAsked
<1>2. CASE UNCHANGED slot
    BY <1>1, <1>2 DEF AnswererAsked
<1>3. ASSUME NEW c \in Conns, RelayRecv(c)
      PROVE  AnswererAsked'
    <2> DEFINE raw == Head(inQ[c])
    <2>1. CASE ~Answers(c, raw)
        BY <1>2, <1>3, <2>1 DEF RelayRecv
    <2>2. CASE Answers(c, raw)
        <3> DEFINE q == raw.request_id
        <3>1. q \in Reqs /\ pending[q] = c /\ ParseMessage(raw) = "response"
            BY <2>2 DEF Answers
        <3>2. Known(raw)
            <4>1. 1 \in 1 .. Len(inQ[c]) /\ raw = inQ[c][1]
                <5>1. inQ[c] \in Seq(Frames) /\ inQ[c] # <<>>
                    BY <1>3 DEF RelayRecv, IInv, TypeOK
                <5> QED BY <5>1, TailElement
            <4> HIDE DEF raw
            <4> QED BY <4>1 DEF FramesKnown
        <3>3. reqConn[q] = c
            BY <3>1, ServerAssumption DEF IInv, PendingOnLiveConnection, Conns, NoConn
        <3>4. TunnelRequest(q) \in handed[c]
            <4>1. PICK d \in Conns : TunnelRequest(q) \in handed[d]
                BY <3>1, <3>2 DEF Known
            <4>2. d = c
                BY <3>1, <3>3, <4>1 DEF SentOnce, SentTo
            <4> QED BY <4>1, <4>2
        <3>5. slot' = [slot EXCEPT ![q] = IF Listening(q) THEN c ELSE @]
            BY <1>3, <2>2 DEF RelayRecv
        <3>6. UNCHANGED handed
            BY <1>3 DEF RelayRecv
        <3> HIDE DEF q
        <3>7. ASSUME NEW r \in Reqs, slot'[r] # NoConn
              PROVE  TunnelRequest(r) \in handed'[slot'[r]]
            <4>1. CASE slot'[r] = slot[r]
                BY <1>1, <3>7, <4>1
            <4>2. CASE slot'[r] # slot[r]
                <5>1. r = q /\ slot'[r] = c
                    BY <1>0, <3>1, <3>5, <4>2
                <5> QED BY <3>4, <3>6, <5>1
            <4> QED BY <4>1, <4>2
        <3> QED BY <3>7 DEF AnswererAsked
    <2> QED BY <2>1, <2>2
<1> QED
    BY <1>2, <1>3, AdapterFrame, DrainFrame, RequestFrame
       DEF Next, RunTask, Run, AuthRecv, AuthTimeout, AuthClosed, Register, CloseReplaced,
           RelayClosed, Cleanup, Return, CreateConnection, Stopped, vars, reqVars

\* A caller gets a response only from the connection its request was sent to,
\* authenticated for the service it asked for, whose client was given it.
THEOREM ResponseSource == Spec => []ResponseFromTarget
<1>1. Init => FramesKnown /\ AnswererAsked
    <2>1. ASSUME Init, NEW c \in Conns PROVE inQ[c] = <<>> /\ Len(inQ[c]) = 0
        BY <2>1, EmptySeq DEF Init
    <2> QED BY <2>1 DEF Init, FramesKnown, AnswererAsked
<1>2. IInv /\ SentOnce /\ FramesKnown /\ AnswererAsked /\ [Next]_vars
        => (FramesKnown /\ AnswererAsked)'
    BY FramesKnownStep, AnswererStep
<1>3. IInv /\ AnswererAsked => ResponseFromTarget
    BY DEF IInv, RequestTargets, ResponseFromTarget, AnswererAsked
<1> QED BY <1>1, <1>2, <1>3, SentOnceAlways, Invariance, PTL DEF Spec

(***************************************************************************)
(* A closed connection comes nearer to its end.  run() goes through its    *)
(* stages; in the relay it waits for the frames under way, at its end for  *)
(* the drain task, and that one for all who hold a sender and for the      *)
(* messages they send.  The distance from the end is the stage, what is    *)
(* left to be done by others, and the length of the queue, in this order.  *)
(***************************************************************************)
\* The stages a closed connection still has before it.
Stages == [created |-> 8, auth |-> 7, authed |-> 6, closeOld |-> 5, relay |-> 4,
           cleanup |-> 3, drain |-> 2, done |-> 0]

Draining(c) == runPc[c] = "drain" /\ drain[c] = "running"

Stage(c) == IF runPc[c] = "drain" /\ drain[c] \in Over THEN 1 ELSE Stages[runPc[c]]

\* The push_message calls whose frame run() waits for.
UnderWay(c) == {p \in Pushers : pushing[c][p] # NoFrame}

\* What those who hold a sender of the outgoing channel have yet to do.
Dropping(c) == {d \in Conns : runPc[d] = "closeOld" /\ replaced[d] = c}
RequestsIn(c, pcs) == {r \in Reqs : reqConn[r] = c /\ reqPc[r] \in pcs}
ToDo(c) ==
    Dropping(c) \X {"drop"} \cup RequestsIn(c, {"sending"}) \X {"send"}
        \cup RequestsIn(c, {"sending", "waiting"}) \X {"wait"}
        \cup RequestsIn(c, InDispatch) \X {"finish"}

\* What keeps run() of connection c where it is.
Work(c) == IF runPc[c] = "relay" THEN UnderWay(c)
           ELSE IF Draining(c) THEN ToDo(c) ELSE {}

Queue(c) == IF runPc[c] = "relay" THEN Len(inQ[c])
            ELSE IF Draining(c) THEN Len(outQ[c]) ELSE 0

Closed(c) == runPc[c] # "none" /\ ~inTx[c]

At(c, k, S, n) == Closed(c) /\ Stage(c) = k /\ Work(c) = S /\ Queue(c) = n

Nearer(c, k, S, n) ==
    /\ Closed(c)
    /\ \/ Stage(c) < k
       \/ Stage(c) = k /\ Work(c) \subseteq S /\ Work(c) # S
       \/ Stage(c) = k /\ Work(c) = S /\ Queue(c) < n

\* What is left to do, item by item.
LEMMA ToDoItems ==
    ASSUME NEW c \in Conns
    PROVE  /\ \A d : <<d, "drop">> \in ToDo(c) <=> d \in Dropping(c)
           /\ \A r : <<r, "send">> \in ToDo(c) <=> r \in RequestsIn(c, {"sending"})
           /\ \A r : <<r, "wait">> \in ToDo(c) <=> r \in RequestsIn(c, {"sending", "waiting"})
           /\ \A r : <<r, "finish">> \in ToDo(c) <=> r \in RequestsIn(c, InDispatch)
BY DEF ToDo

\* A dispatch goes forward, and stays with its connection.
LEMMA DispatchGoesOn ==
    ASSUME TypeOK, NEW q \in Reqs, RequestTask(q) \/ Timeout(q) \/ Cancel(q)
    PROVE  /\ UNCHANGED reqConn
           /\ \A r \in Reqs \ {q} : reqPc'[r] = reqPc[r]
           /\ reqPc[q] \in InDispatch
           /\ reqPc'[q] \notin {"idle", "sending"}
           /\ reqPc'[q] # reqPc[q]
           /\ reqPc'[q] = "waiting" => reqPc[q] = "sending"
BY DEF TypeOK, RequestTask, SendRequest, SendLost, RecvResponse, RecvDropped, Finish,
       Timeout, Cancel, Fail, InDispatch

\* Nobody finds a connection any more whose run() has cleaned up.
LEMMA NotRegistered ==
    ASSUME IInv, NEW c \in Conns, runPc[c] \notin Relaying
    PROVE  \A s \in Services : services[s] # c
BY ServerAssumption DEF IInv, RegisteredIsRelaying, Conns, NoConn

\* What is left to do for those who hold a sender only shrinks, and a dispatch
\* that sends has one thing less to do.
LEMMA ToDoShrinks ==
    ASSUME IInv, [Next]_vars, NEW c \in Conns, runPc[c] = "drain"
    PROVE  /\ ToDo(c)' \subseteq ToDo(c)
           /\ \A r \in Reqs : reqConn[r] = c /\ RequestTask(r) => ToDo(c)' # ToDo(c)
           /\ \A d \in Conns : RunTask(d) /\ d \in Dropping(c) => ToDo(c)' # ToDo(c)
<1>0. /\ TypeOK
      /\ runPc \in [Conns -> RunPcs]
      /\ replaced \in [Conns -> 0 .. MaxConns]
      /\ reqPc \in [Reqs -> ReqPcs]
      /\ reqConn \in [Reqs -> 0 .. MaxConns]
    BY DEF IInv, TypeOK
<1>1. \A s \in Services : services[s] # c
    BY NotRegistered DEF Relaying
<1>2. Dropping(c)' \subseteq Dropping(c)
    <2> SUFFICES ASSUME NEW d \in Conns, runPc'[d] = "closeOld", replaced'[d] = c
                 PROVE  runPc[d] = "closeOld" /\ replaced[d] = c
        BY DEF Dropping
    <2>1. ~Register(d)
        <3> SUFFICES ASSUME Register(d) PROVE FALSE
            OBVIOUS
        <3>1. auth[d].service \in Services /\ replaced'[d] = services[auth[d].service]
            BY <1>0, ServiceOfAuth DEF Register
        <3> QED BY <1>1, <3>1
    <2>2. CASE UNCHANGED <<runPc, replaced>>
        BY <2>2
    <2>3. ASSUME NEW e \in Conns, e # d, RunTask(e) \/ AuthTimeout(e)
          PROVE  runPc'[d] = runPc[d] /\ replaced'[d] = replaced[d]
        <3>1. CASE AuthRecv(e) \/ AuthTimeout(e)
            BY <1>0, <2>3, <3>1, AuthRecvCases, AuthTimeoutCases
        <3>2. CASE RunTask(e) /\ ~AuthRecv(e)
            BY <1>0, <2>3, <3>2, RelayRecvFrame DEF RunTask, Run, AuthClosed, Register,
               CloseReplaced, RelayClosed, Cleanup, Return
        <3> QED BY <2>3, <3>1, <3>2
    <2>4. ASSUME RunTask(d) \/ AuthTimeout(d)
          PROVE  UNCHANGED <<runPc, replaced>>
        <3>1. CASE AuthRecv(d) \/ AuthTimeout(d)
            BY <1>0, <3>1, AuthRecvOutcome, AuthTimeoutCases
        <3>2. CASE RunTask(d) /\ ~AuthRecv(d)
            BY <1>0, <2>1, <3>2, RelayRecvFrame DEF RunTask, Run, AuthClosed,
               CloseReplaced, RelayClosed, Cleanup, Return
        <3> QED BY <2>4, <3>1, <3>2
    <2>5. CASE CreateConnection
        BY <1>0, <2>5, NewConnection DEF CreateConnection
    <2> QED
        BY <2>2, <2>3, <2>4, <2>5, AdapterFrame, DrainFrame, RequestFrame
           DEF Next, Stopped, vars
<1>3. ASSUME NEW r \in Reqs, reqConn'[r] = c, reqPc'[r] \in InDispatch
      PROVE  /\ reqConn[r] = c /\ reqPc[r] \in InDispatch
             /\ reqPc'[r] = "sending" => reqPc[r] = "sending"
             /\ reqPc'[r] = "waiting" => reqPc[r] \in {"sending", "waiting"}
    <2>1. CASE UNCHANGED <<reqPc, reqConn>>
        BY <1>3, <2>1
    <2>2. ASSUME NEW q \in Reqs, Dispatch(q)
          PROVE  reqConn'[r] = reqConn[r] /\ reqPc'[r] = reqPc[r]
        <3>1. CASE r = q
            <4>1. PICK e \in Conns : e = services[ServiceOf[q]] /\ ServiceOf[q] \in Services
                                        /\ reqConn' = [reqConn EXCEPT ![q] = e]
                BY <1>0, <1>3, <2>2, <3>1, DispatchCases DEF InDispatch
            <4> QED BY <1>0, <1>1, <1>3, <3>1, <4>1
        <3>2. CASE r # q
            BY <1>0, <2>2, <3>2, DispatchCases
        <3> QED BY <3>1, <3>2
    <2>3. ASSUME NEW q \in Reqs, RequestTask(q) \/ Timeout(q) \/ Cancel(q)
          PROVE  /\ reqConn[r] = c /\ reqPc[r] \in InDispatch
                 /\ reqPc'[r] = "sending" => reqPc[r] = "sending"
                 /\ reqPc'[r] = "waiting" => reqPc[r] \in {"sending", "waiting"}
        BY <1>0, <1>3, <2>3, DispatchGoesOn
    <2> QED
        BY <1>3, <2>1, <2>2, <2>3, AdapterFrame, DrainFrame, RunFrame
           DEF Next, CreateConnection, Stopped, vars, reqVars
<1>4. ToDo(c)' \subseteq ToDo(c)
    <2>1. /\ RequestsIn(c, {"sending"})' \subseteq RequestsIn(c, {"sending"})
          /\ RequestsIn(c, {"sending", "waiting"})'
                \subseteq RequestsIn(c, {"sending", "waiting"})
          /\ RequestsIn(c, InDispatch)' \subseteq RequestsIn(c, InDispatch)
        BY <1>3 DEF RequestsIn, InDispatch
    <2> QED BY <1>2, <2>1 DEF ToDo
<1>5. ASSUME NEW r \in Reqs, reqConn[r] = c, RequestTask(r)
      PROVE  ToDo(c)' # ToDo(c)
    <2>1. /\ reqPc[r] \in InDispatch
          /\ reqPc'[r] # "sending" /\ reqPc'[r] # reqPc[r]
          /\ reqPc'[r] = "waiting" => reqPc[r] = "sending"
        BY <1>0, <1>5, DispatchGoesOn
    <2>2. CASE reqPc[r] = "sending"
        <3>1. <<r, "send">> \in ToDo(c)
            BY <1>5, <2>2, ToDoItems DEF RequestsIn
        <3>2. ~(<<r, "send">> \in ToDo(c))'
            BY <2>1 DEF ToDo, RequestsIn
        <3> QED BY <3>1, <3>2
    <2>3. CASE reqPc[r] = "waiting"
        <3>1. <<r, "wait">> \in ToDo(c)
            BY <1>5, <2>3, ToDoItems DEF RequestsIn
        <3>2. ~(<<r, "wait">> \in ToDo(c))'
            BY <2>1, <2>3 DEF ToDo, RequestsIn
        <3> QED BY <3>1, <3>2
    <2>4. CASE reqPc[r] = "failing"
        <3>1. <<r, "finish">> \in ToDo(c)
            BY <1>5, <2>4, ToDoItems DEF RequestsIn, InDispatch
        <3>2. reqPc'[r] = "done"
            BY <1>0, <1>5, <2>4 DEF RequestTask, SendRequest, SendLost, RecvResponse,
               RecvDropped, Finish
        <3>3. ~(<<r, "finish">> \in ToDo(c))'
            BY <3>2 DEF ToDo, RequestsIn, InDispatch
        <3> QED BY <3>1, <3>3
    <2> QED BY <2>1, <2>2, <2>3, <2>4 DEF InDispatch
<1>6. ASSUME NEW d \in Conns, RunTask(d), d \in Dropping(c)
      PROVE  ToDo(c)' # ToDo(c)
    <2>1. runPc'[d] = "relay"
        BY <1>0, <1>6 DEF Dropping, RunTask, Run, AuthRecv, AuthClosed, Register,
           CloseReplaced, RelayRecv, RelayClosed, Cleanup, Return
    <2>2. <<d, "drop">> \in ToDo(c)
        BY <1>6, ToDoItems
    <2>3. ~(<<d, "drop">> \in ToDo(c))'
        BY <2>1 DEF ToDo, Dropping
    <2> QED BY <2>2, <2>3
<1> QED BY <1>4, <1>5, <1>6

\* A step of the system, seen from a closed connection.
NoFarther(c) ==
    /\ Closed(c)'
    /\ \/ Stage(c)' < Stage(c)
       \/ Stage(c)' = Stage(c) /\ Work(c)' \subseteq Work(c) /\ Work(c)' # Work(c)
       \/ Stage(c)' = Stage(c) /\ Work(c)' = Work(c) /\ Queue(c)' =< Queue(c)

\* Each step of run() brings it to a later stage, but for the frames it relays.
LEMMA RunGoesOn ==
    ASSUME IInv, NEW c \in Conns, RunTask(c) \/ AuthTimeout(c)
    PROVE  \/ RelayRecv(c)
           \/ runPc[c] \in DOMAIN Stages /\ Stage(c)' < Stage(c)
<1>0. /\ TypeOK
      /\ runPc \in [Conns -> RunPcs]
    BY DEF IInv, TypeOK
<1>1. \A pc \in {"created", "auth", "authed", "closeOld", "relay", "cleanup", "drain"} :
         runPc'[c] = pc => Stage(c)' =< Stages[pc]
    BY DEF Stage, Stages
<1>2. CASE AuthRecv(c) \/ AuthTimeout(c)
    <2>1. runPc[c] = "auth" /\ runPc'[c] \in {"authed", "drain"}
        BY <1>0, <1>2, AuthRecvCases, AuthTimeoutCases
    <2> QED BY <1>1, <2>1 DEF Stage, Stages
<1>3. CASE Run(c)
    BY <1>0, <1>1, <1>3 DEF Run, Stage, Stages
<1>4. CASE AuthClosed(c)
    BY <1>0, <1>1, <1>4 DEF AuthClosed, Stage, Stages
<1>5. CASE Register(c)
    <2>1. runPc[c] = "authed" /\ runPc'[c] \in {"closeOld", "relay"}
        BY <1>0, <1>5 DEF Register
    <2> QED BY <1>1, <2>1 DEF Stage, Stages
<1>6. CASE CloseReplaced(c)
    BY <1>0, <1>1, <1>6 DEF CloseReplaced, Stage, Stages
<1>7. CASE RelayClosed(c)
    BY <1>0, <1>1, <1>7 DEF RelayClosed, Stage, Stages
<1>8. CASE Cleanup(c)
    BY <1>0, <1>1, <1>8 DEF Cleanup, Stage, Stages
<1>9. CASE Return(c)
    BY <1>0, <1>9 DEF Return, Stage, Stages, Over
<1> QED BY <1>2, <1>3, <1>4, <1>5, <1>6, <1>7, <1>8, <1>9 DEF RunTask

\* Nobody else moves run(), and a closed connection stays closed.
LEMMA OthersLeaveRun ==
    ASSUME IInv, [Next]_vars, NEW c \in Conns, ~RunTask(c), ~AuthTimeout(c),
           runPc[c] # "none"
    PROVE  runPc'[c] = runPc[c]
<1>0. /\ TypeOK
      /\ runPc \in [Conns -> RunPcs]
    BY DEF IInv, TypeOK
<1>1. CASE UNCHANGED runPc
    BY <1>1
<1>2. ASSUME NEW d \in Conns, d # c, RunTask(d) \/ AuthTimeout(d)
      PROVE  runPc'[c] = runPc[c]
    <2>1. CASE AuthRecv(d) \/ AuthTimeout(d)
        BY <1>0, <1>2, <2>1, AuthRecvCases, AuthTimeoutCases
    <2>2. CASE RunTask(d) /\ ~AuthRecv(d)
        BY <1>0, <1>2, <2>2, RelayRecvFrame DEF RunTask, Run, AuthClosed, Register,
           CloseReplaced, RelayClosed, Cleanup, Return
    <2> QED BY <1>2, <2>1, <2>2
<1>3. CASE CreateConnection
    BY <1>0, <1>3, NewConnection DEF CreateConnection
<1> QED
    BY <1>1, <1>2, <1>3, AdapterFrame, DrainFrame, RequestFrame
       DEF Next, Stopped, vars

\* What waits for run() in its incoming channel only shrinks once it is closed.
LEMMA FramesShrink ==
    ASSUME IInv, [Next]_vars, NEW c \in Conns, Closed(c)
    PROVE  /\ ~inTx'[c]
           /\ UnderWay(c)' \subseteq UnderWay(c)
           /\ UnderWay(c)' = UnderWay(c) => inQ'[c] = inQ[c] \/ Len(inQ'[c]) < Len(inQ[c])
<1> DEFINE Shrinks ==
        /\ ~inTx'[c]
        /\ UnderWay(c)' \subseteq UnderWay(c)
        /\ UnderWay(c)' = UnderWay(c) => inQ'[c] = inQ[c] \/ Len(inQ'[c]) < Len(inQ[c])
<1>0. /\ TypeOK
      /\ inTx \in [Conns -> BOOLEAN]
      /\ pushing \in [Conns -> [Pushers -> Frames \cup {NoFrame}]]
      /\ inQ \in [Conns -> Seq(Frames)]
    BY DEF IInv, TypeOK
<1>1. ASSUME ~inTx'[c], pushing'[c] = pushing[c],
             inQ'[c] = inQ[c] \/ Len(inQ'[c]) < Len(inQ[c])
      PROVE  Shrinks
    BY <1>1 DEF UnderWay
<1>2. ASSUME UNCHANGED <<inTx, pushing, inQ>> PROVE Shrinks
    BY <1>1, <1>2 DEF Closed
<1>3. ASSUME NEW d \in Conns, NEW p \in Pushers,
             \/ PushSent(d, p) \/ PushFailed(d, p) \/ PushCancelled(d, p)
      PROVE  Shrinks
    <2>1. /\ UNCHANGED inTx /\ pushing[d][p] # NoFrame
          /\ pushing' = [pushing EXCEPT ![d][p] = NoFrame]
          /\ \A e \in Conns \ {d} : inQ'[e] = inQ[e]
        BY <1>0, <1>3 DEF PushSent, PushFailed, PushCancelled, PushEnds
    <2>2. CASE c = d
        <3>1. p \in UnderWay(c) /\ p \notin UnderWay(c)' /\ UnderWay(c)' \subseteq UnderWay(c)
            BY <1>0, <2>1, <2>2 DEF UnderWay
        <3> QED BY <2>1, <3>1 DEF Closed
    <2>3. CASE c # d
        BY <1>0, <1>1, <2>1, <2>3 DEF Closed
    <2> QED BY <2>2, <2>3
<1>4. ASSUME NEW d \in Conns, NEW p \in Pushers, NEW f \in Frames, PushMessage(d, p, f)
      PROVE  Shrinks
    <2>1. /\ c # d /\ UNCHANGED <<inTx, inQ>>
          /\ pushing' = [pushing EXCEPT ![d][p] = f]
        BY <1>4 DEF PushMessage, Closed
    <2> QED BY <1>0, <1>1, <2>1 DEF Closed
<1>5. ASSUME NEW d \in Conns, Close(d)
      PROVE  Shrinks
    <2>1. inTx' = [inTx EXCEPT ![d] = FALSE] /\ UNCHANGED <<pushing, inQ>>
        BY <1>5 DEF Close
    <2> QED BY <1>0, <1>1, <2>1 DEF Closed
<1>6. ASSUME NEW d \in Conns, AuthRecv(d) \/ RelayRecv(d)
      PROVE  Shrinks
    <2>1. /\ inQ[d] # <<>> /\ inQ[d] \in Seq(Frames)
          /\ inQ' = [inQ EXCEPT ![d] = Tail(@)]
          /\ UNCHANGED <<inTx, pushing>>
        BY <1>0, <1>6 DEF AuthRecv, RelayRecv
    <2>2. Len(Tail(inQ[d])) < Len(inQ[d])
        BY <2>1, HeadTailProperties, EmptySeq
    <2> QED BY <1>0, <1>1, <2>1, <2>2 DEF Closed
<1>7. ASSUME NEW d \in Conns, Return(d)
      PROVE  Shrinks
    <2>1. inQ' = [inQ EXCEPT ![d] = <<>>] /\ UNCHANGED <<inTx, pushing>>
        BY <1>7 DEF Return
    <2>2. Len(inQ[d]) \in Nat /\ (inQ[d] # <<>> => Len(inQ[d]) > 0)
        BY <1>0, EmptySeq, LenProperties
    <2>3. Len(<<>>) = 0
        OBVIOUS
    <2>4. inQ'[c] = inQ[c] \/ Len(inQ'[c]) < Len(inQ[c])
        BY <1>0, <2>1, <2>2, <2>3
    <2> QED BY <1>1, <2>1, <2>4 DEF Closed
<1>8. ASSUME NEW d \in Conns, CloseReplaced(d)
      PROVE  Shrinks
    <2>1. /\ inTx' = [inTx EXCEPT ![replaced[d]] = FALSE]
          /\ UNCHANGED <<pushing, inQ>>
        BY <1>8 DEF CloseReplaced
    <2> QED BY <1>0, <1>1, <2>1 DEF Closed
<1>9. ASSUME NEW d \in Conns,
             \/ Run(d) \/ AuthClosed(d) \/ Register(d) \/ RelayClosed(d) \/ Cleanup(d)
             \/ AuthTimeout(d)
      PROVE  Shrinks
    BY <1>2, <1>9 DEF Run, AuthClosed, Register, RelayClosed, Cleanup, AuthTimeout
<1>10. ASSUME CreateConnection PROVE Shrinks
    <2>1. nextConnId # c /\ nextConnId \in Conns
        BY <1>10, NewConnection DEF Closed
    <2>2. inTx' = [inTx EXCEPT ![nextConnId] = TRUE] /\ UNCHANGED <<pushing, inQ>>
        BY <1>10 DEF CreateConnection
    <2> QED BY <1>0, <1>1, <2>1, <2>2 DEF Closed
<1>11. ASSUME Stopped \/ UNCHANGED vars PROVE Shrinks
    BY <1>2, <1>11 DEF Stopped, vars
<1> HIDE DEF Shrinks
<1>12. ASSUME NEW d \in Conns, Adapter(d) PROVE Shrinks
    BY <1>3, <1>4, <1>5, <1>12 DEF Adapter
<1>13. ASSUME NEW d \in Conns, RunTask(d) \/ AuthTimeout(d) PROVE Shrinks
    BY <1>6, <1>7, <1>8, <1>9, <1>13 DEF RunTask
<1>14. ASSUME NEW d \in Conns, DrainTask(d) \/ CallbackPanics(d) PROVE Shrinks
    BY <1>2, <1>14, DrainFrame
<1>15. ASSUME NEW r \in Reqs, Dispatch(r) \/ RequestTask(r) \/ Timeout(r) \/ Cancel(r)
       PROVE  Shrinks
    BY <1>2, <1>15, RequestFrame
<1>16. Shrinks
    BY <1>2, <1>10, <1>11, <1>12, <1>13, <1>14, <1>15 DEF Next
<1> QED BY <1>16 DEF Shrinks

\* A message is added to the outgoing channel of a connection that cleaned up
\* only by a dispatch, which has one thing less to do then.
LEMMA OutgoingShrinks ==
    ASSUME IInv, [Next]_vars, NEW c \in Conns, runPc[c] = "drain", ToDo(c)' = ToDo(c)
    PROVE  outQ'[c] = outQ[c] \/ Len(outQ'[c]) < Len(outQ[c])
<1>0. /\ TypeOK
      /\ outQ \in [Conns -> Seq(ServerMessages)]
      /\ reqConn \in [Reqs -> 0 .. MaxConns]
    BY DEF IInv, TypeOK
<1>1. CASE UNCHANGED outQ
    BY <1>1
<1>2. ASSUME NEW d \in Conns, AuthRecv(d) \/ AuthTimeout(d)
      PROVE  outQ'[c] = outQ[c]
    <2>1. runPc[d] = "auth"
        BY <1>0, <1>2, AuthRecvCases, AuthTimeoutCases
    <2>2. \E m \in ServerMessages : outQ' = [outQ EXCEPT ![d] = Append(@, m)]
        BY <1>0, <1>2, AuthRecvCases, AuthTimeoutCases, ServerMessageTypes
    <2> QED BY <1>0, <2>1, <2>2
<1>3. ASSUME NEW d \in Conns, DrainDeliver(d)
      PROVE  outQ'[c] = outQ[c] \/ Len(outQ'[c]) < Len(outQ[c])
    <2>1. /\ outQ[d] # <<>> /\ outQ[d] \in Seq(ServerMessages)
          /\ outQ' = [outQ EXCEPT ![d] = Tail(@)]
        BY <1>0, <1>3 DEF DrainDeliver
    <2>2. Len(Tail(outQ[d])) < Len(outQ[d])
        BY <2>1, HeadTailProperties, EmptySeq
    <2> QED BY <1>0, <2>1, <2>2
<1>4. ASSUME NEW d \in Conns, CallbackPanics(d)
      PROVE  outQ'[c] = outQ[c] \/ Len(outQ'[c]) < Len(outQ[c])
    <2>1. outQ[d] # <<>> /\ outQ' = [outQ EXCEPT ![d] = <<>>]
        BY <1>4 DEF CallbackPanics
    <2>2. Len(outQ[d]) > 0 /\ Len(<<>>) = 0
        <3>1. outQ[d] \in Seq(ServerMessages)
            BY <1>0
        <3> QED BY <2>1, <3>1, EmptySeq, LenProperties
    <2> QED BY <1>0, <2>1, <2>2
<1>5. ASSUME NEW r \in Reqs, SendRequest(r)
      PROVE  outQ'[c] = outQ[c]
    <2>1. reqConn[r] # c
        BY <1>5, ToDoShrinks DEF RequestTask
    <2>2. outQ' = [outQ EXCEPT ![reqConn[r]] = Append(@, TunnelRequest(r))]
        BY <1>5 DEF SendRequest
    <2> QED BY <1>0, <2>1, <2>2
<1> QED
    BY <1>1, <1>2, <1>3, <1>4, <1>5, AdapterFrame, RequestFrame, RelayRecvFrame
       DEF Next, RunTask, Run, AuthClosed, Register, CloseReplaced, RelayClosed, Cleanup,
           Return, DrainTask, DrainEnd, CreateConnection, Stopped, vars

\* Whatever happens, a closed connection does not get farther from its end.
LEMMA ClosedStep ==
    ASSUME IInv, DrainStarted, DrainSpawned, [Next]_vars, NEW c \in Conns, Closed(c)
    PROVE  NoFarther(c)
<1>0. /\ TypeOK
      /\ runPc \in [Conns -> RunPcs]
      /\ drain \in [Conns -> {"none", "running", "panicked", "ended"}]
      /\ inQ \in [Conns -> Seq(Frames)]
      /\ outQ \in [Conns -> Seq(ServerMessages)]
      /\ Len(inQ[c]) \in Nat /\ Len(outQ[c]) \in Nat
    BY LenProperties DEF IInv, TypeOK
<1>1. runPc[c] # "none" /\ runPc'[c] # "none" /\ ~inTx'[c]
    BY CoreGoesForward, FramesShrink DEF Closed
<1>2. CASE (RunTask(c) \/ AuthTimeout(c)) /\ ~RelayRecv(c)
    BY <1>1, <1>2, RunGoesOn DEF NoFarther, Closed
<1>3. CASE ~((RunTask(c) \/ AuthTimeout(c)) /\ ~RelayRecv(c))
    <2>1. runPc'[c] = runPc[c]
        BY <1>1, <1>3, OthersLeaveRun, RelayRecvFrame
    <2>2. CASE runPc[c] = "relay"
        <3>1. /\ Stage(c)' = Stage(c)
              /\ Work(c) = UnderWay(c) /\ Work(c)' = UnderWay(c)'
              /\ Queue(c) = Len(inQ[c]) /\ Queue(c)' = Len(inQ'[c])
            BY <2>1, <2>2 DEF Stage, Work, Queue
        <3>2. /\ UnderWay(c)' \subseteq UnderWay(c)
              /\ UnderWay(c)' = UnderWay(c) => inQ'[c] = inQ[c] \/ Len(inQ'[c]) < Len(inQ[c])
            BY FramesShrink
        <3>3. UnderWay(c)' = UnderWay(c) => Len(inQ'[c]) =< Len(inQ[c])
            <4>1. CASE inQ'[c] = inQ[c]
                BY <1>0, <4>1
            <4>2. CASE Len(inQ'[c]) < Len(inQ[c])
                <5>1. inQ'[c] \in Seq(Frames)
                    BY TypeStep DEF TypeOK
                <5>2. Len(inQ'[c]) \in Nat
                    BY <5>1, LenProperties
                <5> QED BY <1>0, <4>2, <5>2
            <4> QED BY <3>2, <4>1, <4>2
        <3> QED BY <1>1, <3>1, <3>2, <3>3 DEF NoFarther, Closed
    <2>3. CASE runPc[c] = "drain" /\ drain[c] \in Over
        <3>1. drain'[c] \in Over
            BY <2>3, DrainStays
        <3> QED BY <1>1, <2>1, <2>3, <3>1 DEF NoFarther, Closed, Stage, Work, Queue, Draining,
                Over
    <2>4. CASE runPc[c] = "drain" /\ drain[c] \notin Over
        <3>1. Draining(c) /\ Stage(c) = 2
            <4>1. drain[c] # "none"
                BY <2>4 DEF DrainSpawned
            <4>2. drain[c] = "running"
                BY <1>0, <2>4, <4>1 DEF Over
            <4> QED BY <2>4, <4>2 DEF Draining, Stage, Stages
        <3>2. CASE drain'[c] \in Over
            BY <1>1, <2>1, <2>4, <3>1, <3>2 DEF NoFarther, Closed, Stage
        <3>3. CASE drain'[c] \notin Over
            <4>1. Draining(c)' /\ Stage(c)' = 2
                <5>1. drain'[c] # "none"
                    BY <2>1, <2>4, DrainSpawnedStep DEF DrainSpawned
                <5>2. drain'[c] \in {"none", "running", "panicked", "ended"}
                    BY TypeStep DEF TypeOK
                <5>3. drain'[c] = "running"
                    BY <3>3, <5>1, <5>2 DEF Over
                <5> QED BY <2>1, <2>4, <3>3, <5>3 DEF Draining, Stage, Stages
            <4>2. /\ Work(c) = ToDo(c) /\ Work(c)' = ToDo(c)'
                  /\ Queue(c) = Len(outQ[c]) /\ Queue(c)' = Len(outQ'[c])
                BY <2>1, <2>4, <3>1, <4>1 DEF Work, Queue
            <4>3. ToDo(c)' \subseteq ToDo(c)
                BY <2>4, ToDoShrinks
            <4>4. ToDo(c)' = ToDo(c) => Len(outQ'[c]) =< Len(outQ[c])
                <5>1. outQ'[c] \in Seq(ServerMessages)
                    BY TypeStep DEF TypeOK
                <5>2. Len(outQ'[c]) \in Nat
                    BY <5>1, LenProperties
                <5>3. ASSUME ToDo(c)' = ToDo(c)
                      PROVE  outQ'[c] = outQ[c] \/ Len(outQ'[c]) < Len(outQ[c])
                    BY <2>4, <5>3, OutgoingShrinks
                <5> QED BY <1>0, <5>2, <5>3
            <4> QED BY <1>1, <3>1, <4>1, <4>2, <4>3, <4>4 DEF NoFarther, Closed
        <3> QED BY <3>2, <3>3
    <2>5. CASE runPc[c] \notin {"relay", "drain"}
        BY <1>1, <2>1, <2>5 DEF NoFarther, Closed, Stage, Work, Queue, Draining
    <2> QED BY <2>2, <2>3, <2>4, <2>5
<1> QED BY <1>2, <1>3

(***************************************************************************)
(* Somebody always brings it nearer.  Which task it is depends on the      *)
(* distance; as before, GuardsAreExact says when its action is enabled.    *)
(***************************************************************************)
\* What is known of the state while a connection is brought to its end.
CloseInv == IInv /\ DrainStarted /\ DrainSpawned

\* The measure stays where it was or falls, whoever takes the step.
LEMMA StaysOrFalls ==
    ASSUME CloseInv, [Next]_vars, NEW c \in Conns, NEW k, NEW S, NEW n, At(c, k, S, n)
    PROVE  /\ (At(c, k, S, n) \/ Nearer(c, k, S, n))'
           /\ \/ Stage(c)' # Stage(c) \/ Work(c)' # Work(c) \/ Queue(c)' < Queue(c)
              => Nearer(c, k, S, n)'
<1>1. NoFarther(c)
    BY ClosedStep DEF CloseInv, At
<1>2. Queue(c) \in Nat /\ Queue(c)' \in Nat
    <2>1. /\ inQ[c] \in Seq(Frames) /\ outQ[c] \in Seq(ServerMessages)
        BY DEF CloseInv, IInv, TypeOK
    <2>2. /\ inQ'[c] \in Seq(Frames) /\ outQ'[c] \in Seq(ServerMessages)
        BY TypeStep DEF CloseInv, TypeOK
    <2> QED BY <2>1, <2>2, LenProperties DEF Queue
<1> QED BY <1>1, <1>2 DEF At, Nearer, NoFarther

\* The step that run() of the connection takes brings it nearer to its end.
LEMMA RunFalls ==
    ASSUME CloseInv, [Next]_vars, NEW c \in Conns, NEW k, NEW S, NEW n, At(c, k, S, n),
           RunTask(c) \/ AuthTimeout(c)
    PROVE  Nearer(c, k, S, n)'
<1>1. CASE RelayRecv(c)
    <2>0. /\ runPc[c] = "relay" /\ runPc'[c] = "relay"
          /\ inQ[c] # <<>> /\ inQ[c] \in Seq(Frames)
          /\ inQ' = [inQ EXCEPT ![c] = Tail(@)]
        BY <1>1, RelayRecvFrame DEF CloseInv, IInv, TypeOK, RelayRecv
    <2>1. Len(Tail(inQ[c])) < Len(inQ[c])
        BY <2>0, HeadTailProperties, EmptySeq
    <2>2. inQ'[c] = Tail(inQ[c])
        BY <2>0 DEF CloseInv, IInv, TypeOK
    <2>3. Queue(c)' < Queue(c)
        BY <2>0, <2>1, <2>2 DEF Queue
    <2> QED BY <2>3, StaysOrFalls
<1>2. CASE ~RelayRecv(c)
    <2>1. runPc[c] \in DOMAIN Stages /\ Stage(c)' < Stage(c)
        BY <1>2, RunGoesOn DEF CloseInv
    <2>2. Stage(c) \in Nat
        BY <2>1 DEF Stage, Stages
    <2>3. Stage(c)' # Stage(c)
        BY <2>1, <2>2
    <2> QED BY <2>3, StaysOrFalls
<1> QED BY <1>1, <1>2

\* While run() waits for nobody it can go on.
LEMMA RunReady ==
    ASSUME CloseInv, NEW c \in Conns, NEW k, NEW S, NEW n, At(c, k, S, n),
           k \in {8, 6, 5, 3, 1} \/ (k = 4 /\ (S = {} \/ n # 0))
    PROVE  CanRun(c)
<1>0. /\ runPc[c] \in RunPcs \ {"none"} /\ ~inTx[c]
      /\ drain[c] \in {"none", "running", "panicked", "ended"}
    BY DEF CloseInv, IInv, TypeOK, At, Closed
<1>1. CASE k # 4
    <2>1. \/ runPc[c] \in {"created", "authed", "closeOld", "cleanup"}
          \/ runPc[c] = "drain" /\ drain[c] \in Over
        BY <1>0, <1>1 DEF At, Stage, Stages, RunPcs
    <2> QED BY <2>1 DEF CanRun, Over
<1>2. CASE k = 4
    <2>1. runPc[c] = "relay"
        BY <1>0, <1>2 DEF At, Stage, Stages, RunPcs
    <2>2. Work(c) = UnderWay(c) /\ Queue(c) = Len(inQ[c])
        BY <2>1 DEF Work, Queue
    <2>3. CASE n # 0
        <3>1. Len(<<>>) = 0
            OBVIOUS
        <3>2. inQ[c] # <<>>
            BY <2>2, <2>3, <3>1 DEF At
        <3> QED BY <2>1, <3>2 DEF CanRun
    <2>4. CASE S = {}
        BY <1>0, <2>1, <2>2, <2>4 DEF At, UnderWay, CanRun, IncomingClosed
    <2> QED BY <1>2, <2>3, <2>4
<1> QED BY <1>1, <1>2

\* When everything sent was delivered and every sender dropped the drain task
\* ends; until then it delivers.
LEMMA DrainReady ==
    ASSUME CloseInv, NEW c \in Conns, NEW S, NEW n, At(c, 2, S, n), S = {} \/ n # 0
    PROVE  CanDrain(c)
<1>0. /\ runPc[c] = "drain" /\ drain[c] = "running"
      /\ Work(c) = ToDo(c) /\ Queue(c) = Len(outQ[c])
    <2>1. /\ runPc[c] \in RunPcs \ {"none"}
          /\ drain[c] \in {"none", "running", "panicked", "ended"}
        BY DEF CloseInv, IInv, TypeOK, At, Closed
    <2>2. runPc[c] = "drain" /\ drain[c] \notin Over
        BY <2>1 DEF At, Stage, Stages, RunPcs
    <2>3. drain[c] = "running"
        BY <2>1, <2>2 DEF CloseInv, DrainSpawned, Over
    <2> QED BY <2>2, <2>3 DEF Work, Queue, Draining
<1>1. CASE n # 0
    <2>1. Len(<<>>) = 0
        OBVIOUS
    <2>2. outQ[c] # <<>>
        BY <1>0, <1>1, <2>1 DEF At
    <2> QED BY <1>0, <2>2 DEF CanDrain
<1>2. CASE S = {}
    <2>1. ToDo(c) = {}
        BY <1>0, <1>2 DEF At
    <2>2. Dropping(c) = {} /\ RequestsIn(c, InDispatch) = {}
        BY <2>1, ToDoItems
    <2>3. \A s \in Services : services[s] # c
        BY <1>0, NotRegistered DEF CloseInv, Relaying
    <2>4. ~HasSender(c)
        BY <1>0, <2>2, <2>3 DEF HasSender, Dropping, RequestsIn, Relaying
    <2> QED BY <1>0, <2>4 DEF CanDrain
<1> QED BY <1>1, <1>2

\* The drain task brings the connection nearer to its end by each of its steps.
LEMMA DrainFalls ==
    ASSUME CloseInv, [Next]_vars, NEW c \in Conns, NEW S, NEW n, At(c, 2, S, n), DrainTask(c)
    PROVE  Nearer(c, 2, S, n)'
<1>0. /\ runPc[c] = "drain" /\ drain[c] = "running" /\ runPc'[c] = "drain"
      /\ drain \in [Conns -> {"none", "running", "panicked", "ended"}]
      /\ outQ \in [Conns -> Seq(ServerMessages)]
    <2>1. /\ runPc[c] \in RunPcs \ {"none"}
          /\ drain \in [Conns -> {"none", "running", "panicked", "ended"}]
          /\ outQ \in [Conns -> Seq(ServerMessages)]
        BY DEF CloseInv, IInv, TypeOK, At, Closed
    <2>2. drain[c] = "running" /\ UNCHANGED runPc
        BY DEF DrainTask, DrainDeliver, DrainEnd
    <2>3. runPc[c] = "drain"
        BY <2>1, <2>2 DEF At, Stage, Stages, RunPcs
    <2> QED BY <2>1, <2>2, <2>3
<1>1. CASE DrainEnd(c)
    <2>1. drain'[c] \in Over
        BY <1>0, <1>1 DEF DrainEnd, Over
    <2>2. Stage(c) = 2 /\ Stage(c)' = 1
        BY <1>0, <2>1 DEF Stage, Stages, At
    <2> QED BY <2>2, StaysOrFalls
<1>2. CASE DrainDeliver(c)
    <2>1. /\ outQ[c] # <<>> /\ outQ[c] \in Seq(ServerMessages)
          /\ outQ'[c] = Tail(outQ[c]) /\ drain'[c] = "running"
        BY <1>0, <1>2 DEF DrainDeliver
    <2>2. Len(Tail(outQ[c])) < Len(outQ[c])
        BY <2>1, HeadTailProperties, EmptySeq
    <2>3. Queue(c)' < Queue(c)
        BY <1>0, <2>1, <2>2 DEF Queue, Draining
    <2> QED BY <2>3, StaysOrFalls
<1> QED BY <1>1, <1>2 DEF DrainTask

\* A frame under way has room once run() has read what came before it, and is
\* not under way any more once it was sent.
LEMMA PushReady ==
    ASSUME CloseInv, NEW c \in Conns, NEW S, NEW p \in S, At(c, 4, S, 0)
    PROVE  p \in Pushers /\ CanPush(c, p)
<1>0. runPc[c] \in RunPcs \ {"none"} /\ inQ[c] \in Seq(Frames)
    BY DEF CloseInv, IInv, TypeOK, At, Closed
<1>1. runPc[c] = "relay"
    BY <1>0 DEF At, Stage, Stages, RunPcs
<1>2. p \in UnderWay(c) /\ Len(inQ[c]) = 0
    BY <1>1 DEF At, Work, Queue
<1> QED BY <1>2, ServerAssumption DEF UnderWay, CanPush, Room

\* A frame that was sent, or could not be, is not under way any more.
LEMMA PushFalls ==
    ASSUME CloseInv, [Next]_vars, NEW c \in Conns, NEW S, NEW p \in S, At(c, 4, S, 0),
           PushSent(c, p) \/ PushFailed(c, p)
    PROVE  Nearer(c, 4, S, 0)'
<1>0. runPc[c] \in RunPcs \ {"none"}
    BY DEF CloseInv, IInv, TypeOK, At, Closed
<1>1. runPc[c] = "relay"
    BY <1>0 DEF At, Stage, Stages, RunPcs
<1>2. p \in UnderWay(c)
    BY <1>1 DEF At, Work
<1>3. p \notin UnderWay(c)' /\ runPc'[c] = "relay"
    BY <1>1, <1>2 DEF PushSent, PushFailed, PushEnds, UnderWay, CloseInv, IInv, TypeOK
<1>4. Work(c)' # Work(c)
    BY <1>1, <1>2, <1>3 DEF Work
<1> QED BY <1>4, StaysOrFalls

\* With the outgoing channel empty, whoever still holds a sender can go on.
LEMMA SenderReady ==
    ASSUME CloseInv, NEW c \in Conns, NEW S, At(c, 2, S, 0)
    PROVE  /\ S = ToDo(c) /\ runPc[c] = "drain" /\ drain[c] = "running"
           /\ \A d : <<d, "drop">> \in S => d \in Conns /\ CanRun(d)
           /\ \A r, todo : <<r, todo>> \in S /\ todo # "drop" =>
                 r \in Reqs /\ reqConn[r] = c /\ CanServe(r)
<1>0. /\ runPc[c] = "drain" /\ drain[c] = "running"
      /\ Work(c) = ToDo(c) /\ Queue(c) = Len(outQ[c])
    <2>1. /\ runPc[c] \in RunPcs \ {"none"}
          /\ drain[c] \in {"none", "running", "panicked", "ended"}
        BY DEF CloseInv, IInv, TypeOK, At, Closed
    <2>2. runPc[c] = "drain" /\ drain[c] \notin Over
        BY <2>1 DEF At, Stage, Stages, RunPcs
    <2>3. drain[c] = "running"
        BY <2>1, <2>2 DEF CloseInv, DrainSpawned, Over
    <2> QED BY <2>2, <2>3 DEF Work, Queue, Draining
<1>1. S = ToDo(c) /\ Len(outQ[c]) = 0
    BY <1>0 DEF At
<1>2. ASSUME NEW d, <<d, "drop">> \in S
      PROVE  d \in Conns /\ CanRun(d)
    <2>1. d \in Dropping(c)
        BY <1>1, <1>2, ToDoItems
    <2> QED BY <2>1 DEF Dropping, CanRun
<1>3. ASSUME NEW r, NEW todo, <<r, todo>> \in S, todo # "drop"
      PROVE  r \in Reqs /\ reqConn[r] = c /\ CanServe(r)
    <2>1. r \in RequestsIn(c, InDispatch)
        BY <1>1, <1>3 DEF ToDo, RequestsIn, InDispatch
    <2>2. pending[r] = NoConn
        <3>1. pending[r] # NoConn => pending[r] = c /\ runPc[c] \in Relaying
            BY <2>1 DEF CloseInv, IInv, PendingOnLiveConnection, RequestsIn
        <3> QED BY <1>0, <3>1 DEF Relaying
    <2> QED BY <1>1, <2>1, <2>2, ServerAssumption DEF RequestsIn, InDispatch, CanServe
<1> QED BY <1>0, <1>1, <1>2, <1>3

\* Each of their steps leaves less to do.
LEMMA SenderFalls ==
    ASSUME CloseInv, [Next]_vars, NEW c \in Conns, NEW S, At(c, 2, S, 0)
    PROVE  /\ \A d \in Conns : <<d, "drop">> \in S /\ RunTask(d) => Nearer(c, 2, S, 0)'
           /\ \A r \in Reqs : \A todo : <<r, todo>> \in S /\ todo # "drop" /\ RequestTask(r)
                 => Nearer(c, 2, S, 0)'
<1>0. S = ToDo(c) /\ runPc[c] = "drain" /\ drain[c] = "running"
    BY SenderReady
<1>1. ASSUME ToDo(c)' # ToDo(c)
      PROVE  Nearer(c, 2, S, 0)'
    <2>1. CASE Stage(c)' # Stage(c)
        BY <2>1, StaysOrFalls
    <2>2. CASE Stage(c)' = Stage(c)
        <3>1. runPc'[c] \in RunPcs /\ drain'[c] \in {"none", "running", "panicked", "ended"}
            BY TypeStep DEF CloseInv, TypeOK
        <3>2. runPc'[c] # "none"
            BY <1>0, CoreGoesForward DEF CloseInv
        <3>3. Stage(c) = 2
            BY <1>0 DEF Stage, Stages, Over
        <3>4. runPc'[c] = "drain" /\ drain'[c] \notin Over
            BY <2>2, <3>1, <3>2, <3>3 DEF Stage, Stages, RunPcs
        <3>5. drain'[c] = "running"
            <4>1. drain'[c] # "none"
                BY <3>4, DrainSpawnedStep DEF CloseInv, DrainSpawned
            <4> QED BY <3>1, <3>4, <4>1 DEF Over
        <3>6. Work(c)' = ToDo(c)' /\ Work(c) = ToDo(c)
            BY <1>0, <3>4, <3>5 DEF Work, Draining
        <3> QED BY <1>1, <3>6, StaysOrFalls
    <2> QED BY <2>1, <2>2
<1>2. ASSUME NEW d \in Conns, <<d, "drop">> \in S, RunTask(d)
      PROVE  ToDo(c)' # ToDo(c)
    <2>1. d \in Dropping(c)
        BY <1>0, <1>2, ToDoItems
    <2> QED BY <1>0, <1>2, <2>1, ToDoShrinks DEF CloseInv
<1>3. ASSUME NEW r \in Reqs, NEW todo, <<r, todo>> \in S, todo # "drop", RequestTask(r)
      PROVE  ToDo(c)' # ToDo(c)
    <2>1. reqConn[r] = c
        BY <1>3, SenderReady
    <2> QED BY <1>0, <1>3, <2>1, ToDoShrinks DEF CloseInv
<1> QED BY <1>1, <1>2, <1>3

\* What is known of the state holds throughout.
LEMMA CloseInvariance == Spec => []CloseInv
<1>1. Init => DrainStarted /\ DrainSpawned
    BY DEF Init, DrainStarted, DrainSpawned, Over
<1>2. IInv /\ DrainStarted /\ DrainSpawned /\ [Next]_vars => (DrainStarted /\ DrainSpawned)'
    BY DrainStays, DrainSpawnedStep
<1> QED BY <1>1, <1>2, Invariance, PTL DEF Spec, CloseInv

\* run() brings the connection nearer to its end, if what it awaits has come.
LEMMA RunBringsNearer ==
    ASSUME NEW c \in Conns, NEW k, NEW S, NEW n,
           k \in {8, 6, 5, 3, 1} \/ (k = 4 /\ (S = {} \/ n # 0))
    PROVE  Spec /\ []GuardsAreExact /\ TaskFair(c) => (At(c, k, S, n) ~> Nearer(c, k, S, n))
<1>1. CloseInv /\ At(c, k, S, n) /\ [Next]_vars => (At(c, k, S, n) \/ Nearer(c, k, S, n))'
    BY StaysOrFalls
<1>2. CloseInv /\ At(c, k, S, n) /\ <<Next /\ RunTask(c)>>_vars => Nearer(c, k, S, n)'
    BY RunFalls
<1>3. CloseInv /\ GuardsAreExact /\ At(c, k, S, n) => ENABLED <<RunTask(c)>>_vars
    <2>1. CloseInv /\ At(c, k, S, n) => CanRun(c)
        BY RunReady
    <2> QED BY <2>1 DEF GuardsAreExact, RunEnabled
<1> QED BY <1>1, <1>2, <1>3, CloseInvariance, PTL DEF Spec, TaskFair

\* A connection whose client does not authenticate is brought nearer by its timer.
LEMMA TimerBringsNearer ==
    ASSUME NEW c \in Conns, NEW k, NEW S, NEW n, k = 7
    PROVE  Spec /\ []GuardsAreExact /\ TaskFair(c) => (At(c, k, S, n) ~> Nearer(c, k, S, n))
<1>1. CloseInv /\ At(c, k, S, n) /\ [Next]_vars => (At(c, k, S, n) \/ Nearer(c, k, S, n))'
    BY StaysOrFalls
<1>2. CloseInv /\ At(c, k, S, n) /\ <<Next /\ AuthTimeout(c)>>_vars => Nearer(c, k, S, n)'
    BY RunFalls
<1>3. CloseInv /\ GuardsAreExact /\ At(c, k, S, n) => ENABLED <<AuthTimeout(c)>>_vars
    <2>1. CloseInv /\ At(c, k, S, n) => runPc[c] = "auth"
        BY DEF CloseInv, IInv, TypeOK, RunPcs, At, Closed, Stage, Stages
    <2> QED BY <2>1 DEF GuardsAreExact
<1> QED BY <1>1, <1>2, <1>3, CloseInvariance, PTL DEF Spec, TaskFair

\* run() is in one of its stages.
LEMMA StageRange ==
    ASSUME CloseInv, NEW c \in Conns, NEW k, NEW S, NEW n, At(c, k, S, n)
    PROVE  k \in 0 .. 8 /\ (k \notin {2, 4} => S = {})
<1>0. runPc[c] \in RunPcs \ {"none"}
    BY DEF CloseInv, IInv, TypeOK, At, Closed
<1>1. k \in 0 .. 8
    BY <1>0 DEF RunPcs, At, Stage, Stages
<1>2. k \notin {2, 4} => runPc[c] # "relay" /\ ~Draining(c)
    BY <1>0 DEF At, Stage, Stages, Draining, Over
<1> QED BY <1>1, <1>2 DEF At, Work

\* A frame that waits for room brings the connection nearer once it is sent.
LEMMA PushBringsNearer ==
    ASSUME NEW c \in Conns, NEW k, NEW S, NEW n, k = 4, n = 0, NEW p \in S
    PROVE  Spec /\ []GuardsAreExact /\ (p \in Pushers => PushFair(c, p))
               => (At(c, k, S, n) ~> Nearer(c, k, S, n))
<1>0. CASE p \notin Pushers
    <2>1. CloseInv => ~At(c, k, S, n)
        BY <1>0, PushReady
    <2> QED BY <2>1, CloseInvariance, PTL
<1>1. CASE p \in Pushers
    <2>1. CloseInv /\ At(c, k, S, n) /\ [Next]_vars => (At(c, k, S, n) \/ Nearer(c, k, S, n))'
        BY StaysOrFalls
    <2>2. CloseInv /\ At(c, k, S, n) /\ <<Next /\ (PushSent(c, p) \/ PushFailed(c, p))>>_vars
            => Nearer(c, k, S, n)'
        BY PushFalls
    <2>3. CloseInv /\ GuardsAreExact /\ At(c, k, S, n)
            => ENABLED <<PushSent(c, p) \/ PushFailed(c, p)>>_vars
        <3>1. CloseInv /\ At(c, k, S, n) => CanPush(c, p)
            BY PushReady
        <3> QED BY <1>1, <3>1 DEF GuardsAreExact
    <2>4. Spec /\ []GuardsAreExact /\ PushFair(c, p) => (At(c, k, S, n) ~> Nearer(c, k, S, n))
        BY <2>1, <2>2, <2>3, CloseInvariance, PTL DEF Spec, PushFair
    <2> QED BY <1>1, <2>4
<1> QED BY <1>0, <1>1

\* So does the drain task.
LEMMA DrainBringsNearer ==
    ASSUME NEW c \in Conns, NEW k, NEW S, NEW n, k = 2, S = {} \/ n # 0
    PROVE  Spec /\ []GuardsAreExact /\ TaskFair(c) => (At(c, k, S, n) ~> Nearer(c, k, S, n))
<1>1. CloseInv /\ At(c, k, S, n) /\ [Next]_vars => (At(c, k, S, n) \/ Nearer(c, k, S, n))'
    BY StaysOrFalls
<1>2. CloseInv /\ At(c, k, S, n) /\ <<Next /\ DrainTask(c)>>_vars => Nearer(c, k, S, n)'
    BY DrainFalls
<1>3. CloseInv /\ GuardsAreExact /\ At(c, k, S, n) => ENABLED <<DrainTask(c)>>_vars
    <2>1. CloseInv /\ At(c, k, S, n) => CanDrain(c)
        BY DrainReady
    <2> QED BY <2>1 DEF GuardsAreExact
<1> QED BY <1>1, <1>2, <1>3, CloseInvariance, PTL DEF Spec, TaskFair

\* So does a run() that has yet to drop the sender of the connection it replaced.
LEMMA DropBringsNearer ==
    ASSUME NEW c \in Conns, NEW k, NEW S, NEW n, k = 2, n = 0,
           NEW d \in Conns, <<d, "drop">> \in S
    PROVE  Spec /\ []GuardsAreExact /\ TaskFair(d) => (At(c, k, S, n) ~> Nearer(c, k, S, n))
<1>1. CloseInv /\ At(c, k, S, n) /\ [Next]_vars => (At(c, k, S, n) \/ Nearer(c, k, S, n))'
    BY StaysOrFalls
<1>2. CloseInv /\ At(c, k, S, n) /\ <<Next /\ RunTask(d)>>_vars => Nearer(c, k, S, n)'
    BY SenderFalls
<1>3. CloseInv /\ GuardsAreExact /\ At(c, k, S, n) => ENABLED <<RunTask(d)>>_vars
    <2>1. CloseInv /\ At(c, k, S, n) => CanRun(d)
        BY SenderReady
    <2>2. GuardsAreExact /\ CanRun(d) => RunEnabled(d)
        BY DEF GuardsAreExact
    <2> QED BY <2>1, <2>2 DEF RunEnabled
<1> QED BY <1>1, <1>2, <1>3, CloseInvariance, PTL DEF Spec, TaskFair

\* So does a dispatch, which sends its request, fails, or returns.
LEMMA ServeBringsNearer ==
    ASSUME NEW c \in Conns, NEW k, NEW S, NEW n, k = 2, n = 0,
           NEW r \in Reqs, NEW todo, <<r, todo>> \in S, todo # "drop"
    PROVE  Spec /\ []GuardsAreExact /\ ServeFair(r) => (At(c, k, S, n) ~> Nearer(c, k, S, n))
<1>1. CloseInv /\ At(c, k, S, n) /\ [Next]_vars => (At(c, k, S, n) \/ Nearer(c, k, S, n))'
    BY StaysOrFalls
<1>2. CloseInv /\ At(c, k, S, n) /\ <<Next /\ RequestTask(r)>>_vars => Nearer(c, k, S, n)'
    BY SenderFalls
<1>3. CloseInv /\ GuardsAreExact /\ At(c, k, S, n) => ENABLED <<RequestTask(r)>>_vars
    <2>1. CloseInv /\ At(c, k, S, n) => CanServe(r)
        BY SenderReady
    <2> QED BY <2>1 DEF GuardsAreExact
<1> QED BY <1>1, <1>2, <1>3, CloseInvariance, PTL DEF Spec, ServeFair

\* A closed connection comes nearer to its end.
THEOREM ClosedComesNearer ==
    ASSUME NEW c \in Conns, NEW k, NEW S, NEW n, k # 0
    PROVE  Spec /\ []GuardsAreExact /\ TaskFairness => (At(c, k, S, n) ~> Nearer(c, k, S, n))
<1>1. /\ TaskFairness => TaskFair(c)
      /\ \A d \in Conns : TaskFairness => TaskFair(d)
      /\ \A p \in Pushers : TaskFairness => PushFair(c, p)
      /\ \A r \in Reqs : TaskFairness => ServeFair(r)
    BY DEF TaskFairness
<1>2. CASE k \in {8, 6, 5, 3, 1} \/ (k = 4 /\ (S = {} \/ n # 0))
    BY <1>1, <1>2, RunBringsNearer
<1>3. CASE k = 7
    BY <1>1, <1>3, TimerBringsNearer
<1>4. CASE k = 4 /\ S # {} /\ n = 0
    <2>1. PICK p \in S : TRUE
        BY <1>4
    <2> QED BY <1>1, <1>4, <2>1, PushBringsNearer
<1>5. CASE k = 2 /\ (S = {} \/ n # 0)
    BY <1>1, <1>5, DrainBringsNearer
<1>6. CASE k = 2 /\ S # {} /\ n = 0
    <2>1. CASE \E d \in Conns : <<d, "drop">> \in S
        <3>1. PICK d \in Conns : <<d, "drop">> \in S
            BY <2>1
        <3>2. TaskFairness => TaskFair(d)
            BY <1>1
        <3> QED BY <1>6, <3>1, <3>2, DropBringsNearer
    <2>2. CASE \E r \in Reqs : \E todo : <<r, todo>> \in S /\ todo # "drop"
        <3>1. PICK r \in Reqs : \E todo : <<r, todo>> \in S /\ todo # "drop"
            BY <2>2
        <3>2. TaskFairness => ServeFair(r)
            BY <1>1
        <3> QED BY <1>6, <3>1, <3>2, ServeBringsNearer
    <2>3. CASE /\ ~ \E d \in Conns : <<d, "drop">> \in S
               /\ ~ \E r \in Reqs : \E todo : <<r, todo>> \in S /\ todo # "drop"
        <3>1. CloseInv => ~At(c, k, S, n)
            <4> SUFFICES ASSUME CloseInv, At(c, k, S, n) PROVE FALSE
                OBVIOUS
            <4>1. S = ToDo(c)
                BY <1>6, SenderReady
            <4>2. PICK x \in ToDo(c) : TRUE
                BY <1>6, <4>1
            <4>3. \/ x \in Dropping(c) \X {"drop"}
                  \/ x \in RequestsIn(c, {"sending"}) \X {"send"}
                  \/ x \in RequestsIn(c, {"sending", "waiting"}) \X {"wait"}
                  \/ x \in RequestsIn(c, InDispatch) \X {"finish"}
                BY <4>2 DEF ToDo
            <4>4. \/ \E d \in Conns : x = <<d, "drop">>
                  \/ \E r \in Reqs, todo \in {"send", "wait", "finish"} : x = <<r, todo>>
                BY <4>3 DEF Dropping, RequestsIn
            <4> QED BY <2>3, <4>1, <4>2, <4>4
        <3> QED BY <3>1, CloseInvariance, PTL
    <2> QED BY <2>1, <2>2, <2>3
<1>7. CASE k \notin 0 .. 8
    <2>1. CloseInv => ~At(c, k, S, n)
        BY <1>7, StageRange
    <2> QED BY <2>1, CloseInvariance, PTL
<1> QED BY <1>2, <1>3, <1>4, <1>5, <1>6, <1>7

\* Only finitely many calls were ever made.
Begun == {r \in Reqs : reqPc[r] # "idle"}
FinitelyMany == IsFiniteSet(Begun) /\ \A c \in Conns : IsFiniteSet(UnderWay(c))

\* A step begins one dispatch at most.
LEMMA BegunStep ==
    ASSUME TypeOK, [Next]_vars
    PROVE  \E q : Begun' \subseteq Begun \cup {q}
<1>0. reqPc \in [Reqs -> ReqPcs]
    BY DEF TypeOK
<1>1. CASE UNCHANGED reqPc
    BY <1>1 DEF Begun
<1>2. ASSUME NEW q \in Reqs, Dispatch(q)
      PROVE  Begun' \subseteq Begun \cup {q}
    <2>1. \A r \in Reqs \ {q} : reqPc'[r] = reqPc[r]
        BY <1>0, <1>2 DEF Dispatch
    <2> QED BY <2>1 DEF Begun
<1>3. ASSUME NEW q \in Reqs, RequestTask(q) \/ Timeout(q) \/ Cancel(q)
      PROVE  Begun' \subseteq Begun
    <2>1. reqPc[q] # "idle" /\ \A r \in Reqs \ {q} : reqPc'[r] = reqPc[r]
        BY <1>0, <1>3, DispatchGoesOn DEF InDispatch
    <2> QED BY <2>1 DEF Begun
<1> QED
    BY <1>1, <1>2, <1>3, AdapterFrame, DrainFrame, RunFrame
       DEF Next, Stopped, vars, CreateConnection, reqVars

\* A step begins one push_message call at most.
LEMMA UnderWayStep ==
    ASSUME TypeOK, [Next]_vars, NEW c \in Conns
    PROVE  \E q : UnderWay(c)' \subseteq UnderWay(c) \cup {q}
<1>0. pushing \in [Conns -> [Pushers -> Frames \cup {NoFrame}]]
    BY DEF TypeOK
<1>1. CASE UNCHANGED pushing
    BY <1>1 DEF UnderWay
<1>2. ASSUME NEW d \in Conns, NEW p \in Pushers, NEW f \in Frames \cup {NoFrame},
             pushing' = [pushing EXCEPT ![d][p] = f]
      PROVE  UnderWay(c)' \subseteq UnderWay(c) \cup {p}
    BY <1>0, <1>2 DEF UnderWay
<1>3. ASSUME NEW d \in Conns, Adapter(d)
      PROVE  \E q : UnderWay(c)' \subseteq UnderWay(c) \cup {q}
    <2>1. CASE Close(d)
        BY <1>1, <2>1 DEF Close
    <2>2. ASSUME NEW p \in Pushers, NEW f \in Frames, PushMessage(d, p, f)
          PROVE  \E q : UnderWay(c)' \subseteq UnderWay(c) \cup {q}
        BY <1>2, <2>2 DEF PushMessage
    <2>3. ASSUME NEW p \in Pushers, PushSent(d, p) \/ PushFailed(d, p) \/ PushCancelled(d, p)
          PROVE  \E q : UnderWay(c)' \subseteq UnderWay(c) \cup {q}
        BY <1>2, <2>3 DEF PushSent, PushFailed, PushCancelled, PushEnds
    <2> QED BY <1>3, <2>1, <2>2, <2>3 DEF Adapter
<1>4. ASSUME NEW d \in Conns, RunTask(d) \/ AuthTimeout(d)
      PROVE  UNCHANGED pushing
    <2>1. CASE AuthRecv(d) \/ AuthTimeout(d)
        BY <2>1 DEF AuthRecv, AuthTimeout
    <2>2. CASE RunTask(d) /\ ~AuthRecv(d)
        BY <2>2 DEF RunTask, Run, AuthClosed, Register, CloseReplaced, RelayRecv,
           RelayClosed, Cleanup, Return
    <2> QED BY <1>4, <2>1, <2>2
<1>5. ASSUME NEW d \in Conns, DrainTask(d) \/ CallbackPanics(d)
      PROVE  UNCHANGED pushing
    BY <1>5, DrainFrame
<1>6. ASSUME NEW q \in Reqs, Dispatch(q) \/ RequestTask(q) \/ Timeout(q) \/ Cancel(q)
      PROVE  UNCHANGED pushing
    BY <1>6, RequestFrame
<1> QED BY <1>1, <1>3, <1>4, <1>5, <1>6 DEF Next, Stopped, vars, CreateConnection

\* What keeps a connection from its end is finite.
LEMMA WorkIsFinite ==
    ASSUME FinitelyMany, NEW c \in Conns
    PROVE  IsFiniteSet(Work(c))
<1>1. IsFiniteSet(Conns)
    BY ServerAssumption, FS_Interval DEF Conns
<1>2. IsFiniteSet(Dropping(c))
    <2>1. Dropping(c) \in SUBSET Conns
        BY DEF Dropping
    <2> QED BY <1>1, <2>1, FS_Subset
<1>3. ASSUME NEW pcs \in SUBSET InDispatch
      PROVE  IsFiniteSet(RequestsIn(c, pcs))
    <2>1. RequestsIn(c, pcs) \in SUBSET Begun
        BY DEF RequestsIn, Begun, InDispatch
    <2> QED BY <2>1, FS_Subset DEF FinitelyMany
<1>4. \A x : IsFiniteSet({x})
    BY FS_Singleton
<1>5. /\ IsFiniteSet(Dropping(c) \X {"drop"})
      /\ IsFiniteSet(RequestsIn(c, {"sending"}) \X {"send"})
      /\ IsFiniteSet(RequestsIn(c, {"sending", "waiting"}) \X {"wait"})
      /\ IsFiniteSet(RequestsIn(c, InDispatch) \X {"finish"})
    <2>1. /\ IsFiniteSet(RequestsIn(c, {"sending"})) /\ IsFiniteSet(RequestsIn(c, InDispatch))
          /\ IsFiniteSet(RequestsIn(c, {"sending", "waiting"}))
        BY <1>3 DEF InDispatch
    <2> QED BY <1>2, <1>4, <2>1, FS_Product
<1>6. IsFiniteSet(ToDo(c))
    BY <1>5, FS_Union DEF ToDo
<1>7. IsFiniteSet(UnderWay(c)) /\ IsFiniteSet({})
    BY FS_EmptySet DEF FinitelyMany
<1> QED BY <1>6, <1>7 DEF Work

\* What keeps a connection from its end is finite, so nothing comes nearer to
\* its end without end.
THEOREM FiniteWork == Spec => [](\A c \in Conns : IsFiniteSet(Work(c)))
<1>1. Init => FinitelyMany
    <2> SUFFICES ASSUME Init PROVE FinitelyMany
        OBVIOUS
    <2>1. Begun = {} /\ \A c \in Conns : UnderWay(c) = {}
        BY DEF Init, Begun, UnderWay
    <2> QED BY <2>1, FS_EmptySet DEF FinitelyMany
<1>2. TypeOK /\ FinitelyMany /\ [Next]_vars => FinitelyMany'
    <2> SUFFICES ASSUME TypeOK, FinitelyMany, [Next]_vars PROVE FinitelyMany'
        OBVIOUS
    <2>1. IsFiniteSet(Begun')
        <3>1. PICK q : Begun' \subseteq Begun \cup {q}
            BY BegunStep
        <3>2. IsFiniteSet(Begun \cup {q})
            BY FS_AddElement DEF FinitelyMany
        <3>3. Begun' \in SUBSET (Begun \cup {q})
            BY <3>1
        <3> QED BY <3>2, <3>3, FS_Subset
    <2>2. ASSUME NEW c \in Conns PROVE IsFiniteSet(UnderWay(c)')
        <3>1. PICK q : UnderWay(c)' \subseteq UnderWay(c) \cup {q}
            BY UnderWayStep
        <3>2. IsFiniteSet(UnderWay(c) \cup {q})
            BY FS_AddElement DEF FinitelyMany
        <3>3. UnderWay(c)' \in SUBSET (UnderWay(c) \cup {q})
            BY <3>1
        <3> QED BY <3>2, <3>3, FS_Subset
    <2> QED BY <2>1, <2>2 DEF FinitelyMany
<1>3. FinitelyMany => \A c \in Conns : IsFiniteSet(Work(c))
    BY WorkIsFinite
<1> QED BY <1>1, <1>2, <1>3, TypeCorrectness, PTL DEF Spec

\* A closed connection never gets farther from its end.
THEOREM ClosedNoFarther == Spec => [][\A c \in Conns : Closed(c) => NoFarther(c)]_vars
<1>1. CloseInv /\ [Next]_vars => [\A c \in Conns : Closed(c) => NoFarther(c)]_vars
    BY ClosedStep DEF CloseInv
<1> QED BY <1>1, CloseInvariance, PTL DEF Spec

(***************************************************************************)
(* A dispatch whose connection is gone fails without its timer             *)
(***************************************************************************)
\* dispatch waits for a connection whose run() has cleaned up, or for room in
\* a channel whose callback has panicked.
Abandoned(r) == reqPc[r] = "waiting" /\ runPc[reqConn[r]] \in Past
Refused(r) == reqPc[r] = "sending" /\ drain[reqConn[r]] = "panicked"

\* Such a dispatch has its outcome.
LEMMA LostReady ==
    ASSUME CloseInv, NEW r \in Reqs, Abandoned(r) \/ Refused(r)
    PROVE  CanServe(r)
<1>1. Abandoned(r) => pending[r] = NoConn
    BY DEF Abandoned, CloseInv, IInv, PendingOnLiveConnection, Past, Relaying
<1> QED BY <1>1 DEF CanServe, Abandoned, Refused

\* Nobody changes what such a dispatch waits for, and its next step fails it.
LEMMA LostStep ==
    ASSUME NEW r \in Reqs, CloseInv, [Next]_vars
    PROVE  /\ Abandoned(r) => (Abandoned(r) \/ Failing(r) \/ Returned(r))'
           /\ Refused(r) => (Refused(r) \/ Failing(r) \/ Returned(r))'
           /\ Abandoned(r) /\ RequestTask(r) => (Failing(r) \/ Returned(r))'
           /\ Refused(r) /\ RequestTask(r) => Failing(r)'
<1> USE DEF Abandoned, Refused, Failing, Returned
<1>0. /\ TypeOK
      /\ runPc \in [Conns -> RunPcs]
      /\ reqPc \in [Reqs -> ReqPcs]
      /\ drain \in [Conns -> {"none", "running", "panicked", "ended"}]
    BY DEF CloseInv, IInv, TypeOK
<1>1. reqPc[r] \in InDispatch =>
         /\ reqConn[r] \in Conns
         /\ reqConn'[r] = reqConn[r]
         /\ reqPc'[r] \in InDispatch \cup {"done", "cancelled"}
         /\ reqPc[r] # "sending" => reqPc'[r] # "sending"
    <2> SUFFICES ASSUME reqPc[r] \in InDispatch
                 PROVE  /\ reqConn[r] \in Conns
                        /\ reqConn'[r] = reqConn[r]
                        /\ reqPc'[r] \in InDispatch \cup {"done", "cancelled"}
                        /\ reqPc[r] # "sending" => reqPc'[r] # "sending"
        OBVIOUS
    <2>1. reqConn[r] \in Conns
        BY ServerAssumption DEF CloseInv, IInv, TypeOK, UntouchedRequests, InDispatch, Conns, NoConn
    <2>2. CASE UNCHANGED reqVars
        BY <2>1, <2>2 DEF reqVars
    <2>3. ASSUME NEW q \in Reqs, Dispatch(q)
          PROVE  reqConn'[r] = reqConn[r] /\ reqPc'[r] = reqPc[r]
        <3>1. r # q
            BY <2>3 DEF Dispatch, InDispatch
        <3>2. reqConn \in [Reqs -> 0 .. MaxConns]
            BY <1>0 DEF TypeOK
        <3> QED BY <1>0, <2>3, <3>1, <3>2 DEF Dispatch
    <2>4. ASSUME NEW q \in Reqs, RequestTask(q) \/ Timeout(q) \/ Cancel(q)
          PROVE  /\ reqConn'[r] = reqConn[r]
                 /\ reqPc'[r] \in InDispatch \cup {"done", "cancelled"}
                 /\ reqPc[r] # "sending" => reqPc'[r] # "sending"
        <3>1. /\ UNCHANGED reqConn
              /\ \A s \in Reqs \ {q} : reqPc'[s] = reqPc[s]
              /\ reqPc'[q] \notin {"idle", "sending"}
            BY <1>0, <2>4, DispatchGoesOn
        <3>2. reqPc'[r] \in ReqPcs
            BY TypeStep DEF CloseInv, TypeOK
        <3> QED BY <3>1, <3>2 DEF ReqPcs, InDispatch
    <2> QED BY <2>1, <2>2, <2>3, <2>4, AdapterFrame, DrainFrame, RunFrame
             DEF Next, CreateConnection, Stopped, vars, reqVars
<1>2. ASSUME NEW c \in Conns, runPc[c] \in Past PROVE runPc'[c] \in Past
    <2>1. CASE RunTask(c) \/ AuthTimeout(c)
        <3>1. CASE AuthRecv(c) \/ AuthTimeout(c)
            BY <1>0, <1>2, <3>1, AuthRecvCases, AuthTimeoutCases DEF Past
        <3>2. CASE RunTask(c) /\ ~AuthRecv(c)
            BY <1>0, <1>2, <3>2 DEF Past, RunTask, Run, AuthClosed, Register, CloseReplaced,
               RelayRecv, RelayClosed, Cleanup, Return
        <3> QED BY <2>1, <3>1, <3>2
    <2>2. CASE ~(RunTask(c) \/ AuthTimeout(c))
        BY <1>2, <2>2, OthersLeaveRun DEF CloseInv, Past
    <2> QED BY <2>1, <2>2
<1>3. Abandoned(r) => (Abandoned(r) \/ Failing(r) \/ Returned(r))'
    BY <1>1, <1>2 DEF InDispatch
<1>4. Refused(r) => (Refused(r) \/ Failing(r) \/ Returned(r))'
    <2> SUFFICES ASSUME Refused(r), reqPc'[r] \in {"sending", "waiting"} PROVE Refused(r)'
        BY <1>1 DEF InDispatch
    <2>1. drain'[reqConn'[r]] \in Over /\ reqConn'[r] \in Conns
        BY <1>1, DrainStays DEF CloseInv, Over, InDispatch
    <2>2. drain'[reqConn'[r]] \in {"running", "panicked"}
        BY InvariantStep DEF CloseInv, IInv, DrainOutlivesSenders, InDispatch
    <2>3. reqPc'[r] # "waiting"
        <3> SUFFICES ASSUME reqPc'[r] = "waiting" PROVE FALSE
            OBVIOUS
        <3>1. CASE UNCHANGED reqPc
            BY <3>1
        <3>2. ASSUME NEW q \in Reqs, Dispatch(q) PROVE FALSE
            BY <1>0, <3>2 DEF Dispatch
        <3>3. ASSUME NEW q \in Reqs, RequestTask(q) \/ Timeout(q) \/ Cancel(q)
              PROVE  FALSE
            <4>1. q = r
                BY <1>0, <3>3, DispatchGoesOn
            <4> QED BY <1>0, <3>3, <4>1 DEF RequestTask, SendRequest, SendLost, RecvResponse,
                    RecvDropped, Finish, Timeout, Cancel, Fail
        <3> QED BY <3>1, <3>2, <3>3, AdapterFrame, DrainFrame, RunFrame
                 DEF Next, CreateConnection, Stopped, vars, reqVars
    <2> QED BY <2>1, <2>2, <2>3 DEF Over
<1>5. Abandoned(r) /\ RequestTask(r) => (Failing(r) \/ Returned(r))'
    BY <1>0 DEF RequestTask, SendRequest, SendLost, RecvResponse, RecvDropped, Finish, Fail
<1>6. Refused(r) /\ RequestTask(r) => Failing(r)'
    BY <1>0 DEF RequestTask, SendRequest, SendLost, RecvResponse, RecvDropped, Finish, Fail
<1> QED BY <1>3, <1>4, <1>5, <1>6

\* A dispatch that waits for the answer of a connection that has ended returns,
\* and so does one that waits for room after the callback has panicked: with
\* its own task alone, without its timer and whatever the others do.
THEOREM LostRequestsFail ==
    ASSUME NEW r \in Reqs
    PROVE  Spec /\ []GuardsAreExact /\ ServeFair(r)
               => (Abandoned(r) \/ Refused(r) ~> Returned(r))
<1>1. CloseInv /\ Abandoned(r) /\ [Next]_vars
        => (Abandoned(r) \/ Failing(r) \/ Returned(r))'
    BY LostStep
<1>2. CloseInv /\ Refused(r) /\ [Next]_vars => (Refused(r) \/ Failing(r) \/ Returned(r))'
    BY LostStep
<1>3. CloseInv /\ Failing(r) /\ [Next]_vars => (Failing(r) \/ Returned(r))'
    BY DispatchPath DEF CloseInv, IInv
<1>4. CloseInv /\ Abandoned(r) /\ <<Next /\ RequestTask(r)>>_vars
        => (Failing(r) \/ Returned(r))'
    BY LostStep
<1>5. CloseInv /\ Refused(r) /\ <<Next /\ RequestTask(r)>>_vars
        => (Failing(r) \/ Returned(r))'
    BY LostStep
<1>6. CloseInv /\ Failing(r) /\ <<Next /\ RequestTask(r)>>_vars => Returned(r)'
    BY DEF CloseInv, IInv, TypeOK, Failing, Returned, RequestTask, SendRequest, SendLost,
       RecvResponse, RecvDropped, Finish
<1>7. CloseInv /\ GuardsAreExact =>
         (Abandoned(r) \/ Refused(r) \/ Failing(r) => ENABLED <<RequestTask(r)>>_vars)
    <2>1. CloseInv => (Abandoned(r) \/ Refused(r) \/ Failing(r) => CanServe(r))
        <3>1. Failing(r) => CanServe(r)
            BY DEF Failing, CanServe
        <3>2. CloseInv => (Abandoned(r) \/ Refused(r) => CanServe(r))
            BY LostReady
        <3> QED BY <3>1, <3>2
    <2> QED BY <2>1 DEF GuardsAreExact
<1>8. []CloseInv /\ [][Next]_vars /\ []GuardsAreExact /\ WF_vars(RequestTask(r))
        => (Failing(r) ~> Returned(r))
    BY <1>3, <1>6, <1>7, PTL
<1>9. []CloseInv /\ [][Next]_vars /\ []GuardsAreExact /\ WF_vars(RequestTask(r))
        => (Abandoned(r) ~> (Failing(r) \/ Returned(r)))
    BY <1>1, <1>4, <1>7, PTL
<1>10. []CloseInv /\ [][Next]_vars /\ []GuardsAreExact /\ WF_vars(RequestTask(r))
        => (Refused(r) ~> (Failing(r) \/ Returned(r)))
    BY <1>2, <1>5, <1>7, PTL
<1> QED BY <1>8, <1>9, <1>10, CloseInvariance, PTL DEF Spec, ServeFair
=============================================================================
