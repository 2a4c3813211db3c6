----------------------- MODULE TunnelServerInduction ------------------------
(***************************************************************************)
(* IInv is an invariant of TunnelServer.  Each of its parts has a lemma:   *)
(* every step keeps it, given the parts of IInv the lemma names.  Before   *)
(* these come lemmas about the actions, which the proofs use instead of    *)
(* the actions' definitions.                                               *)
(***************************************************************************)
EXTENDS TunnelServerInvariant, SequenceTheorems, TLAPS

(***************************************************************************)
(* What each action leaves alone, and the cases of those that read a frame *)
(* or look up a map                                                        *)
(***************************************************************************)

\* What the server sends is a message of the protocol.
LEMMA ServerMessageTypes ==
    /\ AuthOk \in ServerMessages
    /\ \A r \in Reqs : TunnelRequest(r) \in ServerMessages
    /\ AuthErrors \subseteq ServerMessages
    /\ AuthError("auth timeout") \in AuthErrors
    /\ AuthError("expected auth message") \in AuthErrors
    /\ AuthError("invalid token") \in AuthErrors
BY DEF ServerMessages, TunnelRequests, AuthErrors

\* What an adapter does to a connection touches neither run() nor a dispatch.
LEMMA AdapterFrame ==
    ASSUME NEW c \in Conns, Adapter(c)
    PROVE  /\ UNCHANGED <<services, pending, nextConnId, runPc, auth, replaced,
                          outQ, drain, handed, reqPc, reqConn, slot, result>>
           /\ Close(c) \/ UNCHANGED inTx
BY DEF Adapter, PushMessage, PushSent, PushFailed, PushCancelled, PushEnds,
       Close, serverVars, reqVars

\* The drain task touches only its channel and what the callback was given.
LEMMA DrainFrame ==
    ASSUME NEW c \in Conns, DrainTask(c) \/ CallbackPanics(c)
    PROVE  UNCHANGED <<services, pending, nextConnId, runPc, auth, replaced, inTx,
                       pushing, inQ, reqPc, reqConn, slot, result>>
BY DEF DrainTask, DrainDeliver, DrainEnd, CallbackPanics, serverVars, reqVars

\* dispatch leaves every connection alone but for the outgoing channel.
LEMMA RequestFrame ==
    ASSUME NEW r \in Reqs,
           Dispatch(r) \/ RequestTask(r) \/ Timeout(r) \/ Cancel(r)
    PROVE  /\ UNCHANGED <<services, nextConnId, runPc, auth, replaced, inTx,
                          pushing, inQ, drain, handed, slot>>
           /\ Dispatch(r) \/ UNCHANGED reqConn
           /\ SendRequest(r) \/ UNCHANGED outQ
BY DEF Dispatch, RequestTask, SendRequest, SendLost, RecvResponse, RecvDropped,
       Finish, Timeout, Cancel, Fail, serverVars, connVars

\* run() leaves every dispatch alone but for its oneshot and its entry in
\* pending.
LEMMA RunFrame ==
    ASSUME NEW c \in Conns, RunTask(c) \/ AuthTimeout(c)
    PROVE  UNCHANGED <<nextConnId, handed, reqPc, reqConn, result>>
BY DEF RunTask, Run, AuthRecv, AuthClosed, Register, CloseReplaced, RelayRecv,
       RelayClosed, Cleanup, Return, AuthTimeout, serverVars, reqVars

\* An auth timeout answers the client and skips to the end of run().
LEMMA AuthTimeoutCases ==
    ASSUME NEW c \in Conns, AuthTimeout(c)
    PROVE  /\ runPc[c] = "auth"
           /\ runPc' = [runPc EXCEPT ![c] = "drain"]
           /\ \E msg \in AuthErrors : outQ' = [outQ EXCEPT ![c] = Append(@, msg)]
           /\ UNCHANGED <<services, pending, nextConnId, auth, replaced, inTx,
                          pushing, inQ, drain, handed, reqPc, reqConn, slot, result>>
<1>1. /\ AuthError("auth timeout") \in AuthErrors
      /\ outQ' = [outQ EXCEPT ![c] = Append(@, AuthError("auth timeout"))]
    BY ServerMessageTypes DEF AuthTimeout, Reply
<1> QED BY <1>1 DEF AuthTimeout, Reply, serverVars, reqVars

\* The three ways a first frame is answered, as run() and the client see them.
LEMMA AuthRecvCases ==
    ASSUME NEW c \in Conns, AuthRecv(c), TypeOK
    PROVE  /\ runPc[c] = "auth"
           /\ \E pc \in {"authed", "drain"}, msg \in ServerMessages,
                 a \in AuthMessages \cup {NoAuth} :
                 /\ runPc' = [runPc EXCEPT ![c] = pc]
                 /\ outQ' = [outQ EXCEPT ![c] = Append(@, msg)]
                 /\ auth' = [auth EXCEPT ![c] = a]
                 /\ \/ /\ pc = "authed" /\ msg = AuthOk /\ a \in AuthMessages
                       /\ Secret # EmptyToken /\ a.token = Secret
                    \/ pc = "drain" /\ msg \in AuthErrors
           /\ inQ[c] # <<>>
           /\ inQ' = [inQ EXCEPT ![c] = Tail(@)]
           /\ UNCHANGED <<services, pending, nextConnId, replaced, inTx, pushing,
                          drain, handed, reqPc, reqConn, slot, result>>
<1> DEFINE raw == Head(inQ[c])
<1>1. raw \in Frames
    <2>1. inQ[c] \in Seq(Frames) /\ inQ[c] # <<>>
        BY DEF AuthRecv, TypeOK
    <2> QED BY <2>1, HeadTailProperties
<1>2. CASE ParseMessage(raw) # "auth"
    <2>1. /\ auth[c] \in AuthMessages \cup {NoAuth}
          /\ auth' = [auth EXCEPT ![c] = auth[c]]
        BY <1>2 DEF AuthRecv, TypeOK
    <2>2. /\ AuthError("expected auth message") \in ServerMessages \cap AuthErrors
          /\ outQ' = [outQ EXCEPT ![c] = Append(@, AuthError("expected auth message"))]
          /\ runPc' = [runPc EXCEPT ![c] = "drain"]
        BY <1>2, ServerMessageTypes DEF AuthRecv, Reply
    <2> QED BY <2>1, <2>2 DEF AuthRecv, serverVars, reqVars
<1>3. CASE ParseMessage(raw) = "auth"
    <2> DEFINE a == AuthMessage(raw.token, raw.service)
    <2>1. a \in AuthMessages /\ a.token = raw.token
        BY <1>1, <1>3, FrameAssumption DEF AuthMessages, AuthMessage
    <2>2. auth' = [auth EXCEPT ![c] = a]
        BY <1>3 DEF AuthRecv
    <2>3. CASE ValidToken(raw.token)
        <3>1. /\ AuthOk \in ServerMessages
              /\ outQ' = [outQ EXCEPT ![c] = Append(@, AuthOk)]
              /\ runPc' = [runPc EXCEPT ![c] = "authed"]
            BY <1>3, <2>3, ServerMessageTypes DEF AuthRecv, Reply
        <3>2. Secret # EmptyToken /\ raw.token = Secret
            BY <2>3 DEF ValidToken
        <3> QED BY <2>1, <2>2, <3>1, <3>2 DEF AuthRecv, serverVars, reqVars
    <2>4. CASE ~ValidToken(raw.token)
        <3>1. /\ AuthError("invalid token") \in ServerMessages \cap AuthErrors
              /\ outQ' = [outQ EXCEPT ![c] = Append(@, AuthError("invalid token"))]
              /\ runPc' = [runPc EXCEPT ![c] = "drain"]
            BY <1>3, <2>4, ServerMessageTypes DEF AuthRecv, Reply
        <3> QED BY <2>1, <2>2, <3>1 DEF AuthRecv, serverVars, reqVars
    <2> QED BY <2>3, <2>4
<1> QED BY <1>2, <1>3

\* What of it concerns the services and the requests.
LEMMA AuthRecvOutcome ==
    ASSUME NEW c \in Conns, AuthRecv(c), TypeOK
    PROVE  \E pc \in {"authed", "drain"}, a \in AuthMessages \cup {NoAuth} :
              /\ runPc' = [runPc EXCEPT ![c] = pc]
              /\ auth' = [auth EXCEPT ![c] = a]
              /\ pc = "authed" =>
                    a \in AuthMessages /\ Secret # EmptyToken /\ a.token = Secret
BY AuthRecvCases

\* A frame read by the relay loop completes one request of this connection, or
\* none.
LEMMA RelayRecvCases ==
    ASSUME NEW c \in Conns, RelayRecv(c), TypeOK
    PROVE  /\ \/ UNCHANGED <<pending, slot>>
              \/ \E r \in Reqs :
                    /\ pending[r] = c
                    /\ pending' = [pending EXCEPT ![r] = NoConn]
                    /\ \/ ~Listening(r) /\ UNCHANGED slot
                       \/ Listening(r) /\ slot' = [slot EXCEPT ![r] = c]
           /\ runPc[c] = "relay"
           /\ inQ[c] # <<>>
           /\ inQ' = [inQ EXCEPT ![c] = Tail(@)]
           /\ UNCHANGED <<services, nextConnId, runPc, auth, replaced, inTx, pushing,
                          outQ, drain, handed, reqPc, reqConn, result>>
<1> DEFINE raw == Head(inQ[c])
<1>1. CASE Answers(c, raw)
    <2>1. /\ raw.request_id \in Reqs
          /\ pending[raw.request_id] = c
          /\ pending' = [pending EXCEPT ![raw.request_id] = NoConn]
        BY <1>1 DEF RelayRecv, Answers
    <2>2. \/ ~Listening(raw.request_id) /\ UNCHANGED slot
          \/ Listening(raw.request_id) /\ slot' = [slot EXCEPT ![raw.request_id] = c]
        BY <1>1, <2>1 DEF RelayRecv, TypeOK
    <2> QED BY <2>1, <2>2 DEF RelayRecv
<1>2. CASE ~Answers(c, raw)
    BY <1>2 DEF RelayRecv
<1> QED BY <1>1, <1>2

\* What run() leaves alone when it takes a frame in relay.
LEMMA RelayRecvFrame ==
    ASSUME NEW c \in Conns, RelayRecv(c)
    PROVE  UNCHANGED <<services, nextConnId, runPc, auth, replaced, inTx, pushing,
                       outQ, drain, handed, reqPc, reqConn, result>>
BY DEF RelayRecv

\* dispatch finds a connection, or returns at once.
LEMMA DispatchCases ==
    ASSUME NEW r \in Reqs, Dispatch(r), TypeOK
    PROVE  /\ reqPc[r] = "idle"
           /\ \/ /\ reqPc' = [reqPc EXCEPT ![r] = "done"]
                 /\ result' = [result EXCEPT ![r] = "not_connected"]
                 /\ UNCHANGED <<pending, reqConn>>
              \/ \E c \in Conns :
                    /\ c = services[ServiceOf[r]] /\ ServiceOf[r] \in Services
                    /\ pending' = [pending EXCEPT ![r] = c]
                    /\ reqConn' = [reqConn EXCEPT ![r] = c]
                    /\ reqPc' = [reqPc EXCEPT ![r] = "sending"]
                    /\ UNCHANGED result
           /\ UNCHANGED <<services, nextConnId, runPc, auth, replaced, inTx, pushing,
                          inQ, outQ, drain, handed, slot>>
<1>1. ServiceOf[r] \in Services /\ services[ServiceOf[r]] \in 0 .. MaxConns
    BY RequestAssumption DEF TypeOK
<1>2. CASE services[ServiceOf[r]] = NoConn
    BY <1>2 DEF Dispatch, connVars
<1>3. CASE services[ServiceOf[r]] # NoConn
    <2>1. services[ServiceOf[r]] \in Conns
        BY <1>1, <1>3, ServerAssumption DEF Conns, NoConn
    <2> QED BY <1>1, <1>3, <2>1 DEF Dispatch, connVars
<1> QED BY <1>2, <1>3

(***************************************************************************)
(* The parts of the invariant                                              *)
(***************************************************************************)

\* The invariant holds before the first connection and the first request.
LEMMA InitInvariant == Init => IInv
<1> SUFFICES ASSUME Init PROVE IInv
    OBVIOUS
<1> USE ServerAssumption DEF Init, NoConn
<1>1. TypeOK
    <2>1. /\ services \in [Services -> 0 .. MaxConns]
          /\ pending \in [Reqs -> 0 .. MaxConns]
          /\ nextConnId \in 1 .. MaxConns + 1
        OBVIOUS
    <2>2. /\ runPc \in [Conns -> RunPcs]
          /\ auth \in [Conns -> AuthMessages \cup {NoAuth}]
          /\ replaced \in [Conns -> 0 .. MaxConns]
        BY DEF RunPcs
    <2>3. /\ inTx \in [Conns -> BOOLEAN]
          /\ pushing \in [Conns -> [Pushers -> Frames \cup {NoFrame}]]
          /\ drain \in [Conns -> {"none", "running", "panicked", "ended"}]
          /\ handed \in [Conns -> SUBSET ServerMessages]
        OBVIOUS
    <2>4. /\ inQ \in [Conns -> Seq(Frames)]
          /\ outQ \in [Conns -> Seq(ServerMessages)]
          /\ \A c \in Conns : Len(inQ[c]) =< InCap /\ Len(outQ[c]) =< OutCap
        BY EmptySeq
    <2>5. /\ reqPc \in [Reqs -> ReqPcs]
          /\ reqConn \in [Reqs -> 0 .. MaxConns]
          /\ slot \in [Reqs -> 0 .. MaxConns]
          /\ result \in [Reqs -> {"none", "ok"} \cup TunnelErrors]
        BY DEF ReqPcs
    <2> QED BY <2>1, <2>2, <2>3, <2>4, <2>5 DEF TypeOK
<1>2. FreshConnections /\ QuietBeforeAuth
    BY DEF FreshConnections, QuietBeforeAuth
<1>3. RegisteredIsRelaying /\ PendingOnLiveConnection
    BY DEF RegisteredIsRelaying, PendingOnLiveConnection
<1>4. AuthenticatedIfServed
    BY DEF AuthenticatedIfServed, Relaying
<1>5. UntouchedRequests /\ RequestTargets
    BY DEF UntouchedRequests, Untouched, RequestTargets, InDispatch
<1>6. WaiterIsServed /\ DrainOutlivesSenders
    BY DEF WaiterIsServed, Listening, DrainOutlivesSenders, InDispatch, Relaying
<1>7. FailureIsTrue /\ ReplacedIsClosed
    BY DEF FailureIsTrue, ReplacedIsClosed, Relaying
<1> QED BY <1>1, <1>2, <1>3, <1>4, <1>5, <1>6, <1>7 DEF IInv

\* A receive takes one frame from a channel, a send adds one.
LEMMA ChannelTypes ==
    ASSUME NEW S, NEW q \in Seq(S)
    PROVE  /\ q # <<>> => Head(q) \in S /\ Tail(q) \in Seq(S) /\ Len(Tail(q)) = Len(q) - 1
           /\ \A x \in S : Append(q, x) \in Seq(S) /\ Len(Append(q, x)) = Len(q) + 1
           /\ Len(q) \in Nat
           /\ Len(<<>>) = 0 /\ <<>> \in Seq(S)
BY AppendProperties, HeadTailProperties, EmptySeq, LenProperties

\* Every step keeps the types and the capacities of the channels: handle_auth
\* may send without looking for room because nothing was sent before.
LEMMA TypeStep == IInv /\ [Next]_vars => TypeOK'
<1> SUFFICES ASSUME TypeOK, QuietBeforeAuth, AuthenticatedIfServed, [Next]_vars
             PROVE  TypeOK'
    BY DEF IInv
<1>0. /\ MaxConns \in Nat /\ InCap \in Nat \ {0} /\ OutCap \in Nat \ {0}
      /\ NoConn \in 0 .. MaxConns /\ Conns \subseteq 0 .. MaxConns
    BY ServerAssumption DEF NoConn, Conns
<1>a. /\ services \in [Services -> 0 .. MaxConns]
      /\ pending \in [Reqs -> 0 .. MaxConns]
      /\ nextConnId \in 1 .. MaxConns + 1
      /\ runPc \in [Conns -> RunPcs]
      /\ auth \in [Conns -> AuthMessages \cup {NoAuth}]
      /\ replaced \in [Conns -> 0 .. MaxConns]
      /\ inTx \in [Conns -> BOOLEAN]
      /\ pushing \in [Conns -> [Pushers -> Frames \cup {NoFrame}]]
      /\ drain \in [Conns -> {"none", "running", "panicked", "ended"}]
      /\ handed \in [Conns -> SUBSET ServerMessages]
    BY DEF TypeOK
<1>b. /\ inQ \in [Conns -> Seq(Frames)]
      /\ outQ \in [Conns -> Seq(ServerMessages)]
      /\ \A c \in Conns : Len(inQ[c]) =< InCap
      /\ \A c \in Conns : Len(outQ[c]) =< OutCap
    BY DEF TypeOK
<1>c. /\ reqPc \in [Reqs -> ReqPcs]
      /\ reqConn \in [Reqs -> 0 .. MaxConns]
      /\ slot \in [Reqs -> 0 .. MaxConns]
      /\ result \in [Reqs -> {"none", "ok"} \cup TunnelErrors]
    BY DEF TypeOK
<1>1. CASE CreateConnection
    <2>1. nextConnId' \in 1 .. MaxConns + 1
        BY <1>0, <1>1, <1>a DEF CreateConnection, Conns
    <2>2. /\ runPc' \in [Conns -> RunPcs]
          /\ inTx' \in [Conns -> BOOLEAN]
        BY <1>1, <1>a DEF CreateConnection, RunPcs
    <2> QED BY <1>1, <2>1, <2>2 DEF CreateConnection, TypeOK, reqVars
<1>2. ASSUME NEW c \in Conns, Close(c)
      PROVE  TypeOK'
    BY <1>2 DEF Close, TypeOK, serverVars, reqVars
<1>3. ASSUME NEW c \in Conns, NEW p \in Pushers, NEW f \in Frames, PushMessage(c, p, f)
      PROVE  TypeOK'
    BY <1>3 DEF PushMessage, TypeOK, serverVars, reqVars
<1>4. ASSUME NEW c \in Conns, NEW p \in Pushers, PushSent(c, p)
      PROVE  TypeOK'
    <2>1. /\ pushing[c][p] \in Frames
          /\ Len(inQ[c]) < InCap
          /\ inQ' = [inQ EXCEPT ![c] = Append(@, pushing[c][p])]
        BY <1>4, <1>a DEF PushSent, Room
    <2>2. /\ inQ' \in [Conns -> Seq(Frames)]
          /\ \A d \in Conns : Len(inQ'[d]) =< InCap
        BY <1>0, <1>b, <2>1, ChannelTypes
    <2>3. pushing' \in [Conns -> [Pushers -> Frames \cup {NoFrame}]]
        BY <1>4, <1>a DEF PushSent
    <2> QED BY <1>4, <2>2, <2>3 DEF PushSent, TypeOK, serverVars, reqVars
<1>5. ASSUME NEW c \in Conns, NEW p \in Pushers, PushEnds(c, p)
      PROVE  TypeOK'
    BY <1>5 DEF PushEnds, TypeOK, serverVars, reqVars
<1>6. ASSUME NEW c \in Conns,
             \/ Run(c) \/ AuthClosed(c) \/ Register(c) \/ CloseReplaced(c)
             \/ RelayClosed(c) \/ Cleanup(c) \/ Return(c)
      PROVE  TypeOK'
    <2>1. CASE Register(c)
        <3>1. /\ runPc[c] = "authed"
              /\ services' = [services EXCEPT ![auth[c].service] = c]
              /\ replaced' = [replaced EXCEPT ![c] = services[auth[c].service]]
              /\ \E pc \in {"relay", "closeOld"} : runPc' = [runPc EXCEPT ![c] = pc]
            BY <2>1 DEF Register
        <3>2. auth[c].service \in Services
            BY <3>1 DEF AuthenticatedIfServed, Authenticated, AuthMessages, AuthMessage
        <3>3. /\ services' \in [Services -> 0 .. MaxConns]
              /\ replaced' \in [Conns -> 0 .. MaxConns]
            BY <1>0, <1>a, <3>1, <3>2
        <3>4. runPc' \in [Conns -> RunPcs]
            BY <1>a, <3>1 DEF RunPcs
        <3> QED BY <2>1, <3>3, <3>4 DEF Register, TypeOK, reqVars
    <2>2. CASE Cleanup(c)
        <3>1. services' \in [Services -> 0 .. MaxConns]
            BY <1>0, <1>a, <2>2 DEF Cleanup, ServicesWithout
        <3>2. pending' \in [Reqs -> 0 .. MaxConns]
            BY <1>0, <1>c, <2>2 DEF Cleanup, PendingWithout, TypeOK
        <3>3. runPc' \in [Conns -> RunPcs]
            BY <1>a, <2>2 DEF Cleanup, RunPcs
        <3> QED BY <2>2, <3>1, <3>2, <3>3 DEF Cleanup, TypeOK, reqVars
    <2>3. CASE Return(c)
        <3>1. /\ inQ' \in [Conns -> Seq(Frames)]
              /\ \A d \in Conns : Len(inQ'[d]) =< InCap
            BY <1>0, <1>b, <2>3, ChannelTypes DEF Return
        <3>2. runPc' \in [Conns -> RunPcs]
            BY <1>a, <2>3 DEF Return, RunPcs
        <3> QED BY <2>3, <3>1, <3>2 DEF Return, TypeOK, serverVars, reqVars
    <2>4. CASE CloseReplaced(c)
        <3>1. /\ inTx' \in [Conns -> BOOLEAN]
              /\ replaced' \in [Conns -> 0 .. MaxConns]
              /\ runPc' \in [Conns -> RunPcs]
            BY <1>0, <1>a, <2>4 DEF CloseReplaced, RunPcs
        <3> QED BY <2>4, <3>1 DEF CloseReplaced, TypeOK, serverVars, reqVars
    <2>5. CASE Run(c) \/ AuthClosed(c) \/ RelayClosed(c)
        <3>1. /\ runPc' \in [Conns -> RunPcs]
              /\ drain' \in [Conns -> {"none", "running", "panicked", "ended"}]
            BY <1>a, <2>5 DEF Run, AuthClosed, RelayClosed, RunPcs
        <3> QED BY <2>5, <3>1 DEF Run, AuthClosed, RelayClosed, TypeOK, serverVars,
                                  reqVars
    <2> QED BY <1>6, <2>1, <2>2, <2>3, <2>4, <2>5
<1>7. ASSUME NEW c \in Conns, AuthRecv(c)
      PROVE  TypeOK'
    <2>1. PICK pc \in {"authed", "drain"}, msg \in ServerMessages,
               a \in AuthMessages \cup {NoAuth} :
              /\ runPc' = [runPc EXCEPT ![c] = pc]
              /\ outQ' = [outQ EXCEPT ![c] = Append(@, msg)]
              /\ auth' = [auth EXCEPT ![c] = a]
        BY <1>7, AuthRecvCases
    <2>2. /\ runPc[c] = "auth"
          /\ inQ[c] # <<>>
          /\ inQ' = [inQ EXCEPT ![c] = Tail(@)]
          /\ UNCHANGED <<services, pending, nextConnId, replaced, inTx, pushing,
                         drain, handed, reqPc, reqConn, slot, result>>
        BY <1>7, AuthRecvCases
    <2>3. /\ inQ' \in [Conns -> Seq(Frames)]
          /\ \A d \in Conns : Len(inQ'[d]) =< InCap
        BY <1>0, <1>b, <2>2, ChannelTypes
    <2>4. outQ[c] = <<>>
        BY <2>2 DEF QuietBeforeAuth
    <2>5. /\ outQ' \in [Conns -> Seq(ServerMessages)]
          /\ \A d \in Conns : Len(outQ'[d]) =< OutCap
        BY <1>0, <1>b, <2>1, <2>4, ChannelTypes
    <2>6. runPc' \in [Conns -> RunPcs] /\ auth' \in [Conns -> AuthMessages \cup {NoAuth}]
        BY <1>a, <2>1 DEF RunPcs
    <2> QED BY <2>2, <2>3, <2>5, <2>6 DEF TypeOK
<1>8. ASSUME NEW c \in Conns, AuthTimeout(c)
      PROVE  TypeOK'
    <2>1. PICK msg \in AuthErrors : outQ' = [outQ EXCEPT ![c] = Append(@, msg)]
        BY <1>8, AuthTimeoutCases
    <2>2. /\ runPc[c] = "auth"
          /\ runPc' = [runPc EXCEPT ![c] = "drain"]
          /\ UNCHANGED <<services, pending, nextConnId, auth, replaced, inTx,
                         pushing, inQ, drain, handed, reqPc, reqConn, slot, result>>
        BY <1>8, AuthTimeoutCases
    <2>3. outQ[c] = <<>> /\ msg \in ServerMessages
        BY <2>2, ServerMessageTypes DEF QuietBeforeAuth
    <2>4. /\ outQ' \in [Conns -> Seq(ServerMessages)]
          /\ \A d \in Conns : Len(outQ'[d]) =< OutCap
        BY <1>0, <1>b, <2>1, <2>3, ChannelTypes
    <2>5. runPc' \in [Conns -> RunPcs]
        BY <1>a, <2>2 DEF RunPcs
    <2> QED BY <2>2, <2>4, <2>5 DEF TypeOK
<1>9. ASSUME NEW c \in Conns, RelayRecv(c)
      PROVE  TypeOK'
    <2>1. /\ inQ[c] # <<>>
          /\ inQ' = [inQ EXCEPT ![c] = Tail(@)]
          /\ UNCHANGED <<services, nextConnId, runPc, auth, replaced, inTx, pushing,
                         outQ, drain, handed, reqPc, reqConn, result>>
        BY <1>9, RelayRecvCases
    <2>2. /\ inQ' \in [Conns -> Seq(Frames)]
          /\ \A d \in Conns : Len(inQ'[d]) =< InCap
        BY <1>0, <1>b, <2>1, ChannelTypes
    <2>3. CASE UNCHANGED <<pending, slot>>
        BY <2>1, <2>2, <2>3 DEF TypeOK
    <2>4. ASSUME NEW r \in Reqs,
                 pending' = [pending EXCEPT ![r] = NoConn],
                 slot' \in {slot, [slot EXCEPT ![r] = c]}
          PROVE  TypeOK'
        <3>1. pending' \in [Reqs -> 0 .. MaxConns] /\ slot' \in [Reqs -> 0 .. MaxConns]
            BY <1>0, <1>a, <1>c, <2>4
        <3> QED BY <2>1, <2>2, <3>1 DEF TypeOK
    <2> QED BY <1>9, <2>3, <2>4, RelayRecvCases
<1>10. ASSUME NEW c \in Conns, DrainTask(c) \/ CallbackPanics(c)
      PROVE  TypeOK'
    <2>1. CASE DrainDeliver(c)
        <3>1. /\ outQ[c] # <<>>
              /\ handed' = [handed EXCEPT ![c] = @ \cup {Head(outQ[c])}]
              /\ outQ' = [outQ EXCEPT ![c] = Tail(@)]
              /\ UNCHANGED drain
            BY <2>1 DEF DrainDeliver
        <3>2. /\ outQ' \in [Conns -> Seq(ServerMessages)]
              /\ \A d \in Conns : Len(outQ'[d]) =< OutCap
            BY <1>0, <1>b, <3>1, ChannelTypes
        <3>3. handed' \in [Conns -> SUBSET ServerMessages]
            <4>1. Head(outQ[c]) \in ServerMessages
                BY <1>b, <3>1, ChannelTypes
            <4> QED BY <1>a, <3>1, <4>1
        <3> QED BY <1>10, <3>1, <3>2, <3>3, DrainFrame DEF TypeOK
    <2>2. CASE DrainEnd(c) \/ CallbackPanics(c)
        <3>1. /\ outQ' \in {outQ, [outQ EXCEPT ![c] = <<>>]}
              /\ drain' \in [Conns -> {"none", "running", "panicked", "ended"}]
              /\ UNCHANGED handed
            BY <1>a, <2>2 DEF DrainEnd, CallbackPanics
        <3>2. outQ' \in [Conns -> Seq(ServerMessages)]
            BY <1>b, <3>1, ChannelTypes
        <3>3. \A d \in Conns : outQ'[d] \in {outQ[d], <<>>}
            BY <1>b, <3>1
        <3>4. \A d \in Conns : Len(outQ'[d]) =< OutCap
            BY <1>0, <1>b, <3>3, ChannelTypes
        <3> QED BY <1>10, <3>1, <3>2, <3>4, DrainFrame DEF TypeOK
    <2> QED BY <1>10, <2>1, <2>2 DEF DrainTask
<1>11. ASSUME NEW r \in Reqs, Dispatch(r)
      PROVE  TypeOK'
    <2>1. CASE /\ reqPc' = [reqPc EXCEPT ![r] = "done"]
               /\ result' = [result EXCEPT ![r] = "not_connected"]
               /\ UNCHANGED <<pending, reqConn>>
        <3>1. /\ reqPc' \in [Reqs -> ReqPcs]
              /\ result' \in [Reqs -> {"none", "ok"} \cup TunnelErrors]
            BY <1>c, <2>1 DEF ReqPcs, TunnelErrors
        <3> QED BY <1>11, <2>1, <3>1, RequestFrame DEF TypeOK, Dispatch, connVars
    <2>2. ASSUME NEW c \in Conns,
                 pending' = [pending EXCEPT ![r] = c],
                 reqConn' = [reqConn EXCEPT ![r] = c],
                 reqPc' = [reqPc EXCEPT ![r] = "sending"],
                 UNCHANGED result
          PROVE  TypeOK'
        <3>1. /\ pending' \in [Reqs -> 0 .. MaxConns]
              /\ reqPc' \in [Reqs -> ReqPcs]
              /\ reqConn' \in [Reqs -> 0 .. MaxConns]
            BY <1>0, <1>a, <1>c, <2>2 DEF ReqPcs
        <3> QED BY <1>11, <2>2, <3>1, RequestFrame DEF TypeOK, Dispatch, connVars
    <2> QED BY <1>11, <2>1, <2>2, DispatchCases
<1>12. ASSUME NEW r \in Reqs, SendRequest(r)
      PROVE  TypeOK'
    <2>1. /\ reqPc' = [reqPc EXCEPT ![r] = "waiting"]
          /\ Len(outQ[reqConn[r]]) < OutCap
          /\ outQ' = [outQ EXCEPT ![reqConn[r]] = Append(@, TunnelRequest(r))]
          /\ UNCHANGED <<services, pending, nextConnId, runPc, auth, replaced, inTx,
                         pushing, inQ, drain, handed, reqConn, slot, result>>
        BY <1>12 DEF SendRequest, serverVars
    <2>2. TunnelRequest(r) \in ServerMessages
        BY ServerMessageTypes
    <2>3. outQ' \in [Conns -> Seq(ServerMessages)]
        BY <1>b, <2>1, <2>2, ChannelTypes
    <2>4. \A d \in Conns : Len(outQ'[d]) =< OutCap
        BY <1>0, <1>b, <2>1, <2>2, ChannelTypes
    <2>5. reqPc' \in [Reqs -> ReqPcs]
        BY <1>c, <2>1 DEF ReqPcs
    <2> QED BY <2>1, <2>3, <2>4, <2>5 DEF TypeOK
<1>13. ASSUME NEW r \in Reqs,
              \/ SendLost(r) \/ RecvResponse(r) \/ RecvDropped(r) \/ Finish(r)
              \/ Timeout(r) \/ Cancel(r)
      PROVE  TypeOK'
    <2>1. /\ reqPc' \in [Reqs -> ReqPcs]
          /\ result' \in [Reqs -> {"none", "ok"} \cup TunnelErrors]
        BY <1>13, <1>c
           DEF SendLost, RecvResponse, RecvDropped, Finish, Timeout, Cancel,
               Fail, ReqPcs, TunnelErrors
    <2>2. pending' \in [Reqs -> 0 .. MaxConns]
        BY <1>0, <1>a, <1>13
           DEF SendLost, RecvResponse, RecvDropped, Finish, Timeout, Cancel, Fail, serverVars
    <2>3. UNCHANGED <<services, nextConnId, connVars, reqConn, slot>>
        BY <1>13 DEF SendLost, RecvResponse, RecvDropped, Finish, Timeout, Cancel,
                     Fail, serverVars
    <2> QED BY <2>1, <2>2, <2>3 DEF TypeOK, connVars
<1>14. CASE UNCHANGED vars
    BY <1>14 DEF TypeOK, vars
<1> QED
    BY <1>1, <1>2, <1>3, <1>4, <1>5, <1>6, <1>7, <1>8, <1>9, <1>10, <1>11, <1>12,
       <1>13, <1>14
       DEF Next, Adapter, PushFailed, PushCancelled, RunTask, RequestTask, Stopped

\* Ids are handed out in order.
LEMMA FreshStep == IInv /\ [Next]_vars => FreshConnections'
<1> SUFFICES ASSUME TypeOK, FreshConnections, [Next]_vars
             PROVE  FreshConnections'
    BY DEF IInv
<1>0. /\ runPc \in [Conns -> RunPcs]
      /\ nextConnId \in 1 .. MaxConns + 1
      /\ MaxConns \in Nat
    BY ServerAssumption DEF TypeOK
<1>1. ASSUME NEW c \in Conns, runPc[c] # "none", UNCHANGED nextConnId,
             \A d \in Conns : d # c => runPc'[d] = runPc[d]
      PROVE  FreshConnections'
    BY <1>1 DEF FreshConnections
<1>2. CASE UNCHANGED <<runPc, nextConnId>>
    BY <1>2 DEF FreshConnections
<1>3. CASE CreateConnection
    BY <1>0, <1>3 DEF CreateConnection, FreshConnections, Conns
<1>4. ASSUME NEW c \in Conns, RunTask(c) \/ AuthTimeout(c)
      PROVE  FreshConnections'
    <2>1. runPc[c] # "none"
        BY <1>4 DEF RunTask, Run, AuthRecv, AuthClosed, Register, CloseReplaced,
                    RelayRecv, RelayClosed, Cleanup, Return, AuthTimeout
    <2>2. \A d \in Conns : d # c => runPc'[d] = runPc[d]
        BY <1>0, <1>4 DEF RunTask, Run, AuthRecv, AuthClosed, Register,
                          CloseReplaced, RelayRecv, RelayClosed, Cleanup, Return,
                          AuthTimeout, Reply
    <2> QED BY <1>1, <1>4, <2>1, <2>2, RunFrame
<1> QED
    BY <1>2, <1>3, <1>4, AdapterFrame, DrainFrame, RequestFrame
       DEF Next, Stopped, vars

\* Only handle_auth sends before the registration.
LEMMA QuietStep == IInv /\ [Next]_vars => QuietBeforeAuth'
<1> SUFFICES ASSUME TypeOK, FreshConnections, QuietBeforeAuth, RequestTargets,
                    UntouchedRequests, [Next]_vars
             PROVE  QuietBeforeAuth'
    BY DEF IInv
<1> USE ServerAssumption DEF serverVars, connVars, reqVars, Conns, NoConn,
        Relaying, QuietBeforeAuth, FreshConnections
<1>0. /\ runPc \in [Conns -> RunPcs]
      /\ outQ \in [Conns -> Seq(ServerMessages)]
      /\ handed \in [Conns -> SUBSET ServerMessages]
      /\ reqConn \in [Reqs -> 0 .. MaxConns]
      /\ nextConnId \in 1 .. MaxConns + 1
    BY DEF TypeOK
<1>1. CASE UNCHANGED <<runPc, outQ, handed>>
    BY <1>1
<1>2. CASE CreateConnection
    <2>1. /\ nextConnId \in Conns
          /\ runPc' = [runPc EXCEPT ![nextConnId] = "created"]
          /\ UNCHANGED <<outQ, handed>>
        BY <1>2 DEF CreateConnection
    <2>2. runPc[nextConnId] = "none"
        BY <2>1
    <2> QED BY <1>0, <2>1, <2>2
<1>3. ASSUME NEW c \in Conns, Run(c)
      PROVE  QuietBeforeAuth'
    BY <1>0, <1>3 DEF Run
<1>4. ASSUME NEW c \in Conns, AuthRecv(c)
      PROVE  QuietBeforeAuth'
    BY <1>0, <1>4, AuthRecvCases
<1>5. ASSUME NEW c \in Conns, AuthTimeout(c)
      PROVE  QuietBeforeAuth'
    BY <1>0, <1>5, AuthTimeoutCases
<1>6. ASSUME NEW c \in Conns, AuthClosed(c)
      PROVE  QuietBeforeAuth'
    BY <1>0, <1>6 DEF AuthClosed
<1>7. ASSUME NEW c \in Conns, Register(c)
      PROVE  QuietBeforeAuth'
    BY <1>0, <1>7 DEF Register
<1>8. ASSUME NEW c \in Conns, CloseReplaced(c)
      PROVE  QuietBeforeAuth'
    BY <1>0, <1>8 DEF CloseReplaced
<1>9. ASSUME NEW c \in Conns, RelayClosed(c)
      PROVE  QuietBeforeAuth'
    BY <1>0, <1>9 DEF RelayClosed
<1>10. ASSUME NEW c \in Conns, Cleanup(c)
      PROVE  QuietBeforeAuth'
    BY <1>0, <1>10 DEF Cleanup, ServicesWithout, PendingWithout
<1>11. ASSUME NEW c \in Conns, Return(c)
      PROVE  QuietBeforeAuth'
    BY <1>0, <1>11 DEF Return
<1>12. ASSUME NEW r \in Reqs, SendRequest(r)
      PROVE  QuietBeforeAuth'
    BY <1>0, <1>12 DEF SendRequest, RequestTargets, UntouchedRequests,
       InDispatch, Past
<1>13. ASSUME NEW c \in Conns, DrainDeliver(c)
      PROVE  QuietBeforeAuth'
    BY <1>0, <1>13 DEF DrainDeliver
<1>14. ASSUME NEW c \in Conns, CallbackPanics(c)
      PROVE  QuietBeforeAuth'
    BY <1>0, <1>14 DEF CallbackPanics
<1> HIDE DEF Conns, NoConn, Relaying, QuietBeforeAuth, FreshConnections
<1> QED
    BY <1>1, <1>2, <1>3, <1>4, <1>5, <1>6, <1>7, <1>8, <1>9, <1>10, <1>11,
       <1>12, <1>13, <1>14, AdapterFrame, DrainFrame, RequestFrame, RunFrame,
       RelayRecvFrame
       DEF Next, RunTask, DrainTask, RequestTask, Stopped, vars, Cancel,
           Close, Dispatch, DrainEnd, Fail, Finish, RecvDropped, RecvResponse,
           SendLost, Timeout

\* No entry of services outlives its connection.
LEMMA RegisteredStep == IInv /\ [Next]_vars => RegisteredIsRelaying'
<1> SUFFICES ASSUME TypeOK, FreshConnections, RegisteredIsRelaying,
                    [Next]_vars
             PROVE  RegisteredIsRelaying'
    BY DEF IInv
<1> USE ServerAssumption DEF serverVars, connVars, reqVars, Conns, NoConn,
        Relaying, RegisteredIsRelaying, FreshConnections
<1>0. /\ services \in [Services -> 0 .. MaxConns]
      /\ runPc \in [Conns -> RunPcs]
      /\ auth \in [Conns -> AuthMessages \cup {NoAuth}]
      /\ nextConnId \in 1 .. MaxConns + 1
    BY DEF TypeOK
<1>1. CASE UNCHANGED <<services, runPc, auth>>
    BY <1>1
<1>2. CASE CreateConnection
    BY <1>0, <1>2 DEF CreateConnection
<1>3. ASSUME NEW c \in Conns, Run(c)
      PROVE  RegisteredIsRelaying'
    BY <1>0, <1>3 DEF Run
<1>4. ASSUME NEW c \in Conns, AuthRecv(c)
      PROVE  RegisteredIsRelaying'
    <2>1. PICK pc \in {"authed", "drain"}, a \in AuthMessages \cup {NoAuth} :
              /\ runPc' = [runPc EXCEPT ![c] = pc]
              /\ auth' = [auth EXCEPT ![c] = a]
              /\ pc = "authed" =>
                    a \in AuthMessages /\ Secret # EmptyToken /\ a.token = Secret
        BY <1>4, AuthRecvOutcome
    <2>2. /\ runPc[c] = "auth"
          /\ UNCHANGED <<services>>
        BY <1>4, AuthRecvCases
    <2>3. ASSUME NEW s \in Services, services[s] # NoConn
          PROVE  services[s] # c /\ services[s] \in Conns
        BY <1>0, <2>2, <2>3
    <2> QED BY <1>0, <2>1, <2>2, <2>3
<1>5. ASSUME NEW c \in Conns, AuthTimeout(c)
      PROVE  RegisteredIsRelaying'
    <2>1. /\ runPc[c] = "auth"
          /\ runPc' = [runPc EXCEPT ![c] = "drain"]
          /\ UNCHANGED <<services, auth>>
        BY <1>5, AuthTimeoutCases
    <2> QED BY <1>0, <2>1
<1>6. ASSUME NEW c \in Conns, AuthClosed(c)
      PROVE  RegisteredIsRelaying'
    BY <1>0, <1>6 DEF AuthClosed
<1>7. ASSUME NEW c \in Conns, Register(c)
      PROVE  RegisteredIsRelaying'
    BY <1>0, <1>7 DEF Register
<1>8. ASSUME NEW c \in Conns, CloseReplaced(c)
      PROVE  RegisteredIsRelaying'
    BY <1>0, <1>8 DEF CloseReplaced
<1>9. ASSUME NEW c \in Conns, RelayClosed(c)
      PROVE  RegisteredIsRelaying'
    BY <1>0, <1>9 DEF RelayClosed
<1>10. ASSUME NEW c \in Conns, Cleanup(c)
      PROVE  RegisteredIsRelaying'
    BY <1>0, <1>10 DEF Cleanup, ServicesWithout, PendingWithout
<1>11. ASSUME NEW c \in Conns, Return(c)
      PROVE  RegisteredIsRelaying'
    BY <1>0, <1>11 DEF Return
<1> HIDE DEF Conns, NoConn, Relaying, RegisteredIsRelaying, FreshConnections
<1> QED
    BY <1>1, <1>2, <1>3, <1>4, <1>5, <1>6, <1>7, <1>8, <1>9, <1>10, <1>11,
       AdapterFrame, DrainFrame, RequestFrame, RunFrame, RelayRecvFrame
       DEF Next, RunTask, DrainTask, RequestTask, Stopped, vars,
           CallbackPanics, Cancel, Close, Dispatch, DrainDeliver, DrainEnd,
           Fail, Finish, RecvDropped, RecvResponse, SendLost, SendRequest,
           Timeout

\* Every entry of pending names a live connection, the one the request was sent to.
LEMMA PendingStep == IInv /\ [Next]_vars => PendingOnLiveConnection'
<1> SUFFICES ASSUME TypeOK, FreshConnections, RegisteredIsRelaying,
                    PendingOnLiveConnection, UntouchedRequests, [Next]_vars
             PROVE  PendingOnLiveConnection'
    BY DEF IInv
<1> USE ServerAssumption DEF serverVars, connVars, reqVars, Conns, NoConn,
        Relaying, PendingOnLiveConnection, RegisteredIsRelaying,
        FreshConnections
<1>0. /\ pending \in [Reqs -> 0 .. MaxConns]
      /\ runPc \in [Conns -> RunPcs]
      /\ reqConn \in [Reqs -> 0 .. MaxConns]
      /\ services \in [Services -> 0 .. MaxConns]
      /\ nextConnId \in 1 .. MaxConns + 1
    BY DEF TypeOK
<1>1. CASE UNCHANGED <<pending, runPc, reqConn>>
    BY <1>1
<1>2. CASE CreateConnection
    BY <1>0, <1>2 DEF CreateConnection
<1>3. ASSUME NEW c \in Conns, Run(c)
      PROVE  PendingOnLiveConnection'
    BY <1>0, <1>3 DEF Run
<1>4. ASSUME NEW c \in Conns, AuthRecv(c)
      PROVE  PendingOnLiveConnection'
    <2>1. PICK pc \in {"authed", "drain"}, a \in AuthMessages \cup {NoAuth} :
              /\ runPc' = [runPc EXCEPT ![c] = pc]
              /\ auth' = [auth EXCEPT ![c] = a]
              /\ pc = "authed" =>
                    a \in AuthMessages /\ Secret # EmptyToken /\ a.token = Secret
        BY <1>4, AuthRecvOutcome
    <2>2. /\ runPc[c] = "auth"
          /\ UNCHANGED <<services, pending, reqConn>>
        BY <1>4, AuthRecvCases
    <2> QED BY <1>0, <2>1, <2>2
<1>5. ASSUME NEW c \in Conns, AuthTimeout(c)
      PROVE  PendingOnLiveConnection'
    <2>1. /\ runPc[c] = "auth"
          /\ runPc' = [runPc EXCEPT ![c] = "drain"]
          /\ UNCHANGED <<services, pending, reqConn>>
        BY <1>5, AuthTimeoutCases
    <2> QED BY <1>0, <2>1
<1>6. ASSUME NEW c \in Conns, AuthClosed(c)
      PROVE  PendingOnLiveConnection'
    BY <1>0, <1>6 DEF AuthClosed
<1>7. ASSUME NEW c \in Conns, Register(c)
      PROVE  PendingOnLiveConnection'
    BY <1>0, <1>7 DEF Register
<1>8. ASSUME NEW c \in Conns, CloseReplaced(c)
      PROVE  PendingOnLiveConnection'
    BY <1>0, <1>8 DEF CloseReplaced
<1>9. ASSUME NEW c \in Conns, RelayRecv(c)
      PROVE  PendingOnLiveConnection'
    <2>1. /\ runPc[c] = "relay"
          /\ UNCHANGED <<services, runPc, reqConn>>
        BY <1>9, RelayRecvCases
    <2>2. CASE UNCHANGED <<pending, slot>>
        BY <1>1, <2>1, <2>2
    <2>3. CASE ~UNCHANGED <<pending, slot>>
        <3>1. PICK r \in Reqs :
                  /\ pending[r] = c
                  /\ pending' = [pending EXCEPT ![r] = NoConn]
                  /\ \/ ~Listening(r) /\ UNCHANGED slot
                     \/ slot' = [slot EXCEPT ![r] = c]
            BY <1>9, <2>3, RelayRecvCases
        <3> QED BY <1>0, <2>1, <3>1
    <2> QED BY <2>2, <2>3
<1>10. ASSUME NEW c \in Conns, RelayClosed(c)
      PROVE  PendingOnLiveConnection'
    BY <1>0, <1>10 DEF RelayClosed
<1>11. ASSUME NEW c \in Conns, Cleanup(c)
      PROVE  PendingOnLiveConnection'
    BY <1>0, <1>11 DEF Cleanup, ServicesWithout, PendingWithout
<1>12. ASSUME NEW c \in Conns, Return(c)
      PROVE  PendingOnLiveConnection'
    BY <1>0, <1>12 DEF Return
<1>13. ASSUME NEW r \in Reqs, Dispatch(r)
      PROVE  PendingOnLiveConnection'
    <2>1. /\ reqPc[r] = "idle"
          /\ UNCHANGED <<services, runPc>>
        BY <1>13, DispatchCases
    <2>2. CASE /\ reqPc' = [reqPc EXCEPT ![r] = "done"]
               /\ result' = [result EXCEPT ![r] = "not_connected"]
               /\ UNCHANGED <<pending, reqConn>>
        BY <1>0, <2>1, <2>2
    <2>3. ASSUME NEW c \in Conns,
                 c = services[ServiceOf[r]], ServiceOf[r] \in Services,
                 pending' = [pending EXCEPT ![r] = c],
                 reqConn' = [reqConn EXCEPT ![r] = c],
                 reqPc' = [reqPc EXCEPT ![r] = "sending"],
                 UNCHANGED result
          PROVE  PendingOnLiveConnection'
        BY <1>0, <2>1, <2>3
    <2> QED BY <1>13, <2>2, <2>3, DispatchCases
<1>14. ASSUME NEW r \in Reqs, Finish(r)
      PROVE  PendingOnLiveConnection'
    BY <1>0, <1>14 DEF Finish
<1> HIDE DEF Conns, NoConn, Relaying, PendingOnLiveConnection,
             RegisteredIsRelaying, FreshConnections
<1> QED
    BY <1>1, <1>2, <1>3, <1>4, <1>5, <1>6, <1>7, <1>8, <1>9, <1>10, <1>11,
       <1>12, <1>13, <1>14, AdapterFrame, DrainFrame, RequestFrame, RunFrame
       DEF Next, RunTask, DrainTask, RequestTask, Stopped, vars,
           CallbackPanics, Cancel, Close, DrainDeliver, DrainEnd, Fail,
           RecvDropped, RecvResponse, SendLost, SendRequest, Timeout

\* What a channel holds after a send was sent then or before.
LEMMA AppendElement ==
    ASSUME NEW S, NEW q \in Seq(S), NEW x \in S,
           NEW i \in 1 .. Len(Append(q, x))
    PROVE  Append(q, x)[i] = x \/ \E j \in 1 .. Len(q) : q[j] = Append(q, x)[i]
BY AppendProperties

\* What a channel holds after a receive was in it before.
LEMMA TailElement ==
    ASSUME NEW S, NEW q \in Seq(S), q # <<>>
    PROVE  /\ Head(q) = q[1]
           /\ 1 \in 1 .. Len(q)
           /\ \A i \in 1 .. Len(Tail(q)) :
                 \E j \in 1 .. Len(q) : q[j] = Tail(q)[i]
<1>1. /\ Len(q) \in Nat \ {0}
      /\ Head(q) = q[1]
      /\ Len(Tail(q)) = Len(q) - 1
      /\ \A i \in 1 .. Len(Tail(q)) : Tail(q)[i] = q[i + 1]
    BY HeadTailProperties, EmptySeq
<1>2. \A i \in 1 .. Len(Tail(q)) : i + 1 \in 1 .. Len(q)
    BY <1>1
<1> QED BY <1>1, <1>2

\* An auth_error is neither auth_ok nor a request.
LEMMA AuthErrorType == \A msg \in AuthErrors : msg.type = "auth_error"
<1> TAKE msg \in AuthErrors
<1>1. PICK m : msg = AuthError(m)
    BY DEF AuthErrors
<1> QED BY <1>1 DEF AuthError

\* Who has been sent auth_ok or a request has authenticated.
LEMMA AuthenticatedStep == IInv /\ [Next]_vars => AuthenticatedIfServed'
<1> SUFFICES ASSUME TypeOK, FreshConnections, QuietBeforeAuth,
                    AuthenticatedIfServed, UntouchedRequests, RequestTargets,
                    [Next]_vars
             PROVE  AuthenticatedIfServed'
    BY DEF IInv
<1> DEFINE Sent(c, m) == m \in handed[c] \/ \E i \in 1 .. Len(outQ[c]) : outQ[c][i] = m
           Served(m) == m \in ServerMessages /\ m.type \in {"auth_ok", "request"}
<1>0. /\ runPc \in [Conns -> RunPcs]
      /\ auth \in [Conns -> AuthMessages \cup {NoAuth}]
      /\ outQ \in [Conns -> Seq(ServerMessages)]
      /\ handed \in [Conns -> SUBSET ServerMessages]
      /\ nextConnId \in 1 .. MaxConns + 1
      /\ MaxConns \in Nat
    BY ServerAssumption DEF TypeOK
<1>a. \A c \in Conns : runPc[c] \in {"authed"} \cup Relaying => Authenticated(c)
    BY DEF AuthenticatedIfServed
<1>b. \A c \in Conns : \A m : Served(m) /\ Sent(c, m) => Authenticated(c)
    BY DEF AuthenticatedIfServed
<1>1. ASSUME UNCHANGED auth,
             \A c \in Conns : runPc'[c] \in {"authed"} \cup Relaying
                                => runPc[c] \in {"authed"} \cup Relaying,
             \A c \in Conns : \A m : Served(m) /\ Sent(c, m)' => Authenticated(c)
      PROVE  AuthenticatedIfServed'
    BY <1>1, <1>a DEF AuthenticatedIfServed, Authenticated
<1>2. ASSUME UNCHANGED <<auth, outQ, handed>>,
             \A c \in Conns : runPc'[c] \in {"authed"} \cup Relaying
                                => runPc[c] \in {"authed"} \cup Relaying
      PROVE  AuthenticatedIfServed'
    BY <1>1, <1>2, <1>b
<1> USE DEF Conns, Relaying, serverVars, connVars, reqVars
<1>3. CASE UNCHANGED <<runPc, auth, outQ, handed>>
    BY <1>2, <1>3
<1>4. CASE CreateConnection
    BY <1>0, <1>2, <1>4 DEF CreateConnection
<1>5. ASSUME NEW c \in Conns,
             \/ Run(c) \/ AuthClosed(c) \/ Register(c) \/ CloseReplaced(c)
             \/ RelayClosed(c) \/ Cleanup(c) \/ Return(c)
      PROVE  AuthenticatedIfServed'
    BY <1>0, <1>2, <1>5 DEF Run, AuthClosed, Register, CloseReplaced, RelayClosed,
                            Cleanup, Return
<1> HIDE DEF Conns, Relaying
<1>6. ASSUME NEW c \in Conns, AuthTimeout(c)
      PROVE  AuthenticatedIfServed'
    <2>1. PICK msg \in AuthErrors : outQ' = [outQ EXCEPT ![c] = Append(@, msg)]
        BY <1>6, AuthTimeoutCases
    <2>2. /\ runPc' = [runPc EXCEPT ![c] = "drain"]
          /\ UNCHANGED <<auth, handed>>
        BY <1>6, AuthTimeoutCases
    <2>3. msg \in ServerMessages /\ ~Served(msg)
        BY ServerMessageTypes, AuthErrorType
    <2>4. \A d \in Conns : \A m : Served(m) /\ Sent(d, m)' => Sent(d, m)
        BY <1>0, <2>1, <2>2, <2>3, AppendElement
    <2>5. \A d \in Conns : \A m : Served(m) /\ Sent(d, m)' => Authenticated(d)
        BY <2>4, <1>b
    <2> QED BY <1>0, <1>1, <2>2, <2>5 DEF Relaying
<1>7. ASSUME NEW c \in Conns, AuthRecv(c)
      PROVE  AuthenticatedIfServed'
    <2>1. PICK pc \in {"authed", "drain"}, msg \in ServerMessages,
               a \in AuthMessages \cup {NoAuth} :
              /\ runPc' = [runPc EXCEPT ![c] = pc]
              /\ outQ' = [outQ EXCEPT ![c] = Append(@, msg)]
              /\ auth' = [auth EXCEPT ![c] = a]
              /\ \/ /\ pc = "authed" /\ msg = AuthOk /\ a \in AuthMessages
                    /\ Secret # EmptyToken /\ a.token = Secret
                 \/ pc = "drain" /\ msg \in AuthErrors
        BY <1>7, AuthRecvCases
    <2>2. runPc[c] = "auth" /\ UNCHANGED handed
        BY <1>7, AuthRecvCases
    <2>3. outQ[c] = <<>> /\ handed[c] = {}
        BY <2>2 DEF QuietBeforeAuth
    <2>4. \A m : Sent(c, m)' => m = msg
        BY <1>0, <2>1, <2>2, <2>3, AppendProperties
    <2>5. \A d \in Conns \ {c} : \A m : Sent(d, m)' => Sent(d, m)
        BY <1>0, <2>1, <2>2
    <2>6. \A d \in Conns \ {c} : Authenticated(d) => Authenticated(d)'
        BY <1>0, <2>1 DEF Authenticated
    <2>7. pc = "authed" => Authenticated(c)'
        BY <1>0, <2>1 DEF Authenticated
    <2>8. pc = "drain" => ~Served(msg)
        BY <2>1, AuthErrorType DEF AuthOk
    <2>9. \A d \in Conns : runPc'[d] \in {"authed"} \cup Relaying => Authenticated(d)'
        BY <1>0, <1>a, <2>1, <2>6, <2>7 DEF Relaying
    <2>10. \A d \in Conns : \A m : Served(m) /\ Sent(d, m)' => Authenticated(d)'
        BY <1>b, <2>1, <2>4, <2>5, <2>6, <2>7, <2>8
    <2> QED BY <2>9, <2>10 DEF AuthenticatedIfServed
<1>8. ASSUME NEW r \in Reqs, SendRequest(r)
      PROVE  AuthenticatedIfServed'
    <2> DEFINE c == reqConn[r]
    <2>1. /\ outQ' = [outQ EXCEPT ![c] = Append(@, TunnelRequest(r))]
          /\ UNCHANGED <<runPc, auth, handed>>
        BY <1>8 DEF SendRequest
    <2>2. Authenticated(c)
        BY <1>8 DEF SendRequest, UntouchedRequests, RequestTargets, InDispatch
    <2>3. TunnelRequest(r) \in ServerMessages
        BY ServerMessageTypes
    <2> HIDE DEF c
    <2>4. \A d \in Conns : \A m : Sent(d, m)' => Sent(d, m) \/ d = c
        BY <1>0, <2>1
    <2>5. \A d \in Conns : \A m : Served(m) /\ Sent(d, m)' => Authenticated(d)
        BY <2>2, <2>4, <1>b
    <2> QED BY <1>1, <2>1, <2>5
<1>9. ASSUME NEW c \in Conns, DrainDeliver(c)
      PROVE  AuthenticatedIfServed'
    <2>1. /\ outQ[c] # <<>>
          /\ handed' = [handed EXCEPT ![c] = @ \cup {Head(outQ[c])}]
          /\ outQ' = [outQ EXCEPT ![c] = Tail(@)]
          /\ UNCHANGED <<runPc, auth>>
        BY <1>9 DEF DrainDeliver
    <2>2. \A d \in Conns : \A m : Sent(d, m)' => Sent(d, m)
        BY <1>0, <2>1, TailElement
    <2>3. \A d \in Conns : \A m : Served(m) /\ Sent(d, m)' => Authenticated(d)
        BY <2>2, <1>b
    <2> QED BY <1>1, <2>1, <2>3
<1>10. ASSUME NEW c \in Conns, CallbackPanics(c)
      PROVE  AuthenticatedIfServed'
    <2>1. /\ outQ' = [outQ EXCEPT ![c] = <<>>]
          /\ UNCHANGED <<runPc, auth, handed>>
        BY <1>10 DEF CallbackPanics
    <2>2. \A d \in Conns : \A m : Sent(d, m)' => Sent(d, m)
        BY <1>0, <2>1
    <2>3. \A d \in Conns : \A m : Served(m) /\ Sent(d, m)' => Authenticated(d)
        BY <2>2, <1>b
    <2> QED BY <1>1, <2>1, <2>3
<1> QED
    BY <1>3, <1>4, <1>5, <1>6, <1>7, <1>8, <1>9, <1>10, AdapterFrame, DrainFrame,
       RequestFrame, RunFrame, RelayRecvFrame
       DEF Next, RunTask, DrainTask, RequestTask, Stopped, vars, Cancel,
           Close, Dispatch, DrainEnd, Fail, Finish, RecvDropped, RecvResponse,
           SendLost, Timeout

\* Only dispatch and the connection it chose leave traces of a request.
LEMMA UntouchedStep == IInv /\ [Next]_vars => UntouchedRequests'
<1> SUFFICES ASSUME TypeOK, UntouchedRequests, RequestTargets,
                    PendingOnLiveConnection, [Next]_vars
             PROVE  UntouchedRequests'
    BY DEF IInv
<1> USE ServerAssumption DEF serverVars, connVars, reqVars, Conns, NoConn,
        Relaying, UntouchedRequests, Untouched, InDispatch
<1>0. /\ pending \in [Reqs -> 0 .. MaxConns]
      /\ slot \in [Reqs -> 0 .. MaxConns]
      /\ reqConn \in [Reqs -> 0 .. MaxConns]
      /\ reqPc \in [Reqs -> ReqPcs]
      /\ result \in [Reqs -> {"none", "ok"} \cup TunnelErrors]
      /\ nextConnId \in 1 .. MaxConns + 1
    BY DEF TypeOK
<1>1. CASE UNCHANGED <<pending, slot, reqConn, reqPc, result>>
    BY <1>1
<1>2. ASSUME NEW c \in Conns, RelayRecv(c)
      PROVE  UntouchedRequests'
    <2>1. /\ runPc[c] = "relay"
          /\ UNCHANGED <<reqPc, reqConn, result>>
        BY <1>2, RelayRecvCases
    <2>2. CASE UNCHANGED <<pending, slot>>
        BY <1>1, <2>1, <2>2
    <2>3. CASE ~UNCHANGED <<pending, slot>>
        <3>1. PICK r \in Reqs :
                  /\ pending[r] = c
                  /\ pending' = [pending EXCEPT ![r] = NoConn]
                  /\ \/ ~Listening(r) /\ UNCHANGED slot
                     \/ slot' = [slot EXCEPT ![r] = c]
            BY <1>2, <2>3, RelayRecvCases
        <3> QED BY <1>0, <2>1, <3>1 DEF PendingOnLiveConnection
    <2> QED BY <2>2, <2>3
<1>3. ASSUME NEW c \in Conns, Cleanup(c)
      PROVE  UntouchedRequests'
    BY <1>0, <1>3 DEF Cleanup, ServicesWithout, PendingWithout
<1>4. ASSUME NEW r \in Reqs, Dispatch(r)
      PROVE  UntouchedRequests'
    <2>1. /\ reqPc[r] = "idle"
          /\ UNCHANGED <<slot>>
        BY <1>4, DispatchCases
    <2>2. CASE /\ reqPc' = [reqPc EXCEPT ![r] = "done"]
               /\ result' = [result EXCEPT ![r] = "not_connected"]
               /\ UNCHANGED <<pending, reqConn>>
        BY <1>0, <2>1, <2>2
    <2>3. ASSUME NEW c \in Conns,
                 c = services[ServiceOf[r]], ServiceOf[r] \in Services,
                 pending' = [pending EXCEPT ![r] = c],
                 reqConn' = [reqConn EXCEPT ![r] = c],
                 reqPc' = [reqPc EXCEPT ![r] = "sending"],
                 UNCHANGED result
          PROVE  UntouchedRequests'
        BY <1>0, <2>1, <2>3
    <2> QED BY <1>4, <2>2, <2>3, DispatchCases
<1>5. ASSUME NEW r \in Reqs, SendRequest(r)
      PROVE  UntouchedRequests'
    BY <1>0, <1>5 DEF SendRequest
<1>6. ASSUME NEW r \in Reqs, SendLost(r)
      PROVE  UntouchedRequests'
    BY <1>0, <1>6 DEF SendLost, Fail
<1>7. ASSUME NEW r \in Reqs, RecvResponse(r)
      PROVE  UntouchedRequests'
    BY <1>0, <1>7 DEF RecvResponse, RequestTargets
<1>8. ASSUME NEW r \in Reqs, RecvDropped(r)
      PROVE  UntouchedRequests'
    BY <1>0, <1>8 DEF RecvDropped, Fail
<1>9. ASSUME NEW r \in Reqs, Timeout(r)
      PROVE  UntouchedRequests'
    BY <1>0, <1>9 DEF Timeout, Fail
<1>10. ASSUME NEW r \in Reqs, Finish(r)
      PROVE  UntouchedRequests'
    BY <1>0, <1>10 DEF Finish
<1>11. ASSUME NEW r \in Reqs, Cancel(r)
      PROVE  UntouchedRequests'
    BY <1>0, <1>11 DEF Cancel
<1> HIDE DEF Conns, NoConn, Relaying, UntouchedRequests, Untouched, InDispatch
<1> QED
    BY <1>1, <1>2, <1>3, <1>4, <1>5, <1>6, <1>7, <1>8, <1>9, <1>10, <1>11,
       AdapterFrame, DrainFrame, RequestFrame, RunFrame
       DEF Next, RunTask, DrainTask, RequestTask, Stopped, vars, AuthClosed,
           AuthRecv, AuthTimeout, CallbackPanics, Close, CloseReplaced,
           CreateConnection, DrainDeliver, DrainEnd, Register, RelayClosed,
           Reply, Return, Run

\* A request stays with the connection it was sent to.
LEMMA TargetStep == IInv /\ [Next]_vars => RequestTargets'
<1> SUFFICES ASSUME TypeOK, FreshConnections, RegisteredIsRelaying,
                    PendingOnLiveConnection, AuthenticatedIfServed,
                    UntouchedRequests, RequestTargets, [Next]_vars
             PROVE  RequestTargets'
    BY DEF IInv
<1> USE ServerAssumption DEF serverVars, connVars, reqVars, Conns, NoConn,
        Relaying, RequestTargets, Past, Authenticated, FreshConnections
<1>0. /\ runPc \in [Conns -> RunPcs]
      /\ auth \in [Conns -> AuthMessages \cup {NoAuth}]
      /\ reqConn \in [Reqs -> 0 .. MaxConns]
      /\ slot \in [Reqs -> 0 .. MaxConns]
      /\ pending \in [Reqs -> 0 .. MaxConns]
      /\ result \in [Reqs -> {"none", "ok"} \cup TunnelErrors]
      /\ services \in [Services -> 0 .. MaxConns]
      /\ nextConnId \in 1 .. MaxConns + 1
    BY DEF TypeOK
<1>1. CASE UNCHANGED <<runPc, auth, reqConn, slot, pending, result>>
    BY <1>1
<1>2. CASE CreateConnection
    BY <1>0, <1>2 DEF CreateConnection
<1>3. ASSUME NEW c \in Conns, Run(c)
      PROVE  RequestTargets'
    BY <1>0, <1>3 DEF Run
<1>4. ASSUME NEW c \in Conns, AuthRecv(c)
      PROVE  RequestTargets'
    <2>1. PICK pc \in {"authed", "drain"}, a \in AuthMessages \cup {NoAuth} :
              /\ runPc' = [runPc EXCEPT ![c] = pc]
              /\ auth' = [auth EXCEPT ![c] = a]
              /\ pc = "authed" =>
                    a \in AuthMessages /\ Secret # EmptyToken /\ a.token = Secret
        BY <1>4, AuthRecvOutcome
    <2>2. /\ runPc[c] = "auth"
          /\ UNCHANGED <<services, pending, reqConn, slot, result>>
        BY <1>4, AuthRecvCases
    <2> QED BY <1>0, <2>1, <2>2
<1>5. ASSUME NEW c \in Conns, AuthTimeout(c)
      PROVE  RequestTargets'
    <2>1. /\ runPc[c] = "auth"
          /\ runPc' = [runPc EXCEPT ![c] = "drain"]
          /\ UNCHANGED <<services, pending, auth, reqConn, slot, result>>
        BY <1>5, AuthTimeoutCases
    <2> QED BY <1>0, <2>1
<1>6. ASSUME NEW c \in Conns, AuthClosed(c)
      PROVE  RequestTargets'
    BY <1>0, <1>6 DEF AuthClosed
<1>7. ASSUME NEW c \in Conns, Register(c)
      PROVE  RequestTargets'
    BY <1>0, <1>7 DEF Register
<1>8. ASSUME NEW c \in Conns, CloseReplaced(c)
      PROVE  RequestTargets'
    BY <1>0, <1>8 DEF CloseReplaced
<1>9. ASSUME NEW c \in Conns, RelayRecv(c)
      PROVE  RequestTargets'
    <2>1. /\ runPc[c] = "relay"
          /\ UNCHANGED <<services, runPc, auth, reqConn, result>>
        BY <1>9, RelayRecvCases
    <2>2. CASE UNCHANGED <<pending, slot>>
        BY <1>1, <2>1, <2>2
    <2>3. CASE ~UNCHANGED <<pending, slot>>
        <3>1. PICK r \in Reqs :
                  /\ pending[r] = c
                  /\ pending' = [pending EXCEPT ![r] = NoConn]
                  /\ \/ ~Listening(r) /\ UNCHANGED slot
                     \/ slot' = [slot EXCEPT ![r] = c]
            BY <1>9, <2>3, RelayRecvCases
        <3> QED BY <1>0, <2>1, <3>1 DEF PendingOnLiveConnection
    <2> QED BY <2>2, <2>3
<1>10. ASSUME NEW c \in Conns, RelayClosed(c)
      PROVE  RequestTargets'
    BY <1>0, <1>10 DEF RelayClosed
<1>11. ASSUME NEW c \in Conns, Cleanup(c)
      PROVE  RequestTargets'
    BY <1>0, <1>11 DEF Cleanup, ServicesWithout, PendingWithout
<1>12. ASSUME NEW c \in Conns, Return(c)
      PROVE  RequestTargets'
    BY <1>0, <1>12 DEF Return
<1>13. ASSUME NEW r \in Reqs, Dispatch(r)
      PROVE  RequestTargets'
    <2>1. /\ reqPc[r] = "idle"
          /\ UNCHANGED <<services, runPc, auth, slot>>
        BY <1>13, DispatchCases
    <2>2. CASE /\ reqPc' = [reqPc EXCEPT ![r] = "done"]
               /\ result' = [result EXCEPT ![r] = "not_connected"]
               /\ UNCHANGED <<pending, reqConn>>
        BY <1>0, <2>1, <2>2 DEF RegisteredIsRelaying, UntouchedRequests, Untouched, AuthenticatedIfServed
    <2>3. ASSUME NEW c \in Conns,
                 c = services[ServiceOf[r]], ServiceOf[r] \in Services,
                 pending' = [pending EXCEPT ![r] = c],
                 reqConn' = [reqConn EXCEPT ![r] = c],
                 reqPc' = [reqPc EXCEPT ![r] = "sending"],
                 UNCHANGED result
          PROVE  RequestTargets'
        BY <1>0, <2>1, <2>3 DEF RegisteredIsRelaying, UntouchedRequests, Untouched, AuthenticatedIfServed
    <2> QED BY <1>13, <2>2, <2>3, DispatchCases
<1>14. ASSUME NEW r \in Reqs, SendLost(r)
      PROVE  RequestTargets'
    BY <1>0, <1>14 DEF SendLost, Fail
<1>15. ASSUME NEW r \in Reqs, RecvResponse(r)
      PROVE  RequestTargets'
    BY <1>0, <1>15 DEF RecvResponse
<1>16. ASSUME NEW r \in Reqs, RecvDropped(r)
      PROVE  RequestTargets'
    BY <1>0, <1>16 DEF RecvDropped, Fail
<1>17. ASSUME NEW r \in Reqs, Timeout(r)
      PROVE  RequestTargets'
    BY <1>0, <1>17 DEF Timeout, Fail
<1>18. ASSUME NEW r \in Reqs, Finish(r)
      PROVE  RequestTargets'
    BY <1>0, <1>18 DEF Finish
<1> HIDE DEF Conns, NoConn, Relaying, RequestTargets, Past, Authenticated,
             FreshConnections
<1> QED
    BY <1>1, <1>2, <1>3, <1>4, <1>5, <1>6, <1>7, <1>8, <1>9, <1>10, <1>11,
       <1>12, <1>13, <1>14, <1>15, <1>16, <1>17, <1>18, AdapterFrame,
       DrainFrame, RequestFrame, RunFrame
       DEF Next, RunTask, DrainTask, RequestTask, Stopped, vars,
           CallbackPanics, Cancel, Close, DrainDeliver, DrainEnd, SendRequest

\* Whoever removes the pending entry of a waiting dispatch has answered it, or
\* has cleaned up its connection.
LEMMA WaiterStep == IInv /\ [Next]_vars => WaiterIsServed'
<1> SUFFICES ASSUME TypeOK, FreshConnections, PendingOnLiveConnection,
                    UntouchedRequests, RequestTargets, WaiterIsServed,
                    [Next]_vars
             PROVE  WaiterIsServed'
    BY DEF IInv
<1> USE ServerAssumption DEF serverVars, connVars, reqVars, Conns, NoConn,
        Relaying, WaiterIsServed, Listening, Past, FreshConnections
<1>0. /\ runPc \in [Conns -> RunPcs]
      /\ reqConn \in [Reqs -> 0 .. MaxConns]
      /\ slot \in [Reqs -> 0 .. MaxConns]
      /\ pending \in [Reqs -> 0 .. MaxConns]
      /\ reqPc \in [Reqs -> ReqPcs]
      /\ nextConnId \in 1 .. MaxConns + 1
    BY DEF TypeOK
<1>1. CASE UNCHANGED <<runPc, reqConn, slot, pending, reqPc>>
    BY <1>1
<1>2. CASE CreateConnection
    <2>1. /\ nextConnId \in Conns
          /\ runPc' = [runPc EXCEPT ![nextConnId] = "created"]
          /\ UNCHANGED <<reqConn, slot, pending, reqPc>>
        BY <1>2 DEF CreateConnection
    <2>2. runPc[nextConnId] = "none"
        BY <2>1
    <2>3. ASSUME NEW r \in Reqs, Listening(r)
          PROVE  reqConn[r] \in Conns /\ reqConn[r] # nextConnId
        <3>1. reqConn[r] # NoConn
            BY <2>3 DEF UntouchedRequests, InDispatch
        <3>2. runPc[reqConn[r]] \in Relaying \cup Past
            BY <3>1 DEF RequestTargets
        <3> QED BY <1>0, <2>2, <3>1, <3>2
    <2> QED BY <1>0, <2>1, <2>3
<1>3. ASSUME NEW c \in Conns, Run(c)
      PROVE  WaiterIsServed'
    BY <1>0, <1>3 DEF Run
<1>4. ASSUME NEW c \in Conns, AuthRecv(c)
      PROVE  WaiterIsServed'
    <2>1. PICK pc \in {"authed", "drain"}, a \in AuthMessages \cup {NoAuth} :
              /\ runPc' = [runPc EXCEPT ![c] = pc]
              /\ auth' = [auth EXCEPT ![c] = a]
              /\ pc = "authed" =>
                    a \in AuthMessages /\ Secret # EmptyToken /\ a.token = Secret
        BY <1>4, AuthRecvOutcome
    <2>2. /\ runPc[c] = "auth"
          /\ UNCHANGED <<pending, reqPc, reqConn, slot>>
        BY <1>4, AuthRecvCases
    <2> QED BY <1>0, <2>1, <2>2
<1>5. ASSUME NEW c \in Conns, AuthTimeout(c)
      PROVE  WaiterIsServed'
    <2>1. /\ runPc[c] = "auth"
          /\ runPc' = [runPc EXCEPT ![c] = "drain"]
          /\ UNCHANGED <<pending, reqPc, reqConn, slot>>
        BY <1>5, AuthTimeoutCases
    <2> QED BY <1>0, <2>1
<1>6. ASSUME NEW c \in Conns, AuthClosed(c)
      PROVE  WaiterIsServed'
    BY <1>0, <1>6 DEF AuthClosed
<1>7. ASSUME NEW c \in Conns, Register(c)
      PROVE  WaiterIsServed'
    BY <1>0, <1>7 DEF Register
<1>8. ASSUME NEW c \in Conns, CloseReplaced(c)
      PROVE  WaiterIsServed'
    BY <1>0, <1>8 DEF CloseReplaced
<1>9. ASSUME NEW c \in Conns, RelayRecv(c)
      PROVE  WaiterIsServed'
    <2>1. /\ runPc[c] = "relay"
          /\ UNCHANGED <<runPc, reqPc, reqConn>>
        BY <1>9, RelayRecvCases
    <2>2. CASE UNCHANGED <<pending, slot>>
        BY <1>1, <2>1, <2>2
    <2>3. CASE ~UNCHANGED <<pending, slot>>
        <3>1. PICK r \in Reqs :
                  /\ pending[r] = c
                  /\ pending' = [pending EXCEPT ![r] = NoConn]
                  /\ \/ ~Listening(r) /\ UNCHANGED slot
                     \/ slot' = [slot EXCEPT ![r] = c]
            BY <1>9, <2>3, RelayRecvCases
        <3> QED BY <1>0, <2>1, <3>1 DEF PendingOnLiveConnection
    <2> QED BY <2>2, <2>3
<1>10. ASSUME NEW c \in Conns, RelayClosed(c)
      PROVE  WaiterIsServed'
    BY <1>0, <1>10 DEF RelayClosed
<1>11. ASSUME NEW c \in Conns, Cleanup(c)
      PROVE  WaiterIsServed'
    BY <1>0, <1>11 DEF Cleanup, ServicesWithout, PendingWithout
<1>12. ASSUME NEW c \in Conns, Return(c)
      PROVE  WaiterIsServed'
    BY <1>0, <1>12 DEF Return
<1>13. ASSUME NEW r \in Reqs, Dispatch(r)
      PROVE  WaiterIsServed'
    <2>1. /\ reqPc[r] = "idle"
          /\ UNCHANGED <<runPc, slot>>
        BY <1>13, DispatchCases
    <2>2. CASE /\ reqPc' = [reqPc EXCEPT ![r] = "done"]
               /\ result' = [result EXCEPT ![r] = "not_connected"]
               /\ UNCHANGED <<pending, reqConn>>
        BY <1>0, <2>1, <2>2
    <2>3. ASSUME NEW c \in Conns,
                 c = services[ServiceOf[r]], ServiceOf[r] \in Services,
                 pending' = [pending EXCEPT ![r] = c],
                 reqConn' = [reqConn EXCEPT ![r] = c],
                 reqPc' = [reqPc EXCEPT ![r] = "sending"],
                 UNCHANGED result
          PROVE  WaiterIsServed'
        BY <1>0, <2>1, <2>3
    <2> QED BY <1>13, <2>2, <2>3, DispatchCases
<1>14. ASSUME NEW r \in Reqs, SendRequest(r)
      PROVE  WaiterIsServed'
    BY <1>0, <1>14 DEF SendRequest
<1>15. ASSUME NEW r \in Reqs, SendLost(r)
      PROVE  WaiterIsServed'
    BY <1>0, <1>15 DEF SendLost, Fail
<1>16. ASSUME NEW r \in Reqs, RecvResponse(r)
      PROVE  WaiterIsServed'
    BY <1>0, <1>16 DEF RecvResponse
<1>17. ASSUME NEW r \in Reqs, RecvDropped(r)
      PROVE  WaiterIsServed'
    BY <1>0, <1>17 DEF RecvDropped, Fail
<1>18. ASSUME NEW r \in Reqs, Timeout(r)
      PROVE  WaiterIsServed'
    BY <1>0, <1>18 DEF Timeout, Fail
<1>19. ASSUME NEW r \in Reqs, Finish(r)
      PROVE  WaiterIsServed'
    BY <1>0, <1>19 DEF Finish, UntouchedRequests
<1>20. ASSUME NEW r \in Reqs, Cancel(r)
      PROVE  WaiterIsServed'
    BY <1>0, <1>20 DEF Cancel
<1> HIDE DEF Conns, NoConn, Relaying, WaiterIsServed, Listening, Past,
             FreshConnections
<1> QED
    BY <1>1, <1>2, <1>3, <1>4, <1>5, <1>6, <1>7, <1>8, <1>9, <1>10, <1>11,
       <1>12, <1>13, <1>14, <1>15, <1>16, <1>17, <1>18, <1>19, <1>20,
       AdapterFrame, DrainFrame, RequestFrame, RunFrame
       DEF Next, RunTask, DrainTask, RequestTask, Stopped, vars,
           CallbackPanics, Close, DrainDeliver, DrainEnd

\* The drain task ends only when nobody can send to it any more.
LEMMA DrainStep == IInv /\ [Next]_vars => DrainOutlivesSenders'
<1> SUFFICES ASSUME TypeOK, FreshConnections, RegisteredIsRelaying,
                    UntouchedRequests, RequestTargets, DrainOutlivesSenders,
                    [Next]_vars
             PROVE  DrainOutlivesSenders'
    BY DEF IInv
<1> USE ServerAssumption DEF serverVars, connVars, reqVars, Conns, NoConn,
        Relaying, DrainOutlivesSenders, InDispatch, FreshConnections
<1>0. /\ runPc \in [Conns -> RunPcs]
      /\ reqConn \in [Reqs -> 0 .. MaxConns]
      /\ drain \in [Conns -> {"none", "running", "panicked", "ended"}]
      /\ reqPc \in [Reqs -> ReqPcs]
      /\ services \in [Services -> 0 .. MaxConns]
      /\ nextConnId \in 1 .. MaxConns + 1
    BY DEF TypeOK
<1>1. CASE UNCHANGED <<runPc, reqConn, drain, reqPc>>
    BY <1>1
<1>2. CASE CreateConnection
    BY <1>0, <1>2 DEF CreateConnection
<1>3. ASSUME NEW c \in Conns, Run(c)
      PROVE  DrainOutlivesSenders'
    BY <1>0, <1>3 DEF Run, RequestTargets, UntouchedRequests, Past
<1>4. ASSUME NEW c \in Conns, AuthRecv(c)
      PROVE  DrainOutlivesSenders'
    <2>1. PICK pc \in {"authed", "drain"}, a \in AuthMessages \cup {NoAuth} :
              /\ runPc' = [runPc EXCEPT ![c] = pc]
              /\ auth' = [auth EXCEPT ![c] = a]
              /\ pc = "authed" =>
                    a \in AuthMessages /\ Secret # EmptyToken /\ a.token = Secret
        BY <1>4, AuthRecvOutcome
    <2>2. /\ runPc[c] = "auth"
          /\ UNCHANGED <<drain, reqPc, reqConn>>
        BY <1>4, AuthRecvCases
    <2> QED BY <1>0, <2>1, <2>2
<1>5. ASSUME NEW c \in Conns, AuthTimeout(c)
      PROVE  DrainOutlivesSenders'
    <2>1. /\ runPc[c] = "auth"
          /\ runPc' = [runPc EXCEPT ![c] = "drain"]
          /\ UNCHANGED <<drain, reqPc, reqConn>>
        BY <1>5, AuthTimeoutCases
    <2> QED BY <1>0, <2>1
<1>6. ASSUME NEW c \in Conns, AuthClosed(c)
      PROVE  DrainOutlivesSenders'
    BY <1>0, <1>6 DEF AuthClosed
<1>7. ASSUME NEW c \in Conns, Register(c)
      PROVE  DrainOutlivesSenders'
    BY <1>0, <1>7 DEF Register
<1>8. ASSUME NEW c \in Conns, CloseReplaced(c)
      PROVE  DrainOutlivesSenders'
    BY <1>0, <1>8 DEF CloseReplaced
<1>9. ASSUME NEW c \in Conns, RelayClosed(c)
      PROVE  DrainOutlivesSenders'
    BY <1>0, <1>9 DEF RelayClosed
<1>10. ASSUME NEW c \in Conns, Cleanup(c)
      PROVE  DrainOutlivesSenders'
    BY <1>0, <1>10 DEF Cleanup, ServicesWithout, PendingWithout
<1>11. ASSUME NEW c \in Conns, Return(c)
      PROVE  DrainOutlivesSenders'
    BY <1>0, <1>11 DEF Return
<1>12. ASSUME NEW c \in Conns, CallbackPanics(c)
      PROVE  DrainOutlivesSenders'
    BY <1>0, <1>12 DEF CallbackPanics
<1>13. ASSUME NEW c \in Conns, DrainEnd(c)
      PROVE  DrainOutlivesSenders'
    BY <1>0, <1>13 DEF DrainEnd, HasSender
<1>14. ASSUME NEW r \in Reqs, Dispatch(r)
      PROVE  DrainOutlivesSenders'
    <2>1. /\ reqPc[r] = "idle"
          /\ UNCHANGED <<runPc, drain>>
        BY <1>14, DispatchCases
    <2>2. CASE /\ reqPc' = [reqPc EXCEPT ![r] = "done"]
               /\ result' = [result EXCEPT ![r] = "not_connected"]
               /\ UNCHANGED <<pending, reqConn>>
        BY <1>0, <2>1, <2>2 DEF RegisteredIsRelaying
    <2>3. ASSUME NEW c \in Conns,
                 c = services[ServiceOf[r]], ServiceOf[r] \in Services,
                 pending' = [pending EXCEPT ![r] = c],
                 reqConn' = [reqConn EXCEPT ![r] = c],
                 reqPc' = [reqPc EXCEPT ![r] = "sending"],
                 UNCHANGED result
          PROVE  DrainOutlivesSenders'
        BY <1>0, <2>1, <2>3 DEF RegisteredIsRelaying
    <2> QED BY <1>14, <2>2, <2>3, DispatchCases
<1>15. ASSUME NEW r \in Reqs, SendRequest(r)
      PROVE  DrainOutlivesSenders'
    BY <1>0, <1>15 DEF SendRequest
<1>16. ASSUME NEW r \in Reqs, SendLost(r)
      PROVE  DrainOutlivesSenders'
    BY <1>0, <1>16 DEF SendLost, Fail
<1>17. ASSUME NEW r \in Reqs, RecvResponse(r)
      PROVE  DrainOutlivesSenders'
    BY <1>0, <1>17 DEF RecvResponse
<1>18. ASSUME NEW r \in Reqs, RecvDropped(r)
      PROVE  DrainOutlivesSenders'
    BY <1>0, <1>18 DEF RecvDropped, Fail
<1>19. ASSUME NEW r \in Reqs, Timeout(r)
      PROVE  DrainOutlivesSenders'
    BY <1>0, <1>19 DEF Timeout, Fail
<1>20. ASSUME NEW r \in Reqs, Finish(r)
      PROVE  DrainOutlivesSenders'
    BY <1>0, <1>20 DEF Finish
<1>21. ASSUME NEW r \in Reqs, Cancel(r)
      PROVE  DrainOutlivesSenders'
    BY <1>0, <1>21 DEF Cancel
<1> HIDE DEF Conns, NoConn, Relaying, DrainOutlivesSenders, InDispatch,
             FreshConnections
<1> QED
    BY <1>1, <1>2, <1>3, <1>4, <1>5, <1>6, <1>7, <1>8, <1>9, <1>10, <1>11,
       <1>12, <1>13, <1>14, <1>15, <1>16, <1>17, <1>18, <1>19, <1>20, <1>21,
       AdapterFrame, DrainFrame, RequestFrame, RunFrame, RelayRecvFrame
       DEF Next, RunTask, DrainTask, RequestTask, Stopped, vars, Close,
           DrainDeliver

\* An error is told to a caller only when it is true.
LEMMA FailureStep == IInv /\ [Next]_vars => FailureIsTrue'
<1> SUFFICES ASSUME TypeOK, FreshConnections, UntouchedRequests,
                    RequestTargets, WaiterIsServed, DrainOutlivesSenders,
                    FailureIsTrue, [Next]_vars
             PROVE  FailureIsTrue'
    BY DEF IInv
<1> USE ServerAssumption DEF serverVars, connVars, reqVars, Conns, NoConn,
        Relaying, FailureIsTrue, Past, FreshConnections
<1>0. /\ runPc \in [Conns -> RunPcs]
      /\ reqConn \in [Reqs -> 0 .. MaxConns]
      /\ drain \in [Conns -> {"none", "running", "panicked", "ended"}]
      /\ result \in [Reqs -> {"none", "ok"} \cup TunnelErrors]
      /\ nextConnId \in 1 .. MaxConns + 1
    BY DEF TypeOK
<1>1. CASE UNCHANGED <<runPc, reqConn, drain, result>>
    BY <1>1
<1>2. CASE CreateConnection
    BY <1>0, <1>2 DEF CreateConnection
<1>3. ASSUME NEW c \in Conns, Run(c)
      PROVE  FailureIsTrue'
    <2>1. /\ runPc[c] = "created"
          /\ runPc' = [runPc EXCEPT ![c] = "auth"]
          /\ drain' = [drain EXCEPT ![c] = "running"]
          /\ UNCHANGED <<result, reqConn>>
        BY <1>3 DEF Run
    <2>2. ASSUME NEW r \in Reqs, result[r] \in {"disconnected", "connection_lost"}
          PROVE  reqConn[r] \in Conns /\ reqConn[r] # c
        <3>1. reqConn[r] # NoConn
            BY <2>2 DEF UntouchedRequests
        <3>2. runPc[reqConn[r]] \in Relaying \cup Past
            BY <3>1 DEF RequestTargets
        <3> QED BY <1>0, <2>1, <3>1, <3>2
    <2> QED BY <1>0, <2>1, <2>2
<1>4. ASSUME NEW c \in Conns, AuthRecv(c)
      PROVE  FailureIsTrue'
    <2>1. PICK pc \in {"authed", "drain"}, a \in AuthMessages \cup {NoAuth} :
              /\ runPc' = [runPc EXCEPT ![c] = pc]
              /\ auth' = [auth EXCEPT ![c] = a]
              /\ pc = "authed" =>
                    a \in AuthMessages /\ Secret # EmptyToken /\ a.token = Secret
        BY <1>4, AuthRecvOutcome
    <2>2. /\ runPc[c] = "auth"
          /\ UNCHANGED <<drain, reqConn, result>>
        BY <1>4, AuthRecvCases
    <2> QED BY <1>0, <2>1, <2>2
<1>5. ASSUME NEW c \in Conns, AuthTimeout(c)
      PROVE  FailureIsTrue'
    <2>1. /\ runPc[c] = "auth"
          /\ runPc' = [runPc EXCEPT ![c] = "drain"]
          /\ UNCHANGED <<drain, reqConn, result>>
        BY <1>5, AuthTimeoutCases
    <2> QED BY <1>0, <2>1
<1>6. ASSUME NEW c \in Conns, AuthClosed(c)
      PROVE  FailureIsTrue'
    BY <1>0, <1>6 DEF AuthClosed
<1>7. ASSUME NEW c \in Conns, Register(c)
      PROVE  FailureIsTrue'
    BY <1>0, <1>7 DEF Register
<1>8. ASSUME NEW c \in Conns, CloseReplaced(c)
      PROVE  FailureIsTrue'
    BY <1>0, <1>8 DEF CloseReplaced
<1>9. ASSUME NEW c \in Conns, RelayClosed(c)
      PROVE  FailureIsTrue'
    BY <1>0, <1>9 DEF RelayClosed
<1>10. ASSUME NEW c \in Conns, Cleanup(c)
      PROVE  FailureIsTrue'
    BY <1>0, <1>10 DEF Cleanup, ServicesWithout, PendingWithout
<1>11. ASSUME NEW c \in Conns, Return(c)
      PROVE  FailureIsTrue'
    BY <1>0, <1>11 DEF Return
<1>12. ASSUME NEW c \in Conns, CallbackPanics(c)
      PROVE  FailureIsTrue'
    BY <1>0, <1>12 DEF CallbackPanics
<1>13. ASSUME NEW c \in Conns, DrainEnd(c)
      PROVE  FailureIsTrue'
    BY <1>0, <1>13 DEF DrainEnd
<1>14. ASSUME NEW r \in Reqs, Dispatch(r)
      PROVE  FailureIsTrue'
    <2>1. /\ reqPc[r] = "idle"
          /\ UNCHANGED <<runPc, drain>>
        BY <1>14, DispatchCases
    <2>2. CASE /\ reqPc' = [reqPc EXCEPT ![r] = "done"]
               /\ result' = [result EXCEPT ![r] = "not_connected"]
               /\ UNCHANGED <<pending, reqConn>>
        BY <1>0, <2>1, <2>2 DEF UntouchedRequests
    <2>3. ASSUME NEW c \in Conns,
                 c = services[ServiceOf[r]], ServiceOf[r] \in Services,
                 pending' = [pending EXCEPT ![r] = c],
                 reqConn' = [reqConn EXCEPT ![r] = c],
                 reqPc' = [reqPc EXCEPT ![r] = "sending"],
                 UNCHANGED result
          PROVE  FailureIsTrue'
        BY <1>0, <2>1, <2>3 DEF UntouchedRequests
    <2> QED BY <1>14, <2>2, <2>3, DispatchCases
<1>15. ASSUME NEW r \in Reqs, SendLost(r)
      PROVE  FailureIsTrue'
    BY <1>0, <1>15 DEF SendLost, Fail, DrainOutlivesSenders, InDispatch
<1>16. ASSUME NEW r \in Reqs, RecvResponse(r)
      PROVE  FailureIsTrue'
    BY <1>0, <1>16 DEF RecvResponse
<1>17. ASSUME NEW r \in Reqs, RecvDropped(r)
      PROVE  FailureIsTrue'
    BY <1>0, <1>17 DEF RecvDropped, Fail, WaiterIsServed, Listening,
       UntouchedRequests, InDispatch
<1>18. ASSUME NEW r \in Reqs, Timeout(r)
      PROVE  FailureIsTrue'
    BY <1>0, <1>18 DEF Timeout, Fail
<1> HIDE DEF Conns, NoConn, Relaying, FailureIsTrue, Past, FreshConnections
<1> QED
    BY <1>1, <1>2, <1>3, <1>4, <1>5, <1>6, <1>7, <1>8, <1>9, <1>10, <1>11,
       <1>12, <1>13, <1>14, <1>15, <1>16, <1>17, <1>18, AdapterFrame,
       DrainFrame, RequestFrame, RunFrame, RelayRecvFrame
       DEF Next, RunTask, DrainTask, RequestTask, Stopped, vars, Cancel,
           Close, DrainDeliver, Finish, SendRequest

\* A connection that loses its service is closed.
LEMMA ReplacedStep == IInv /\ [Next]_vars => ReplacedIsClosed'
<1> SUFFICES ASSUME TypeOK, FreshConnections, RegisteredIsRelaying,
                    AuthenticatedIfServed, ReplacedIsClosed, [Next]_vars
             PROVE  ReplacedIsClosed'
    BY DEF IInv
<1> USE ServerAssumption DEF serverVars, connVars, reqVars, Conns, NoConn,
        Relaying, ReplacedIsClosed, FreshConnections
<1>0. /\ runPc \in [Conns -> RunPcs]
      /\ services \in [Services -> 0 .. MaxConns]
      /\ auth \in [Conns -> AuthMessages \cup {NoAuth}]
      /\ inTx \in [Conns -> BOOLEAN]
      /\ replaced \in [Conns -> 0 .. MaxConns]
      /\ nextConnId \in 1 .. MaxConns + 1
    BY DEF TypeOK
<1>1. CASE UNCHANGED <<runPc, services, auth, inTx, replaced>>
    BY <1>1
<1>2. CASE CreateConnection
    BY <1>0, <1>2 DEF CreateConnection
<1>3. ASSUME NEW c \in Conns, Close(c)
      PROVE  ReplacedIsClosed'
    BY <1>0, <1>3 DEF Close
<1>4. ASSUME NEW c \in Conns, Run(c)
      PROVE  ReplacedIsClosed'
    BY <1>0, <1>4 DEF Run
<1>5. ASSUME NEW c \in Conns, AuthRecv(c)
      PROVE  ReplacedIsClosed'
    <2>1. PICK pc \in {"authed", "drain"}, a \in AuthMessages \cup {NoAuth} :
              /\ runPc' = [runPc EXCEPT ![c] = pc]
              /\ auth' = [auth EXCEPT ![c] = a]
              /\ pc = "authed" =>
                    a \in AuthMessages /\ Secret # EmptyToken /\ a.token = Secret
        BY <1>5, AuthRecvOutcome
    <2>2. /\ runPc[c] = "auth"
          /\ UNCHANGED <<services, replaced, inTx>>
        BY <1>5, AuthRecvCases
    <2> QED BY <1>0, <2>1, <2>2
<1>6. ASSUME NEW c \in Conns, AuthTimeout(c)
      PROVE  ReplacedIsClosed'
    <2>1. /\ runPc[c] = "auth"
          /\ runPc' = [runPc EXCEPT ![c] = "drain"]
          /\ UNCHANGED <<services, auth, replaced, inTx>>
        BY <1>6, AuthTimeoutCases
    <2> QED BY <1>0, <2>1
<1>7. ASSUME NEW c \in Conns, AuthClosed(c)
      PROVE  ReplacedIsClosed'
    BY <1>0, <1>7 DEF AuthClosed
<1>8. ASSUME NEW c \in Conns, Register(c)
      PROVE  ReplacedIsClosed'
    <2> DEFINE s == auth[c].service
    <2>1. /\ runPc[c] = "authed"
          /\ services' = [services EXCEPT ![s] = c]
          /\ replaced' = [replaced EXCEPT ![c] = services[s]]
          /\ runPc' = [runPc EXCEPT ![c] = IF services[s] = NoConn
                                          THEN "relay" ELSE "closeOld"]
          /\ UNCHANGED <<auth, inTx>>
        BY <1>8 DEF Register
    <2>2. s \in Services
        BY <2>1 DEF AuthenticatedIfServed, Authenticated, AuthMessages, AuthMessage
    <2> HIDE DEF s
    <2> SUFFICES ASSUME NEW e \in Conns,
                        runPc'[e] \in Relaying, services'[auth'[e].service] # e
                 PROVE  \/ ~inTx'[e]
                        \/ \E d \in Conns : runPc'[d] = "closeOld" /\ replaced'[d] = e
        OBVIOUS
    <2>3. e # c
        BY <1>0, <2>1, <2>2 DEF s
    <2>4. runPc[e] \in Relaying
        BY <1>0, <2>1, <2>3
    <2>5. CASE services[auth[e].service] # e
        <3>1. \/ ~inTx[e]
              \/ \E d \in Conns : d # c /\ runPc[d] = "closeOld" /\ replaced[d] = e
            BY <2>1, <2>4, <2>5
        <3> QED BY <1>0, <2>1, <3>1
    <2>6. CASE services[auth[e].service] = e
        <3>1. auth[e].service = s
            BY <1>0, <2>1, <2>2, <2>6
        <3>2. runPc'[c] = "closeOld" /\ replaced'[c] = e
            BY <1>0, <2>1, <2>6, <3>1
        <3> QED BY <3>2
    <2> QED BY <2>5, <2>6
<1>9. ASSUME NEW c \in Conns, CloseReplaced(c)
      PROVE  ReplacedIsClosed'
    BY <1>0, <1>9 DEF CloseReplaced
<1>10. ASSUME NEW c \in Conns, RelayClosed(c)
      PROVE  ReplacedIsClosed'
    BY <1>0, <1>10 DEF RelayClosed
<1>11. ASSUME NEW c \in Conns, Cleanup(c)
      PROVE  ReplacedIsClosed'
    BY <1>0, <1>11 DEF Cleanup, ServicesWithout, RegisteredIsRelaying
<1>12. ASSUME NEW c \in Conns, Return(c)
      PROVE  ReplacedIsClosed'
    BY <1>0, <1>12 DEF Return
<1> HIDE DEF Conns, NoConn, Relaying, ReplacedIsClosed, FreshConnections
<1> QED
    BY <1>1, <1>2, <1>3, <1>4, <1>5, <1>6, <1>7, <1>8, <1>9, <1>10, <1>11,
       <1>12, AdapterFrame, DrainFrame, RequestFrame, RunFrame, RelayRecvFrame
       DEF Next, RunTask, DrainTask, RequestTask, Stopped, vars,
           CallbackPanics, Cancel, Dispatch, DrainDeliver, DrainEnd, Fail,
           Finish, RecvDropped, RecvResponse, SendLost, SendRequest, Timeout

(***************************************************************************)
(* The invariant                                                           *)
(***************************************************************************)

\* Every step of the core keeps it.
LEMMA InvariantStep == IInv /\ [Next]_vars => IInv'
BY TypeStep, FreshStep, QuietStep, RegisteredStep, PendingStep,
   AuthenticatedStep, UntouchedStep, TargetStep, WaiterStep, DrainStep,
   FailureStep, ReplacedStep
   DEF IInv

\* The inductive invariant holds in every state of every behaviour of the
\* core, whatever the frames, the order of the tasks and the failures.
THEOREM Invariance == Spec => []IInv
<1> QED BY InitInvariant, InvariantStep, PTL DEF Spec
=============================================================================
