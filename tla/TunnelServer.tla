---------------------------- MODULE TunnelServer ----------------------------
(***************************************************************************)
(* The core of the tunnel (crates/outpunch/src/server.rs): OutpunchServer, *)
(* with its map of registered services and its map of pending requests,    *)
(* and Connection, one per tunnel client.                                  *)
(*                                                                         *)
(* The processes are the tokio tasks and threads that share this state:    *)
(*   - Connection::run of each connection, and the drain task it spawns;   *)
(*   - the adapter's calls of push_message (several may be under way on    *)
(*     one connection) and close;                                          *)
(*   - one OutpunchServer::dispatch for each HTTP request.                 *)
(* The tokio Mutex around ServerState is never held across an await other  *)
(* than its own acquisition, so each critical section is one atomic step   *)
(* and the lock itself is not modelled.  Every await that can suspend a    *)
(* task for a reason other than the lock is a step boundary.               *)
(***************************************************************************)
EXTENDS Protocol, FiniteSets

CONSTANTS
    Secret,             \* ServerConfig.secret
    MaxConns,           \* bound: connections ever created
    Pushers,            \* bound: concurrent calls of push_message on one connection
    InCap, OutCap,      \* capacity of the two channels of a connection (64)
    Frames,             \* the text frames a client may send
    NoFrame,            \* no push_message call under way
    CallbackMayPanic    \* whether the on_message callback of the embedder can panic

ASSUME ServerAssumption ==
    /\ Secret \in Tokens
    /\ MaxConns \in Nat
    /\ InCap \in Nat \ {0}
    /\ OutCap \in Nat \ {0}
    /\ CallbackMayPanic \in BOOLEAN

ASSUME FrameAssumption ==
    /\ NoFrame \notin Frames
    /\ \A f \in Frames : ParseMessage(f) = "auth" =>
                            /\ f.token \in Tokens
                            /\ f.service \in Services

NoConn == 0
Conns == 1 .. MaxConns

\* No auth message received yet.
NoAuth == [type |-> "none"]

VARIABLES
    \* OutpunchServer
    services,       \* ServerState.services: the connection registered, or NoConn
    pending,        \* ServerState.pending: the connection asked, or NoConn
    nextConnId,     \* next_conn_id
    \* Connection, indexed by its id
    runPc,          \* where its run() is
    auth,           \* the auth message handle_auth received
    replaced,       \* the `replaced' handle of run()
    inTx,           \* whether ConnectionInner.incoming_tx is still Some
    pushing,        \* the frame each push_message call has under way
    inQ,            \* the incoming channel
    outQ,           \* the outgoing channel
    drain,          \* the drain task
    handed,         \* history: the messages given to the callback
    \* dispatch, indexed by the request
    reqPc,          \* where dispatch is
    reqConn,        \* the connection whose outgoing_tx it cloned
    slot,           \* its oneshot: the connection that answered, or NoConn
    result          \* what dispatch returned

serverVars == <<services, pending, nextConnId>>
connVars == <<runPc, auth, replaced, inTx, pushing, inQ, outQ, drain, handed>>
reqVars == <<reqPc, reqConn, slot, result>>
vars == <<services, pending, nextConnId, runPc, auth, replaced, inTx, pushing,
          inQ, outQ, drain, handed, reqPc, reqConn, slot, result>>

(***************************************************************************)
(* Types                                                                   *)
(***************************************************************************)
RunPcs == {"none", "created", "auth", "authed", "closeOld", "relay",
           "cleanup", "drain", "done"}

\* run() has registered the connection and has not yet run its cleanup.
Relaying == {"closeOld", "relay", "cleanup"}

\* run() has gone past its cleanup, or ended without registering.
Past == {"drain", "done"}

ReqPcs == {"idle", "sending", "waiting", "failing", "done", "cancelled"}

\* dispatch holds a clone of the connection's outgoing_tx.
InDispatch == {"sending", "waiting", "failing"}

TunnelErrors == {"not_connected", "connection_lost", "disconnected", "timeout"}

\* Every variable holds a value of its type; the two channels never hold more
\* than their capacity.
TypeOK ==
    /\ services \in [Services -> 0 .. MaxConns]
    /\ pending \in [Reqs -> 0 .. MaxConns]
    /\ nextConnId \in 1 .. MaxConns + 1
    /\ runPc \in [Conns -> RunPcs]
    /\ auth \in [Conns -> AuthMessages \cup {NoAuth}]
    /\ replaced \in [Conns -> 0 .. MaxConns]
    /\ inTx \in [Conns -> BOOLEAN]
    /\ pushing \in [Conns -> [Pushers -> Frames \cup {NoFrame}]]
    /\ inQ \in [Conns -> Seq(Frames)]
    /\ outQ \in [Conns -> Seq(ServerMessages)]
    /\ \A c \in Conns : Len(inQ[c]) =< InCap /\ Len(outQ[c]) =< OutCap
    /\ drain \in [Conns -> {"none", "running", "panicked", "ended"}]
    /\ handed \in [Conns -> SUBSET ServerMessages]
    /\ reqPc \in [Reqs -> ReqPcs]
    /\ reqConn \in [Reqs -> 0 .. MaxConns]
    /\ slot \in [Reqs -> 0 .. MaxConns]
    /\ result \in [Reqs -> {"none", "ok"} \cup TunnelErrors]

Init ==
    /\ services = [s \in Services |-> NoConn]
    /\ pending = [r \in Reqs |-> NoConn]
    /\ nextConnId = 1
    /\ runPc = [c \in Conns |-> "none"]
    /\ auth = [c \in Conns |-> NoAuth]
    /\ replaced = [c \in Conns |-> NoConn]
    /\ inTx = [c \in Conns |-> FALSE]
    /\ pushing = [c \in Conns |-> [p \in Pushers |-> NoFrame]]
    /\ inQ = [c \in Conns |-> <<>>]
    /\ outQ = [c \in Conns |-> <<>>]
    /\ drain = [c \in Conns |-> "none"]
    /\ handed = [c \in Conns |-> {}]
    /\ reqPc = [r \in Reqs |-> "idle"]
    /\ reqConn = [r \in Reqs |-> NoConn]
    /\ slot = [r \in Reqs |-> NoConn]
    /\ result = [r \in Reqs |-> "none"]

(***************************************************************************)
(* The adapter's calls on a connection                                     *)
(***************************************************************************)

\* create_connection; every adapter sets its callback right after it.
CreateConnection ==
    /\ nextConnId \in Conns
    /\ nextConnId' = nextConnId + 1
    /\ runPc' = [runPc EXCEPT ![nextConnId] = "created"]
    /\ inTx' = [inTx EXCEPT ![nextConnId] = TRUE]
    /\ UNCHANGED <<services, pending, auth, replaced, pushing, inQ, outQ,
                   drain, handed, reqVars>>

\* A client can answer a request only once some client was given it: its id
\* is a UUID.
Known(f) ==
    ParseMessage(f) = "response" /\ f.request_id \in Reqs
        => \E d \in Conns : TunnelRequest(f.request_id) \in handed[d]

\* push_message up to its await: the clone of incoming_tx, if it is Some.
PushMessage(c, p, f) ==
    /\ inTx[c]
    /\ pushing[c][p] = NoFrame
    /\ Known(f)
    /\ pushing' = [pushing EXCEPT ![c][p] = f]
    /\ UNCHANGED <<serverVars, runPc, auth, replaced, inTx, inQ, outQ, drain,
                   handed, reqVars>>

\* Mutant: the incoming channel has no bound.
Unbounded(c) == TRUE

\* The incoming channel has room for a frame.
Room(c) == Len(inQ[c]) < InCap

\* tx.send(text).await gets room.
PushSent(c, p) ==
    /\ pushing[c][p] # NoFrame
    /\ runPc[c] # "done"
    /\ Room(c)
    /\ inQ' = [inQ EXCEPT ![c] = Append(@, pushing[c][p])]
    /\ pushing' = [pushing EXCEPT ![c][p] = NoFrame]
    /\ UNCHANGED <<serverVars, runPc, auth, replaced, inTx, outQ, drain,
                   handed, reqVars>>

\* The push_message call of pusher p ends without sending its frame.
PushEnds(c, p) ==
    /\ pushing[c][p] # NoFrame
    /\ pushing' = [pushing EXCEPT ![c][p] = NoFrame]
    /\ UNCHANGED <<serverVars, runPc, auth, replaced, inTx, inQ, outQ, drain,
                   handed, reqVars>>

\* tx.send(text).await fails because run() dropped the receiver.
PushFailed(c, p) == runPc[c] = "done" /\ PushEnds(c, p)

\* The push_message future is dropped: the adapter aborts its read task, or
\* Ruby raises in the thread that called it.
PushCancelled(c, p) == PushEnds(c, p)

\* close: take incoming_tx.
Close(c) ==
    /\ inTx[c]
    /\ inTx' = [inTx EXCEPT ![c] = FALSE]
    /\ UNCHANGED <<serverVars, runPc, auth, replaced, pushing, inQ, outQ,
                   drain, handed, reqVars>>

(***************************************************************************)
(* Connection::run                                                         *)
(***************************************************************************)

\* Every sender of the incoming channel is gone and it is empty: recv() is None.
IncomingClosed(c) ==
    /\ inQ[c] = <<>>
    /\ ~inTx[c]
    /\ \A p \in Pushers : pushing[c][p] = NoFrame

\* run takes run_state and spawns the drain task.
Run(c) ==
    /\ runPc[c] = "created"
    /\ runPc' = [runPc EXCEPT ![c] = "auth"]
    /\ drain' = [drain EXCEPT ![c] = "running"]
    /\ UNCHANGED <<serverVars, auth, replaced, inTx, pushing, inQ, outQ,
                   handed, reqVars>>

\* Mutant: a client that authenticates gets no answer.
ReplyErrorsOnly(c, msg, pc) ==
    /\ outQ' = IF msg = AuthOk THEN outQ
                               ELSE [outQ EXCEPT ![c] = Append(@, msg)]
    /\ runPc' = [runPc EXCEPT ![c] = pc]

\* outgoing_tx.send(..).await of handle_auth, which never waits: nothing was
\* sent on this channel before.
Reply(c, msg, pc) ==
    /\ outQ' = [outQ EXCEPT ![c] = Append(@, msg)]
    /\ runPc' = [runPc EXCEPT ![c] = pc]

\* Mutant: the token is not compared.
AnyToken(token) == Secret # EmptyToken

ValidToken(token) == Secret # EmptyToken /\ token = Secret

\* handle_auth receives the first frame.
AuthRecv(c) ==
    /\ runPc[c] = "auth"
    /\ inQ[c] # <<>>
    /\ inQ' = [inQ EXCEPT ![c] = Tail(@)]
    /\ LET raw == Head(inQ[c]) IN
       IF ParseMessage(raw) # "auth"
       THEN /\ Reply(c, AuthError("expected auth message"), "drain")
            /\ UNCHANGED auth
       ELSE /\ auth' = [auth EXCEPT ![c] = AuthMessage(raw.token, raw.service)]
            /\ IF ValidToken(raw.token)
               THEN Reply(c, AuthOk, "authed")
               ELSE Reply(c, AuthError("invalid token"), "drain")
    /\ UNCHANGED <<serverVars, replaced, inTx, pushing, drain, handed, reqVars>>

\* Mutant: the auth message is awaited without a timeout.
NoAuthTimeout(c) == FALSE

\* auth_timeout elapses.  timeout() polls recv() first, so a frame may have
\* arrived since that poll.
AuthTimeout(c) ==
    /\ runPc[c] = "auth"
    /\ Reply(c, AuthError("auth timeout"), "drain")
    /\ UNCHANGED <<serverVars, auth, replaced, inTx, pushing, inQ, drain,
                   handed, reqVars>>

\* The connection is closed before its auth message: raw? returns None.
AuthClosed(c) ==
    /\ runPc[c] = "auth"
    /\ IncomingClosed(c)
    /\ runPc' = [runPc EXCEPT ![c] = "drain"]
    /\ UNCHANGED <<serverVars, auth, replaced, inTx, pushing, inQ, outQ, drain,
                   handed, reqVars>>

\* services.insert under the lock; the handle it returns is `replaced'.
Register(c) ==
    /\ runPc[c] = "authed"
    /\ LET s == auth[c].service IN
       /\ services' = [services EXCEPT ![s] = c]
       /\ replaced' = [replaced EXCEPT ![c] = services[s]]
       /\ runPc' = [runPc EXCEPT ![c] = IF services[s] = NoConn THEN "relay"
                                                               ELSE "closeOld"]
    /\ UNCHANGED <<pending, nextConnId, auth, inTx, pushing, inQ, outQ, drain,
                   handed, reqVars>>

\* Mutant: the replaced connection is left open.
DropReplaced(c) ==
    /\ runPc[c] = "closeOld"
    /\ replaced' = [replaced EXCEPT ![c] = NoConn]
    /\ runPc' = [runPc EXCEPT ![c] = "relay"]
    /\ UNCHANGED <<serverVars, auth, inTx, pushing, inQ, outQ, drain, handed,
                   reqVars>>

\* Outside the lock: the replaced connection's incoming_tx is taken and the
\* handle dropped.  Its run() still borrows it, so upgrade() succeeds.
CloseReplaced(c) ==
    /\ runPc[c] = "closeOld"
    /\ inTx' = [inTx EXCEPT ![replaced[c]] = FALSE]
    /\ replaced' = [replaced EXCEPT ![c] = NoConn]
    /\ runPc' = [runPc EXCEPT ![c] = "relay"]
    /\ UNCHANGED <<serverVars, auth, pushing, inQ, outQ, drain, handed, reqVars>>

\* The receiver of the oneshot is dropped when dispatch stops waiting for it.
Listening(r) == reqPc[r] \in {"sending", "waiting"}

\* Mutant: whichever connection answers is believed.
AnswersAny(c, raw) ==
    /\ ParseMessage(raw) = "response"
    /\ raw.request_id \in Reqs
    /\ pending[raw.request_id] # NoConn

\* Frame raw answers a request that was sent to connection c.
Answers(c, raw) ==
    /\ ParseMessage(raw) = "response"
    /\ raw.request_id \in Reqs
    /\ pending[raw.request_id] = c

\* The relay loop receives a frame.  Everything but the response to a pending
\* request of this very connection is ignored.
RelayRecv(c) ==
    /\ runPc[c] = "relay"
    /\ inQ[c] # <<>>
    /\ inQ' = [inQ EXCEPT ![c] = Tail(@)]
    /\ LET raw == Head(inQ[c]) IN
       IF Answers(c, raw)
       THEN /\ pending' = [pending EXCEPT ![raw.request_id] = NoConn]
            /\ slot' = [slot EXCEPT ![raw.request_id] =
                            IF Listening(raw.request_id) THEN c ELSE @]
       ELSE UNCHANGED <<pending, slot>>
    /\ UNCHANGED <<services, nextConnId, runPc, auth, replaced, inTx, pushing,
                   outQ, drain, handed, reqPc, reqConn, result>>

\* The relay loop ends.
RelayClosed(c) ==
    /\ runPc[c] = "relay"
    /\ IncomingClosed(c)
    /\ runPc' = [runPc EXCEPT ![c] = "cleanup"]
    /\ UNCHANGED <<serverVars, auth, replaced, inTx, pushing, inQ, outQ, drain,
                   handed, reqVars>>

\* Mutants: cleanup leaves the service, or removes it whoever is registered.
ServicesLeft(c) == services
ServiceRemoved(c) == [services EXCEPT ![auth[c].service] = NoConn]

\* cleanup_connection removes the service only if it is still this connection's.
ServicesWithout(c) ==
    [services EXCEPT ![auth[c].service] = IF @ = c THEN NoConn ELSE @]

\* Mutant: cleanup leaves the pending requests to their timeouts.
PendingLeft(c) == pending

\* It drops the pending entries of this connection.
PendingWithout(c) ==
    [r \in Reqs |-> IF pending[r] = c THEN NoConn ELSE pending[r]]

\* cleanup_connection, then drop(outgoing_tx).
Cleanup(c) ==
    /\ runPc[c] = "cleanup"
    /\ services' = ServicesWithout(c)
    /\ pending' = PendingWithout(c)
    /\ runPc' = [runPc EXCEPT ![c] = "drain"]
    /\ UNCHANGED <<nextConnId, auth, replaced, inTx, pushing, inQ, outQ, drain,
                   handed, reqVars>>

\* drain_handle.await returns, with a JoinError after a panic; the incoming
\* receiver is dropped with the frames it still holds.
Return(c) ==
    /\ runPc[c] = "drain"
    /\ drain[c] \in {"ended", "panicked"}
    /\ runPc' = [runPc EXCEPT ![c] = "done"]
    /\ inQ' = [inQ EXCEPT ![c] = <<>>]
    /\ UNCHANGED <<serverVars, auth, replaced, inTx, pushing, outQ, drain,
                   handed, reqVars>>

(***************************************************************************)
(* The drain task                                                          *)
(***************************************************************************)

\* Mutant: dispatch sends through the map and holds no sender of its own.
HasSenderInMaps(c) ==
    \/ runPc[c] \in {"auth", "authed"} \cup Relaying
    \/ \E s \in Services : services[s] = c

\* Mutant: run() awaits the drain task before it drops its sender.
HasSenderUndropped(c) ==
    \/ runPc[c] \in {"auth", "authed", "drain"} \cup Relaying
    \/ \E s \in Services : services[s] = c
    \/ \E d \in Conns : runPc[d] = "closeOld" /\ replaced[d] = c
    \/ \E r \in Reqs : reqPc[r] \in InDispatch /\ reqConn[r] = c

\* Someone still holds a sender of the outgoing channel: run() itself, the
\* services map, a handle just replaced and not yet dropped, a dispatch.
HasSender(c) ==
    \/ runPc[c] \in {"auth", "authed"} \cup Relaying
    \/ \E s \in Services : services[s] = c
    \/ \E d \in Conns : runPc[d] = "closeOld" /\ replaced[d] = c
    \/ \E r \in Reqs : reqPc[r] \in InDispatch /\ reqConn[r] = c

\* outgoing_rx.recv() returns a message and the callback is given it.
DrainDeliver(c) ==
    /\ drain[c] = "running"
    /\ outQ[c] # <<>>
    /\ handed' = [handed EXCEPT ![c] = @ \cup {Head(outQ[c])}]
    /\ outQ' = [outQ EXCEPT ![c] = Tail(@)]
    /\ UNCHANGED <<serverVars, runPc, auth, replaced, inTx, pushing, inQ, drain,
                   reqVars>>

\* The callback panics: the task ends and drops the receiver and the queue.
CallbackPanics(c) ==
    /\ CallbackMayPanic
    /\ drain[c] = "running"
    /\ outQ[c] # <<>>
    /\ drain' = [drain EXCEPT ![c] = "panicked"]
    /\ outQ' = [outQ EXCEPT ![c] = <<>>]
    /\ UNCHANGED <<serverVars, runPc, auth, replaced, inTx, pushing, inQ, handed,
                   reqVars>>

\* outgoing_rx.recv() returns None.
DrainEnd(c) ==
    /\ drain[c] = "running"
    /\ outQ[c] = <<>>
    /\ ~HasSender(c)
    /\ drain' = [drain EXCEPT ![c] = "ended"]
    /\ UNCHANGED <<serverVars, runPc, auth, replaced, inTx, pushing, inQ, outQ,
                   handed, reqVars>>

(***************************************************************************)
(* OutpunchServer::dispatch                                                *)
(***************************************************************************)

\* handle_request, up to the end of the critical section.
Dispatch(r) ==
    /\ reqPc[r] = "idle"
    /\ LET c == services[ServiceOf[r]] IN
       IF c = NoConn
       THEN /\ reqPc' = [reqPc EXCEPT ![r] = "done"]
            /\ result' = [result EXCEPT ![r] = "not_connected"]
            /\ UNCHANGED <<pending, reqConn>>
       ELSE /\ pending' = [pending EXCEPT ![r] = c]
            /\ reqConn' = [reqConn EXCEPT ![r] = c]
            /\ reqPc' = [reqPc EXCEPT ![r] = "sending"]
            /\ UNCHANGED result
    /\ UNCHANGED <<services, nextConnId, connVars, slot>>

\* Mutant: the connection is looked up again once there is room.
SendsToRegistered(r) ==
    /\ reqPc[r] = "sending"
    /\ LET c == services[ServiceOf[r]] IN
       /\ c # NoConn
       /\ drain[c] = "running"
       /\ Len(outQ[c]) < OutCap
       /\ outQ' = [outQ EXCEPT ![c] = Append(@, TunnelRequest(r))]
    /\ reqPc' = [reqPc EXCEPT ![r] = "waiting"]
    /\ UNCHANGED <<serverVars, runPc, auth, replaced, inTx, pushing, inQ, drain,
                   handed, reqConn, slot, result>>

\* outgoing_tx.send(json).await gets room.
SendRequest(r) ==
    /\ reqPc[r] = "sending"
    /\ LET c == reqConn[r] IN
       /\ drain[c] = "running"
       /\ Len(outQ[c]) < OutCap
       /\ outQ' = [outQ EXCEPT ![c] = Append(@, TunnelRequest(r))]
    /\ reqPc' = [reqPc EXCEPT ![r] = "waiting"]
    /\ UNCHANGED <<serverVars, runPc, auth, replaced, inTx, pushing, inQ, drain,
                   handed, reqConn, slot, result>>

\* The exchange failed: the entry is removed in Finish.
Fail(r, err) ==
    /\ reqPc' = [reqPc EXCEPT ![r] = "failing"]
    /\ result' = [result EXCEPT ![r] = err]
    /\ UNCHANGED <<serverVars, connVars, reqConn, slot>>

\* Mutant: a lost connection is reported as a disconnect.
SendDisconnected(r) ==
    /\ reqPc[r] = "sending"
    /\ drain[reqConn[r]] \in {"ended", "panicked"}
    /\ Fail(r, "disconnected")

\* outgoing_tx.send(json).await finds the receiver dropped.
SendLost(r) ==
    /\ reqPc[r] = "sending"
    /\ drain[reqConn[r]] \in {"ended", "panicked"}
    /\ Fail(r, "connection_lost")

\* resp_rx.await finds a response.
RecvResponse(r) ==
    /\ reqPc[r] = "waiting"
    /\ slot[r] # NoConn
    /\ reqPc' = [reqPc EXCEPT ![r] = "done"]
    /\ result' = [result EXCEPT ![r] = "ok"]
    /\ UNCHANGED <<serverVars, connVars, reqConn, slot>>

\* resp_rx.await finds the sender dropped: the pending entry is gone and
\* nothing was sent.
RecvDropped(r) ==
    /\ reqPc[r] = "waiting"
    /\ pending[r] = NoConn
    /\ slot[r] = NoConn
    /\ Fail(r, "disconnected")

\* Mutant: the timeout covers only the wait for the response.
TimeoutWaiting(r) == reqPc[r] = "waiting" /\ Fail(r, "timeout")

\* The timeout elapses.  timeout() polls the exchange first, so the response
\* may have arrived since that poll.
Timeout(r) ==
    /\ reqPc[r] \in {"sending", "waiting"}
    /\ Fail(r, "timeout")

\* Mutant: a failed exchange leaves its pending entry.
FinishKeepsPending(r) ==
    /\ reqPc[r] = "failing"
    /\ reqPc' = [reqPc EXCEPT ![r] = "done"]
    /\ UNCHANGED <<serverVars, connVars, reqConn, slot, result>>

\* pending.remove under the lock; dispatch returns and drops its outgoing_tx.
Finish(r) ==
    /\ reqPc[r] = "failing"
    /\ pending' = [pending EXCEPT ![r] = NoConn]
    /\ reqPc' = [reqPc EXCEPT ![r] = "done"]
    /\ UNCHANGED <<services, nextConnId, connVars, reqConn, slot, result>>

\* The future of dispatch is dropped at one of its awaits: the HTTP caller of
\* the axum adapter went away, or Ruby aborted the task.
Cancel(r) ==
    /\ reqPc[r] \in InDispatch
    /\ reqPc' = [reqPc EXCEPT ![r] = "cancelled"]
    /\ UNCHANGED <<serverVars, connVars, reqConn, slot, result>>

(***************************************************************************)
(* The specification                                                       *)
(***************************************************************************)
Adapter(c) ==
    \/ \E p \in Pushers : \/ \E f \in Frames : PushMessage(c, p, f)
                          \/ PushSent(c, p)
                          \/ PushFailed(c, p)
                          \/ PushCancelled(c, p)
    \/ Close(c)

RunTask(c) ==
    \/ Run(c) \/ AuthRecv(c) \/ AuthClosed(c) \/ Register(c) \/ CloseReplaced(c)
    \/ RelayRecv(c) \/ RelayClosed(c) \/ Cleanup(c) \/ Return(c)

DrainTask(c) == DrainDeliver(c) \/ DrainEnd(c)

RequestTask(r) ==
    \/ SendRequest(r) \/ SendLost(r) \/ RecvResponse(r) \/ RecvDropped(r)
    \/ Finish(r)

\* Every connection has ended and every request was answered or dropped.
Stopped ==
    /\ nextConnId \notin Conns
    /\ \A c \in Conns : runPc[c] = "done"
    /\ \A r \in Reqs : reqPc[r] \in {"done", "cancelled"}
    /\ UNCHANGED vars

Next ==
    \/ CreateConnection
    \/ \E c \in Conns : \/ Adapter(c) \/ RunTask(c) \/ AuthTimeout(c)
                        \/ DrainTask(c) \/ CallbackPanics(c)
    \/ \E r \in Reqs : \/ Dispatch(r) \/ RequestTask(r) \/ Timeout(r) \/ Cancel(r)
    \/ Stopped

Spec == Init /\ [][Next]_vars

(***************************************************************************)
(* Safety.  The hazards are the races between the connection a request was *)
(* sent to, the connection that replaces it and the request's own timeout. *)
(***************************************************************************)

\* services names, for each service, a connection whose run() registered for
\* that service and has not yet cleaned up: no entry outlives its connection,
\* in whatever order connections are replaced and closed.
RegisteredIsRelaying ==
    \A s \in Services : services[s] # NoConn =>
        /\ runPc[services[s]] \in Relaying
        /\ auth[services[s]].service = s

\* Only a client that presented the configured, non-empty secret ever gets a
\* service, the auth_ok message or a request.
OnlyAuthenticated ==
    \A c \in Conns :
        \/ runPc[c] \in {"authed"} \cup Relaying
        \/ \E s \in Services : services[s] = c
        \/ \E m \in handed[c] : m.type \in {"auth_ok", "request"}
        => Secret # EmptyToken /\ auth[c].token = Secret

\* An entry of pending names the connection its request was sent to, and that
\* connection has not cleaned up: cleanup leaves no entry behind and no later
\* entry can be made for it.
PendingOnLiveConnection ==
    \A r \in Reqs : pending[r] # NoConn =>
        /\ pending[r] = reqConn[r]
        /\ runPc[pending[r]] \in Relaying

\* A caller gets a response only from the connection its request was sent to,
\* a connection authenticated for the service the caller asked for, whose
\* client was given the request.
ResponseFromTarget ==
    \A r \in Reqs : result[r] = "ok" =>
        /\ slot[r] = reqConn[r]
        /\ auth[slot[r]].service = ServiceOf[r]
        /\ TunnelRequest(r) \in handed[slot[r]]

\* Where request r is in the outgoing channel of connection c.
Places(r, c) == {i \in 1 .. Len(outQ[c]) : outQ[c][i] = TunnelRequest(r)}

\* A request reaches one client at most, and reaches it once: the client of the
\* connection it was sent to, authenticated for its service.  Neither a
\* replacement while dispatch waits for room nor a timeout sends it again.
RequestsArriveOnce ==
    \A r \in Reqs, c \in Conns :
        /\ TunnelRequest(r) \in handed[c] \/ Places(r, c) # {} =>
              reqConn[r] = c /\ auth[c].service = ServiceOf[r]
        /\ TunnelRequest(r) \in handed[c] => Places(r, c) = {}
        /\ \A i, j \in Places(r, c) : i = j

\* A connection that relays without being the one registered has been closed,
\* or the run() that replaced it is about to close it.
ReplacedIsClosed ==
    \A c \in Conns :
        /\ runPc[c] \in Relaying
        /\ services[auth[c].service] # c
        => \/ ~inTx[c]
           \/ \E d \in Conns : runPc[d] = "closeOld" /\ replaced[d] = c

\* The first thing a client reads is the answer to its auth message: no
\* request reaches it before auth_ok, although requests are sent by other
\* tasks as soon as it is registered.
AuthOkFirst ==
    \A c \in Conns :
        (\E r \in Reqs : TunnelRequest(r) \in handed[c]) => AuthOk \in handed[c]

\* A request fails with Disconnected only when the connection it was sent to
\* has really ended, and with ConnectionLost only when the embedder's callback
\* panicked: the drain task never ends while a dispatch may send to it.
FailureIsTrue ==
    \A r \in Reqs :
        /\ result[r] = "disconnected" => runPc[reqConn[r]] \in Past
        /\ result[r] = "connection_lost" => drain[reqConn[r]] = "panicked"

\* While dispatch waits, the answer can still come or has come, or its
\* connection has cleaned up: no order of timeouts, answers, replacements and
\* cleanups leaves a caller with nothing to wait for but its timeout.
WaiterIsServed ==
    \A r \in Reqs : Listening(r) =>
        \/ pending[r] = reqConn[r]
        \/ slot[r] = reqConn[r]
        \/ runPc[reqConn[r]] \in Past

(***************************************************************************)
(* Action properties                                                       *)
(***************************************************************************)

\* A service becomes unavailable only when the connection registered for it
\* cleans up: the late disconnect of a replaced connection leaves it alone.
StaleDisconnectHarmless ==
    [][\A s \in Services :
          services[s] # NoConn /\ services'[s] = NoConn
            => runPc[services[s]] = "cleanup" /\ runPc'[services[s]] = "drain"]_vars

\* What a caller was told stays: a late response, a cleanup or a second
\* connection changes neither a final result nor the pending entry of a
\* request that has returned.
ResultIsFinal ==
    [][\A r \in Reqs : reqPc[r] = "done" =>
          result'[r] = result[r] /\ pending'[r] = NoConn]_vars

(***************************************************************************)
(* Liveness                                                                *)
(***************************************************************************)

\* tokio runs every task that can make progress, and a frame handed to
\* push_message is sent as soon as there is room.  Nothing is assumed of the
\* client, of the adapter's close() or of the request timeout.
PushFair(c, p) == WF_vars(PushSent(c, p) \/ PushFailed(c, p))
TaskFair(c) ==
    WF_vars(RunTask(c)) /\ WF_vars(DrainTask(c)) /\ WF_vars(AuthTimeout(c))
ServeFair(r) == WF_vars(RequestTask(r))

TaskFairness ==
    /\ \A c \in Conns : TaskFair(c)
    /\ \A c \in Conns, p \in Pushers : PushFair(c, p)
    /\ \A r \in Reqs : ServeFair(r)

\* Only dispatch and its timer run: a client that never reads, a callback
\* that blocks the drain task, a run() that is never scheduled are allowed.
TimerFair(r) == ServeFair(r) /\ WF_vars(Timeout(r))
TimerFairness == \A r \in Reqs : TimerFair(r)

Called(r) == reqPc[r] # "idle"
Returned(r) == reqPc[r] \in {"done", "cancelled"}

\* Every request returns, whatever the client, the other connections and the
\* drain task do: the timeout covers the wait for room in the outgoing
\* channel as well as the wait for the response.
RequestsReturn ==
    TimerFairness => \A r \in Reqs : Called(r) ~> Returned(r)

\* Requests waiting on a connection that has ended fail at once, without the
\* help of their timeout.
FailFast == TaskFairness =>
    \A r \in Reqs, c \in Conns :
        reqConn[r] = c /\ runPc[c] \in Past ~> Returned(r)

\* A closed connection ends: its run() returns although it waits for the
\* drain task, which waits for every dispatch that holds the outgoing channel,
\* and those wait for room or for the cleanup of run().
CloseEnds == TaskFairness =>
    \A c \in Conns : runPc[c] # "none" /\ ~inTx[c] ~> runPc[c] = "done"

\* A replaced connection ends by itself, even if its client is gone and its
\* adapter never calls close().
ReplacedEnds == TaskFairness =>
    \A c \in Conns :
        runPc[c] \in Relaying /\ services[auth[c].service] # c
            ~> runPc[c] = "done"

InAuth(c) == runPc[c] = "auth"
Settled(c) == runPc[c] \in Relaying \cup {"done"}

\* A client that does not authenticate is turned away: it does not hold its
\* connection open.
UnauthenticatedEnds == TaskFairness =>
    \A c \in Conns : InAuth(c) ~> Settled(c)

(***************************************************************************)
(* What each task waits for                                                *)
(***************************************************************************)

\* run() of connection c is not suspended, or what it awaits has come.
CanRun(c) ==
    \/ runPc[c] \in {"created", "authed", "closeOld", "cleanup"}
    \/ runPc[c] \in {"auth", "relay"} /\ (inQ[c] # <<>> \/ IncomingClosed(c))
    \/ runPc[c] = "drain" /\ drain[c] \in {"ended", "panicked"}

\* The drain task has a message to deliver, or nobody left to wait for.
CanDrain(c) == drain[c] = "running" /\ (outQ[c] # <<>> \/ ~HasSender(c))

\* A push_message call has room, or nobody to send to.
CanPush(c, p) == pushing[c][p] # NoFrame /\ (Room(c) \/ runPc[c] = "done")

\* dispatch has room for its request, or its outcome.
CanServe(r) ==
    \/ /\ reqPc[r] = "sending"
       /\ drain[reqConn[r]] = "running" => Len(outQ[reqConn[r]]) < OutCap
    \/ reqPc[r] = "waiting" /\ (slot[r] # NoConn \/ pending[r] = NoConn)
    \/ reqPc[r] = "failing"

\* A task that connection c, or a caller that waits for it, depends on can
\* take a step; what it awaits has come.
Moves(c) ==
    \/ CanRun(c) \/ CanDrain(c)
    \/ runPc[c] = "auth"
    \/ \E p \in Pushers : CanPush(c, p)
    \/ \E r \in Reqs : reqConn[r] = c /\ CanServe(r)
    \/ \E d \in Conns : runPc[d] = "closeOld" /\ replaced[d] = c

\* The connection relays and every frame and message it had is passed on: only
\* its client, its adapter or a new request can make it move.
Idle(c) ==
    /\ runPc[c] = "relay" /\ inTx[c]
    /\ inQ[c] = <<>> /\ outQ[c] = <<>>
    /\ \A p \in Pushers : pushing[c][p] = NoFrame

\* The request was given to the client, unless the callback panicked.
GivenToClient(r) ==
    TunnelRequest(r) \in handed[reqConn[r]] \/ drain[reqConn[r]] = "panicked"

\* Nobody waits in a circle: run() waits for the drain task, the drain task for
\* every dispatch that can still send, a dispatch for room or for the answer
\* that run() passes on, and push_message for run() to read.  A connection that
\* has not ended moves on, without the help of a request's timer, or waits for
\* its client.  A dispatch that moves on no more has its request with a client
\* whose connection is open and idle.
NothingStuck ==
    /\ \A c \in Conns : runPc[c] \notin {"none", "done"} => Moves(c) \/ Idle(c)
    /\ \A r \in Reqs : reqPc[r] \in InDispatch =>
          \/ Moves(reqConn[r])
          \/ reqPc[r] = "waiting" /\ Idle(reqConn[r]) /\ GivenToClient(r)

(***************************************************************************)
(* Claims of the docs, comments and tests that the code does not keep      *)
(***************************************************************************)

\* A client that has read auth_ok and is still open finds its service
\* connected, as the adapter's tests expect.  handle_auth sends auth_ok before
\* run() registers the service, and the drain task may deliver it at once.
AuthOkMeansConnected ==
    \A c \in Conns :
        AuthOk \in handed[c] /\ inTx[c] /\ runPc[c] \notin Past
            => services[auth[c].service] # NoConn

\* The pending entry of a request is removed whichever way its caller stops
\* waiting.  dispatch removes it after its await, so a dispatch that is dropped
\* there leaves it in the map.
PendingHasCaller ==
    \A r \in Reqs : pending[r] # NoConn => reqPc[r] \in InDispatch
=============================================================================
