----------------------------- MODULE NodeBridge -----------------------------
(***************************************************************************)
(* The Node adapter (bindings/node/js/server.ts) over the native module    *)
(* (bindings/node/src/lib.rs): handleUpgrade connects one WebSocket of the *)
(* `ws' library to one connection of the core, composed with the core.     *)
(*                                                                         *)
(* The event handlers run one at a time on the JavaScript thread and wait  *)
(* for nothing: pushMessage() spawns a future on the tokio runtime and its *)
(* promise is dropped, so several run concurrently, in any order.  What    *)
(* the runtime has for JavaScript comes back through two queues that are   *)
(* not ordered with each other: calls of the onMessage callback, and the   *)
(* promise of run().                                                       *)
(***************************************************************************)
EXTENDS TunnelServer, Functions

VARIABLES
    ws,         \* the WebSocket; "left" once the client's close frame was read
    spawned,    \* the frame of each pushMessage future not polled yet
    calls,      \* calls of the callback queued for the JavaScript thread
    sent        \* history: the messages given to ws.send

nodeVars == <<ws, spawned, calls, sent>>
allVars == <<vars, nodeVars>>

\* Every variable of the adapter holds a value of its type.
NodeTypeOK ==
    /\ ws \in [Conns -> {"none", "open", "closing", "left", "closed"}]
    /\ spawned \in [Conns -> [Pushers -> Frames \cup {NoFrame}]]
    /\ calls \in [Conns -> Seq(ServerMessages)]
    /\ sent \in [Conns -> SUBSET ServerMessages]

NodeInit ==
    /\ Init
    /\ ws = [c \in Conns |-> "none"]
    /\ spawned = [c \in Conns |-> [p \in Pushers |-> NoFrame]]
    /\ calls = [c \in Conns |-> <<>>]
    /\ sent = [c \in Conns |-> {}]

(***************************************************************************)
(* The JavaScript thread                                                   *)
(***************************************************************************)

\* handleUpgrade: the connection, its callback, the handlers and run().
HandleUpgrade ==
    /\ CreateConnection
    /\ ws' = [ws EXCEPT ![nextConnId] = "open"]
    /\ UNCHANGED <<spawned, calls, sent>>

\* A pushMessage future that is neither spawned nor running.
Free(c) == {p \in Pushers : spawned[c][p] = NoFrame /\ pushing[c][p] = NoFrame}

\* ws.on('message'): pushMessage spawns a future.
OnMessage(c, f) ==
    /\ ws[c] \in {"open", "closing"}
    /\ Known(f)
    /\ Free(c) # {}
    /\ LET p == CHOOSE p \in Free(c) : TRUE IN
       spawned' = [spawned EXCEPT ![c][p] = f]
    /\ UNCHANGED <<vars, ws, calls, sent>>

\* Mutant: close is left to the end of run().
OnCloseIgnored(c) ==
    /\ ws[c] \in {"open", "closing", "left"}
    /\ ws' = [ws EXCEPT ![c] = "closed"]
    /\ UNCHANGED <<vars, spawned, calls, sent>>

\* ws.on('close'): the socket is gone.
OnClose(c) ==
    /\ ws[c] \in {"open", "closing", "left"}
    /\ ws' = [ws EXCEPT ![c] = "closed"]
    /\ IF inTx[c] THEN Close(c) ELSE UNCHANGED vars
    /\ UNCHANGED <<spawned, calls, sent>>

\* Mutant: nothing is sent once run() has returned.
SendsWhileRunning(c) ==
    /\ calls[c] # <<>>
    /\ calls' = [calls EXCEPT ![c] = Tail(@)]
    /\ sent' = IF ws[c] = "open" /\ runPc[c] # "done"
               THEN [sent EXCEPT ![c] = @ \cup {Head(calls[c])}] ELSE sent
    /\ UNCHANGED <<vars, ws, spawned>>

\* onMessage: ws.send, unless the WebSocket is closed or closing.
Callback(c) ==
    /\ calls[c] # <<>>
    /\ calls' = [calls EXCEPT ![c] = Tail(@)]
    /\ sent' = IF ws[c] = "open"
               THEN [sent EXCEPT ![c] = @ \cup {Head(calls[c])}] ELSE sent
    /\ UNCHANGED <<vars, ws, spawned>>

\* The promise of run() settles: ws.close().
RunSettles(c) ==
    /\ runPc[c] = "done"
    /\ ws[c] = "open"
    /\ ws' = [ws EXCEPT ![c] = "closing"]
    /\ UNCHANGED <<vars, spawned, calls, sent>>

(***************************************************************************)
(* The native module                                                       *)
(***************************************************************************)

\* The runtime polls a future of pushMessage for the first time.  It drops its
\* frame if the connection is closed.
FirstPoll(c, p) ==
    /\ spawned[c][p] # NoFrame
    /\ IF inTx[c] THEN PushMessage(c, p, spawned[c][p]) ELSE UNCHANGED vars
    /\ spawned' = [spawned EXCEPT ![c][p] = NoFrame]
    /\ UNCHANGED <<ws, calls, sent>>

\* Mutant: the frame is dropped when the channel has no room.
PushTries(c, p) ==
    /\ PushSent(c, p) \/ PushFailed(c, p) \/ (~Room(c) /\ PushEnds(c, p))
    /\ UNCHANGED nodeVars

\* The future ends.
PushReturns(c, p) ==
    /\ PushSent(c, p) \/ PushFailed(c, p)
    /\ UNCHANGED nodeVars

\* The drain task calls the threadsafe function, which queues the call.
Deliver(c) ==
    /\ DrainDeliver(c)
    /\ calls' = [calls EXCEPT ![c] = Append(@, Head(outQ[c]))]
    /\ UNCHANGED <<ws, spawned, sent>>

\* Steps of the core the adapter does not see.  No dispatch is dropped: the
\* future of handleRequest runs to its end whoever waits for its promise.
CoreStep ==
    /\ \/ \E c \in Conns : RunTask(c) \/ AuthTimeout(c) \/ DrainEnd(c)
       \/ \E r \in Reqs : Dispatch(r) \/ RequestTask(r) \/ Timeout(r)
    /\ UNCHANGED nodeVars

\* A connection beyond the bound registers for the service of this one, and
\* closes it.
ReplacedFromOutside(c) ==
    /\ runPc[c] = "relay"
    /\ Close(c)
    /\ UNCHANGED nodeVars

(***************************************************************************)
(* The client                                                              *)
(***************************************************************************)

\* Its close frame is read; `ws' replies and closes the socket.
ClientLeaves(c) ==
    /\ ws[c] = "open"
    /\ ws' = [ws EXCEPT ![c] = "left"]
    /\ UNCHANGED <<vars, spawned, calls, sent>>

(***************************************************************************)
(* The specification                                                       *)
(***************************************************************************)
\* `ws' destroys a socket whose closing handshake takes more than 30 seconds.
CloseTimer(c) == ws[c] # "open" /\ OnClose(c)

NodeStopped ==
    /\ Stopped
    /\ \A c \in Conns : /\ ws[c] = "closed"
                        /\ Free(c) = Pushers
                        /\ calls[c] = <<>>
    /\ UNCHANGED nodeVars

NodeNext ==
    \/ HandleUpgrade
    \/ CoreStep
    \/ \E c \in Conns :
          \/ \E f \in Frames : OnMessage(c, f)
          \/ \E p \in Pushers : FirstPoll(c, p) \/ PushReturns(c, p)
          \/ OnClose(c) \/ Callback(c) \/ RunSettles(c) \/ Deliver(c)
          \/ ClientLeaves(c) \/ ReplacedFromOutside(c)
    \/ NodeStopped

\* tokio and the JavaScript thread run what is ready; tokio's channel serves
\* those who wait for room in their order.  Nothing is assumed of the client.
NodeFairness ==
    /\ TaskFairness
    /\ \A c \in Conns :
          /\ WF_allVars(Deliver(c))
          /\ WF_allVars(Callback(c))
          /\ WF_allVars(RunSettles(c))
          /\ WF_allVars(CloseTimer(c))
          /\ \A p \in Pushers : /\ WF_allVars(FirstPoll(c, p))
                                /\ SF_allVars(PushReturns(c, p))

NodeSpec == NodeInit /\ [][NodeNext]_allVars /\ NodeFairness

(***************************************************************************)
(* Properties                                                              *)
(***************************************************************************)

\* While its WebSocket is open a client misses no message: each one the core
\* handed to the callback was sent or is queued for the JavaScript thread.
MessagesKept ==
    \A c \in Conns :
        ws[c] = "open" => handed[c] = sent[c] \cup Range(calls[c])

\* The adapter uses the core as TunnelServer expects: its futures run
\* concurrently and none is dropped, and all that is shown of TunnelServer
\* holds behind Node.
UsesCore == Spec

\* A response the adapter has read from the client that was asked.
Read(c, r) ==
    \E p \in Pushers : \E f \in {spawned[c][p], pushing[c][p]} \ {NoFrame} :
        ParseMessage(f) = "response" /\ f.request_id = r

\* Once a response is read its caller returns, without its timeout, although
\* the futures that carry frames overtake one another and find the connection
\* closed: then the response is lost and the request fails at once.
ResponseArrives ==
    \A c \in Conns, r \in Reqs : Read(c, r) /\ reqConn[r] = c ~> Returned(r)

\* The WebSocket is gone, or the core refused, closed or replaced the
\* connection.
Leaving(c) ==
    \/ ws[c] \in {"closing", "left", "closed"}
    \/ runPc[c] \in Past
    \/ runPc[c] # "none" /\ ~inTx[c]

\* Nothing is left of the connection.
Gone(c) ==
    /\ ws[c] = "closed"
    /\ runPc[c] = "done"
    /\ Free(c) = Pushers
    /\ calls[c] = <<>>

\* Whichever side ends, the WebSocket or run(), the other follows, whatever the
\* client does, and no future is left waiting.
BothEnd == \A c \in Conns : Leaving(c) ~> Gone(c)
=============================================================================
