----------------------------- MODULE AxumBridge -----------------------------
(***************************************************************************)
(* The axum adapter (crates/outpunch-axum/src/lib.rs): handle_ws, which    *)
(* connects one WebSocket to one connection of the core, composed with the *)
(* core.  handle_ws spawns a write task and a read task around run(); the  *)
(* client at the other end of the socket is the environment.               *)
(*                                                                         *)
(* Each step of the core is a step of TunnelServer.  Of the adapter's      *)
(* calls, whose order TunnelServer leaves open, only those remain that     *)
(* handle_ws makes.                                                        *)
(***************************************************************************)
EXTENDS TunnelServer, Functions

CONSTANTS
    Reader,     \* the push_message call of the read task
    WireCap     \* bound: messages one direction of the socket buffers

ASSUME BridgeAssumption ==
    /\ Pushers = {Reader}
    /\ WireCap \in Nat \ {0}

\* WebSocket messages of a client; `Other' is neither Text nor Close.
Text(f) == [kind |-> "text", frame |-> f]
Other == [kind |-> "other"]
CloseFrame == [kind |-> "close"]

VARIABLES
    bridge,         \* where handle_ws is
    readPc,         \* the read task
    writePc,        \* the write task
    msgs,           \* the unbounded channel of msg_tx and msg_rx
    writing,        \* the message ws_sink.send has under way
    fromClient,     \* messages of the client not yet read by the read task
    unread,         \* how many messages the client has not read
    written,        \* history: messages the socket took
    peer            \* the client's end of the socket

bridgeVars == <<bridge, readPc, writePc, msgs, writing, fromClient, unread,
                written, peer>>
allVars == <<vars, bridgeVars>>

\* Every variable of the adapter holds a value of its type.
BridgeTypeOK ==
    /\ bridge \in [Conns -> {"none", "run", "flush", "done"}]
    /\ readPc \in [Conns -> {"none", "reading", "ended"}]
    /\ writePc \in [Conns -> {"none", "recv", "sending", "ended"}]
    /\ msgs \in [Conns -> Seq(ServerMessages)]
    /\ writing \in [Conns -> ServerMessages]
    /\ fromClient \in [Conns -> Seq({Text(f) : f \in Frames} \cup {Other, CloseFrame})]
    /\ unread \in [Conns -> 0 .. WireCap]
    /\ written \in [Conns -> SUBSET ServerMessages]
    /\ peer \in [Conns -> {"none", "open", "closed"}]

BridgeInit ==
    /\ Init
    /\ bridge = [c \in Conns |-> "none"]
    /\ readPc = [c \in Conns |-> "none"]
    /\ writePc = [c \in Conns |-> "none"]
    /\ msgs = [c \in Conns |-> <<>>]
    /\ writing = [c \in Conns |-> AuthOk]
    /\ fromClient = [c \in Conns |-> <<>>]
    /\ unread = [c \in Conns |-> 0]
    /\ written = [c \in Conns |-> {}]
    /\ peer = [c \in Conns |-> "none"]

(***************************************************************************)
(* handle_ws                                                               *)
(***************************************************************************)

\* handle_ws, up to run(): the connection, its callback, the two tasks.
HandleWs ==
    /\ CreateConnection
    /\ bridge' = [bridge EXCEPT ![nextConnId] = "run"]
    /\ readPc' = [readPc EXCEPT ![nextConnId] = "reading"]
    /\ writePc' = [writePc EXCEPT ![nextConnId] = "recv"]
    /\ peer' = [peer EXCEPT ![nextConnId] = "open"]
    /\ UNCHANGED <<msgs, writing, fromClient, unread, written>>

\* run() has returned: handle_ws waits for the write task.
RunReturned(c) ==
    /\ bridge[c] = "run"
    /\ runPc[c] = "done"
    /\ bridge' = [bridge EXCEPT ![c] = "flush"]
    /\ UNCHANGED <<vars, readPc, writePc, msgs, writing, fromClient, unread,
                   written, peer>>

\* Mutants: the wait for the write task has no timeout; the write task is
\* aborted when it is over.
FlushWaits(c) ==
    /\ bridge[c] = "flush"
    /\ writePc[c] = "ended"
    /\ bridge' = [bridge EXCEPT ![c] = "done"]
    /\ UNCHANGED <<vars, readPc, writePc, msgs, writing, fromClient, unread,
                   written, peer>>
FlushAborts(c) ==
    /\ bridge[c] = "flush"
    /\ bridge' = [bridge EXCEPT ![c] = "done"]
    /\ writePc' = [writePc EXCEPT ![c] = "ended"]
    /\ msgs' = [msgs EXCEPT ![c] = <<>>]
    /\ UNCHANGED <<vars, readPc, writing, fromClient, unread, written, peer>>

\* The write task has ended, or 100 ms have passed and dropping its handle
\* detaches it.  The read task is aborted and handle_ws returns.
FlushEnds(c) ==
    /\ bridge[c] = "flush"
    /\ bridge' = [bridge EXCEPT ![c] = "done"]
    /\ UNCHANGED <<vars, readPc, writePc, msgs, writing, fromClient, unread,
                   written, peer>>

(***************************************************************************)
(* The write task                                                          *)
(***************************************************************************)

\* The drain task calls the callback, which sends to msg_rx; the message is
\* lost if the write task has dropped it.
Deliver(c) ==
    /\ DrainDeliver(c)
    /\ msgs' = IF writePc[c] = "ended" THEN msgs
               ELSE [msgs EXCEPT ![c] = Append(@, Head(outQ[c]))]
    /\ UNCHANGED <<bridge, readPc, writePc, writing, fromClient, unread,
                   written, peer>>

\* msg_rx.recv() returns a message and ws_sink.send starts.
WriteTakes(c) ==
    /\ writePc[c] = "recv"
    /\ msgs[c] # <<>>
    /\ writePc' = [writePc EXCEPT ![c] = "sending"]
    /\ writing' = [writing EXCEPT ![c] = Head(msgs[c])]
    /\ msgs' = [msgs EXCEPT ![c] = Tail(@)]
    /\ UNCHANGED <<vars, bridge, readPc, fromClient, unread, written, peer>>

\* ws_sink.send(..).await completes once the socket takes the message.
WriteDone(c) ==
    /\ writePc[c] = "sending"
    /\ unread[c] < WireCap
    /\ writePc' = [writePc EXCEPT ![c] = "recv"]
    /\ unread' = [unread EXCEPT ![c] = @ + 1]
    /\ written' = [written EXCEPT ![c] = @ \cup {writing[c]}]
    /\ UNCHANGED <<vars, bridge, readPc, msgs, writing, fromClient, peer>>

\* ws_sink.send(..).await fails: the task ends and drops msg_rx.
WriteFails(c) ==
    /\ writePc[c] = "sending"
    /\ peer[c] = "closed"
    /\ writePc' = [writePc EXCEPT ![c] = "ended"]
    /\ msgs' = [msgs EXCEPT ![c] = <<>>]
    /\ UNCHANGED <<vars, bridge, readPc, writing, fromClient, unread, written,
                   peer>>

\* msg_rx.recv() is None: the drain task has dropped the callback and msg_tx
\* with it, and every message was taken.
WriteEnds(c) ==
    /\ writePc[c] = "recv"
    /\ msgs[c] = <<>>
    /\ drain[c] \in {"ended", "panicked"}
    /\ writePc' = [writePc EXCEPT ![c] = "ended"]
    /\ UNCHANGED <<vars, bridge, readPc, msgs, writing, fromClient, unread,
                   written, peer>>

(***************************************************************************)
(* The read task                                                           *)
(***************************************************************************)

\* The read task is at ws_stream.next().await.
Reading(c) == readPc[c] = "reading" /\ pushing[c][Reader] = NoFrame

\* A text message: push_message, up to its await.  After close() or a
\* replacement incoming_tx is None and the frame is dropped.
ReadText(c) ==
    /\ Reading(c)
    /\ fromClient[c] # <<>>
    /\ Head(fromClient[c]).kind = "text"
    /\ fromClient' = [fromClient EXCEPT ![c] = Tail(@)]
    /\ IF inTx[c] THEN PushMessage(c, Reader, Head(fromClient[c]).frame)
                  ELSE UNCHANGED vars
    /\ UNCHANGED <<bridge, readPc, writePc, msgs, writing, unread, written, peer>>

\* push_message returns, whether the frame was sent or not.
ReadPushed(c) ==
    /\ readPc[c] = "reading"
    /\ PushSent(c, Reader) \/ PushFailed(c, Reader)
    /\ UNCHANGED bridgeVars

\* A message that is neither Text nor Close is ignored.
ReadOther(c) ==
    /\ Reading(c)
    /\ fromClient[c] # <<>>
    /\ Head(fromClient[c]).kind = "other"
    /\ fromClient' = [fromClient EXCEPT ![c] = Tail(@)]
    /\ UNCHANGED <<vars, bridge, readPc, writePc, msgs, writing, unread,
                   written, peer>>

\* ws_stream.next() is a Close, an error, or None.
StreamOver(c) ==
    IF fromClient[c] = <<>> THEN peer[c] = "closed"
                            ELSE Head(fromClient[c]).kind = "close"

\* Mutant: the read task does not close the connection.
ReadEndsOpen(c) ==
    /\ Reading(c)
    /\ StreamOver(c)
    /\ readPc' = [readPc EXCEPT ![c] = "ended"]
    /\ UNCHANGED <<vars, bridge, writePc, msgs, writing, fromClient, unread,
                   written, peer>>

\* The loop ends and the task closes the connection, which is a no-op if it
\* is closed already.
ReadEnds(c) ==
    /\ Reading(c)
    /\ StreamOver(c)
    /\ readPc' = [readPc EXCEPT ![c] = "ended"]
    /\ IF inTx[c] THEN Close(c) ELSE UNCHANGED vars
    /\ UNCHANGED <<bridge, writePc, msgs, writing, fromClient, unread, written,
                   peer>>

\* Mutant: the read task is not aborted.
NoAbort(c) == FALSE

\* The abort of the read task takes effect at an await, push_message's too.
ReadAborted(c) ==
    /\ bridge[c] = "done"
    /\ readPc[c] = "reading"
    /\ readPc' = [readPc EXCEPT ![c] = "ended"]
    /\ IF pushing[c][Reader] # NoFrame THEN PushCancelled(c, Reader)
                                       ELSE UNCHANGED vars
    /\ UNCHANGED <<bridge, writePc, msgs, writing, fromClient, unread, written,
                   peer>>

(***************************************************************************)
(* The client                                                              *)
(***************************************************************************)

\* The client sends a message.  What it sends after the read task has ended is
\* read by nobody and left out.
ClientSends(c, m) ==
    /\ peer[c] = "open"
    /\ readPc[c] = "reading"
    /\ Len(fromClient[c]) < WireCap
    /\ m.kind = "text" => Known(m.frame)
    /\ fromClient' = [fromClient EXCEPT ![c] = Append(@, m)]
    /\ UNCHANGED <<vars, bridge, readPc, writePc, msgs, writing, unread, written,
                   peer>>

\* The client reads a message.
ClientReads(c) ==
    /\ peer[c] = "open"
    /\ unread[c] > 0
    /\ unread' = [unread EXCEPT ![c] = @ - 1]
    /\ UNCHANGED <<vars, bridge, readPc, writePc, msgs, writing, fromClient,
                   written, peer>>

\* The client closes the socket, with or without a Close message, or the TCP
\* connection fails.
ClientCloses(c) ==
    /\ peer[c] = "open"
    /\ peer' = [peer EXCEPT ![c] = "closed"]
    /\ fromClient' \in {fromClient, [fromClient EXCEPT ![c] = Append(@, CloseFrame)]}
    /\ UNCHANGED <<vars, bridge, readPc, writePc, msgs, writing, unread, written>>

(***************************************************************************)
(* The specification                                                       *)
(***************************************************************************)

WriteTask(c) == WriteTakes(c) \/ WriteDone(c) \/ WriteFails(c) \/ WriteEnds(c)

ReadTask(c) ==
    ReadText(c) \/ ReadPushed(c) \/ ReadOther(c) \/ ReadEnds(c) \/ ReadAborted(c)

\* Steps of the core the adapter does not see.
CoreStep ==
    /\ \/ \E c \in Conns : RunTask(c) \/ AuthTimeout(c) \/ DrainEnd(c)
       \/ \E r \in Reqs : Dispatch(r) \/ RequestTask(r) \/ Timeout(r) \/ Cancel(r)
    /\ UNCHANGED bridgeVars

\* A connection beyond the bound registers for the service of this one.  Of
\* that connection only the close of this one is a step: it is all that
\* handle_ws of this one meets.
ReplacedFromOutside(c) ==
    /\ runPc[c] = "relay"
    /\ Close(c)
    /\ UNCHANGED bridgeVars

Client(c) ==
    \/ \E m \in {Text(f) : f \in Frames} \cup {Other} : ClientSends(c, m)
    \/ ClientReads(c)
    \/ ClientCloses(c)

\* Nothing of the connection is left: both halves of the socket are dropped.
SocketDropped(c) == readPc[c] = "ended" /\ writePc[c] = "ended"

BridgeStopped ==
    /\ Stopped
    /\ \A c \in Conns : bridge[c] = "done" /\ SocketDropped(c)
    /\ UNCHANGED bridgeVars

BridgeNext ==
    \/ HandleWs
    \/ CoreStep
    \/ \E c \in Conns : \/ RunReturned(c) \/ FlushEnds(c)
                        \/ Deliver(c) \/ WriteTask(c) \/ ReadTask(c)
                        \/ Client(c) \/ ReplacedFromOutside(c)
    \/ BridgeStopped

\* tokio runs the tasks of the core and of the adapter, and does not poll an
\* aborted task again, however much it could read.  Nothing is assumed of the
\* client: it may stop to read, and hold the socket open for ever.
BridgeFairness ==
    /\ TaskFairness
    /\ \A c \in Conns :
          /\ WF_allVars(RunReturned(c) \/ FlushEnds(c))
          /\ WF_allVars(Deliver(c))
          /\ WF_allVars(WriteTask(c))
          /\ WF_allVars(ReadTask(c)) /\ WF_allVars(ReadAborted(c))

BridgeSpec == BridgeInit /\ [][BridgeNext]_allVars /\ BridgeFairness

(***************************************************************************)
(* Properties                                                              *)
(***************************************************************************)

\* While the client is there, what the core hands to the callback is on its
\* way or was written: run() ending, the 100 ms passing and the abort of the
\* read task lose no message, a refusal of the client least of all.
MessagesKept ==
    \A c \in Conns : peer[c] = "open" =>
        handed[c] \subseteq written[c] \cup Range(msgs[c])
            \cup (IF writePc[c] = "sending" THEN {writing[c]} ELSE {})

\* handle_ws uses the core as TunnelServer expects, in particular it never
\* drops run(): all that is shown of TunnelServer holds behind axum.
UsesCore == Spec

\* When its client is gone, a connection ends with everything handle_ws
\* started: run(), handle_ws, the read task and the write task, which wait for
\* one another.
TasksEnd ==
    \A c \in Conns :
        peer[c] = "closed" ~> bridge[c] = "done" /\ SocketDropped(c)

\* A connection that was refused or closed by the server ends even if its
\* client holds the socket open and reads nothing.
SlowClientReleased ==
    \A c \in Conns : runPc[c] \in Past ~> bridge[c] = "done" /\ readPc[c] = "ended"

\* The client reads no more.
Stalled(c) == unread[c] = WireCap

\* A client that reads what it is sent and was refused or closed gets all its
\* messages, and then finds its socket dropped.
SocketEnds ==
    \A c \in Conns :
        \/ <>[]Stalled(c)
        \/ runPc[c] \in Past ~> SocketDropped(c)
=============================================================================
