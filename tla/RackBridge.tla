----------------------------- MODULE RackBridge -----------------------------
(***************************************************************************)
(* The Rack adapter (adapters/ruby/rack): Middleware hijacks the socket of *)
(* a WebSocket request and Connection#run bridges it to a native           *)
(* connection (bindings/ruby), composed with the core.  Three Ruby threads *)
(* share the socket: the one in #run, which reads it, `core', which is     *)
(* inside the core's run() until that returns, and `writer'.               *)
(*                                                                         *)
(* Unlike axum's tasks these threads block: a write waits for the client   *)
(* to read, with no timeout and nobody to abort it, and websocket-driver   *)
(* writes its pong and close replies from the reading thread.              *)
(***************************************************************************)
EXTENDS TunnelServer, Functions

CONSTANTS
    Reader,     \* the push_message call of the thread in #run
    WireCap     \* bound: messages one direction of the socket buffers

ASSUME RackAssumption ==
    /\ Pushers = {Reader}
    /\ WireCap \in Nat \ {0}

\* WebSocket messages of a client.
Text(f) == [kind |-> "text", frame |-> f]
Binary == [kind |-> "binary"]
Ping == [kind |-> "ping"]
CloseFrame == [kind |-> "close"]
Incoming == {Text(f) : f \in Frames} \cup {Binary, Ping, CloseFrame}

VARIABLES
    main,           \* the thread in Connection#run
    writer,         \* the thread in write_loop
    msgs,           \* the unbounded channel behind next_outgoing
    sending,        \* the message driver.text writes
    driverOpen,     \* whether websocket-driver still sends messages
    sock,           \* whether the io is not closed
    fromClient,     \* messages of the client not yet read
    unread,         \* how many messages the client has not read
    written,        \* history: messages of the core the socket took
    peer            \* the client's end of the socket

rackVars == <<main, writer, msgs, sending, driverOpen, sock, fromClient, unread,
              written, peer>>
allVars == <<vars, rackVars>>

\* The client has not closed its end; "leaving" once it sent a close frame.
Alive == {"open", "leaving"}

\* Every variable of the adapter holds a value of its type.
RackTypeOK ==
    /\ main \in [Conns -> {"none", "reading", "pong", "reply", "joinCore",
                           "joinWriter", "done"}]
    /\ writer \in [Conns -> {"none", "next", "text", "close", "ended", "raised"}]
    /\ msgs \in [Conns -> Seq(ServerMessages)]
    /\ sending \in [Conns -> ServerMessages]
    /\ driverOpen \in [Conns -> BOOLEAN]
    /\ sock \in [Conns -> BOOLEAN]
    /\ fromClient \in [Conns -> Seq(Incoming)]
    /\ unread \in [Conns -> 0 .. WireCap]
    /\ written \in [Conns -> SUBSET ServerMessages]
    /\ peer \in [Conns -> Alive \cup {"none", "closed", "lost"}]

RackInit ==
    /\ Init
    /\ main = [c \in Conns |-> "none"]
    /\ writer = [c \in Conns |-> "none"]
    /\ msgs = [c \in Conns |-> <<>>]
    /\ sending = [c \in Conns |-> AuthOk]
    /\ driverOpen = [c \in Conns |-> FALSE]
    /\ sock = [c \in Conns |-> FALSE]
    /\ fromClient = [c \in Conns |-> <<>>]
    /\ unread = [c \in Conns |-> 0]
    /\ written = [c \in Conns |-> {}]
    /\ peer = [c \in Conns |-> "none"]

\* Middleware#call and Connection#run, up to the loop: the native connection
\* and its callback, the handshake, the two threads.
Hijack ==
    /\ CreateConnection
    /\ main' = [main EXCEPT ![nextConnId] = "reading"]
    /\ writer' = [writer EXCEPT ![nextConnId] = "next"]
    /\ driverOpen' = [driverOpen EXCEPT ![nextConnId] = TRUE]
    /\ sock' = [sock EXCEPT ![nextConnId] = TRUE]
    /\ peer' = [peer EXCEPT ![nextConnId] = "open"]
    /\ UNCHANGED <<msgs, sending, fromClient, unread, written>>

\* The drain task calls the callback, which sends to the channel.
Deliver(c) ==
    /\ DrainDeliver(c)
    /\ msgs' = [msgs EXCEPT ![c] = Append(@, Head(outQ[c]))]
    /\ UNCHANGED <<main, writer, sending, driverOpen, sock, fromClient, unread,
                   written, peer>>

(***************************************************************************)
(* io.write                                                                *)
(***************************************************************************)

\* The socket takes the message.
Taken(c) ==
    /\ sock[c]
    /\ peer[c] # "lost"
    /\ unread[c] < WireCap
    /\ unread' = [unread EXCEPT ![c] = @ + 1]
    /\ UNCHANGED peer

\* The io is closed, by this thread or another, or the client reset it: an
\* error that Connection#write rescues, and the message is dropped.
Dropped(c) ==
    /\ ~sock[c] \/ peer[c] = "closed"
    /\ UNCHANGED <<unread, peer>>

\* The network gave up on the client: an error Connection#write does not
\* rescue.  The system reports it once.
Raised(c) ==
    /\ sock[c]
    /\ peer[c] = "lost"
    /\ peer' = [peer EXCEPT ![c] = "closed"]
    /\ UNCHANGED unread

(***************************************************************************)
(* The writer thread                                                       *)
(***************************************************************************)

\* next_outgoing returns a message; driver.text drops it once the driver is
\* closed.
NextMessage(c) ==
    /\ writer[c] = "next"
    /\ msgs[c] # <<>>
    /\ msgs' = [msgs EXCEPT ![c] = Tail(@)]
    /\ IF driverOpen[c]
       THEN /\ sending' = [sending EXCEPT ![c] = Head(msgs[c])]
            /\ writer' = [writer EXCEPT ![c] = "text"]
       ELSE UNCHANGED <<sending, writer>>
    /\ UNCHANGED <<vars, main, driverOpen, sock, fromClient, unread, written,
                   peer>>

\* driver.text returns.
TextWritten(c) ==
    /\ writer[c] = "text"
    /\ \/ Taken(c) /\ written' = [written EXCEPT ![c] = @ \cup {sending[c]}]
       \/ Dropped(c) /\ UNCHANGED written
    /\ writer' = [writer EXCEPT ![c] = "next"]
    /\ UNCHANGED <<vars, main, msgs, sending, driverOpen, sock, fromClient>>

\* The callback and its sender are gone with the drain task.
NoMoreMessages(c) == drain[c] \in {"ended", "panicked"}

\* Mutant: the writer stops when run() has returned or is about to.
StopsEarly(c) ==
    /\ writer[c] = "next"
    /\ runPc[c] \in Past
    /\ writer' = [writer EXCEPT ![c] = "close"]
    /\ UNCHANGED <<vars, main, msgs, sending, driverOpen, sock, fromClient,
                   unread, written, peer>>

\* next_outgoing returns nil: every message was taken.  driver.close follows.
NextNil(c) ==
    /\ writer[c] = "next"
    /\ msgs[c] = <<>>
    /\ NoMoreMessages(c)
    /\ writer' = [writer EXCEPT ![c] = "close"]
    /\ UNCHANGED <<vars, main, msgs, sending, driverOpen, sock, fromClient,
                   unread, written, peer>>

\* Mutant: the writer leaves the socket open.
WriterLeaves(c) ==
    /\ writer[c] = "close"
    /\ writer' = [writer EXCEPT ![c] = "ended"]
    /\ UNCHANGED <<vars, main, msgs, sending, driverOpen, sock, fromClient,
                   unread, written, peer>>

\* driver.close has written its close frame, unless the driver was closed
\* already, and close_io closes the socket.
WriterCloses(c) ==
    /\ writer[c] = "close"
    /\ IF driverOpen[c] THEN Taken(c) \/ Dropped(c) ELSE UNCHANGED <<unread, peer>>
    /\ driverOpen' = [driverOpen EXCEPT ![c] = FALSE]
    /\ sock' = [sock EXCEPT ![c] = FALSE]
    /\ writer' = [writer EXCEPT ![c] = "ended"]
    /\ UNCHANGED <<vars, main, msgs, sending, fromClient, written>>

\* An exception ends the writer in the middle of a write.
WriterRaises(c) ==
    /\ writer[c] = "text" \/ (writer[c] = "close" /\ driverOpen[c])
    /\ Raised(c)
    /\ writer' = [writer EXCEPT ![c] = "raised"]
    /\ UNCHANGED <<vars, main, msgs, sending, driverOpen, sock, fromClient,
                   written>>

(***************************************************************************)
(* The thread in #run                                                      *)
(***************************************************************************)

\* It is about to read the socket or to parse what it read.
Reading(c) == main[c] = "reading" /\ pushing[c][Reader] = NoFrame

\* The next message the driver parses.
Reads(c, kind) ==
    /\ Reading(c)
    /\ sock[c]
    /\ fromClient[c] # <<>>
    /\ Head(fromClient[c]).kind = kind
    /\ fromClient' = [fromClient EXCEPT ![c] = Tail(@)]
    /\ UNCHANGED <<writer, msgs, sending, driverOpen, sock, unread, written, peer>>

\* A text message: native.push_message, which blocks while there is no room.
\* It does nothing once the connection is closed.
ReadText(c) ==
    /\ Reads(c, "text")
    /\ IF inTx[c] THEN PushMessage(c, Reader, Head(fromClient[c]).frame)
                  ELSE UNCHANGED vars
    /\ UNCHANGED main

\* push_message returns, whether the frame was sent or not.
ReadPushed(c) ==
    /\ main[c] = "reading"
    /\ PushSent(c, Reader) \/ PushFailed(c, Reader)
    /\ UNCHANGED rackVars

\* A ping, or a close frame, which the driver answers unless it is closed.  A
\* close frame then closes the native connection.
ReadControl(c) ==
    \/ /\ Reads(c, "ping")
       /\ main' = [main EXCEPT ![c] = IF driverOpen[c] THEN "pong" ELSE @]
       /\ UNCHANGED vars
    \/ /\ Reads(c, "close")
       /\ main' = [main EXCEPT ![c] = "reply"]
       /\ UNCHANGED vars

PongWritten(c) ==
    /\ main[c] = "pong"
    /\ Taken(c) \/ Dropped(c)
    /\ main' = [main EXCEPT ![c] = "reading"]
    /\ UNCHANGED <<vars, writer, msgs, sending, driverOpen, sock, fromClient,
                   written>>

\* The driver has written its close reply; on(:close) closes the connection.
ReplyWritten(c) ==
    /\ main[c] = "reply"
    /\ IF driverOpen[c] THEN Taken(c) \/ Dropped(c) ELSE UNCHANGED <<unread, peer>>
    /\ driverOpen' = [driverOpen EXCEPT ![c] = FALSE]
    /\ main' = [main EXCEPT ![c] = "reading"]
    /\ IF inTx[c] THEN Close(c) ELSE UNCHANGED vars
    /\ UNCHANGED <<writer, msgs, sending, sock, fromClient, written>>

\* The loop ends: the end of the stream, the io closed by the writer, a binary
\* message whose data push_message raises on (an Array, or bytes that are not
\* UTF-8; other bytes are a text to it), or an error the network reports, in a
\* read or in a reply.
LoopEnds(c) ==
    \/ /\ Reading(c)
       /\ \/ ~sock[c] \/ (fromClient[c] = <<>> /\ peer[c] = "closed")
          \/ fromClient[c] # <<>> /\ Head(fromClient[c]) = Binary
       /\ UNCHANGED <<unread, peer>>
    \/ /\ \/ Reading(c) /\ fromClient[c] = <<>>
          \/ main[c] = "pong"
          \/ main[c] = "reply" /\ driverOpen[c]
       /\ Raised(c)

\* Mutants: the ensure clause does not close the connection; the thread
\* inside run() is killed instead of joined.
EnsureOpen(c) ==
    /\ LoopEnds(c)
    /\ main' = [main EXCEPT ![c] = "joinCore"]
    /\ UNCHANGED <<vars, writer, msgs, sending, driverOpen, sock, fromClient,
                   written>>
EnsureKills(c) ==
    /\ LoopEnds(c)
    /\ main' = [main EXCEPT ![c] = "joinCore"]
    /\ runPc' = [runPc EXCEPT ![c] = "done"]
    /\ UNCHANGED <<serverVars, auth, replaced, inTx, pushing, inQ, outQ, drain,
                   handed, reqVars, writer, msgs, sending, driverOpen, sock,
                   fromClient, written>>

\* The ensure clause closes the connection, a no-op if it is closed, and
\* joins `core'.
Ensure(c) ==
    /\ LoopEnds(c)
    /\ main' = [main EXCEPT ![c] = "joinCore"]
    /\ IF inTx[c] THEN Close(c) ELSE UNCHANGED vars
    /\ UNCHANGED <<writer, msgs, sending, driverOpen, sock, fromClient, written>>

CoreJoined(c) ==
    /\ main[c] = "joinCore"
    /\ runPc[c] = "done"
    /\ main' = [main EXCEPT ![c] = "joinWriter"]
    /\ UNCHANGED <<vars, writer, msgs, sending, driverOpen, sock, fromClient,
                   unread, written, peer>>

\* The writer has ended and close_io closes the socket; joining a writer that
\* raised raises, and close_io is skipped.
WriterJoined(c) ==
    /\ main[c] = "joinWriter"
    /\ writer[c] \in {"ended", "raised"}
    /\ main' = [main EXCEPT ![c] = "done"]
    /\ sock' = [sock EXCEPT ![c] = @ /\ writer[c] = "raised"]
    /\ UNCHANGED <<vars, writer, msgs, sending, driverOpen, fromClient, unread,
                   written, peer>>

(***************************************************************************)
(* The client                                                              *)
(***************************************************************************)

\* The client sends a message.  After a close frame it sends nothing.
ClientSends(c, m) ==
    /\ peer[c] = "open"
    /\ sock[c]
    /\ Len(fromClient[c]) < WireCap
    /\ m.kind = "text" => Known(m.frame)
    /\ fromClient' = [fromClient EXCEPT ![c] = Append(@, m)]
    /\ peer' = [peer EXCEPT ![c] = IF m = CloseFrame THEN "leaving" ELSE @]
    /\ UNCHANGED <<vars, main, writer, msgs, sending, driverOpen, sock, unread,
                   written>>

ClientReads(c) ==
    /\ peer[c] \in Alive
    /\ unread[c] > 0
    /\ unread' = [unread EXCEPT ![c] = @ - 1]
    /\ UNCHANGED <<vars, main, writer, msgs, sending, driverOpen, sock,
                   fromClient, written, peer>>

\* The client closes its end, or the network gives up on it.
ClientGone(c) ==
    /\ peer[c] \in Alive
    /\ \E how \in {"closed", "lost"} : peer' = [peer EXCEPT ![c] = how]
    /\ UNCHANGED <<vars, main, writer, msgs, sending, driverOpen, sock,
                   fromClient, unread, written>>

(***************************************************************************)
(* The specification                                                       *)
(***************************************************************************)
Writer(c) ==
    \/ NextMessage(c) \/ TextWritten(c) \/ NextNil(c) \/ WriterCloses(c)
    \/ WriterRaises(c)

Main(c) ==
    \/ ReadText(c) \/ ReadPushed(c) \/ ReadControl(c) \/ PongWritten(c)
    \/ ReplyWritten(c) \/ Ensure(c) \/ CoreJoined(c) \/ WriterJoined(c)

\* Steps of the core the adapter does not see.
CoreStep ==
    /\ \/ \E c \in Conns : RunTask(c) \/ AuthTimeout(c) \/ DrainEnd(c)
       \/ \E r \in Reqs : Dispatch(r) \/ RequestTask(r) \/ Timeout(r) \/ Cancel(r)
    /\ UNCHANGED rackVars

\* A connection beyond the bound registers for the service of this one, and
\* closes it.
ReplacedFromOutside(c) ==
    /\ runPc[c] = "relay"
    /\ Close(c)
    /\ UNCHANGED rackVars

Client(c) ==
    (\E m \in Incoming : ClientSends(c, m)) \/ ClientReads(c) \/ ClientGone(c)

WriterOver(c) == writer[c] \in {"ended", "raised"}

RackStopped ==
    /\ Stopped
    /\ \A c \in Conns : main[c] = "done" /\ WriterOver(c)
    /\ UNCHANGED rackVars

RackNext ==
    \/ Hijack
    \/ CoreStep
    \/ \E c \in Conns : \/ Deliver(c) \/ Writer(c) \/ Main(c) \/ Client(c)
                        \/ ReplacedFromOutside(c)
    \/ RackStopped

\* tokio runs the tasks of the core, Ruby and the system run the threads, and
\* a write that waits for room is not overtaken for ever by the other thread's.
\* Nothing is assumed of the client: it may stop to read, and hold the socket
\* open for ever.
RackFairness ==
    /\ TaskFairness
    /\ \A c \in Conns :
          /\ WF_allVars(Deliver(c))
          /\ SF_allVars(Writer(c))
          /\ SF_allVars(Main(c))

RackSpec == RackInit /\ [][RackNext]_allVars /\ RackFairness

(***************************************************************************)
(* Properties                                                              *)
(***************************************************************************)

\* While the client is there, what the core hands to the callback is on its
\* way or was written: the writer, which stops once the core has ended, stops
\* after the last message, the refusal of a client for instance.
MessagesKept ==
    \A c \in Conns : peer[c] = "open" =>
        handed[c] \subseteq written[c]
            \cup (IF writer[c] \in {"next", "text"} THEN Range(msgs[c]) ELSE {})
            \cup (IF writer[c] = "text" THEN {sending[c]} ELSE {})

\* The threads use the core as TunnelServer expects: run() is never dropped,
\* and all that is shown of TunnelServer holds behind Rack.
UsesCore == Spec

\* Nothing is left of the connection but a socket the writer raised on.
Released(c) ==
    /\ main[c] = "done"
    /\ WriterOver(c)
    /\ sock[c] => writer[c] = "raised"

\* When its client is gone, a connection ends with its three threads, which
\* wait for one another: the reader for the core and the writer, the core for
\* a dispatch, the writer for the core.
ThreadsEnd == \A c \in Conns : peer[c] \in {"closed", "lost"} ~> Released(c)

\* The client reads no more.
Stalled(c) == unread[c] = WireCap

\* A connection that was refused or closed by the server releases its threads
\* and its socket, if its client reads what it is sent.
ClosedReleases ==
    \A c \in Conns : <>[]Stalled(c) \/ (runPc[c] \in Past ~> Released(c))

\* Once the core connection has ended, the writer closes the socket so that
\* the read loop returns, whatever the client does.  It does so only after its
\* last write, which waits for the client to read.
EndClosesSocket == \A c \in Conns : runPc[c] \in Past ~> main[c] = "done"

(***************************************************************************)
(* What each thread waits for                                              *)
(***************************************************************************)

\* A write has room, or the io or the client is gone.
WriteEnds(c) == unread[c] < WireCap \/ ~sock[c] \/ peer[c] \notin Alive

\* The writer's next_outgoing or write returns, or raises.
CanWrite(c) ==
    \/ writer[c] = "next" /\ (msgs[c] # <<>> \/ NoMoreMessages(c))
    \/ writer[c] = "text" /\ WriteEnds(c)
    \/ writer[c] = "close" /\ (WriteEnds(c) \/ ~driverOpen[c])

\* The read, the push_message, the write or the join of the thread in #run
\* returns, or raises.
CanGoOn(c) ==
    \/ Reading(c) /\ (fromClient[c] # <<>> \/ ~sock[c] \/ peer[c] \notin Alive)
    \/ main[c] = "reading" /\ CanPush(c, Reader)
    \/ main[c] = "pong" /\ WriteEnds(c)
    \/ main[c] = "reply" /\ (WriteEnds(c) \/ ~driverOpen[c])
    \/ main[c] = "joinCore" /\ runPc[c] = "done"
    \/ main[c] = "joinWriter" /\ WriterOver(c)

\* The client can make the connection go on: a write waits for it to read, or
\* every thread, and the core, waits for what it sends.
WaitsForClient(c) ==
    /\ sock[c] /\ peer[c] \in Alive
    /\ \/ /\ Stalled(c)
          /\ writer[c] \in {"text", "close"} \/ main[c] \in {"pong", "reply"}
       \/ /\ Idle(c) /\ Reading(c) /\ fromClient[c] = <<>>
          /\ writer[c] = "next" /\ msgs[c] = <<>>

\* Nobody waits in a circle: the reading thread waits for the core and the
\* writer, the writer for the core and the client, the core for what they push
\* and take.  A thread or a task of a connection can go on, or the connection
\* is released, or it waits for a client that is there and for nothing else.
NoThreadStuck ==
    \A c \in Conns : main[c] # "none" =>
        \/ Released(c)
        \/ Moves(c) \/ CanWrite(c) \/ CanGoOn(c)
        \/ WaitsForClient(c)
=============================================================================
