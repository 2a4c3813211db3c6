-------------------------- MODULE RackBridgeProofs --------------------------
(***************************************************************************)
(* Theorems about RackBridge: the three threads use the core as            *)
(* TunnelServer says, and no message for a client that is there is lost on *)
(* its way to the socket.                                                  *)
(***************************************************************************)
EXTENDS RackBridge, TunnelServerProofs

(***************************************************************************)
(* Facts about messages                                                    *)
(***************************************************************************)

\* The kinds of message are distinct; a text message carries a frame clients
\* send.
LEMMA IncomingKinds ==
    /\ Ping \in Incoming /\ CloseFrame \in Incoming
    /\ \A m \in Incoming : /\ m.kind = "text" => m.frame \in Frames
                           /\ m.kind = "close" => m = CloseFrame
BY DEF Incoming, Text, Binary, Ping, CloseFrame

(***************************************************************************)
(* What each party touches                                                 *)
(***************************************************************************)

\* The thread in #run calls push_message and close; it touches neither the
\* writer nor what the writer takes.
LEMMA MainFrame ==
    ASSUME NEW c \in Conns, Main(c)
    PROVE  /\ UNCHANGED <<writer, msgs, sending, written>>
           /\ UNCHANGED peer \/ peer' = [peer EXCEPT ![c] = "closed"]
           /\ \/ UNCHANGED fromClient
              \/ fromClient[c] # <<>> /\ fromClient' = [fromClient EXCEPT ![c] = Tail(@)]
           /\ UNCHANGED sock \/ WriterJoined(c)
           /\ UNCHANGED driverOpen \/ ReplyWritten(c)
<1>1. CASE ReadText(c) \/ ReadPushed(c) \/ ReadControl(c)
    BY <1>1 DEF ReadText, ReadPushed, ReadControl, Reads, rackVars
<1>2. CASE PongWritten(c) \/ ReplyWritten(c) \/ Ensure(c)
    BY <1>2 DEF PongWritten, ReplyWritten, Ensure, LoopEnds, Taken, Dropped, Raised
<1>3. CASE CoreJoined(c) \/ WriterJoined(c)
    BY <1>3 DEF CoreJoined, WriterJoined
<1> QED BY <1>1, <1>2, <1>3 DEF Main

\* Each step of it is a call on the connection, the end of one, or does not
\* touch the core.
LEMMA MainStep ==
    ASSUME fromClient \in [Conns -> Seq(Incoming)], NEW c \in Conns, Main(c)
    PROVE  Adapter(c) \/ UNCHANGED vars
<1>1. Reader \in Pushers
    BY RackAssumption
<1>2. CASE ReadText(c)
    <2>1. Head(fromClient[c]) \in Incoming
        BY <1>2, HeadTailProperties DEF ReadText, Reads
    <2>2. Head(fromClient[c]).frame \in Frames
        BY <1>2, <2>1, IncomingKinds DEF ReadText, Reads
    <2> QED BY <1>1, <1>2, <2>2 DEF ReadText, Adapter
<1>3. CASE ReadPushed(c)
    BY <1>1, <1>3 DEF ReadPushed, Adapter
<1>4. CASE ReplyWritten(c) \/ Ensure(c)
    BY <1>4 DEF ReplyWritten, Ensure, Adapter
<1>5. CASE ReadControl(c) \/ PongWritten(c) \/ CoreJoined(c) \/ WriterJoined(c)
    BY <1>5 DEF ReadControl, PongWritten, CoreJoined, WriterJoined
<1> QED BY <1>2, <1>3, <1>4, <1>5 DEF Main

\* The writer never touches the core nor the thread that reads.
LEMMA WriterFrame ==
    ASSUME NEW c \in Conns, Writer(c)
    PROVE  UNCHANGED <<vars, main, fromClient>>
BY DEF Writer, NextMessage, TextWritten, NextNil, WriterCloses, WriterRaises

\* The client touches neither the core nor the threads and their queue.
LEMMA ClientFrame ==
    ASSUME NEW c \in Conns, Client(c)
    PROVE  UNCHANGED <<vars, main, writer, msgs, sending, driverOpen, sock, written>>
BY DEF Client, ClientSends, ClientReads, ClientGone

\* A step of the threads, the core and the client is one of the core, or
\* leaves it alone.
LEMMA CoreSteps ==
    ASSUME fromClient \in [Conns -> Seq(Incoming)], [RackNext]_allVars
    PROVE  [Next]_vars
<1>1. CASE Hijack
    BY <1>1 DEF Hijack, Next
<1>2. CASE CoreStep
    BY <1>2 DEF CoreStep, Next, DrainTask
<1>3. ASSUME NEW c \in Conns, Main(c)
      PROVE  [Next]_vars
    BY <1>3, MainStep DEF Next
<1>4. ASSUME NEW c \in Conns, Deliver(c)
      PROVE  [Next]_vars
    BY <1>4 DEF Deliver, Next, DrainTask
<1>5. ASSUME NEW c \in Conns, ReplacedFromOutside(c)
      PROVE  [Next]_vars
    BY <1>5 DEF ReplacedFromOutside, Next, Adapter
<1>6. CASE RackStopped \/ UNCHANGED allVars
    BY <1>6 DEF RackStopped, Stopped, allVars
<1> QED BY <1>1, <1>2, <1>3, <1>4, <1>5, <1>6, WriterFrame, ClientFrame DEF RackNext

(***************************************************************************)
(* The adapter's types                                                     *)
(***************************************************************************)

\* What the outgoing channel holds is a message of the server.
LEMMA DeliveredMessage ==
    ASSUME IInv, NEW c \in Conns, Deliver(c)
    PROVE  Head(outQ[c]) \in ServerMessages
<1>1. outQ[c] \in Seq(ServerMessages) /\ outQ[c] # <<>>
    BY DEF IInv, TypeOK, Deliver, DrainDeliver
<1> QED BY <1>1, HeadTailProperties

\* The adapter keeps its types; the messages its client has not read never
\* exceed what the socket holds.
LEMMA RackTypeStep ==
    ASSUME IInv, RackTypeOK, [RackNext]_allVars
    PROVE  RackTypeOK'
<1>0. /\ WireCap \in Nat
      /\ written \in [Conns -> SUBSET ServerMessages]
      /\ sending \in [Conns -> ServerMessages]
      /\ fromClient \in [Conns -> Seq(Incoming)]
      /\ unread \in [Conns -> 0 .. WireCap]
      /\ peer \in [Conns -> Alive \cup {"none", "closed", "lost"}]
    BY RackAssumption DEF RackTypeOK
<1>4. ASSUME NEW c \in Conns, Taken(c) \/ Dropped(c) \/ Raised(c)
      PROVE  unread' \in [Conns -> 0 .. WireCap] /\ peer' \in [Conns -> Alive \cup {"none", "closed", "lost"}]
    <2>1. CASE Taken(c)
        <3>1. unread[c] + 1 \in 0 .. WireCap
            BY <1>0, <2>1 DEF Taken
        <3>2. unread' = [unread EXCEPT ![c] = unread[c] + 1] /\ UNCHANGED peer
            BY <2>1 DEF Taken
        <3> QED BY <1>0, <3>1, <3>2
    <2>2. CASE Dropped(c)
        BY <1>0, <2>2 DEF Dropped
    <2>3. CASE Raised(c)
        BY <1>0, <2>3 DEF Raised
    <2> QED BY <1>4, <2>1, <2>2, <2>3
<1> USE DEF RackTypeOK
<1>1. CASE UNCHANGED rackVars
    BY <1>1 DEF rackVars
<1>2. CASE Hijack
    BY <1>2 DEF Hijack, CreateConnection, Alive
<1>3. ASSUME NEW c \in Conns, Deliver(c)
      PROVE  RackTypeOK'
    <2>1. msgs' \in [Conns -> Seq(ServerMessages)]
        BY <1>3, DeliveredMessage, AppendProperties DEF Deliver
    <2> QED BY <1>3, <2>1 DEF Deliver
<1>5. ASSUME NEW c \in Conns, NextMessage(c)
      PROVE  RackTypeOK'
    <2>1. /\ Head(msgs[c]) \in ServerMessages
          /\ Tail(msgs[c]) \in Seq(ServerMessages)
        BY <1>5, HeadTailProperties DEF NextMessage
    <2> QED BY <1>5, <2>1 DEF NextMessage
<1>6. ASSUME NEW c \in Conns, TextWritten(c)
      PROVE  RackTypeOK'
    <2>1. Taken(c) \/ Dropped(c)
        BY <1>6 DEF TextWritten
    <2>2. written' \in [Conns -> SUBSET ServerMessages]
        <3> HIDE DEF RackTypeOK
        <3>1. \/ UNCHANGED written
              \/ written' = [written EXCEPT ![c] = written[c] \cup {sending[c]}]
            BY <1>6 DEF TextWritten
        <3>2. written[c] \cup {sending[c]} \in SUBSET ServerMessages
            BY <1>0
        <3> QED BY <1>0, <3>1, <3>2
    <2> QED BY <1>4, <1>6, <2>1, <2>2 DEF TextWritten
<1>7. ASSUME NEW c \in Conns, NextNil(c)
      PROVE  RackTypeOK'
    BY <1>7 DEF NextNil
<1>8. ASSUME NEW c \in Conns, WriterCloses(c) \/ WriterRaises(c)
      PROVE  RackTypeOK'
    <2>1. Taken(c) \/ Dropped(c) \/ Raised(c) \/ UNCHANGED <<unread, peer>>
        BY <1>8 DEF WriterCloses, WriterRaises
    <2>2. unread' \in [Conns -> 0 .. WireCap] /\ peer' \in [Conns -> Alive \cup {"none", "closed", "lost"}]
        BY <1>4, <2>1
    <2>3. CASE WriterCloses(c)
        BY <2>2, <2>3 DEF WriterCloses
    <2>4. CASE WriterRaises(c)
        BY <2>2, <2>4 DEF WriterRaises
    <2> QED BY <1>8, <2>3, <2>4
<1>9. ASSUME NEW c \in Conns, Main(c)
      PROVE  RackTypeOK'
    <2>1. fromClient' \in [Conns -> Seq(Incoming)]
        <3> HIDE DEF RackTypeOK
        <3>1. \/ UNCHANGED fromClient
              \/ fromClient[c] # <<>> /\ fromClient' = [fromClient EXCEPT ![c] = Tail(@)]
            BY <1>9, MainFrame
        <3>2. fromClient[c] # <<>> => Tail(fromClient[c]) \in Seq(Incoming)
            BY <1>0, HeadTailProperties
        <3> QED BY <1>0, <3>1, <3>2
    <2>2. UNCHANGED <<writer, msgs, sending, written>>
        BY <1>9, MainFrame
    <2>3. /\ unread' \in [Conns -> 0 .. WireCap]
          /\ peer' \in [Conns -> Alive \cup {"none", "closed", "lost"}]
        <3>1. Taken(c) \/ Dropped(c) \/ Raised(c) \/ UNCHANGED <<unread, peer>>
            BY <1>9 DEF Main, ReadText, ReadPushed, ReadControl, Reads, PongWritten,
               ReplyWritten, Ensure, LoopEnds, CoreJoined, WriterJoined, rackVars
        <3> QED BY <1>4, <3>1
    <2>4. /\ main' \in [Conns -> {"none", "reading", "pong", "reply", "joinCore",
                                  "joinWriter", "done"}]
          /\ driverOpen' \in [Conns -> BOOLEAN]
          /\ sock' \in [Conns -> BOOLEAN]
        <3>1. CASE ReadText(c) \/ ReadPushed(c) \/ ReadControl(c)
            BY <3>1 DEF ReadText, ReadPushed, ReadControl, Reads, rackVars
        <3>2. CASE PongWritten(c) \/ ReplyWritten(c)
            BY <3>2 DEF PongWritten, ReplyWritten
        <3>3. CASE Ensure(c) \/ CoreJoined(c) \/ WriterJoined(c)
            BY <3>3 DEF Ensure, CoreJoined, WriterJoined
        <3> QED BY <1>9, <3>1, <3>2, <3>3 DEF Main
    <2> QED BY <2>1, <2>2, <2>3, <2>4
<1>10. ASSUME NEW c \in Conns, Client(c)
      PROVE  RackTypeOK'
    <2>1. UNCHANGED <<main, writer, msgs, sending, driverOpen, sock, written>>
        BY <1>10, ClientFrame
    <2>2. /\ fromClient' \in [Conns -> Seq(Incoming)]
          /\ unread' \in [Conns -> 0 .. WireCap]
          /\ peer' \in [Conns -> Alive \cup {"none", "closed", "lost"}]
        <3> HIDE DEF RackTypeOK
        <3>1. ASSUME NEW m \in Incoming, ClientSends(c, m)
              PROVE  /\ fromClient' \in [Conns -> Seq(Incoming)]
                     /\ unread' \in [Conns -> 0 .. WireCap]
                     /\ peer' \in [Conns -> Alive \cup {"none", "closed", "lost"}]
            <4>1. fromClient' = [fromClient EXCEPT ![c] = Append(fromClient[c], m)]
                BY <3>1 DEF ClientSends
            <4>2. Append(fromClient[c], m) \in Seq(Incoming)
                BY <1>0, AppendProperties
            <4> QED BY <1>0, <3>1, <4>1, <4>2 DEF ClientSends, Alive
        <3>2. CASE ClientReads(c)
            <4>1. unread[c] - 1 \in 0 .. WireCap
                BY <1>0, <3>2 DEF ClientReads
            <4> QED BY <1>0, <3>2, <4>1 DEF ClientReads
        <3>3. CASE ClientGone(c)
            BY <1>0, <3>3 DEF ClientGone
        <3> QED BY <1>10, <3>1, <3>2, <3>3 DEF Client
    <2> QED BY <2>1, <2>2
<1>11. CASE CoreStep \/ RackStopped \/ UNCHANGED allVars
    BY <1>1, <1>11 DEF CoreStep, RackStopped, allVars
<1>12. ASSUME NEW c \in Conns, ReplacedFromOutside(c)
       PROVE  RackTypeOK'
    BY <1>1, <1>12 DEF ReplacedFromOutside
<1> HIDE DEF RackTypeOK
<1> QED BY <1>2, <1>3, <1>5, <1>6, <1>7, <1>8, <1>9, <1>10, <1>11, <1>12
        DEF RackNext, Writer

\* The types hold before the first WebSocket.
LEMMA RackTypeInit == RackInit => RackTypeOK
<1>1. <<>> \in Seq(ServerMessages) /\ <<>> \in Seq(Incoming) /\ AuthOk \in ServerMessages
    BY EmptySeq, ServerMessageTypes
<1> QED BY <1>1, RackAssumption DEF RackInit, RackTypeOK

(***************************************************************************)
(* The adapter uses the core as TunnelServer expects                       *)
(***************************************************************************)

\* The threads make only calls TunnelServer allows, in an order it allows, and
\* never drop run(): every theorem about the core holds behind Rack.
LEMMA RackUsesCore == RackSpec => UsesCore
<1>1. RackInit => Init /\ IInv /\ RackTypeOK
    BY RackTypeInit, InitInvariant DEF RackInit
<1>2. RackTypeOK /\ [RackNext]_allVars => [Next]_vars
    BY CoreSteps DEF RackTypeOK
<1>3. IInv /\ RackTypeOK /\ [RackNext]_allVars => RackTypeOK'
    BY RackTypeStep
<1>4. IInv /\ [Next]_vars => IInv'
    BY InvariantStep
<1> QED BY <1>1, <1>2, <1>3, <1>4, PTL DEF RackSpec, UsesCore, Spec

\* Ruby threads that are blocked for ever in a write, by a client that does not
\* read, hold up no caller: a client that does not authenticate is turned away,
\* and a dispatch whose connection has cleaned up or lost its channel returns,
\* by the fairness of the core's tasks in RackFairness.
THEOREM CallersReturn ==
    ASSUME NEW r \in Reqs, NEW c \in Conns
    PROVE  RackSpec /\ []GuardsAreExact =>
               /\ InAuth(c) ~> Settled(c)
               /\ Abandoned(r) \/ Refused(r) ~> Returned(r)
<1> SUFFICES ASSUME RackSpec, []GuardsAreExact
             PROVE  /\ InAuth(c) ~> Settled(c)
                    /\ Abandoned(r) \/ Refused(r) ~> Returned(r)
    OBVIOUS
<1>1. Spec
    BY RackUsesCore DEF UsesCore
<1>2. TaskFairness
    BY PTL DEF RackSpec, RackFairness
<1>3. TaskFair(c) /\ ServeFair(r)
    BY <1>2 DEF TaskFairness
<1>4. InAuth(c) ~> Settled(c)
    BY <1>1, <1>3, AuthEnds
<1>5. Abandoned(r) \/ Refused(r) ~> Returned(r)
    BY <1>1, <1>3, LostRequestsFail
<1> QED BY <1>4, <1>5

(***************************************************************************)
(* Messages on their way to the client.  While the client is there the     *)
(* writer has not failed, what it writes reaches the socket, and when it   *)
(* stops nothing is left to come.  Only a close frame closes the driver    *)
(* under it, and a client that sent one is no longer there.                *)
(***************************************************************************)

\* Nothing came from the client of a connection not yet made.
FreshPeers ==
    \A c \in Conns : c >= nextConnId => peer[c] = "none" /\ fromClient[c] = <<>>

CloseSeen ==
    \A c \in Conns :
        \/ main[c] = "reply"
        \/ \E i \in 1 .. Len(fromClient[c]) : fromClient[c][i] = CloseFrame
        => peer[c] # "open"

WriterWorks ==
    \A c \in Conns : peer[c] = "open" =>
        /\ writer[c] \notin {"none", "raised"}
        /\ writer[c] \in {"next", "text"} => sock[c] /\ driverOpen[c]
        /\ writer[c] \in {"close", "ended"} => msgs[c] = <<>> /\ drain[c] \in Over

RackInv ==
    /\ RackTypeOK
    /\ DrainStarted
    /\ FreshPeers
    /\ CloseSeen
    /\ WriterWorks
    /\ MessagesKept

\* A client that is there was there before, or has just connected; only it and
\* the reading thread touch what it has sent.
LEMMA PeerStep ==
    ASSUME RackTypeOK, [RackNext]_allVars, ~Hijack
    PROVE  /\ UNCHANGED nextConnId
           /\ \/ UNCHANGED peer
              \/ \E c \in Conns, how \in {"closed", "lost", "leaving"} :
                    peer[c] # "none" /\ peer' = [peer EXCEPT ![c] = how]
           /\ UNCHANGED <<main, fromClient>> \/ \E c \in Conns : Main(c) \/ Client(c)
<1>1. ASSUME NEW c \in Conns, Main(c)
      PROVE  UNCHANGED nextConnId
    BY <1>1 DEF Main, ReadText, ReadPushed, ReadControl, PongWritten, ReplyWritten,
       Ensure, CoreJoined, WriterJoined, PushMessage, PushSent, PushFailed, PushEnds,
       Close, serverVars, vars
<1>2. ASSUME NEW c \in Conns, Main(c)
      PROVE  \/ UNCHANGED peer
             \/ peer[c] # "none" /\ peer' = [peer EXCEPT ![c] = "closed"]
    BY <1>2 DEF Main, ReadText, ReadPushed, ReadControl, Reads, PongWritten,
       ReplyWritten, Ensure, LoopEnds, CoreJoined, WriterJoined, Taken, Dropped,
       Raised, rackVars
<1>3. ASSUME NEW c \in Conns, Writer(c)
      PROVE  /\ UNCHANGED <<nextConnId, main, fromClient>>
             /\ \/ UNCHANGED peer
                \/ peer[c] # "none" /\ peer' = [peer EXCEPT ![c] = "closed"]
    BY <1>3 DEF Writer, NextMessage, TextWritten, NextNil, WriterCloses,
       WriterRaises, Taken, Dropped, Raised, vars
<1>4. ASSUME NEW c \in Conns, Client(c)
      PROVE  /\ UNCHANGED nextConnId
             /\ \/ UNCHANGED peer
                \/ \E how \in {"closed", "lost", "leaving"} :
                      peer[c] # "none" /\ peer' = [peer EXCEPT ![c] = how]
    <2>1. ASSUME NEW m \in Incoming, ClientSends(c, m), ~UNCHANGED peer
          PROVE  peer[c] # "none" /\ peer' = [peer EXCEPT ![c] = "leaving"]
        BY <2>1 DEF ClientSends, RackTypeOK
    <2>2. UNCHANGED nextConnId
        BY <1>4, ClientFrame DEF vars
    <2> QED BY <1>4, <2>1, <2>2 DEF Client, ClientReads, ClientGone, Alive
<1>5. ASSUME NEW c \in Conns, Deliver(c) \/ ReplacedFromOutside(c)
      PROVE  UNCHANGED <<nextConnId, peer, main, fromClient>>
    BY <1>5 DEF Deliver, DrainDeliver, ReplacedFromOutside, Close, serverVars, rackVars
<1>6. CASE CoreStep
    <2>1. ASSUME NEW c \in Conns, DrainEnd(c)
          PROVE  UNCHANGED nextConnId
        BY <2>1 DEF DrainEnd, serverVars
    <2>2. UNCHANGED nextConnId
        BY <1>6, <2>1, RunFrame, RequestFrame DEF CoreStep
    <2> QED BY <1>6, <2>2 DEF CoreStep, rackVars
<1>7. CASE RackStopped \/ UNCHANGED allVars
    BY <1>7 DEF RackStopped, Stopped, allVars, vars, rackVars
<1> QED BY <1>1, <1>2, <1>3, <1>4, <1>5, <1>6, <1>7 DEF RackNext

\* A connection not made yet has no client after any step.
LEMMA FreshPeerStep ==
    ASSUME IInv, RackTypeOK, FreshPeers, [RackNext]_allVars
    PROVE  FreshPeers'
<1> USE DEF FreshPeers
<1>0. /\ nextConnId \in Nat /\ Conns \subseteq Nat
      /\ fromClient \in [Conns -> Seq(Incoming)]
      /\ peer \in [Conns -> Alive \cup {"none", "closed", "lost"}]
    BY DEF IInv, TypeOK, Conns, RackTypeOK
<1>1. CASE Hijack
    BY <1>0, <1>1 DEF Hijack, CreateConnection
<1>2. CASE ~Hijack
    <2>1. UNCHANGED nextConnId /\ \A d \in Conns : peer[d] = "none" => peer'[d] = "none"
        BY <1>0, <1>2, PeerStep
    <2>2. ASSUME NEW c \in Conns, Main(c) \/ Client(c),
                 NEW d \in Conns, peer[d] = "none", fromClient[d] = <<>>
          PROVE  fromClient'[d] = <<>>
        <3>1. CASE Main(c)
            BY <1>0, <2>2, <3>1, MainFrame
        <3>2. CASE Client(c)
            BY <1>0, <2>2, <3>2 DEF Client, ClientSends, ClientReads, ClientGone
        <3> QED BY <2>2, <3>1, <3>2
    <2>3. UNCHANGED fromClient \/ \E c \in Conns : Main(c) \/ Client(c)
        BY <1>2, PeerStep
    <2> QED BY <2>1, <2>2, <2>3
<1> QED BY <1>1, <1>2

\* The driver answers a close frame only after the client sent it.
LEMMA CloseSeenStep ==
    ASSUME IInv, RackTypeOK, FreshPeers, CloseSeen, [RackNext]_allVars
    PROVE  CloseSeen'
<1> DEFINE Sent(c) == \E i \in 1 .. Len(fromClient[c]) : fromClient[c][i] = CloseFrame
<1>0. /\ Conns \subseteq Nat
      /\ main \in [Conns -> {"none", "reading", "pong", "reply", "joinCore",
                             "joinWriter", "done"}]
      /\ fromClient \in [Conns -> Seq(Incoming)]
      /\ peer \in [Conns -> Alive \cup {"none", "closed", "lost"}]
    BY DEF Conns, RackTypeOK
<1>1. CASE Hijack
    <2>1. fromClient[nextConnId] = <<>> /\ nextConnId \in Conns
        BY <1>0, <1>1 DEF Hijack, CreateConnection, FreshPeers
    <2>2. Len(fromClient[nextConnId]) = 0
        BY <2>1, EmptySeq
    <2> QED BY <1>0, <1>1, <2>1, <2>2 DEF Hijack, CloseSeen
<1>2. CASE ~Hijack
    <2>1. \A d \in Conns : peer'[d] = "open" => peer[d] = "open"
        BY <1>0, <1>2, PeerStep
    <2>2. ASSUME NEW c \in Conns,
                 UNCHANGED peer \/ peer'[c] # "open",
                 peer'[c] = "open" => main'[c] # "reply" \/ main[c] = "reply" \/ Sent(c),
                 peer'[c] = "open" => (Sent(c)' => Sent(c)),
                 \A d \in Conns \ {c} : main'[d] = main[d] /\ fromClient'[d] = fromClient[d]
          PROVE  CloseSeen'
        BY <2>1, <2>2 DEF CloseSeen
    <2>3. CASE UNCHANGED <<main, fromClient>>
        BY <2>1, <2>3 DEF CloseSeen
    <2>4. ASSUME NEW c \in Conns, Main(c)
          PROVE  CloseSeen'
        <3>1. Sent(c)' => Sent(c)
            BY <1>0, <2>4, MainFrame, TailElement
        <3>2. \A d \in Conns \ {c} : main'[d] = main[d] /\ fromClient'[d] = fromClient[d]
            <4>1. \A d \in Conns \ {c} : main'[d] = main[d]
                BY <1>0, <2>4 DEF Main, ReadText, ReadPushed, ReadControl, PongWritten,
                   ReplyWritten, Ensure, CoreJoined, WriterJoined, rackVars
            <4> QED BY <1>0, <2>4, <4>1, MainFrame
        <3>3. main'[c] = "reply" => main[c] = "reply" \/ Sent(c)
            <4>1. CASE Reads(c, "close")
                <5>1. fromClient[c] \in Seq(Incoming) /\ fromClient[c] # <<>>
                    BY <1>0, <4>1 DEF Reads
                <5>2. Head(fromClient[c]) = CloseFrame
                    BY <4>1, <5>1, IncomingKinds, HeadTailProperties DEF Reads
                <5> QED BY <5>1, <5>2, TailElement
            <4>2. CASE ~Reads(c, "close")
                BY <1>0, <2>4, <4>2 DEF Main, ReadText, ReadPushed, ReadControl,
                   PongWritten, ReplyWritten, Ensure, CoreJoined, WriterJoined, rackVars
            <4> QED BY <4>1, <4>2
        <3> HIDE DEF Sent
        <3> QED BY <1>0, <2>1, <3>1, <3>2, <3>3 DEF CloseSeen, Sent
    <2>5. ASSUME NEW c \in Conns, Client(c)
          PROVE  CloseSeen'
        <3>1. UNCHANGED main
            BY <2>5, ClientFrame
        <3>2. CASE UNCHANGED fromClient
            BY <2>3, <3>1, <3>2
        <3>3. ASSUME NEW m \in Incoming, ClientSends(c, m)
              PROVE  CloseSeen'
            <4>1. /\ fromClient' = [fromClient EXCEPT ![c] = Append(@, m)]
                  /\ m = CloseFrame => peer' = [peer EXCEPT ![c] = "leaving"]
                BY <3>3 DEF ClientSends
            <4>2. m # CloseFrame => (Sent(c)' => Sent(c))
                BY <1>0, <4>1, AppendElement
            <4>3. m = CloseFrame => peer'[c] # "open"
                BY <1>0, <4>1
            <4>4. \A d \in Conns \ {c} : fromClient'[d] = fromClient[d]
                BY <1>0, <4>1
            <4> HIDE DEF Sent
            <4> QED BY <2>1, <3>1, <4>2, <4>3, <4>4 DEF CloseSeen, Sent
        <3> QED BY <2>5, <3>2, <3>3 DEF Client, ClientReads, ClientGone
    <2> QED BY <1>2, <2>3, <2>4, <2>5, PeerStep
<1> QED BY <1>1, <1>2

\* The writer stops only when nothing is left to come, or its client is gone.
LEMMA WriterStep ==
    ASSUME IInv, RackInv, [RackNext]_allVars
    PROVE  WriterWorks'
<1> USE DEF WriterWorks
<1>0. /\ main \in [Conns -> {"none", "reading", "pong", "reply", "joinCore",
                             "joinWriter", "done"}]
      /\ writer \in [Conns -> {"none", "next", "text", "close", "ended", "raised"}]
      /\ msgs \in [Conns -> Seq(ServerMessages)]
      /\ driverOpen \in [Conns -> BOOLEAN]
      /\ sock \in [Conns -> BOOLEAN]
      /\ peer \in [Conns -> Alive \cup {"none", "closed", "lost"}]
      /\ CloseSeen /\ WriterWorks
    BY DEF RackInv, RackTypeOK
<1>1. \A c \in Conns : drain[c] \in Over => drain'[c] \in Over
    BY CoreSteps, DrainStays DEF RackInv, RackTypeOK
<1>2. CASE Hijack
    BY <1>0, <1>1, <1>2 DEF Hijack, CreateConnection
<1>3. CASE ~Hijack
    <2>1. \A d \in Conns : peer'[d] = "open" => peer[d] = "open"
        BY <1>0, <1>3, PeerStep DEF RackInv
    <2>2. CASE UNCHANGED <<writer, msgs, sock, driverOpen>>
        BY <1>0, <1>1, <2>1, <2>2
    <2>3. ASSUME NEW c \in Conns, Deliver(c)
          PROVE  WriterWorks'
        <3>1. /\ drain[c] \notin Over
              /\ UNCHANGED <<writer, sock, driverOpen, peer>>
              /\ msgs' = [msgs EXCEPT ![c] = Append(@, Head(outQ[c]))]
            BY <2>3 DEF Deliver, DrainDeliver, Over
        <3> QED BY <1>0, <1>1, <3>1
    <2>4. ASSUME NEW c \in Conns, Writer(c)
          PROVE  WriterWorks'
        <3>1. CASE NextMessage(c)
            BY <1>0, <1>1, <3>1 DEF NextMessage
        <3>2. CASE TextWritten(c)
            BY <1>0, <1>1, <2>1, <3>2 DEF TextWritten
        <3>3. CASE NextNil(c)
            BY <1>0, <1>1, <3>3 DEF NextNil, NoMoreMessages, Over
        <3>4. CASE WriterCloses(c)
            BY <1>0, <1>1, <2>1, <3>4 DEF WriterCloses
        <3>5. CASE WriterRaises(c)
            BY <1>0, <1>1, <3>5 DEF WriterRaises, Raised
        <3> QED BY <2>4, <3>1, <3>2, <3>3, <3>4, <3>5 DEF Writer
    <2>5. ASSUME NEW c \in Conns, Main(c)
          PROVE  WriterWorks'
        <3>1. UNCHANGED <<writer, msgs>>
            BY <2>5, MainFrame
        <3>2. CASE WriterJoined(c)
            BY <1>0, <1>1, <3>2 DEF WriterJoined
        <3>3. CASE ReplyWritten(c)
            <4>1. peer[c] # "open" /\ driverOpen' = [driverOpen EXCEPT ![c] = FALSE]
                  /\ UNCHANGED sock
                BY <1>0, <3>3 DEF ReplyWritten, CloseSeen
            <4> QED BY <1>0, <1>1, <2>1, <3>1, <4>1
        <3>4. CASE UNCHANGED <<sock, driverOpen>>
            BY <2>2, <3>1, <3>4
        <3>5. UNCHANGED sock \/ WriterJoined(c)
            BY <2>5, MainFrame
        <3>6. UNCHANGED driverOpen \/ ReplyWritten(c)
            BY <2>5, MainFrame
        <3> QED BY <3>2, <3>3, <3>4, <3>5, <3>6
    <2>6. ASSUME NEW c \in Conns, Client(c)
          PROVE  WriterWorks'
        BY <2>2, <2>6, ClientFrame
    <2>7. CASE CoreStep \/ RackStopped \/ UNCHANGED allVars
        BY <2>2, <2>7 DEF CoreStep, RackStopped, allVars, rackVars
    <2>8. ASSUME NEW c \in Conns, ReplacedFromOutside(c)
          PROVE  WriterWorks'
        BY <2>2, <2>8 DEF ReplacedFromOutside, rackVars
    <2> HIDE DEF WriterWorks
    <2> QED BY <1>3, <2>3, <2>4, <2>5, <2>6, <2>7, <2>8 DEF RackNext
<1> QED BY <1>2, <1>3

\* Only Deliver gives the callback a message.
LEMMA HandedStep ==
    ASSUME RackTypeOK, [RackNext]_allVars
    PROVE  UNCHANGED handed \/ \E c \in Conns : Deliver(c)
<1>1. CASE Hijack
    BY <1>1 DEF Hijack, CreateConnection
<1>2. CASE CoreStep
    <2>1. ASSUME NEW c \in Conns, DrainEnd(c)
          PROVE  UNCHANGED handed
        BY <2>1 DEF DrainEnd
    <2> QED BY <1>2, <2>1, RunFrame, RequestFrame DEF CoreStep
<1>3. ASSUME NEW c \in Conns, Main(c)
      PROVE  UNCHANGED handed
    BY <1>3, MainStep, AdapterFrame DEF RackTypeOK, vars
<1>4. ASSUME NEW c \in Conns, Writer(c) \/ Client(c) \/ ReplacedFromOutside(c)
      PROVE  UNCHANGED handed
    BY <1>4, WriterFrame, ClientFrame DEF ReplacedFromOutside, Close, vars
<1>5. CASE RackStopped \/ UNCHANGED allVars
    BY <1>5 DEF RackStopped, Stopped, allVars, vars
<1> QED BY <1>1, <1>2, <1>3, <1>4, <1>5 DEF RackNext

\* A message on its way to the socket of c, or written.
OnItsWay(c) ==
    written[c] \cup (IF writer[c] \in {"next", "text"} THEN Range(msgs[c]) ELSE {})
               \cup (IF writer[c] = "text" THEN {sending[c]} ELSE {})

\* MessagesKept in terms of OnItsWay.
LEMMA KeptOnItsWay ==
    MessagesKept <=> \A c \in Conns : peer[c] = "open" => handed[c] \subseteq OnItsWay(c)
BY DEF MessagesKept, OnItsWay

\* No step loses a message between the callback and the socket while the
\* client is there.
LEMMA KeptStep ==
    ASSUME IInv, RackInv, [RackNext]_allVars
    PROVE  MessagesKept'
<1> DEFINE Kept(c) == peer[c] = "open" => handed[c] \subseteq OnItsWay(c)
<1>0. /\ writer \in [Conns -> {"none", "next", "text", "close", "ended", "raised"}]
      /\ msgs \in [Conns -> Seq(ServerMessages)]
      /\ sending \in [Conns -> ServerMessages]
      /\ written \in [Conns -> SUBSET ServerMessages]
      /\ peer \in [Conns -> Alive \cup {"none", "closed", "lost"}]
      /\ handed \in [Conns -> SUBSET ServerMessages]
      /\ WriterWorks
    BY DEF RackInv, RackTypeOK, IInv, TypeOK
<1>a. \A c \in Conns : Kept(c)
    BY KeptOnItsWay DEF RackInv
<1>b. (\A c \in Conns : Kept(c)') => MessagesKept'
    BY DEF MessagesKept, OnItsWay
<1>1. CASE Hijack
    <2>1. /\ nextConnId \in Conns /\ UNCHANGED <<handed, msgs, sending, written>>
          /\ peer' = [peer EXCEPT ![nextConnId] = "open"]
          /\ writer' = [writer EXCEPT ![nextConnId] = "next"]
        BY <1>1 DEF Hijack, CreateConnection
    <2>2. runPc[nextConnId] = "none"
        BY <2>1 DEF IInv, FreshConnections, TypeOK, Conns
    <2>3. handed[nextConnId] = {}
        BY <2>1, <2>2 DEF IInv, QuietBeforeAuth
    <2>4. ASSUME NEW c \in Conns, c # nextConnId PROVE Kept(c)'
        BY <1>0, <1>a, <2>1, <2>4 DEF OnItsWay
    <2> QED BY <1>b, <2>1, <2>3, <2>4
<1>2. CASE ~Hijack
    <2>1. \A d \in Conns : peer'[d] = "open" => peer[d] = "open"
        BY <1>0, <1>2, PeerStep DEF RackInv
    <2>2. CASE UNCHANGED <<handed, writer, msgs, sending, written>>
        <3>1. ASSUME NEW c \in Conns PROVE Kept(c)'
            BY <1>a, <2>1, <2>2 DEF OnItsWay
        <3> QED BY <1>b, <3>1
    <2>3. ASSUME NEW c \in Conns, Deliver(c)
          PROVE  MessagesKept'
        <3> DEFINE m == Head(outQ[c])
        <3>1. m \in ServerMessages
            BY <2>3, DeliveredMessage
        <3>2. /\ handed' = [handed EXCEPT ![c] = @ \cup {m}]
              /\ msgs' = [msgs EXCEPT ![c] = Append(@, m)]
              /\ UNCHANGED <<writer, sending, written, peer>>
              /\ drain[c] \notin Over
            BY <2>3 DEF Deliver, DrainDeliver, Over
        <3> HIDE DEF m
        <3>3. peer[c] = "open" => writer[c] \in {"next", "text"}
            BY <1>0, <3>2 DEF WriterWorks
        <3>4. Range(Append(msgs[c], m)) = Range(msgs[c]) \cup {m}
            BY <1>0, <3>1, RangeAppend
        <3>5. /\ handed'[c] = handed[c] \cup {m} /\ msgs'[c] = Append(msgs[c], m)
              /\ \A d \in Conns \ {c} : handed'[d] = handed[d] /\ msgs'[d] = msgs[d]
            BY <1>0, <3>2
        <3>6. Kept(c)'
            BY <1>a, <3>2, <3>3, <3>4, <3>5 DEF OnItsWay
        <3>7. ASSUME NEW d \in Conns \ {c} PROVE Kept(d)'
            BY <1>a, <3>2, <3>5 DEF OnItsWay
        <3> QED BY <1>b, <3>6, <3>7
    <2>4. ASSUME NEW c \in Conns, Writer(c)
          PROVE  MessagesKept'
        <3>0. UNCHANGED handed
            BY <2>4, WriterFrame DEF vars
        <3>a. ASSUME Kept(c)',
                     \A d \in Conns \ {c} :
                        /\ writer'[d] = writer[d] /\ msgs'[d] = msgs[d]
                        /\ sending'[d] = sending[d] /\ written'[d] = written[d]
              PROVE  MessagesKept'
            <4>1. ASSUME NEW d \in Conns \ {c} PROVE Kept(d)'
                BY <1>a, <2>1, <3>0, <3>a, <4>1 DEF OnItsWay
            <4> QED BY <1>b, <3>a, <4>1
        <3>b. peer'[c] = "open" => handed'[c] \subseteq OnItsWay(c)
            BY <1>a, <2>1, <3>0
        <3>1. CASE NextMessage(c)
            <4>1. peer[c] = "open" => driverOpen[c]
                BY <1>0, <3>1 DEF NextMessage, WriterWorks
            <4>2. Range(msgs[c]) = {Head(msgs[c])} \cup Range(Tail(msgs[c]))
                BY <1>0, <3>1, RangeTail DEF NextMessage
            <4>3. /\ writer[c] = "next"
                  /\ msgs' = [msgs EXCEPT ![c] = Tail(@)]
                  /\ UNCHANGED <<written, peer>>
                  /\ \/ /\ sending' = [sending EXCEPT ![c] = Head(msgs[c])]
                        /\ writer' = [writer EXCEPT ![c] = "text"]
                     \/ ~driverOpen[c] /\ UNCHANGED <<sending, writer>>
                BY <3>1 DEF NextMessage
            <4>4. /\ msgs'[c] = Tail(msgs[c])
                  /\ \/ sending'[c] = Head(msgs[c]) /\ writer'[c] = "text"
                     \/ ~driverOpen[c]
                BY <1>0, <4>3
            <4>5. Kept(c)'
                BY <3>b, <4>1, <4>2, <4>3, <4>4 DEF OnItsWay
            <4>6. \A d \in Conns \ {c} :
                        /\ writer'[d] = writer[d] /\ msgs'[d] = msgs[d]
                        /\ sending'[d] = sending[d] /\ written'[d] = written[d]
                BY <1>0, <4>3
            <4> QED BY <3>a, <4>5, <4>6
        <3>2. CASE TextWritten(c)
            <4>1. peer'[c] = "open" => ~Dropped(c)
                BY <1>0, <2>1, <3>2 DEF TextWritten, WriterWorks, Dropped
            <4>2. /\ writer[c] = "text"
                  /\ writer' = [writer EXCEPT ![c] = "next"]
                  /\ UNCHANGED <<msgs, sending>>
                  /\ \/ written' = [written EXCEPT ![c] = @ \cup {sending[c]}]
                     \/ Dropped(c) /\ UNCHANGED written
                BY <3>2 DEF TextWritten
            <4>3. /\ writer'[c] = "next"
                  /\ \/ written'[c] = written[c] \cup {sending[c]}
                     \/ Dropped(c)
                BY <1>0, <4>2
            <4>4. Kept(c)'
                BY <3>b, <4>1, <4>2, <4>3 DEF OnItsWay
            <4>5. \A d \in Conns \ {c} :
                        /\ writer'[d] = writer[d] /\ msgs'[d] = msgs[d]
                        /\ sending'[d] = sending[d] /\ written'[d] = written[d]
                BY <1>0, <4>2
            <4> QED BY <3>a, <4>4, <4>5
        <3>3. CASE NextNil(c)
            <4>1. Range(msgs[c]) = {}
                BY <3>3 DEF NextNil, Range
            <4>2. /\ writer[c] = "next"
                  /\ writer' = [writer EXCEPT ![c] = "close"]
                  /\ UNCHANGED <<msgs, sending, written>>
                BY <3>3 DEF NextNil
            <4>3. Kept(c)'
                BY <3>b, <4>1, <4>2 DEF OnItsWay
            <4>4. \A d \in Conns \ {c} : writer'[d] = writer[d]
                BY <1>0, <4>2
            <4> QED BY <3>a, <4>2, <4>3, <4>4
        <3>4. CASE WriterCloses(c)
            <4>1. /\ writer[c] = "close"
                  /\ writer' = [writer EXCEPT ![c] = "ended"]
                  /\ UNCHANGED <<msgs, sending, written>>
                BY <3>4 DEF WriterCloses
            <4>2. Kept(c)'
                BY <3>b, <4>1 DEF OnItsWay
            <4>3. \A d \in Conns \ {c} : writer'[d] = writer[d]
                BY <1>0, <4>1
            <4> QED BY <3>a, <4>1, <4>2, <4>3
        <3>5. CASE WriterRaises(c)
            <4>1. /\ peer'[c] # "open"
                  /\ writer' = [writer EXCEPT ![c] = "raised"]
                  /\ UNCHANGED <<msgs, sending, written>>
                BY <1>0, <3>5 DEF WriterRaises, Raised
            <4>2. \A d \in Conns \ {c} : writer'[d] = writer[d]
                BY <1>0, <4>1
            <4> QED BY <3>a, <4>1, <4>2
        <3> QED BY <2>4, <3>1, <3>2, <3>3, <3>4, <3>5 DEF Writer
    <2>5. CASE \A c \in Conns : ~Deliver(c) /\ ~Writer(c)
        <3>1. UNCHANGED handed
            BY <2>5, HandedStep DEF RackInv
        <3>2. UNCHANGED <<writer, msgs, sending, written>>
            BY <1>2, <2>5, MainFrame, ClientFrame
               DEF RackNext, CoreStep, ReplacedFromOutside, RackStopped, allVars, rackVars
        <3> QED BY <2>2, <3>1, <3>2
    <2> HIDE DEF MessagesKept
    <2> QED BY <2>3, <2>4, <2>5
<1> QED BY <1>1, <1>2

\* The invariant of the adapter holds in every state.
LEMMA RackInvariance == RackSpec => []RackInv
<1>1. RackInit => RackInv
    <2> SUFFICES ASSUME RackInit PROVE RackInv
        OBVIOUS
    <2>1. RackTypeOK
        BY RackTypeInit
    <2>2. Len(<<>>) = 0
        BY EmptySeq
    <2> QED BY <2>1, <2>2 DEF RackInit, Init, RackInv, DrainStarted, FreshPeers,
            CloseSeen, WriterWorks, MessagesKept
<1>2. IInv /\ RackInv /\ [RackNext]_allVars => RackInv'
    <2> SUFFICES ASSUME IInv, RackInv, [RackNext]_allVars PROVE RackInv'
        OBVIOUS
    <2>1. [Next]_vars
        BY CoreSteps DEF RackInv, RackTypeOK
    <2> QED BY <2>1, DrainStays, RackTypeStep, FreshPeerStep, CloseSeenStep,
            WriterStep, KeptStep DEF RackInv
<1>3. RackSpec => []IInv
    BY RackUsesCore, Invariance, PTL DEF UsesCore
<1> QED BY <1>1, <1>2, <1>3, PTL DEF RackSpec

\* While its client is there, what the core hands to the callback reaches the
\* socket: neither the end of run(), nor a pong or a close reply written by the
\* other thread, nor a close of the driver or the io loses a message.
THEOREM NoMessageLost == RackSpec => []MessagesKept
<1>1. RackInv => MessagesKept
    BY DEF RackInv
<1> QED BY <1>1, RackInvariance, PTL

\* Every variable of the adapter keeps its type, and the messages its client
\* has not read never exceed what the socket holds, whichever thread writes.
THEOREM RackTypes == RackSpec => []RackTypeOK
<1>1. RackInv => RackTypeOK
    BY DEF RackInv
<1> QED BY <1>1, RackInvariance, PTL

(***************************************************************************)
(* What the client reads.  The writer takes the messages in the order of   *)
(* the callback; it drops one only when its client is gone.                *)
(***************************************************************************)

\* A request is written once.
NotWritten(c) ==
    writer[c] = "text" /\ sending[c].type = "request" => sending[c] \notin written[c]

\* The socket takes only what the core handed to the callback: auth_ok and
\* requests if its client authenticated, each request once, at the one socket
\* of the connection it was sent to, and, while the client is there, auth_ok
\* before any request.
SocketTrusted ==
    \A c \in Conns :
        /\ written[c] \subseteq handed[c]
        /\ (\E m \in written[c] : m.type \in {"auth_ok", "request"})
              => Secret # EmptyToken /\ auth[c].token = Secret
        /\ peer[c] = "open" /\ (\E r \in Reqs : TunnelRequest(r) \in written[c])
              => AuthOk \in written[c]
        /\ \A r \in Reqs : TunnelRequest(r) \in written[c] =>
              reqConn[r] = c /\ auth[c].service = ServiceOf[r]
        /\ NotWritten(c)

\* The messages the writer has taken.
TakenBy(c) == written[c] \cup (IF writer[c] = "text" THEN {sending[c]} ELSE {})

InOrder(c) ==
    /\ TakenBy(c) \cup Range(msgs[c]) \subseteq handed[c]
    /\ peer[c] = "open" =>
          /\ OkLeads(TakenBy(c), msgs[c])
          /\ (\E m \in TakenBy(c) : m.type = "request") => AuthOk \in written[c]
    /\ Fresh(TakenBy(c), msgs[c])
    /\ NotWritten(c)

SocketOrder == \A c \in Conns : InOrder(c)

\* No step of the writer or of the drain task changes the order.
LEMMA SocketOrderStep ==
    ASSUME IInv, AuthOkFirst', RequestsArriveOnce, RackInv, SocketOrder, [RackNext]_allVars
    PROVE  SocketOrder'
<1>0. /\ writer \in [Conns -> {"none", "next", "text", "close", "ended", "raised"}]
      /\ msgs \in [Conns -> Seq(ServerMessages)]
      /\ sending \in [Conns -> ServerMessages]
      /\ written \in [Conns -> SUBSET ServerMessages]
      /\ peer \in [Conns -> Alive \cup {"none", "closed", "lost"}]
      /\ handed \in [Conns -> SUBSET ServerMessages]
      /\ WriterWorks
    BY DEF RackInv, RackTypeOK, IInv, TypeOK
<1>1. CASE Hijack
    <2>1. /\ nextConnId \in Conns /\ UNCHANGED <<handed, msgs, sending, written>>
          /\ peer' = [peer EXCEPT ![nextConnId] = "open"]
          /\ writer' = [writer EXCEPT ![nextConnId] = "next"]
        BY <1>1 DEF Hijack, CreateConnection
    <2>2. runPc[nextConnId] = "none"
        BY <2>1 DEF IInv, FreshConnections, TypeOK, Conns
    <2>3. handed[nextConnId] = {}
        BY <2>1, <2>2 DEF IInv, QuietBeforeAuth
    <2>4. msgs[nextConnId] = <<>>
        <3>1. Range(msgs[nextConnId]) = {} /\ msgs[nextConnId] \in Seq(ServerMessages)
            BY <1>0, <2>1, <2>3 DEF SocketOrder, InOrder
        <3>2. msgs[nextConnId] # <<>> => Head(msgs[nextConnId]) \in Range(msgs[nextConnId])
            BY <3>1, RangeTail
        <3> QED BY <3>1, <3>2
    <2>5. Range(<<>>) = {} /\ Len(<<>>) = 0
        BY EmptySeq DEF Range
    <2>6. ASSUME NEW c \in Conns PROVE InOrder(c)'
        <3>1. CASE c = nextConnId
            <4>1. written[c] = {}
                BY <2>1, <2>3, <3>1 DEF SocketOrder, InOrder, TakenBy
            <4> QED BY <1>0, <2>1, <2>3, <2>4, <2>5, <3>1, <4>1 DEF InOrder, TakenBy, OkLeads,
                    Fresh, NotWritten
        <3>2. CASE c # nextConnId
            BY <1>0, <2>1, <3>2 DEF SocketOrder, InOrder, TakenBy, OkLeads,
                    Fresh, NotWritten
        <3> QED BY <3>1, <3>2
    <2> QED BY <2>6 DEF SocketOrder
<1>2. CASE ~Hijack
    <2>1. \A d \in Conns : peer'[d] = "open" => peer[d] = "open"
        BY <1>0, <1>2, PeerStep DEF RackInv
    <2>2. ASSUME NEW c \in Conns, InOrder(c)',
                 \A d \in Conns \ {c} :
                    /\ writer'[d] = writer[d] /\ msgs'[d] = msgs[d]
                    /\ sending'[d] = sending[d] /\ written'[d] = written[d]
                    /\ handed'[d] = handed[d]
          PROVE  SocketOrder'
        <3>1. ASSUME NEW d \in Conns \ {c} PROVE InOrder(d)'
            BY <2>1, <2>2, <3>1 DEF SocketOrder, InOrder, TakenBy, OkLeads,
                    Fresh, NotWritten
        <3> QED BY <2>2, <3>1 DEF SocketOrder
    <2>3. CASE UNCHANGED <<handed, writer, msgs, sending, written>>
        <3>1. ASSUME NEW c \in Conns PROVE InOrder(c)'
            BY <2>1, <2>3 DEF SocketOrder, InOrder, TakenBy, OkLeads,
                    Fresh, NotWritten
        <3> QED BY <3>1 DEF SocketOrder
    <2>4. ASSUME NEW c \in Conns, Deliver(c)
          PROVE  SocketOrder'
        <3> DEFINE m == Head(outQ[c])
        <3>1. m \in ServerMessages
            BY <2>4, DeliveredMessage
        <3>2. /\ handed' = [handed EXCEPT ![c] = @ \cup {m}]
              /\ msgs' = [msgs EXCEPT ![c] = Append(@, m)]
              /\ UNCHANGED <<writer, sending, written, peer>>
              /\ drain[c] \notin Over
            BY <2>4 DEF Deliver, DrainDeliver, Over
        <3>3. m.type = "request" => AuthOk \in handed[c]
            BY <2>4, DeliveredInOrder DEF Deliver
        <3>a. m.type = "request" => m \notin handed[c]
            BY <2>4, DeliveredOnce DEF Deliver
        <3> HIDE DEF m
        <3>4. /\ handed'[c] = handed[c] \cup {m}
              /\ msgs'[c] = Append(msgs[c], m) /\ msgs[c] \in Seq(ServerMessages)
              /\ \A d \in Conns \ {c} : handed'[d] = handed[d] /\ msgs'[d] = msgs[d]
            BY <1>0, <3>2
        <3>5. Range(msgs'[c]) = Range(msgs[c]) \cup {m}
            BY <3>1, <3>4, RangeAppend
        <3>6. peer[c] = "open" => handed[c] \subseteq TakenBy(c) \cup Range(msgs[c])
            <4>1. peer[c] = "open" => writer[c] \in {"next", "text"}
                BY <1>0, <3>2 DEF WriterWorks
            <4> QED BY <4>1, KeptOnItsWay DEF RackInv, OnItsWay, TakenBy
        <3>7. peer[c] = "open" => OkLeads(TakenBy(c), Append(msgs[c], m))
            BY <3>1, <3>3, <3>4, <3>6, OkLeadsAppend DEF SocketOrder, InOrder
        <3>8. TakenBy(c)' = TakenBy(c)
            BY <3>2 DEF TakenBy
        <3>b. Fresh(TakenBy(c), Append(msgs[c], m))
            BY <3>1, <3>4, <3>a, FreshAppend DEF SocketOrder, InOrder
        <3>9. InOrder(c)'
            BY <3>2, <3>4, <3>5, <3>7, <3>8, <3>b DEF SocketOrder, InOrder, NotWritten
        <3> QED BY <2>2, <3>2, <3>4, <3>9
    <2>5. ASSUME NEW c \in Conns, Writer(c)
          PROVE  SocketOrder'
        <3>0. UNCHANGED handed
            BY <2>5, WriterFrame DEF vars
        <3>1. CASE NextMessage(c)
            <4>1. /\ writer[c] = "next" /\ msgs[c] # <<>>
                  /\ msgs' = [msgs EXCEPT ![c] = Tail(@)]
                  /\ UNCHANGED <<written, peer>>
                  /\ \/ /\ sending' = [sending EXCEPT ![c] = Head(msgs[c])]
                        /\ writer' = [writer EXCEPT ![c] = "text"]
                     \/ ~driverOpen[c] /\ UNCHANGED <<sending, writer>>
                BY <3>1 DEF NextMessage
            <4>2. /\ msgs[c] \in Seq(ServerMessages) /\ msgs'[c] = Tail(msgs[c])
                  /\ \/ sending'[c] = Head(msgs[c]) /\ writer'[c] = "text"
                     \/ ~driverOpen[c] /\ writer'[c] = "next"
                  /\ \A d \in Conns \ {c} :
                        /\ writer'[d] = writer[d] /\ msgs'[d] = msgs[d]
                        /\ sending'[d] = sending[d]
                BY <1>0, <4>1
            <4>3. Range(msgs[c]) = {Head(msgs[c])} \cup Range(Tail(msgs[c]))
                BY <4>1, <4>2, RangeTail
            <4>4. TakenBy(c) = written[c]
                BY <4>1 DEF TakenBy
            <4>5. \/ TakenBy(c)' = written[c] \cup {Head(msgs[c])}
                  \/ ~driverOpen[c] /\ TakenBy(c)' = written[c]
                BY <4>1, <4>2 DEF TakenBy
            <4>6. peer[c] = "open" => driverOpen[c]
                BY <1>0, <4>1 DEF WriterWorks
            <4>7. peer[c] = "open" =>
                    /\ Head(msgs[c]).type = "request" => AuthOk \in written[c]
                    /\ OkLeads(written[c] \cup {Head(msgs[c])}, Tail(msgs[c]))
                BY <4>1, <4>2, <4>4, OkLeadsTail DEF SocketOrder, InOrder
            <4>a. Fresh(written[c], msgs[c])
                BY <4>4 DEF SocketOrder, InOrder
            <4>b. /\ Head(msgs[c]).type = "request" => Head(msgs[c]) \notin written[c]
                  /\ Fresh(written[c] \cup {Head(msgs[c])}, Tail(msgs[c]))
                BY <4>1, <4>2, <4>a, FreshTail
            <4>c. Fresh(written[c], Tail(msgs[c]))
                BY <4>b DEF Fresh
            <4>d. Fresh(TakenBy(c), msgs[c])'
                BY <4>2, <4>5, <4>b, <4>c
            <4>e. NotWritten(c)'
                BY <4>1, <4>2, <4>b DEF NotWritten
            <4>8. InOrder(c)'
                BY <3>0, <4>1, <4>2, <4>3, <4>4, <4>5, <4>6, <4>7, <4>d, <4>e
                   DEF SocketOrder, InOrder
            <4> QED BY <2>2, <3>0, <4>1, <4>2, <4>8
        <3>2. CASE TextWritten(c)
            <4>1. peer'[c] = "open" => ~Dropped(c)
                BY <1>0, <2>1, <3>2 DEF TextWritten, WriterWorks, Dropped
            <4>2. /\ writer[c] = "text"
                  /\ writer' = [writer EXCEPT ![c] = "next"]
                  /\ UNCHANGED <<msgs, sending>>
                  /\ \/ written' = [written EXCEPT ![c] = @ \cup {sending[c]}]
                     \/ Dropped(c) /\ UNCHANGED written
                BY <3>2 DEF TextWritten
            <4>3. /\ writer'[c] = "next"
                  /\ \/ written'[c] = written[c] \cup {sending[c]}
                     \/ Dropped(c) /\ written'[c] = written[c]
                  /\ \A d \in Conns \ {c} :
                        writer'[d] = writer[d] /\ written'[d] = written[d]
                BY <1>0, <4>2
            <4>4. /\ TakenBy(c)' \subseteq TakenBy(c)
                  /\ peer'[c] = "open" => TakenBy(c)' = TakenBy(c)
                  /\ written[c] \subseteq written'[c]
                BY <4>1, <4>2, <4>3 DEF TakenBy
            <4>6. Fresh(TakenBy(c), msgs[c])' /\ NotWritten(c)'
                BY <4>2, <4>3, <4>4 DEF SocketOrder, InOrder, Fresh, NotWritten
            <4>5. InOrder(c)'
                BY <2>1, <3>0, <4>2, <4>4, <4>6 DEF SocketOrder, InOrder
            <4> QED BY <2>2, <3>0, <4>2, <4>3, <4>5
        <3>3. CASE NextNil(c) \/ WriterCloses(c) \/ WriterRaises(c)
            <4>1. /\ UNCHANGED <<msgs, sending, written>>
                  /\ writer' \in {[writer EXCEPT ![c] = w] : w \in {"close", "ended", "raised"}}
                  /\ writer[c] # "text" \/ peer'[c] # "open"
                BY <1>0, <3>3 DEF NextNil, WriterCloses, WriterRaises, Raised
            <4>2. /\ writer'[c] # "text"
                  /\ \A d \in Conns \ {c} : writer'[d] = writer[d]
                BY <1>0, <4>1
            <4>3. /\ TakenBy(c)' \subseteq TakenBy(c)
                  /\ peer'[c] = "open" => TakenBy(c)' = TakenBy(c)
                BY <4>1, <4>2 DEF TakenBy
            <4>5. Fresh(TakenBy(c), msgs[c])' /\ NotWritten(c)'
                BY <4>1, <4>2, <4>3 DEF SocketOrder, InOrder, Fresh, NotWritten
            <4>4. InOrder(c)'
                BY <2>1, <3>0, <4>1, <4>3, <4>5 DEF SocketOrder, InOrder
            <4> QED BY <2>2, <3>0, <4>1, <4>2, <4>4
        <3> QED BY <2>5, <3>1, <3>2, <3>3 DEF Writer
    <2>6. CASE \A c \in Conns : ~Deliver(c) /\ ~Writer(c)
        <3>1. UNCHANGED handed
            BY <2>6, HandedStep DEF RackInv
        <3>2. UNCHANGED <<writer, msgs, sending, written>>
            BY <1>2, <2>6, MainFrame, ClientFrame
               DEF RackNext, CoreStep, ReplacedFromOutside, RackStopped, allVars, rackVars
        <3> QED BY <2>3, <3>1, <3>2
    <2> QED BY <2>4, <2>5, <2>6
<1> QED BY <1>1, <1>2

\* Behind Rack a client that is there reads auth_ok before any request, and no
\* client reads either unless it presented the configured secret.  No other
\* client reads the request, and none reads it twice.
THEOREM SocketsTrusted == RackSpec => []SocketTrusted
<1>1. RackInit => SocketOrder
    <2>1. Range(<<>>) = {} /\ Len(<<>>) = 0
        BY EmptySeq DEF Range
    <2> QED BY <2>1 DEF RackInit, Init, SocketOrder, InOrder, TakenBy, OkLeads,
            Fresh, NotWritten
<1>2. IInv /\ AuthOkFirst' /\ RequestsArriveOnce /\ RackInv /\ SocketOrder /\ [RackNext]_allVars
        => SocketOrder'
    BY SocketOrderStep
<1>3. SocketOrder /\ OnlyAuthenticated /\ RequestsArriveOnce => SocketTrusted
    <2> SUFFICES ASSUME SocketOrder, OnlyAuthenticated, RequestsArriveOnce, NEW c \in Conns
                 PROVE  /\ written[c] \subseteq handed[c]
                        /\ (\E m \in written[c] : m.type \in {"auth_ok", "request"})
                              => Secret # EmptyToken /\ auth[c].token = Secret
                        /\ peer[c] = "open"
                           /\ (\E r \in Reqs : TunnelRequest(r) \in written[c])
                              => AuthOk \in written[c]
                        /\ \A r \in Reqs : TunnelRequest(r) \in written[c] =>
                              reqConn[r] = c /\ auth[c].service = ServiceOf[r]
                        /\ NotWritten(c)
        BY DEF SocketTrusted
    <2>1. written[c] \subseteq TakenBy(c) /\ TakenBy(c) \subseteq handed[c]
        BY DEF SocketOrder, InOrder, TakenBy
    <2>2. \A r \in Reqs : TunnelRequest(r).type = "request"
        BY DEF TunnelRequest
    <2>3. \A r \in Reqs : TunnelRequest(r) \in written[c] =>
              reqConn[r] = c /\ auth[c].service = ServiceOf[r]
        BY <2>1 DEF RequestsArriveOnce
    <2> QED BY <2>1, <2>2, <2>3 DEF SocketOrder, InOrder, OnlyAuthenticated
<1>4. RackSpec => []IInv /\ []AuthOkFirst /\ []OnlyAuthenticated /\ []RequestsArriveOnce
    BY RackUsesCore, Invariance, AuthOkComesFirst, Authentication, RequestsReachOneClient,
       PTL DEF UsesCore
<1> QED BY <1>1, <1>2, <1>3, <1>4, RackInvariance, PTL DEF RackSpec

(***************************************************************************)
(* Nobody waits in a circle (NoThreadStuck).                               *)
(***************************************************************************)

\* How far one thread is says how far the others are.
ThreadsInStep ==
    \A c \in Conns :
        /\ main[c] = "none" => peer[c] = "none"
        /\ main[c] # "none" => runPc[c] # "none" /\ writer[c] # "none"
        /\ main[c] \in {"joinCore", "joinWriter", "done"} => ~inTx[c]
        /\ main[c] # "reading" => pushing[c][Reader] = NoFrame
        /\ main[c] \in {"joinWriter", "done"} => runPc[c] = "done"
        /\ main[c] = "done" => WriterOver(c) /\ (sock[c] => writer[c] = "raised")
        /\ writer[c] = "ended" => ~sock[c]
        /\ writer[c] = "raised" => peer[c] = "closed"
        /\ runPc[c] = "done" => drain[c] \in Over

\* What each thread does to the others' conditions.
LEMMA ThreadsStep ==
    ASSUME IInv, DrainStarted, RackTypeOK, ThreadsInStep, [RackNext]_allVars
    PROVE  ThreadsInStep'
<1>0. /\ TypeOK
      /\ main \in [Conns -> {"none", "reading", "pong", "reply", "joinCore",
                             "joinWriter", "done"}]
      /\ writer \in [Conns -> {"none", "next", "text", "close", "ended", "raised"}]
      /\ sock \in [Conns -> BOOLEAN]
      /\ peer \in [Conns -> Alive \cup {"none", "closed", "lost"}]
      /\ pushing \in [Conns -> [Pushers -> Frames \cup {NoFrame}]]
      /\ inTx \in [Conns -> BOOLEAN]
      /\ Reader \in Pushers
    BY RackAssumption DEF RackTypeOK, IInv, TypeOK
<1>1. [Next]_vars
    BY CoreSteps DEF RackTypeOK
<1>2. \A c \in Conns :
         /\ runPc[c] # "none" => runPc'[c] # "none"
         /\ runPc[c] = "done" => runPc'[c] = "done"
         /\ runPc[c] # "none" /\ ~inTx[c] => ~inTx'[c]
         /\ runPc'[c] = "done" => drain'[c] \in Over \/ runPc[c] = "done"
         /\ drain[c] \in Over => drain'[c] \in Over
    BY <1>1, CoreGoesForward
<1>3. \A c \in Conns : runPc'[c] = "done" => drain'[c] \in Over
    BY <1>2 DEF ThreadsInStep
<1> USE DEF ThreadsInStep
<1>4. ASSUME UNCHANGED <<main, writer, sock, peer, pushing>> PROVE ThreadsInStep'
    BY <1>2, <1>3, <1>4 DEF WriterOver
<1>5. ASSUME Hijack PROVE ThreadsInStep'
    <2>1. /\ nextConnId \in Conns /\ runPc[nextConnId] = "none"
          /\ runPc' = [runPc EXCEPT ![nextConnId] = "created"]
        BY <1>5, NewConnection DEF Hijack
    <2>2. UNCHANGED pushing
        BY <1>5 DEF Hijack, CreateConnection
    <2>3. main[nextConnId] = "none"
        BY <2>1
    <2> QED BY <1>0, <1>2, <1>3, <1>5, <2>1, <2>2, <2>3 DEF Hijack, WriterOver, TypeOK
<1>6. ASSUME NEW d \in Conns, Writer(d) PROVE ThreadsInStep'
    <2>1. UNCHANGED <<vars, main>> /\ UNCHANGED pushing
        BY <1>6, WriterFrame DEF vars
    <2>2. writer[d] \in {"next", "text", "close"}
        BY <1>6 DEF Writer, NextMessage, TextWritten, NextNil, WriterCloses, WriterRaises
    <2>3. \/ UNCHANGED <<writer, sock>>
          \/ \E w \in {"next", "text", "close"} :
                writer' = [writer EXCEPT ![d] = w] /\ UNCHANGED sock
          \/ writer' = [writer EXCEPT ![d] = "ended"] /\ sock' = [sock EXCEPT ![d] = FALSE]
          \/ /\ writer' = [writer EXCEPT ![d] = "raised"] /\ UNCHANGED sock
             /\ peer' = [peer EXCEPT ![d] = "closed"]
        BY <1>6 DEF Writer, NextMessage, TextWritten, NextNil, WriterCloses, WriterRaises, Raised
    <2>4. \/ UNCHANGED peer
          \/ peer[d] # "none" /\ peer' = [peer EXCEPT ![d] = "closed"]
        BY <1>6 DEF Writer, NextMessage, TextWritten, NextNil, WriterCloses, WriterRaises,
           Taken, Dropped, Raised
    <2>5. \A c \in Conns : main[c] = "done" => c # d
        BY <2>2 DEF WriterOver
    <2> QED BY <1>0, <1>2, <1>3, <2>1, <2>2, <2>3, <2>4, <2>5 DEF WriterOver
<1>7. ASSUME NEW d \in Conns, Deliver(d) \/ ReplacedFromOutside(d) PROVE ThreadsInStep'
    <2>1. UNCHANGED <<main, writer, sock, peer, pushing>>
        BY <1>7 DEF Deliver, DrainDeliver, ReplacedFromOutside, Close, rackVars
    <2> QED BY <1>4, <2>1
<1>8. ASSUME NEW d \in Conns, Client(d) PROVE ThreadsInStep'
    <2>1. UNCHANGED <<main, writer, sock, pushing>>
        BY <1>8, ClientFrame DEF vars
    <2>2. \A c \in Conns : peer[c] \in {"closed", "none"} => peer'[c] = peer[c]
        BY <1>0, <1>8 DEF Client, ClientSends, ClientReads, ClientGone, Alive
    <2> QED BY <1>2, <1>3, <2>1, <2>2 DEF WriterOver
<1>9. ASSUME NEW d \in Conns, Main(d) PROVE ThreadsInStep'
    <2>1. UNCHANGED writer
        BY <1>9, MainFrame
    <2>2. \A c \in Conns : peer[c] = "closed" \/ c # d => peer'[c] = peer[c]
        BY <1>0, <1>9, MainFrame
    <2>3. CASE ReadText(d) \/ ReadPushed(d)
        <3>1. UNCHANGED <<main, sock, peer>> /\ main[d] = "reading"
            BY <2>3 DEF ReadText, ReadPushed, Reads, Reading, rackVars
        <3>2. \A c \in Conns : c # d => pushing'[c] = pushing[c]
            BY <1>0, <2>3 DEF ReadText, ReadPushed, PushMessage, PushSent, PushFailed,
               PushEnds, vars
        <3> QED BY <1>2, <1>3, <2>1, <3>1, <3>2 DEF WriterOver
    <2>4. CASE ReadControl(d) \/ PongWritten(d) \/ ReplyWritten(d) \/ Ensure(d) \/ CoreJoined(d)
              \/ WriterJoined(d)
        <3>1. UNCHANGED pushing
            BY <2>4 DEF ReadControl, PongWritten, ReplyWritten, Ensure, CoreJoined,
               WriterJoined, Close, vars
        <3>2. CASE ReadControl(d) \/ PongWritten(d) \/ ReplyWritten(d)
            <4>1. /\ UNCHANGED sock
                  /\ \E m \in {"reading", "pong", "reply"} : main' = [main EXCEPT ![d] = m]
                  /\ main[d] \in {"reading", "pong", "reply"}
                  /\ pushing[d][Reader] = NoFrame
                BY <1>0, <3>2 DEF ReadControl, Reads, Reading, PongWritten, ReplyWritten
            <4> QED BY <1>0, <1>2, <1>3, <2>1, <2>2, <3>1, <4>1 DEF WriterOver
        <3>3. CASE Ensure(d)
            <4>1. /\ UNCHANGED sock
                  /\ main' = [main EXCEPT ![d] = "joinCore"]
                  /\ main[d] \in {"reading", "pong", "reply"}
                  /\ pushing[d][Reader] = NoFrame
                  /\ ~inTx'[d]
                BY <1>0, <3>3 DEF Ensure, LoopEnds, Reading, Close, vars
            <4> QED BY <1>0, <1>2, <1>3, <2>1, <2>2, <3>1, <4>1 DEF WriterOver
        <3>4. CASE CoreJoined(d)
            BY <1>0, <1>2, <1>3, <2>1, <2>2, <3>1, <3>4 DEF CoreJoined, WriterOver
        <3>5. CASE WriterJoined(d)
            BY <1>0, <1>2, <1>3, <2>1, <2>2, <3>1, <3>5 DEF WriterJoined, WriterOver
        <3> QED BY <2>4, <3>2, <3>3, <3>4, <3>5
    <2> QED BY <1>9, <2>3, <2>4 DEF Main
<1>10. ASSUME CoreStep \/ RackStopped \/ UNCHANGED allVars PROVE ThreadsInStep'
    <2>1. UNCHANGED <<main, writer, sock, peer>>
        BY <1>10 DEF CoreStep, RackStopped, allVars, rackVars
    <2>2. UNCHANGED pushing
        BY <1>10, RequestFrame, DrainFrame
           DEF CoreStep, DrainTask, RunTask, Run, AuthRecv, AuthClosed, AuthTimeout, Register,
               CloseReplaced, RelayRecv, RelayClosed, Cleanup, Return, RackStopped, Stopped,
               allVars, vars
    <2> QED BY <1>4, <2>1, <2>2
<1> HIDE DEF ThreadsInStep
<1> QED BY <1>5, <1>6, <1>7, <1>8, <1>9, <1>10 DEF RackNext

\* What a thread awaits is brought by another one, by the core or the client.
LEMMA ThreadsMove ==
    ASSUME IInv, RackTypeOK, ThreadsInStep, NothingStuck
    PROVE  NoThreadStuck
<1> SUFFICES ASSUME NEW c \in Conns, main[c] # "none", ~Released(c),
                    ~Moves(c), ~CanWrite(c), ~CanGoOn(c)
             PROVE  WaitsForClient(c)
    BY DEF NoThreadStuck
<1>0. /\ main[c] \in {"none", "reading", "pong", "reply", "joinCore", "joinWriter", "done"}
      /\ writer[c] \in {"none", "next", "text", "close", "ended", "raised"}
      /\ unread[c] \in 0 .. WireCap /\ WireCap \in Nat
      /\ runPc[c] \in RunPcs
      /\ Reader \in Pushers
    BY RackAssumption DEF RackTypeOK, IInv, TypeOK
<1>1. /\ runPc[c] # "none" /\ writer[c] # "none"
      /\ main[c] \in {"joinCore", "joinWriter", "done"} => ~inTx[c]
      /\ main[c] # "reading" => pushing[c][Reader] = NoFrame
      /\ main[c] \in {"joinWriter", "done"} => runPc[c] = "done"
      /\ main[c] = "done" => Released(c)
      /\ writer[c] = "ended" => ~sock[c]
      /\ writer[c] = "raised" => peer[c] = "closed"
      /\ runPc[c] = "done" => drain[c] \in Over
    BY DEF ThreadsInStep, Released
<1>2. runPc[c] # "done" => Idle(c)
    BY <1>1 DEF NothingStuck
<1>3. ~WriteEnds(c) => sock[c] /\ peer[c] \in Alive /\ Stalled(c)
    BY <1>0 DEF WriteEnds, Stalled
<1>4. CASE writer[c] \in {"text", "close"} \/ main[c] \in {"pong", "reply"}
    <2>1. ~WriteEnds(c)
        BY <1>4 DEF CanWrite, CanGoOn
    <2> QED BY <1>3, <1>4, <2>1 DEF WaitsForClient
<1>5. CASE writer[c] \notin {"text", "close"} /\ main[c] \notin {"pong", "reply"}
    <2>1. main[c] # "joinCore"
        BY <1>1, <1>2 DEF Idle, CanGoOn
    <2>2. runPc[c] = "done" => writer[c] # "next"
        BY <1>1 DEF CanWrite, NoMoreMessages, Over
    <2>3. main[c] # "joinWriter"
        BY <1>0, <1>1, <1>5, <2>2 DEF CanGoOn, WriterOver
    <2>4. main[c] = "reading"
        BY <1>0, <1>1, <1>5, <2>1, <2>3
    <2>5. Reading(c)
        <3>1. runPc[c] = "done" => pushing[c][Reader] = NoFrame
            BY <2>4 DEF CanGoOn, CanPush
        <3>2. Idle(c) => pushing[c][Reader] = NoFrame
            BY <1>0 DEF Idle
        <3> QED BY <1>2, <2>4, <3>1, <3>2 DEF Reading
    <2>6. fromClient[c] = <<>> /\ sock[c] /\ peer[c] \in Alive
        BY <2>5 DEF CanGoOn
    <2>7. writer[c] = "next" /\ msgs[c] = <<>>
        BY <1>0, <1>1, <1>5, <2>6 DEF CanWrite, Alive
    <2> QED BY <1>2, <2>2, <2>5, <2>6, <2>7 DEF WaitsForClient
<1> QED BY <1>4, <1>5

\* The threads are in step in every reachable state.
LEMMA ThreadsStay == RackSpec => []ThreadsInStep
<1>1. RackInit => DrainStarted /\ ThreadsInStep
    BY RackAssumption DEF RackInit, Init, DrainStarted, ThreadsInStep
<1>2. IInv /\ DrainStarted /\ RackTypeOK /\ ThreadsInStep /\ [RackNext]_allVars
        => (DrainStarted /\ ThreadsInStep)'
    BY CoreSteps, DrainStays, ThreadsStep DEF RackTypeOK
<1>3. RackSpec => Spec
    BY RackUsesCore DEF UsesCore
<1> QED BY <1>1, <1>2, <1>3, Invariance, RackTypes, PTL DEF RackSpec

\* The threads of a connection and the tasks of the core never wait for one
\* another in a circle, whatever the other connections do: unless it waits for
\* a client that is there, something can go on until it is released.
THEOREM NoThreadWaitCycle == RackSpec => []NoThreadStuck
<1>1. RackSpec => Spec
    BY RackUsesCore DEF UsesCore
<1> QED BY <1>1, Invariance, NoWaitCycle, RackTypes, ThreadsStay, ThreadsMove, PTL

\* A connection whose client is gone waits for nobody: what is left of it can
\* go on until its threads have ended.
COROLLARY GoneClientHoldsNothing ==
    RackSpec => [](\A c \in Conns :
        peer[c] \in {"closed", "lost"} =>
            Released(c) \/ Moves(c) \/ CanWrite(c) \/ CanGoOn(c))
<1>1. ThreadsInStep /\ NoThreadStuck => \A c \in Conns :
        peer[c] \in {"closed", "lost"} =>
            Released(c) \/ Moves(c) \/ CanWrite(c) \/ CanGoOn(c)
    BY DEF ThreadsInStep, NoThreadStuck, WaitsForClient, Alive
<1> QED BY <1>1, ThreadsStay, NoThreadWaitCycle, PTL
=============================================================================
