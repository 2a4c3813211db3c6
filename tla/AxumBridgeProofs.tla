-------------------------- MODULE AxumBridgeProofs --------------------------
(***************************************************************************)
(* Theorems about AxumBridge: behind the axum adapter the core behaves as  *)
(* TunnelServer says, and no message for a client is lost on its way from  *)
(* the callback to the socket.                                             *)
(***************************************************************************)
EXTENDS AxumBridge, TunnelServerProofs

(***************************************************************************)
(* The adapter's own types.  What the read task pushes is a frame of the   *)
(* client, which is why a step of the adapter is one of TunnelServer.      *)
(***************************************************************************)
Incoming == {Text(f) : f \in Frames} \cup {Other, CloseFrame}

FromClientOK == fromClient \in [Conns -> Seq(Incoming)]

\* A text message carries one of the frames clients send.
LEMMA TextFrames ==
    \A m \in Incoming : m.kind = "text" => m.frame \in Frames
BY DEF Incoming, Text, Other, CloseFrame

\* Only the client and the read task touch what the client has sent.
LEMMA FromClientStep ==
    ASSUME FromClientOK, [BridgeNext]_allVars
    PROVE  FromClientOK'
<1> USE DEF FromClientOK
<1>1. CASE UNCHANGED fromClient
    BY <1>1
<1>2. ASSUME NEW c \in Conns, fromClient[c] # <<>>,
             fromClient' = [fromClient EXCEPT ![c] = Tail(@)]
      PROVE  FromClientOK'
    BY <1>2, HeadTailProperties
<1>3. ASSUME NEW c \in Conns, NEW m \in Incoming,
             fromClient' = [fromClient EXCEPT ![c] = Append(@, m)]
      PROVE  FromClientOK'
    BY <1>3, AppendProperties
<1>4. CloseFrame \in Incoming
    BY DEF Incoming
<1>5. ASSUME NEW c \in Conns, ReadTask(c)
      PROVE  FromClientOK'
    BY <1>1, <1>2, <1>5 DEF ReadTask, ReadText, ReadPushed, ReadOther, ReadEnds,
        ReadAborted, bridgeVars
<1>6. ASSUME NEW c \in Conns, Client(c)
      PROVE  FromClientOK'
    BY <1>1, <1>3, <1>4, <1>6 DEF Client, ClientSends, ClientReads, ClientCloses,
        Incoming
<1>7. ASSUME NEW c \in Conns,
             \/ RunReturned(c) \/ FlushEnds(c) \/ Deliver(c) \/ WriteTask(c)
             \/ ReplacedFromOutside(c)
      PROVE  UNCHANGED fromClient
    BY <1>7 DEF RunReturned, FlushEnds, Deliver, WriteTask, WriteTakes, WriteDone,
        WriteFails, WriteEnds, ReplacedFromOutside, bridgeVars
<1>8. CASE HandleWs \/ CoreStep \/ BridgeStopped \/ UNCHANGED allVars
    BY <1>1, <1>8 DEF HandleWs, CoreStep, BridgeStopped, allVars, bridgeVars
<1> QED BY <1>1, <1>5, <1>6, <1>7, <1>8 DEF BridgeNext

(***************************************************************************)
(* The adapter uses the core as TunnelServer expects                       *)
(***************************************************************************)

\* Each step of the read task is a call of push_message or close, or the end
\* of one, or does not touch the core.
LEMMA ReadTaskStep ==
    ASSUME FromClientOK, BridgeAssumption, NEW c \in Conns, ReadTask(c)
    PROVE  Adapter(c) \/ UNCHANGED vars
<1>1. Reader \in Pushers
    BY DEF BridgeAssumption
<1>2. CASE ReadText(c)
    <2>1. Head(fromClient[c]) \in Incoming
        BY <1>2, HeadTailProperties DEF ReadText, FromClientOK
    <2>2. Head(fromClient[c]).frame \in Frames
        BY <1>2, <2>1, TextFrames DEF ReadText
    <2> QED BY <1>1, <1>2, <2>2 DEF ReadText, Adapter
<1>3. CASE ReadPushed(c)
    BY <1>1, <1>3 DEF ReadPushed, Adapter
<1>4. CASE ReadOther(c)
    BY <1>4 DEF ReadOther
<1>5. CASE ReadEnds(c)
    BY <1>5 DEF ReadEnds, Adapter
<1>6. CASE ReadAborted(c)
    BY <1>1, <1>6 DEF ReadAborted, Adapter
<1> QED BY <1>2, <1>3, <1>4, <1>5, <1>6 DEF ReadTask

\* A step of the core is a step of the composition or leaves the core alone.
LEMMA CoreSteps ==
    ASSUME FromClientOK, BridgeAssumption, [BridgeNext]_allVars
    PROVE  [Next]_vars
<1>1. CASE HandleWs
    BY <1>1 DEF HandleWs, Next
<1>2. CASE CoreStep
    BY <1>2 DEF CoreStep, Next, DrainTask
<1>3. ASSUME NEW c \in Conns, ReadTask(c)
      PROVE  [Next]_vars
    BY <1>3, ReadTaskStep DEF Next
<1>4. ASSUME NEW c \in Conns, Deliver(c)
      PROVE  [Next]_vars
    BY <1>4 DEF Deliver, Next, DrainTask
<1>5. ASSUME NEW c \in Conns, ReplacedFromOutside(c)
      PROVE  [Next]_vars
    BY <1>5 DEF ReplacedFromOutside, Next, Adapter
<1>6. ASSUME NEW c \in Conns,
             RunReturned(c) \/ FlushEnds(c) \/ WriteTask(c) \/ Client(c)
      PROVE  UNCHANGED vars
    BY <1>6 DEF RunReturned, FlushEnds, WriteTask, WriteTakes, WriteDone,
        WriteFails, WriteEnds, Client, ClientSends, ClientReads, ClientCloses
<1>7. CASE BridgeStopped
    BY <1>7 DEF BridgeStopped, Stopped
<1>8. CASE UNCHANGED allVars
    BY <1>8 DEF allVars
<1> QED BY <1>1, <1>2, <1>3, <1>4, <1>5, <1>6, <1>7, <1>8 DEF BridgeNext

\* handle_ws makes only calls TunnelServer allows, in an order it allows, and
\* never drops run(): every theorem about the core holds behind axum.
LEMMA AxumUsesCore == BridgeSpec => UsesCore
<1>1. BridgeInit => Init /\ FromClientOK
    BY DEF BridgeInit, FromClientOK
<1>2. FromClientOK /\ [BridgeNext]_allVars => FromClientOK' /\ [Next]_vars
    BY FromClientStep, CoreSteps, BridgeAssumption
<1> QED BY <1>1, <1>2, PTL DEF BridgeSpec, UsesCore, Spec

\* A client that stalls handle_ws, which waits for its last messages to be
\* written, holds up no caller: a client that does not authenticate is turned
\* away, and a dispatch whose connection has cleaned up or lost its channel
\* returns, by the fairness of the core's tasks in BridgeFairness.
THEOREM CallersReturn ==
    ASSUME NEW r \in Reqs, NEW c \in Conns
    PROVE  BridgeSpec /\ []GuardsAreExact =>
               /\ InAuth(c) ~> Settled(c)
               /\ Abandoned(r) \/ Refused(r) ~> Returned(r)
<1> SUFFICES ASSUME BridgeSpec, []GuardsAreExact
             PROVE  /\ InAuth(c) ~> Settled(c)
                    /\ Abandoned(r) \/ Refused(r) ~> Returned(r)
    OBVIOUS
<1>1. Spec
    BY AxumUsesCore DEF UsesCore
<1>2. TaskFairness
    BY PTL DEF BridgeSpec, BridgeFairness
<1>3. TaskFair(c) /\ ServeFair(r)
    BY <1>2 DEF TaskFairness
<1>4. InAuth(c) ~> Settled(c)
    BY <1>1, <1>3, AuthEnds
<1>5. Abandoned(r) \/ Refused(r) ~> Returned(r)
    BY <1>1, <1>3, LostRequestsFail
<1> QED BY <1>4, <1>5

(***************************************************************************)
(* Messages on their way to the client.  What holds them together is that  *)
(* a write task that ended before its client did has nothing left to come. *)
(***************************************************************************)
WriterDone ==
    \A c \in Conns : peer[c] = "open" /\ writePc[c] = "ended" =>
        msgs[c] = <<>> /\ drain[c] \in Over

BridgeInv ==
    /\ BridgeTypeOK
    /\ DrainStarted
    /\ WriterDone
    /\ MessagesKept

\* What the outgoing channel holds is a message of the server.
LEMMA DeliveredMessage ==
    ASSUME IInv, NEW c \in Conns, Deliver(c)
    PROVE  /\ outQ[c] \in Seq(ServerMessages)
           /\ Head(outQ[c]) \in ServerMessages
<1>1. outQ[c] \in Seq(ServerMessages) /\ outQ[c] # <<>>
    BY DEF IInv, TypeOK, Deliver, DrainDeliver
<1> QED BY <1>1, HeadTailProperties

\* The adapter keeps its types.
LEMMA BridgeTypeStep ==
    ASSUME IInv, BridgeTypeOK, [BridgeNext]_allVars
    PROVE  BridgeTypeOK'
<1> USE DEF BridgeTypeOK
<1>0. FromClientOK'
    <2>1. FromClientOK
        BY DEF FromClientOK, Incoming
    <2> QED BY <2>1, FromClientStep
<1>1. CASE UNCHANGED bridgeVars
    BY <1>1 DEF bridgeVars
<1>2. CASE HandleWs
    BY <1>0, <1>2 DEF HandleWs, CreateConnection, FromClientOK, Incoming
<1>3. ASSUME NEW c \in Conns, RunReturned(c) \/ FlushEnds(c)
      PROVE  BridgeTypeOK'
    BY <1>3 DEF RunReturned, FlushEnds
<1>4. ASSUME NEW c \in Conns, Deliver(c)
      PROVE  BridgeTypeOK'
    <2>1. msgs' \in [Conns -> Seq(ServerMessages)]
        BY <1>4, DeliveredMessage, AppendProperties DEF Deliver
    <2> QED BY <1>4, <2>1 DEF Deliver
<1>5. ASSUME NEW c \in Conns, WriteTakes(c)
      PROVE  BridgeTypeOK'
    <2>1. /\ Head(msgs[c]) \in ServerMessages
          /\ Tail(msgs[c]) \in Seq(ServerMessages)
        BY <1>5, HeadTailProperties DEF WriteTakes
    <2> QED BY <1>5, <2>1 DEF WriteTakes
<1>6. ASSUME NEW c \in Conns, WriteDone(c)
      PROVE  BridgeTypeOK'
    <2>1. unread[c] + 1 \in 0 .. WireCap
        BY <1>6, BridgeAssumption DEF WriteDone
    <2>2. unread' \in [Conns -> 0 .. WireCap]
        BY <1>6, <2>1 DEF WriteDone
    <2>3. /\ written' \in [Conns -> SUBSET ServerMessages]
          /\ writePc' \in [Conns -> {"none", "recv", "sending", "ended"}]
        BY <1>6 DEF WriteDone
    <2> QED BY <1>6, <2>2, <2>3 DEF WriteDone
<1>7. ASSUME NEW c \in Conns, WriteFails(c) \/ WriteEnds(c)
      PROVE  BridgeTypeOK'
    <2>1. <<>> \in Seq(ServerMessages)
        BY EmptySeq
    <2>2. CASE WriteFails(c)
        <3>1. msgs' \in [Conns -> Seq(ServerMessages)]
            BY <2>1, <2>2 DEF WriteFails
        <3> QED BY <2>2, <3>1 DEF WriteFails
    <2>3. CASE WriteEnds(c)
        BY <2>3 DEF WriteEnds
    <2> QED BY <1>7, <2>2, <2>3
<1>8. ASSUME NEW c \in Conns, ReadTask(c)
      PROVE  BridgeTypeOK'
    <2>1. /\ UNCHANGED <<bridge, writePc, msgs, writing, unread, written, peer>>
          /\ readPc' \in {readPc, [readPc EXCEPT ![c] = "ended"]}
        BY <1>8 DEF ReadTask, ReadText, ReadPushed, ReadOther, ReadEnds,
            ReadAborted, bridgeVars
    <2> QED BY <1>0, <2>1 DEF FromClientOK, Incoming
<1>9. ASSUME NEW c \in Conns, Client(c)
      PROVE  BridgeTypeOK'
    <2>1. /\ UNCHANGED <<bridge, readPc, writePc, msgs, writing, written>>
          /\ \/ UNCHANGED <<unread, peer>>
             \/ unread[c] > 0 /\ unread' = [unread EXCEPT ![c] = @ - 1]
                /\ UNCHANGED peer
             \/ peer' = [peer EXCEPT ![c] = "closed"] /\ UNCHANGED unread
        BY <1>9 DEF Client, ClientSends, ClientReads, ClientCloses
    <2>2. unread[c] > 0 => unread[c] - 1 \in 0 .. WireCap
        BY BridgeAssumption
    <2>3. unread' \in [Conns -> 0 .. WireCap]
        BY <2>1, <2>2
    <2>4. peer' \in [Conns -> {"none", "open", "closed"}]
        BY <2>1
    <2> QED BY <1>0, <2>1, <2>3, <2>4 DEF FromClientOK, Incoming
<1>10. CASE CoreStep \/ BridgeStopped \/ UNCHANGED allVars
    BY <1>1, <1>10 DEF CoreStep, BridgeStopped, allVars
<1>11. ASSUME NEW c \in Conns, ReplacedFromOutside(c)
       PROVE  BridgeTypeOK'
    BY <1>1, <1>11 DEF ReplacedFromOutside
<1> HIDE DEF BridgeTypeOK
<1> QED BY <1>2, <1>3, <1>4, <1>5, <1>6, <1>7, <1>8, <1>9, <1>10, <1>11
        DEF BridgeNext, WriteTask

\* Only Deliver gives the callback a message, and only while the drain task
\* runs.
LEMMA HandedStep ==
    ASSUME IInv, BridgeTypeOK, [BridgeNext]_allVars
    PROVE  UNCHANGED handed \/ \E c \in Conns : Deliver(c)
<1>1. CASE HandleWs
    BY <1>1 DEF HandleWs, CreateConnection, connVars
<1>2. CASE CoreStep
    <2>1. ASSUME NEW c \in Conns, DrainEnd(c)
          PROVE  UNCHANGED handed
        BY <2>1 DEF DrainEnd
    <2> QED BY <1>2, <2>1, RunFrame, RequestFrame DEF CoreStep
<1>3. ASSUME NEW c \in Conns, ReadTask(c)
      PROVE  UNCHANGED handed
    <2>1. FromClientOK
        BY DEF BridgeTypeOK, FromClientOK, Incoming
    <2> QED BY <1>3, <2>1, ReadTaskStep, AdapterFrame, BridgeAssumption DEF vars
<1>4. ASSUME NEW c \in Conns,
             \/ RunReturned(c) \/ FlushEnds(c) \/ WriteTask(c) \/ Client(c)
             \/ ReplacedFromOutside(c)
      PROVE  UNCHANGED handed
    BY <1>4 DEF RunReturned, FlushEnds, WriteTask, WriteTakes, WriteDone,
        WriteFails, WriteEnds, Client, ClientSends, ClientReads, ClientCloses,
        ReplacedFromOutside, Close, vars
<1>5. CASE BridgeStopped \/ UNCHANGED allVars
    BY <1>5 DEF BridgeStopped, Stopped, allVars, vars
<1> QED BY <1>1, <1>2, <1>3, <1>4, <1>5 DEF BridgeNext

\* What the other steps leave alone: everything between the callback and the
\* socket.  A client that is open was open before, or has just connected.
LEMMA OtherSteps ==
    ASSUME [BridgeNext]_allVars,
           ~HandleWs, \A c \in Conns : ~Deliver(c) /\ ~WriteTask(c)
    PROVE  /\ UNCHANGED <<writePc, msgs, writing, written>>
           /\ \/ UNCHANGED peer
              \/ \E c \in Conns : peer' = [peer EXCEPT ![c] = "closed"]
<1>1. ASSUME NEW c \in Conns, RunReturned(c) \/ FlushEnds(c) \/ ReadTask(c)
      PROVE  UNCHANGED <<writePc, msgs, writing, written, peer>>
    BY <1>1 DEF RunReturned, FlushEnds, ReadTask, ReadText, ReadPushed, ReadOther,
        ReadEnds, ReadAborted, bridgeVars
<1>2. ASSUME NEW c \in Conns, Client(c) \/ ReplacedFromOutside(c)
      PROVE  /\ UNCHANGED <<writePc, msgs, writing, written>>
             /\ UNCHANGED peer \/ peer' = [peer EXCEPT ![c] = "closed"]
    BY <1>2 DEF Client, ClientSends, ClientReads, ClientCloses,
        ReplacedFromOutside, bridgeVars
<1>3. CASE CoreStep \/ BridgeStopped \/ UNCHANGED allVars
    BY <1>3 DEF CoreStep, BridgeStopped, allVars, bridgeVars
<1> QED BY <1>1, <1>2, <1>3 DEF BridgeNext

\* A write task that ended before its client has nothing left to write.
LEMMA WriterStep ==
    ASSUME IInv, BridgeTypeOK, DrainStarted, WriterDone, [BridgeNext]_allVars
    PROVE  WriterDone'
<1> USE DEF WriterDone
<1>0. /\ writePc \in [Conns -> {"none", "recv", "sending", "ended"}]
      /\ msgs \in [Conns -> Seq(ServerMessages)]
      /\ peer \in [Conns -> {"none", "open", "closed"}]
    BY DEF BridgeTypeOK
<1>1. \A c \in Conns : drain[c] \in Over => drain'[c] \in Over
    <2>1. FromClientOK
        BY DEF BridgeTypeOK, FromClientOK, Incoming
    <2> QED BY <2>1, CoreSteps, DrainStays, BridgeAssumption
<1>2. CASE HandleWs
    BY <1>0, <1>1, <1>2 DEF HandleWs, CreateConnection
<1>3. ASSUME NEW c \in Conns, Deliver(c)
      PROVE  WriterDone'
    <2>1. drain[c] \notin Over
        BY <1>3 DEF Deliver, DrainDeliver, Over
    <2>2. /\ UNCHANGED <<writePc, peer>>
          /\ \/ UNCHANGED msgs
             \/ msgs' = [msgs EXCEPT ![c] = Append(@, Head(outQ[c]))]
        BY <1>3 DEF Deliver
    <2> QED BY <1>0, <1>1, <2>1, <2>2
<1>4. ASSUME NEW c \in Conns, WriteTask(c)
      PROVE  WriterDone'
    <2>1. CASE WriteTakes(c)
        BY <1>0, <1>1, <2>1 DEF WriteTakes
    <2>2. CASE WriteDone(c)
        BY <1>0, <1>1, <2>2 DEF WriteDone
    <2>3. CASE WriteFails(c)
        BY <1>0, <1>1, <2>3 DEF WriteFails
    <2>4. CASE WriteEnds(c)
        BY <1>0, <1>1, <2>4 DEF WriteEnds, Over
    <2> QED BY <1>4, <2>1, <2>2, <2>3, <2>4 DEF WriteTask
<1>5. CASE ~HandleWs /\ \A c \in Conns : ~Deliver(c) /\ ~WriteTask(c)
    BY <1>0, <1>1, <1>5, OtherSteps
<1> QED BY <1>2, <1>3, <1>4, <1>5

\* No step loses a message between the callback and the socket while the
\* client is there.
LEMMA KeptStep ==
    ASSUME IInv, BridgeTypeOK, WriterDone, MessagesKept, [BridgeNext]_allVars
    PROVE  MessagesKept'
<1> USE DEF MessagesKept
<1>0. /\ writePc \in [Conns -> {"none", "recv", "sending", "ended"}]
      /\ msgs \in [Conns -> Seq(ServerMessages)]
      /\ writing \in [Conns -> ServerMessages]
      /\ written \in [Conns -> SUBSET ServerMessages]
      /\ peer \in [Conns -> {"none", "open", "closed"}]
      /\ handed \in [Conns -> SUBSET ServerMessages]
    BY DEF BridgeTypeOK, IInv, TypeOK
<1>1. CASE HandleWs
    <2>1. /\ nextConnId \in Conns
          /\ UNCHANGED <<handed, msgs, writing, written>>
          /\ peer' = [peer EXCEPT ![nextConnId] = "open"]
          /\ writePc' = [writePc EXCEPT ![nextConnId] = "recv"]
        BY <1>1 DEF HandleWs, CreateConnection
    <2>2. runPc[nextConnId] = "none"
        BY <2>1 DEF IInv, FreshConnections, TypeOK, Conns
    <2>3. handed[nextConnId] = {}
        BY <2>1, <2>2 DEF IInv, QuietBeforeAuth
    <2> QED BY <1>0, <2>1, <2>3
<1>2. ASSUME NEW c \in Conns, Deliver(c)
      PROVE  MessagesKept'
    <2> DEFINE m == Head(outQ[c])
    <2>1. m \in ServerMessages
        BY <1>2, DeliveredMessage
    <2>2. /\ handed' = [handed EXCEPT ![c] = @ \cup {m}]
          /\ UNCHANGED <<writePc, writing, written, peer>>
          /\ drain[c] = "running"
          /\ writePc[c] # "ended" => msgs' = [msgs EXCEPT ![c] = Append(@, m)]
          /\ writePc[c] = "ended" => UNCHANGED msgs
        BY <1>2 DEF Deliver, DrainDeliver
    <2>3. CASE writePc[c] = "ended"
        <3>1. peer[c] # "open"
            BY <2>2, <2>3 DEF WriterDone, Over
        <3> QED BY <1>0, <2>2, <2>3, <3>1
    <2>4. CASE writePc[c] # "ended"
        <3> HIDE DEF m
        <3>0. msgs[c] \in Seq(ServerMessages) /\ msgs'[c] = Append(msgs[c], m)
            BY <1>0, <2>2, <2>4
        <3>1. Range(msgs[c]) \cup {m} \subseteq Range(msgs'[c])
            BY <2>1, <3>0, RangeAppend
        <3>2. \A d \in Conns : d # c => msgs'[d] = msgs[d] /\ handed'[d] = handed[d]
            BY <1>0, <2>2, <2>4
        <3>3. handed'[c] = handed[c] \cup {m}
            BY <1>0, <2>2
        <3> QED BY <2>2, <3>1, <3>2, <3>3
    <2> QED BY <2>3, <2>4
<1>3. ASSUME NEW c \in Conns, WriteTakes(c)
      PROVE  MessagesKept'
    <2>1. /\ UNCHANGED <<handed, written, peer>>
          /\ writePc[c] = "recv" /\ msgs[c] # <<>>
          /\ writePc' = [writePc EXCEPT ![c] = "sending"]
          /\ writing' = [writing EXCEPT ![c] = Head(msgs[c])]
          /\ msgs' = [msgs EXCEPT ![c] = Tail(@)]
        BY <1>3 DEF WriteTakes, vars
    <2>2. Range(msgs[c]) \subseteq Range(Tail(msgs[c])) \cup {Head(msgs[c])}
        BY <1>0, <2>1, RangeTail
    <2>3. /\ writePc'[c] = "sending"
          /\ writing'[c] = Head(msgs[c])
          /\ msgs'[c] = Tail(msgs[c])
          /\ \A d \in Conns : d # c =>
                /\ writePc'[d] = writePc[d]
                /\ writing'[d] = writing[d]
                /\ msgs'[d] = msgs[d]
        BY <1>0, <2>1
    <2> QED BY <2>1, <2>2, <2>3
<1>4. ASSUME NEW c \in Conns, WriteDone(c)
      PROVE  MessagesKept'
    BY <1>0, <1>4 DEF WriteDone, vars
<1>5. ASSUME NEW c \in Conns, WriteFails(c) \/ WriteEnds(c)
      PROVE  MessagesKept'
    BY <1>0, <1>5 DEF WriteFails, WriteEnds, vars
<1>6. CASE ~HandleWs /\ \A c \in Conns : ~Deliver(c) /\ ~WriteTask(c)
    <2>1. UNCHANGED handed
        BY <1>6, HandedStep
    <2> QED BY <1>0, <1>6, <2>1, OtherSteps
<1> QED BY <1>1, <1>2, <1>3, <1>4, <1>5, <1>6 DEF WriteTask

\* BridgeInv holds in every reachable state.
LEMMA BridgeInvariance == BridgeSpec => []BridgeInv
<1>1. BridgeInit => BridgeInv
    <2> SUFFICES ASSUME BridgeInit PROVE BridgeInv
        OBVIOUS
    <2>1. <<>> \in Seq(ServerMessages) /\ AuthOk \in ServerMessages
          /\ <<>> \in Seq({Text(f) : f \in Frames} \cup {Other, CloseFrame})
        BY EmptySeq, ServerMessageTypes
    <2>2. BridgeTypeOK
        BY <2>1, BridgeAssumption DEF BridgeInit, BridgeTypeOK
    <2> QED BY <2>2 DEF BridgeInit, Init, BridgeInv, DrainStarted, WriterDone,
            MessagesKept
<1>2. IInv /\ BridgeInv /\ [BridgeNext]_allVars => BridgeInv'
    <2> SUFFICES ASSUME IInv, BridgeInv, [BridgeNext]_allVars PROVE BridgeInv'
        OBVIOUS
    <2>1. FromClientOK
        BY DEF BridgeInv, BridgeTypeOK, FromClientOK, Incoming
    <2>2. [Next]_vars
        BY <2>1, CoreSteps, BridgeAssumption
    <2> QED BY <2>2, DrainStays, BridgeTypeStep, WriterStep, KeptStep
            DEF BridgeInv
<1>3. BridgeSpec => []IInv
    BY AxumUsesCore, Invariance, PTL DEF UsesCore
<1> QED BY <1>1, <1>2, <1>3, PTL DEF BridgeSpec

\* While its client is there, what the core hands to the callback reaches the
\* socket: neither the end of run(), nor the timeout of the flush, nor the
\* abort of the read task loses a message.  The adapter's types hold as well.
THEOREM NoMessageLost == BridgeSpec => []BridgeTypeOK /\ []MessagesKept
<1>1. BridgeInv => BridgeTypeOK /\ MessagesKept
    BY DEF BridgeInv
<1> QED BY <1>1, BridgeInvariance, PTL

(***************************************************************************)
(* What the client reads.  The channel and the write task keep the order   *)
(* of the callback's messages, so what holds of the callback holds of the  *)
(* socket.                                                                 *)
(***************************************************************************)

\* A request is written once.
NotWritten(c) ==
    writePc[c] = "sending" /\ writing[c].type = "request" => writing[c] \notin written[c]

\* The socket takes only what the core handed to the callback: auth_ok and
\* requests if its client authenticated, auth_ok before any request, and each
\* request once, at the one socket of the connection it was sent to.
SocketTrusted ==
    \A c \in Conns :
        /\ written[c] \subseteq handed[c]
        /\ (\E m \in written[c] : m.type \in {"auth_ok", "request"})
              => Secret # EmptyToken /\ auth[c].token = Secret
        /\ (\E r \in Reqs : TunnelRequest(r) \in written[c]) => AuthOk \in written[c]
        /\ \A r \in Reqs : TunnelRequest(r) \in written[c] =>
              reqConn[r] = c /\ auth[c].service = ServiceOf[r]
        /\ NotWritten(c)

\* The messages the write task has taken.
TakenBy(c) == written[c] \cup (IF writePc[c] = "sending" THEN {writing[c]} ELSE {})

InOrder(c) ==
    /\ TakenBy(c) \cup Range(msgs[c]) \subseteq handed[c]
    /\ writePc[c] # "ended" /\ AuthOk \in handed[c]
          => AuthOk \in TakenBy(c) \cup Range(msgs[c])
    /\ OkLeads(TakenBy(c), msgs[c])
    /\ (\E m \in TakenBy(c) : m.type = "request") => AuthOk \in written[c]
    /\ Fresh(TakenBy(c), msgs[c])
    /\ NotWritten(c)

SocketOrder == \A c \in Conns : InOrder(c)

\* No step of the write task or of the drain task changes the order.
LEMMA SocketOrderStep ==
    ASSUME IInv, AuthOkFirst', RequestsArriveOnce, BridgeTypeOK, SocketOrder, [BridgeNext]_allVars
    PROVE  SocketOrder'
<1>0. /\ writePc \in [Conns -> {"none", "recv", "sending", "ended"}]
      /\ msgs \in [Conns -> Seq(ServerMessages)]
      /\ writing \in [Conns -> ServerMessages]
      /\ written \in [Conns -> SUBSET ServerMessages]
      /\ handed \in [Conns -> SUBSET ServerMessages]
    BY DEF BridgeTypeOK, IInv, TypeOK
<1>a. ASSUME NEW c \in Conns, InOrder(c)',
             \A d \in Conns \ {c} :
                /\ writePc'[d] = writePc[d] /\ msgs'[d] = msgs[d]
                /\ writing'[d] = writing[d] /\ written'[d] = written[d]
                /\ handed'[d] = handed[d]
      PROVE  SocketOrder'
    <2>1. ASSUME NEW d \in Conns \ {c} PROVE InOrder(d)'
        BY <1>a, <2>1 DEF SocketOrder, InOrder, TakenBy, OkLeads, Fresh, NotWritten
    <2> QED BY <1>a, <2>1 DEF SocketOrder
<1>1. CASE HandleWs
    <2>1. /\ nextConnId \in Conns
          /\ UNCHANGED <<handed, msgs, writing, written>>
          /\ writePc' = [writePc EXCEPT ![nextConnId] = "recv"]
        BY <1>1 DEF HandleWs, CreateConnection
    <2>2. runPc[nextConnId] = "none"
        BY <2>1 DEF IInv, FreshConnections, TypeOK, Conns
    <2>3. handed[nextConnId] = {}
        BY <2>1, <2>2 DEF IInv, QuietBeforeAuth
    <2>4. ASSUME NEW c \in Conns, c = nextConnId PROVE InOrder(c)'
        <3>1. TakenBy(c) = {} /\ Range(msgs[c]) = {}
            BY <2>3, <2>4 DEF SocketOrder, InOrder
        <3>2. TakenBy(c)' = {} /\ writePc'[c] = "recv"
            BY <1>0, <2>1, <2>4, <3>1 DEF TakenBy
        <3> QED BY <2>1, <2>3, <2>4, <3>1, <3>2 DEF SocketOrder, InOrder, OkLeads, Fresh, NotWritten
    <2> QED BY <1>0, <1>a, <2>1, <2>4
<1>2. ASSUME NEW c \in Conns, Deliver(c)
      PROVE  SocketOrder'
    <2> DEFINE m == Head(outQ[c])
    <2>1. m \in ServerMessages
        BY <1>2, DeliveredMessage
    <2>2. /\ handed' = [handed EXCEPT ![c] = @ \cup {m}]
          /\ UNCHANGED <<writePc, writing, written>>
          /\ \/ writePc[c] = "ended" /\ UNCHANGED msgs
             \/ writePc[c] # "ended" /\ msgs' = [msgs EXCEPT ![c] = Append(@, m)]
        BY <1>2 DEF Deliver, DrainDeliver
    <2>3. m.type = "request" => AuthOk \in handed[c]
        BY <1>2, DeliveredInOrder DEF Deliver
    <2>a. m.type = "request" => m \notin handed[c]
        BY <1>2, DeliveredOnce DEF Deliver
    <2> HIDE DEF m
    <2>4. /\ handed'[c] = handed[c] \cup {m}
          /\ \A d \in Conns \ {c} : handed'[d] = handed[d] /\ msgs'[d] = msgs[d]
        BY <1>0, <2>2
    <2>5. CASE writePc[c] = "ended"
        <3>1. InOrder(c)'
            BY <2>2, <2>4, <2>5 DEF SocketOrder, InOrder, TakenBy, NotWritten
        <3> QED BY <1>a, <2>2, <2>4, <3>1
    <2>6. CASE writePc[c] # "ended"
        <3>1. msgs[c] \in Seq(ServerMessages) /\ msgs'[c] = Append(msgs[c], m)
            BY <1>0, <2>2, <2>6
        <3>2. Range(msgs'[c]) = Range(msgs[c]) \cup {m}
            BY <2>1, <3>1, RangeAppend
        <3>3. OkLeads(TakenBy(c), Append(msgs[c], m))
            BY <2>1, <2>3, <2>6, <3>1, OkLeadsAppend DEF SocketOrder, InOrder
        <3>4. TakenBy(c)' = TakenBy(c)
            BY <2>2 DEF TakenBy
        <3>5. Fresh(TakenBy(c), Append(msgs[c], m))
            BY <2>1, <2>a, <3>1, FreshAppend DEF SocketOrder, InOrder
        <3>6. InOrder(c)'
            BY <2>2, <2>4, <2>6, <3>1, <3>2, <3>3, <3>4, <3>5
               DEF SocketOrder, InOrder, NotWritten
        <3> QED BY <1>a, <2>2, <2>4, <3>6
    <2> QED BY <2>5, <2>6
<1>3. ASSUME NEW c \in Conns, WriteTakes(c)
      PROVE  SocketOrder'
    <2>1. /\ UNCHANGED <<handed, written>>
          /\ writePc[c] = "recv" /\ msgs[c] # <<>>
          /\ writePc' = [writePc EXCEPT ![c] = "sending"]
          /\ writing' = [writing EXCEPT ![c] = Head(msgs[c])]
          /\ msgs' = [msgs EXCEPT ![c] = Tail(@)]
        BY <1>3 DEF WriteTakes, vars
    <2>2. /\ msgs[c] \in Seq(ServerMessages)
          /\ writePc'[c] = "sending" /\ writing'[c] = Head(msgs[c])
          /\ msgs'[c] = Tail(msgs[c])
          /\ \A d \in Conns \ {c} :
                /\ writePc'[d] = writePc[d] /\ writing'[d] = writing[d]
                /\ msgs'[d] = msgs[d]
        BY <1>0, <2>1
    <2>3. Range(msgs[c]) = {Head(msgs[c])} \cup Range(Tail(msgs[c]))
        BY <2>1, <2>2, RangeTail
    <2>4. TakenBy(c) = written[c] /\ TakenBy(c)' = written[c] \cup {Head(msgs[c])}
        BY <2>1, <2>2 DEF TakenBy
    <2>a. OkLeads(written[c], msgs[c]) /\ Fresh(written[c], msgs[c])
        BY <2>4 DEF SocketOrder, InOrder
    <2>5. /\ Head(msgs[c]).type = "request" => AuthOk \in written[c]
          /\ OkLeads(written[c] \cup {Head(msgs[c])}, Tail(msgs[c]))
        BY <2>1, <2>2, <2>a, OkLeadsTail
    <2>6. /\ Head(msgs[c]).type = "request" => Head(msgs[c]) \notin written[c]
          /\ Fresh(written[c] \cup {Head(msgs[c])}, Tail(msgs[c]))
        BY <2>1, <2>2, <2>a, FreshTail
    <2>7. InOrder(c)'
        BY <2>1, <2>2, <2>3, <2>4, <2>5, <2>6 DEF SocketOrder, InOrder, NotWritten
    <2> QED BY <1>a, <2>1, <2>2, <2>7
<1>4. ASSUME NEW c \in Conns, WriteDone(c)
      PROVE  SocketOrder'
    <2>1. /\ UNCHANGED <<handed, msgs, writing>>
          /\ writePc[c] = "sending"
          /\ writePc' = [writePc EXCEPT ![c] = "recv"]
          /\ written' = [written EXCEPT ![c] = @ \cup {writing[c]}]
        BY <1>4 DEF WriteDone, vars
    <2>2. /\ writePc'[c] = "recv" /\ written'[c] = written[c] \cup {writing[c]}
          /\ \A d \in Conns \ {c} :
                writePc'[d] = writePc[d] /\ written'[d] = written[d]
        BY <1>0, <2>1
    <2>3. TakenBy(c)' = TakenBy(c) /\ written[c] \subseteq written'[c]
        BY <2>1, <2>2 DEF TakenBy
    <2>4. InOrder(c)'
        BY <2>1, <2>2, <2>3 DEF SocketOrder, InOrder, NotWritten
    <2> QED BY <1>a, <2>1, <2>2, <2>4
<1>5. ASSUME NEW c \in Conns, WriteFails(c) \/ WriteEnds(c)
      PROVE  SocketOrder'
    <2>1. /\ UNCHANGED <<handed, writing, written>>
          /\ writePc' = [writePc EXCEPT ![c] = "ended"]
          /\ \/ msgs[c] = <<>> /\ UNCHANGED msgs
             \/ msgs' = [msgs EXCEPT ![c] = <<>>]
        BY <1>5 DEF WriteFails, WriteEnds, vars
    <2>2. /\ writePc'[c] = "ended" /\ msgs'[c] = <<>>
          /\ \A d \in Conns \ {c} : writePc'[d] = writePc[d] /\ msgs'[d] = msgs[d]
        BY <1>0, <2>1
    <2>3. TakenBy(c)' \subseteq TakenBy(c)
        BY <1>0, <2>1 DEF TakenBy
    <2>4. Range(<<>>) = {} /\ Len(<<>>) = 0
        BY EmptySeq DEF Range
    <2>5. written[c] \subseteq TakenBy(c)'
        BY <2>1 DEF TakenBy
    <2>6. InOrder(c)'
        BY <2>1, <2>2, <2>3, <2>4, <2>5 DEF SocketOrder, InOrder, OkLeads, Fresh, NotWritten
    <2> QED BY <1>a, <2>1, <2>2, <2>6
<1>6. CASE ~HandleWs /\ \A c \in Conns : ~Deliver(c) /\ ~WriteTask(c)
    <2>1. UNCHANGED handed
        BY <1>6, HandedStep
    <2>2. UNCHANGED <<writePc, msgs, writing, written>>
        BY <1>6, OtherSteps
    <2> QED BY <2>1, <2>2 DEF SocketOrder, InOrder, TakenBy, OkLeads, Fresh, NotWritten
<1> QED BY <1>1, <1>2, <1>3, <1>4, <1>5, <1>6 DEF WriteTask

\* Behind axum a client reads auth_ok before any request, and reads neither
\* unless it presented the configured secret.  No other client reads the request,
\* and none reads it twice.
THEOREM SocketsTrusted == BridgeSpec => []SocketTrusted
<1>1. BridgeInit => SocketOrder
    <2>1. Range(<<>>) = {} /\ Len(<<>>) = 0
        BY EmptySeq DEF Range
    <2> QED BY <2>1 DEF BridgeInit, Init, SocketOrder, InOrder, TakenBy, OkLeads,
            Fresh, NotWritten
<1>2. IInv /\ AuthOkFirst' /\ RequestsArriveOnce /\ BridgeTypeOK /\ SocketOrder /\ [BridgeNext]_allVars
        => SocketOrder'
    BY SocketOrderStep
<1>3. SocketOrder /\ OnlyAuthenticated /\ RequestsArriveOnce => SocketTrusted
    <2> SUFFICES ASSUME SocketOrder, OnlyAuthenticated, RequestsArriveOnce, NEW c \in Conns
                 PROVE  /\ written[c] \subseteq handed[c]
                        /\ (\E m \in written[c] : m.type \in {"auth_ok", "request"})
                              => Secret # EmptyToken /\ auth[c].token = Secret
                        /\ (\E r \in Reqs : TunnelRequest(r) \in written[c])
                              => AuthOk \in written[c]
                        /\ \A r \in Reqs : TunnelRequest(r) \in written[c] =>
                              reqConn[r] = c /\ auth[c].service = ServiceOf[r]
                        /\ NotWritten(c)
        BY DEF SocketTrusted
    <2>1. written[c] \subseteq TakenBy(c) /\ TakenBy(c) \subseteq handed[c]
        BY DEF SocketOrder, InOrder, TakenBy
    <2>2. \A r \in Reqs : TunnelRequest(r).type = "request"
        BY DEF TunnelRequest
    <2>3. \A r \in Reqs : TunnelRequest(r) \in written[c] =>
              reqConn[r] = c /\ auth[c].service = ServiceOf[r]
        BY <2>1 DEF RequestsArriveOnce
    <2> QED BY <2>1, <2>2, <2>3 DEF SocketOrder, InOrder, OnlyAuthenticated
<1>4. BridgeSpec => []IInv /\ []AuthOkFirst /\ []OnlyAuthenticated /\ []RequestsArriveOnce
    BY AxumUsesCore, Invariance, AuthOkComesFirst, Authentication, RequestsReachOneClient,
       PTL DEF UsesCore
<1> QED BY <1>1, <1>2, <1>3, <1>4, NoMessageLost, PTL DEF BridgeSpec

(***************************************************************************)
(* Nobody waits in a circle.  handle_ws waits for run(), the read task for *)
(* the client and for room, the write task for the callback, which the     *)
(* drain task holds, and for the client.                                   *)
(***************************************************************************)

\* handle_ws, the write task and the read task can go on: what they await has
\* come.
CanHandle(c) == bridge[c] = "flush" \/ (bridge[c] = "run" /\ runPc[c] = "done")

CanWrite(c) ==
    \/ writePc[c] = "recv" /\ (msgs[c] # <<>> \/ drain[c] \in Over)
    \/ writePc[c] = "sending" /\ (~Stalled(c) \/ peer[c] = "closed")

CanRead(c) ==
    /\ readPc[c] = "reading"
    /\ \/ bridge[c] = "done"
       \/ CanPush(c, Reader)
       \/ Reading(c) /\ (fromClient[c] # <<>> \/ peer[c] = "closed")

\* Nothing of the connection is left.
Released(c) == bridge[c] = "done" /\ SocketDropped(c)

\* The client can make the connection go on: a write waits for it to read, or
\* every task, and the core, for what it sends.
WaitsForClient(c) ==
    /\ peer[c] = "open"
    /\ \/ writePc[c] = "sending" /\ Stalled(c)
       \/ /\ Idle(c) /\ Reading(c) /\ fromClient[c] = <<>>
          /\ writePc[c] # "sending" /\ msgs[c] = <<>>

\* A task of a connection can go on, or the connection is released, or it waits
\* for a client that is there and for nothing else.
NoTaskStuck ==
    \A c \in Conns : bridge[c] # "none" =>
        \/ Released(c)
        \/ Moves(c) \/ CanHandle(c) \/ CanWrite(c) \/ CanRead(c)
        \/ WaitsForClient(c)

\* How far one task is says how far the others are.
TasksInStep ==
    \A c \in Conns :
        /\ bridge[c] = "none" => readPc[c] = "none" /\ peer[c] = "none"
        /\ bridge[c] # "none" =>
              /\ runPc[c] # "none" /\ readPc[c] # "none" /\ writePc[c] # "none"
              /\ peer[c] # "none"
        /\ bridge[c] \in {"flush", "done"} => runPc[c] = "done"
        /\ readPc[c] = "ended" => ~inTx[c] \/ runPc[c] = "done"
        /\ runPc[c] = "done" => drain[c] \in Over

\* What each task does to the others' conditions.
LEMMA TasksStep ==
    ASSUME IInv, DrainStarted, BridgeTypeOK, TasksInStep, [BridgeNext]_allVars
    PROVE  TasksInStep'
<1>0. /\ TypeOK
      /\ bridge \in [Conns -> {"none", "run", "flush", "done"}]
      /\ readPc \in [Conns -> {"none", "reading", "ended"}]
      /\ writePc \in [Conns -> {"none", "recv", "sending", "ended"}]
      /\ peer \in [Conns -> {"none", "open", "closed"}]
      /\ inTx \in [Conns -> BOOLEAN]
      /\ runPc \in [Conns -> RunPcs]
    BY DEF BridgeTypeOK, IInv, TypeOK
<1>1. FromClientOK
    BY DEF BridgeTypeOK, FromClientOK, Incoming
<1>2. \A c \in Conns :
         /\ runPc[c] # "none" => runPc'[c] # "none"
         /\ runPc[c] = "done" => runPc'[c] = "done"
         /\ runPc[c] # "none" /\ ~inTx[c] => ~inTx'[c]
         /\ runPc'[c] = "done" => drain'[c] \in Over
    BY <1>1, CoreSteps, CoreGoesForward, BridgeAssumption DEF TasksInStep
<1> USE DEF TasksInStep
<1>3. ASSUME UNCHANGED <<bridge, readPc, writePc, peer>> PROVE TasksInStep'
    BY <1>2, <1>3
<1>4. ASSUME HandleWs PROVE TasksInStep'
    <2>1. /\ nextConnId \in Conns /\ runPc' = [runPc EXCEPT ![nextConnId] = "created"]
          /\ runPc[nextConnId] = "none"
        BY <1>4, NewConnection DEF HandleWs
    <2> QED BY <1>0, <1>2, <1>4, <2>1 DEF HandleWs
<1>5. ASSUME NEW d \in Conns, RunReturned(d) \/ FlushEnds(d) PROVE TasksInStep'
    BY <1>0, <1>2, <1>5 DEF RunReturned, FlushEnds
<1>6. ASSUME NEW d \in Conns, WriteTask(d) PROVE TasksInStep'
    <2>1. /\ UNCHANGED <<bridge, readPc, peer>>
          /\ \E w \in {"recv", "sending", "ended"} : writePc' = [writePc EXCEPT ![d] = w]
        BY <1>6 DEF WriteTask, WriteTakes, WriteDone, WriteFails, WriteEnds
    <2> QED BY <1>0, <1>2, <2>1
<1>7. ASSUME NEW d \in Conns, ReadTask(d) PROVE TasksInStep'
    <2>1. UNCHANGED <<bridge, writePc, peer>> /\ readPc[d] = "reading"
        BY <1>7 DEF ReadTask, ReadText, ReadPushed, ReadOther, ReadEnds, ReadAborted,
            Reading, bridgeVars
    <2>2. CASE ReadText(d) \/ ReadPushed(d) \/ ReadOther(d)
        <3>1. UNCHANGED readPc
            BY <2>2 DEF ReadText, ReadPushed, ReadOther, bridgeVars
        <3> QED BY <1>3, <2>1, <3>1
    <2>3. CASE ReadEnds(d)
        <3>1. readPc' = [readPc EXCEPT ![d] = "ended"] /\ ~inTx'[d]
            BY <1>0, <2>3 DEF ReadEnds, Close, vars
        <3> QED BY <1>0, <1>2, <2>1, <3>1
    <2>4. CASE ReadAborted(d)
        BY <1>0, <1>2, <2>1, <2>4 DEF ReadAborted
    <2> QED BY <1>7, <2>2, <2>3, <2>4 DEF ReadTask
<1>8. ASSUME NEW d \in Conns, Client(d) PROVE TasksInStep'
    <2>1. /\ UNCHANGED <<bridge, readPc, writePc>>
          /\ peer[d] = "open"
          /\ UNCHANGED peer \/ peer' = [peer EXCEPT ![d] = "closed"]
        BY <1>8 DEF Client, ClientSends, ClientReads, ClientCloses
    <2> QED BY <1>0, <1>2, <2>1
<1>9. ASSUME NEW d \in Conns, Deliver(d) \/ ReplacedFromOutside(d) PROVE TasksInStep'
    BY <1>3, <1>9 DEF Deliver, ReplacedFromOutside, bridgeVars
<1>10. ASSUME CoreStep \/ BridgeStopped \/ UNCHANGED allVars PROVE TasksInStep'
    BY <1>3, <1>10 DEF CoreStep, BridgeStopped, allVars, bridgeVars
<1> HIDE DEF TasksInStep
<1> QED BY <1>4, <1>5, <1>6, <1>7, <1>8, <1>9, <1>10 DEF BridgeNext

\* What a task awaits is brought by another one, by the core or the client.
LEMMA TasksMove ==
    ASSUME BridgeInv, TasksInStep, NothingStuck
    PROVE  NoTaskStuck
<1> SUFFICES ASSUME NEW c \in Conns, bridge[c] # "none", ~Released(c), ~Moves(c),
                    ~CanHandle(c), ~CanWrite(c), ~CanRead(c)
             PROVE  WaitsForClient(c)
    BY DEF NoTaskStuck
<1>0. /\ bridge[c] \in {"none", "run", "flush", "done"}
      /\ readPc[c] \in {"none", "reading", "ended"}
      /\ writePc[c] \in {"none", "recv", "sending", "ended"}
      /\ peer[c] \in {"none", "open", "closed"}
      /\ Reader \in Pushers
    BY BridgeAssumption DEF BridgeInv, BridgeTypeOK
<1>1. /\ runPc[c] # "none" /\ readPc[c] # "none" /\ writePc[c] # "none" /\ peer[c] # "none"
      /\ bridge[c] \in {"flush", "done"} => runPc[c] = "done"
      /\ readPc[c] = "ended" => ~inTx[c] \/ runPc[c] = "done"
      /\ runPc[c] = "done" => drain[c] \in Over
    BY DEF TasksInStep
<1>2. CASE writePc[c] = "sending"
    BY <1>0, <1>1, <1>2 DEF CanWrite, WaitsForClient
<1>3. CASE writePc[c] # "sending"
    <2>1. runPc[c] # "done"
        <3>1. runPc[c] = "done" => bridge[c] = "done"
            BY <1>0 DEF CanHandle
        <3>2. runPc[c] = "done" => writePc[c] = "ended"
            BY <1>0, <1>1, <1>3 DEF CanWrite
        <3>3. runPc[c] = "done" => readPc[c] = "ended"
            BY <1>0, <1>1, <3>1 DEF CanRead
        <3> QED BY <3>1, <3>2, <3>3 DEF Released, SocketDropped
    <2>2. Idle(c)
        BY <1>1, <2>1 DEF NothingStuck
    <2>3. Reading(c)
        BY <1>0, <1>1, <2>1, <2>2 DEF Idle, Reading
    <2>4. fromClient[c] = <<>> /\ peer[c] = "open"
        BY <1>0, <1>1, <2>3 DEF CanRead, Reading
    <2>5. msgs[c] = <<>>
        BY <1>0, <1>1, <1>3, <2>4 DEF CanWrite, BridgeInv, WriterDone
    <2> QED BY <1>3, <2>2, <2>3, <2>4, <2>5 DEF WaitsForClient
<1> QED BY <1>2, <1>3

\* The tasks are in step in every reachable state.
LEMMA TasksStay == BridgeSpec => []TasksInStep
<1>1. BridgeInit => DrainStarted /\ TasksInStep
    BY DEF BridgeInit, Init, DrainStarted, TasksInStep
<1>2. IInv /\ DrainStarted /\ BridgeTypeOK /\ TasksInStep /\ [BridgeNext]_allVars
        => (DrainStarted /\ TasksInStep)'
    <2>1. BridgeTypeOK => FromClientOK
        BY DEF BridgeTypeOK, FromClientOK, Incoming
    <2> QED BY <2>1, CoreSteps, DrainStays, TasksStep, BridgeAssumption
<1>3. BridgeSpec => Spec
    BY AxumUsesCore DEF UsesCore
<1> QED BY <1>1, <1>2, <1>3, Invariance, NoMessageLost, PTL DEF BridgeSpec

\* The tasks of handle_ws and of the core never wait for one another in a
\* circle, whatever the other connections do: unless it waits for a client that
\* is there, something can go on until both halves of the socket are dropped.
THEOREM NoTaskWaitCycle == BridgeSpec => []NoTaskStuck
<1>1. BridgeSpec => Spec
    BY AxumUsesCore DEF UsesCore
<1> QED BY <1>1, NoWaitCycle, BridgeInvariance, TasksStay, TasksMove, PTL

\* A connection whose client is gone waits for nobody: what is left of it can
\* go on until everything handle_ws started has ended.
COROLLARY GoneClientHoldsNothing ==
    BridgeSpec => [](\A c \in Conns :
        peer[c] = "closed" =>
            Released(c) \/ Moves(c) \/ CanHandle(c) \/ CanWrite(c) \/ CanRead(c))
<1>1. TasksInStep /\ NoTaskStuck => \A c \in Conns :
        peer[c] = "closed" =>
            Released(c) \/ Moves(c) \/ CanHandle(c) \/ CanWrite(c) \/ CanRead(c)
    BY DEF TasksInStep, NoTaskStuck, WaitsForClient
<1> QED BY <1>1, TasksStay, NoTaskWaitCycle, PTL
=============================================================================
