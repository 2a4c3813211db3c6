--------------------------- MODULE NodeBridgeProofs ---------------------------
(***************************************************************************)
(* Theorems about NodeBridge: the event handlers and the futures use the   *)
(* core as TunnelServer says, and while its WebSocket is open a client     *)
(* misses no message.                                                      *)
(***************************************************************************)
EXTENDS NodeBridge, TunnelServerProofs

(***************************************************************************)
(* What each party touches                                                 *)
(***************************************************************************)

\* The handlers of the WebSocket's events, and the promise of run().
Events(c) ==
    \/ \E f \in Frames : OnMessage(c, f)
    \/ OnClose(c) \/ RunSettles(c) \/ ClientLeaves(c)

Futures(c) == \E p \in Pushers : FirstPoll(c, p) \/ PushReturns(c, p)

\* An event may end the WebSocket, and touches no message to the client.
LEMMA EventFrame ==
    ASSUME NEW c \in Conns, Events(c)
    PROVE  /\ UNCHANGED <<calls, sent>>
           /\ UNCHANGED ws \/ \E w \in {"closing", "left", "closed"} :
                                  ws' = [ws EXCEPT ![c] = w]
           /\ Close(c) \/ UNCHANGED vars
BY DEF Events, OnMessage, OnClose, RunSettles, ClientLeaves

\* A future calls push_message, or ends it, or finds the connection closed.
LEMMA FutureStep ==
    ASSUME spawned \in [Conns -> [Pushers -> Frames \cup {NoFrame}]],
           NEW c \in Conns, Futures(c)
    PROVE  /\ UNCHANGED <<ws, calls, sent>>
           /\ Adapter(c) \/ UNCHANGED vars
<1>1. PICK p \in Pushers : FirstPoll(c, p) \/ PushReturns(c, p)
    BY DEF Futures
<1>2. CASE FirstPoll(c, p)
    <2>1. spawned[c][p] \in Frames
        BY <1>2 DEF FirstPoll
    <2> QED BY <1>2, <2>1 DEF FirstPoll, Adapter
<1>3. CASE PushReturns(c, p)
    BY <1>3 DEF PushReturns, Adapter, nodeVars
<1> QED BY <1>1, <1>2, <1>3

\* A step of the adapter, the core and the client is one of the core, or
\* leaves it alone.
LEMMA CoreSteps ==
    ASSUME spawned \in [Conns -> [Pushers -> Frames \cup {NoFrame}]],
           [NodeNext]_allVars
    PROVE  [Next]_vars
<1>1. CASE HandleUpgrade
    BY <1>1 DEF HandleUpgrade, Next
<1>2. CASE CoreStep
    BY <1>2 DEF CoreStep, Next, DrainTask
<1>3. ASSUME NEW c \in Conns, Events(c)
      PROVE  [Next]_vars
    BY <1>3, EventFrame DEF Next, Adapter
<1>4. ASSUME NEW c \in Conns, Futures(c)
      PROVE  [Next]_vars
    BY <1>4, FutureStep DEF Next
<1>5. ASSUME NEW c \in Conns, Deliver(c)
      PROVE  [Next]_vars
    BY <1>5 DEF Deliver, Next, DrainTask
<1>6. ASSUME NEW c \in Conns, Callback(c) \/ ReplacedFromOutside(c)
      PROVE  [Next]_vars
    BY <1>6 DEF Callback, ReplacedFromOutside, Next, Adapter
<1>7. CASE NodeStopped \/ UNCHANGED allVars
    BY <1>7 DEF NodeStopped, Stopped, allVars
<1> QED BY <1>1, <1>2, <1>3, <1>4, <1>5, <1>6, <1>7 DEF NodeNext, Events, Futures

\* The message the drain task delivers is one the server sends.
LEMMA DeliveredMessage ==
    ASSUME IInv, NEW c \in Conns, Deliver(c)
    PROVE  Head(outQ[c]) \in ServerMessages
<1>1. outQ[c] \in Seq(ServerMessages) /\ outQ[c] # <<>>
    BY DEF IInv, TypeOK, Deliver, DrainDeliver
<1> QED BY <1>1, HeadTailProperties

(***************************************************************************)
(* Types                                                                   *)
(***************************************************************************)

\* The types hold before the first WebSocket.
LEMMA NodeTypeInit == NodeInit => NodeTypeOK
<1>1. <<>> \in Seq(ServerMessages)
    BY EmptySeq
<1> QED BY <1>1 DEF NodeInit, NodeTypeOK

\* The adapter keeps its types.
LEMMA NodeTypeStep ==
    ASSUME IInv, NodeTypeOK, [NodeNext]_allVars
    PROVE  NodeTypeOK'
<1> USE DEF NodeTypeOK
<1>1. CASE HandleUpgrade
    <2>1. nextConnId \in Conns
        BY <1>1 DEF HandleUpgrade, CreateConnection
    <2> QED BY <1>1, <2>1 DEF HandleUpgrade
<1>2. CASE CoreStep \/ NodeStopped \/ UNCHANGED allVars
    BY <1>2 DEF CoreStep, NodeStopped, allVars, nodeVars
<1>3. ASSUME NEW c \in Conns, Events(c)
      PROVE  NodeTypeOK'
    <2>1. ws' \in [Conns -> {"none", "open", "closing", "left", "closed"}]
        <3>1. CASE UNCHANGED ws
            BY <3>1
        <3>2. ASSUME NEW w \in {"closing", "left", "closed"}, ws' = [ws EXCEPT ![c] = w]
              PROVE  ws' \in [Conns -> {"none", "open", "closing", "left", "closed"}]
            BY <3>2
        <3> QED BY <1>3, <3>1, <3>2, EventFrame
    <2>2. UNCHANGED <<calls, sent>>
        BY <1>3, EventFrame
    <2>3. spawned' \in [Conns -> [Pushers -> Frames \cup {NoFrame}]]
        <3>1. ASSUME NEW f \in Frames, OnMessage(c, f)
              PROVE  spawned' \in [Conns -> [Pushers -> Frames \cup {NoFrame}]]
            <4>1. PICK p \in Pushers : spawned' = [spawned EXCEPT ![c][p] = f]
                BY <3>1 DEF OnMessage, Free
            <4> QED BY <4>1
        <3>2. CASE OnClose(c) \/ RunSettles(c) \/ ClientLeaves(c)
            BY <3>2 DEF OnClose, RunSettles, ClientLeaves
        <3> QED BY <1>3, <3>1, <3>2 DEF Events
    <2> QED BY <2>1, <2>2, <2>3
<1>4. ASSUME NEW c \in Conns, Futures(c)
      PROVE  NodeTypeOK'
    <2>1. UNCHANGED <<ws, calls, sent>>
        BY <1>4, FutureStep
    <2>2. PICK p \in Pushers : FirstPoll(c, p) \/ PushReturns(c, p)
        BY <1>4 DEF Futures
    <2>3. \/ spawned' = [spawned EXCEPT ![c][p] = NoFrame]
          \/ UNCHANGED spawned
        BY <2>2 DEF FirstPoll, PushReturns, nodeVars
    <2>4. spawned' \in [Conns -> [Pushers -> Frames \cup {NoFrame}]]
        <3>1. [spawned[c] EXCEPT ![p] = NoFrame] \in [Pushers -> Frames \cup {NoFrame}]
            OBVIOUS
        <3>2. CASE spawned' = [spawned EXCEPT ![c][p] = NoFrame]
            BY <3>1, <3>2
        <3> QED BY <2>3, <3>2
    <2> QED BY <2>1, <2>4
<1>5. ASSUME NEW c \in Conns, Deliver(c)
      PROVE  NodeTypeOK'
    <2>1. Append(calls[c], Head(outQ[c])) \in Seq(ServerMessages)
        BY <1>5, DeliveredMessage, AppendProperties
    <2> QED BY <1>5, <2>1 DEF Deliver
<1>6. ASSUME NEW c \in Conns, Callback(c)
      PROVE  NodeTypeOK'
    <2>1. /\ Head(calls[c]) \in ServerMessages
          /\ Tail(calls[c]) \in Seq(ServerMessages)
        BY <1>6, HeadTailProperties DEF Callback
    <2> QED BY <1>6, <2>1 DEF Callback
<1>7. ASSUME NEW c \in Conns, ReplacedFromOutside(c)
      PROVE  NodeTypeOK'
    BY <1>7 DEF ReplacedFromOutside, nodeVars
<1> HIDE DEF NodeTypeOK
<1> QED BY <1>1, <1>2, <1>3, <1>4, <1>5, <1>6, <1>7 DEF NodeNext, Events, Futures

(***************************************************************************)
(* The adapter uses the core as TunnelServer expects                       *)
(***************************************************************************)

\* The adapter makes only calls TunnelServer allows, in an order it allows, and
\* never drops run(): every theorem about the core holds behind Node.
LEMMA NodeUsesCore == NodeSpec => UsesCore
<1>1. NodeInit => Init /\ IInv /\ NodeTypeOK
    BY NodeTypeInit, InitInvariant DEF NodeInit
<1>2. NodeTypeOK /\ [NodeNext]_allVars => [Next]_vars
    BY CoreSteps DEF NodeTypeOK
<1>3. IInv /\ NodeTypeOK /\ [NodeNext]_allVars => NodeTypeOK'
    BY NodeTypeStep
<1>4. IInv /\ [Next]_vars => IInv'
    BY InvariantStep
<1> QED BY <1>1, <1>2, <1>3, <1>4, PTL DEF NodeSpec, UsesCore, Spec

\* Futures that wait for room and messages the JavaScript thread has yet to send
\* hold up no caller: a client that does not authenticate is turned away, and a
\* dispatch whose connection has cleaned up or lost its channel returns, by the
\* fairness of the core's tasks in NodeFairness.
THEOREM CallersReturn ==
    ASSUME NEW r \in Reqs, NEW c \in Conns
    PROVE  NodeSpec /\ []GuardsAreExact =>
               /\ InAuth(c) ~> Settled(c)
               /\ Abandoned(r) \/ Refused(r) ~> Returned(r)
<1> SUFFICES ASSUME NodeSpec, []GuardsAreExact
             PROVE  /\ InAuth(c) ~> Settled(c)
                    /\ Abandoned(r) \/ Refused(r) ~> Returned(r)
    OBVIOUS
<1>1. Spec
    BY NodeUsesCore DEF UsesCore
<1>2. TaskFairness
    BY PTL DEF NodeSpec, NodeFairness
<1>3. TaskFair(c) /\ ServeFair(r)
    BY <1>2 DEF TaskFairness
<1>4. InAuth(c) ~> Settled(c)
    BY <1>1, <1>3, AuthEnds
<1>5. Abandoned(r) \/ Refused(r) ~> Returned(r)
    BY <1>1, <1>3, LostRequestsFail
<1> QED BY <1>4, <1>5

(***************************************************************************)
(* Messages on their way to the client                                     *)
(***************************************************************************)

\* Nothing was sent to the client of a connection not yet made.
FreshSockets ==
    \A c \in Conns : c >= nextConnId =>
        ws[c] = "none" /\ calls[c] = <<>> /\ sent[c] = {}

NodeInv == NodeTypeOK /\ FreshSockets /\ MessagesKept

\* Only Deliver gives the callback a message, and only handleUpgrade makes a
\* connection.
LEMMA OtherSteps ==
    ASSUME NodeTypeOK, [NodeNext]_allVars, ~HandleUpgrade
    PROVE  /\ UNCHANGED nextConnId
           /\ \/ \E c \in Conns : Deliver(c) \/ Callback(c)
              \/ UNCHANGED <<handed, calls, sent>>
           /\ \/ UNCHANGED ws
              \/ \E c \in Conns : \E w \in {"closing", "left", "closed"} :
                    ws[c] # "none" /\ ws' = [ws EXCEPT ![c] = w]
<1>1. CASE CoreStep
    <2>1. ASSUME NEW c \in Conns, DrainEnd(c)
          PROVE  UNCHANGED <<handed, nextConnId>>
        BY <2>1 DEF DrainEnd, serverVars
    <2>2. UNCHANGED <<handed, nextConnId>>
        BY <1>1, <2>1, RunFrame, RequestFrame DEF CoreStep
    <2> QED BY <1>1, <2>2 DEF CoreStep, nodeVars
<1>2. ASSUME NEW c \in Conns, Events(c)
      PROVE  /\ UNCHANGED <<nextConnId, handed, calls, sent>>
             /\ \/ UNCHANGED ws
                \/ \E w \in {"closing", "left", "closed"} :
                      ws[c] # "none" /\ ws' = [ws EXCEPT ![c] = w]
    <2>1. UNCHANGED <<nextConnId, handed, calls, sent>>
        BY <1>2, EventFrame, AdapterFrame DEF Adapter, vars, serverVars
    <2> QED BY <1>2, <2>1 DEF Events, OnMessage, OnClose, RunSettles, ClientLeaves
<1>3. ASSUME NEW c \in Conns, Futures(c)
      PROVE  UNCHANGED <<nextConnId, handed, ws, calls, sent>>
    BY <1>3, FutureStep, AdapterFrame DEF NodeTypeOK, vars, serverVars
<1>4. ASSUME NEW c \in Conns, Deliver(c) \/ Callback(c)
      PROVE  UNCHANGED <<nextConnId, ws>>
    BY <1>4 DEF Deliver, DrainDeliver, Callback, vars, serverVars
<1>5. ASSUME NEW c \in Conns, ReplacedFromOutside(c)
      PROVE  UNCHANGED <<nextConnId, handed, ws, calls, sent>>
    BY <1>5, AdapterFrame DEF ReplacedFromOutside, Adapter, nodeVars
<1>6. CASE NodeStopped \/ UNCHANGED allVars
    BY <1>6 DEF NodeStopped, Stopped, allVars, vars, serverVars, nodeVars
<1> QED BY <1>1, <1>2, <1>3, <1>4, <1>5, <1>6 DEF NodeNext, Events, Futures

\* A connection is made with nothing handed to its callback.
LEMMA FreshSocketStep ==
    ASSUME IInv, NodeInv, [NodeNext]_allVars
    PROVE  FreshSockets'
<1> USE DEF FreshSockets, NodeInv
<1>0. /\ NodeTypeOK
      /\ ws \in [Conns -> {"none", "open", "closing", "left", "closed"}]
      /\ calls \in [Conns -> Seq(ServerMessages)]
      /\ sent \in [Conns -> SUBSET ServerMessages]
      /\ nextConnId \in 1 .. MaxConns + 1
      /\ MaxConns \in Nat
    BY ServerAssumption DEF NodeTypeOK, IInv, TypeOK
<1>1. CASE HandleUpgrade
    <2>1. /\ nextConnId \in Conns /\ nextConnId' = nextConnId + 1
          /\ ws' = [ws EXCEPT ![nextConnId] = "open"]
          /\ UNCHANGED <<calls, sent>>
        BY <1>1 DEF HandleUpgrade, CreateConnection
    <2>2. \A c \in Conns : c >= nextConnId + 1 => c >= nextConnId /\ c # nextConnId
        BY <1>0 DEF Conns
    <2> QED BY <1>0, <2>1, <2>2
<1>2. CASE ~HandleUpgrade
    <2>1. UNCHANGED nextConnId
        BY <1>0, <1>2, OtherSteps
    <2>2. \A c \in Conns : c >= nextConnId => ws'[c] = "none"
        <3>1. \/ UNCHANGED ws
              \/ \E c \in Conns : \E w \in {"closing", "left", "closed"} :
                    ws[c] # "none" /\ ws' = [ws EXCEPT ![c] = w]
            BY <1>0, <1>2, OtherSteps
        <3> QED BY <1>0, <3>1
    <2>3. \A c \in Conns : c >= nextConnId => calls'[c] = <<>> /\ sent'[c] = {}
        <3>1. ASSUME NEW c \in Conns, Deliver(c)
              PROVE  \A d \in Conns : d >= nextConnId => calls'[d] = <<>> /\ sent'[d] = {}
            <4>1. outQ[c] # <<>> /\ UNCHANGED sent
                  /\ calls' = [calls EXCEPT ![c] = Append(@, Head(outQ[c]))]
                BY <3>1 DEF Deliver, DrainDeliver
            <4>2. ~(c >= nextConnId)
                BY <4>1 DEF IInv, FreshConnections, QuietBeforeAuth
            <4> QED BY <1>0, <4>1, <4>2
        <3>2. ASSUME NEW c \in Conns, Callback(c)
              PROVE  \A d \in Conns : d >= nextConnId => calls'[d] = <<>> /\ sent'[d] = {}
            <4>1. /\ calls[c] # <<>>
                  /\ \A d \in Conns \ {c} : calls'[d] = calls[d] /\ sent'[d] = sent[d]
                BY <1>0, <3>2 DEF Callback
            <4> QED BY <4>1
        <3> QED BY <1>0, <1>2, <3>1, <3>2, OtherSteps
    <2> QED BY <2>1, <2>2, <2>3
<1> QED BY <1>1, <1>2

\* No step loses a message while the WebSocket is open.
LEMMA KeptStep ==
    ASSUME IInv, NodeInv, [NodeNext]_allVars
    PROVE  MessagesKept'
<1> DEFINE Kept(c) == ws[c] = "open" => handed[c] = sent[c] \cup Range(calls[c])
<1>0. /\ NodeTypeOK
      /\ ws \in [Conns -> {"none", "open", "closing", "left", "closed"}]
      /\ calls \in [Conns -> Seq(ServerMessages)]
      /\ sent \in [Conns -> SUBSET ServerMessages]
      /\ handed \in [Conns -> SUBSET ServerMessages]
    BY DEF NodeInv, NodeTypeOK, IInv, TypeOK
<1>a. \A c \in Conns : Kept(c)
    BY DEF NodeInv, MessagesKept
<1>b. (\A c \in Conns : Kept(c)') => MessagesKept'
    BY DEF MessagesKept
<1>1. CASE HandleUpgrade
    <2>1. /\ nextConnId \in Conns /\ UNCHANGED <<handed, calls, sent>>
          /\ ws' = [ws EXCEPT ![nextConnId] = "open"]
        BY <1>1 DEF HandleUpgrade, CreateConnection
    <2>2. runPc[nextConnId] = "none"
        BY <2>1 DEF IInv, FreshConnections, TypeOK, Conns
    <2>3. handed[nextConnId] = {}
        BY <2>1, <2>2 DEF IInv, QuietBeforeAuth
    <2>4. sent[nextConnId] = {} /\ calls[nextConnId] = <<>>
        BY <2>1 DEF NodeInv, FreshSockets, Conns
    <2>5. Range(calls[nextConnId]) = {}
        BY <2>4 DEF Range
    <2>6. ASSUME NEW c \in Conns, c # nextConnId PROVE Kept(c)'
        BY <1>0, <1>a, <2>1, <2>6
    <2> QED BY <1>b, <2>1, <2>3, <2>4, <2>5, <2>6
<1>2. CASE ~HandleUpgrade
    <2>1. \A d \in Conns : ws'[d] = "open" => ws[d] = "open"
        <3>1. \/ UNCHANGED ws
              \/ \E c \in Conns : \E w \in {"closing", "left", "closed"} :
                    ws[c] # "none" /\ ws' = [ws EXCEPT ![c] = w]
            BY <1>0, <1>2, OtherSteps
        <3> QED BY <1>0, <3>1
    <2>2. CASE UNCHANGED <<handed, calls, sent>>
        <3>1. ASSUME NEW c \in Conns PROVE Kept(c)'
            BY <1>a, <2>1, <2>2
        <3> QED BY <1>b, <3>1
    <2>3. ASSUME NEW c \in Conns, Deliver(c)
          PROVE  MessagesKept'
        <3> DEFINE m == Head(outQ[c])
        <3>1. m \in ServerMessages
            BY <2>3, DeliveredMessage
        <3>2. /\ handed' = [handed EXCEPT ![c] = @ \cup {m}]
              /\ calls' = [calls EXCEPT ![c] = Append(@, m)]
              /\ UNCHANGED sent
            BY <2>3 DEF Deliver, DrainDeliver
        <3> HIDE DEF m
        <3>3. Range(Append(calls[c], m)) = Range(calls[c]) \cup {m}
            BY <1>0, <3>1, RangeAppend
        <3>4. /\ handed'[c] = handed[c] \cup {m} /\ calls'[c] = Append(calls[c], m)
              /\ \A d \in Conns \ {c} : handed'[d] = handed[d] /\ calls'[d] = calls[d]
            BY <1>0, <3>2
        <3>5. Kept(c)'
            BY <1>a, <2>1, <3>2, <3>3, <3>4
        <3>6. ASSUME NEW d \in Conns \ {c} PROVE Kept(d)'
            BY <1>a, <2>1, <3>2, <3>4
        <3> QED BY <1>b, <3>5, <3>6
    <2>4. ASSUME NEW c \in Conns, Callback(c)
          PROVE  MessagesKept'
        <3>1. Range(calls[c]) = {Head(calls[c])} \cup Range(Tail(calls[c]))
            BY <1>0, <2>4, RangeTail DEF Callback
        <3>2. /\ UNCHANGED <<handed, ws>>
              /\ calls' = [calls EXCEPT ![c] = Tail(@)]
              /\ \/ sent' = [sent EXCEPT ![c] = @ \cup {Head(calls[c])}]
                 \/ ws[c] # "open" /\ UNCHANGED sent
            BY <2>4 DEF Callback, vars
        <3>3. /\ calls'[c] = Tail(calls[c])
              /\ sent'[c] = sent[c] \cup {Head(calls[c])} \/ ws[c] # "open"
              /\ \A d \in Conns \ {c} : calls'[d] = calls[d] /\ sent'[d] = sent[d]
            BY <1>0, <3>2
        <3>4. Kept(c)'
            BY <1>a, <3>1, <3>2, <3>3
        <3>5. ASSUME NEW d \in Conns \ {c} PROVE Kept(d)'
            BY <1>a, <3>2, <3>3
        <3> QED BY <1>b, <3>4, <3>5
    <2> HIDE DEF MessagesKept
    <2> QED BY <1>0, <1>2, <2>2, <2>3, <2>4, OtherSteps
<1> QED BY <1>1, <1>2

\* While its WebSocket is open, what the core hands to the callback was sent to
\* the client or is queued for the JavaScript thread, however futures, events
\* and the end of run() overtake one another.
THEOREM NoMessageLost == NodeSpec => []NodeTypeOK /\ []MessagesKept
<1>1. NodeInit => NodeInv
    BY NodeTypeInit DEF NodeInit, NodeInv, FreshSockets, MessagesKept
<1>2. IInv /\ NodeInv /\ [NodeNext]_allVars => NodeInv'
    BY NodeTypeStep, FreshSocketStep, KeptStep DEF NodeInv
<1>3. NodeInv => NodeTypeOK /\ MessagesKept
    BY DEF NodeInv
<1>4. NodeSpec => []IInv
    BY NodeUsesCore, Invariance, PTL DEF UsesCore
<1> QED BY <1>1, <1>2, <1>3, <1>4, PTL DEF NodeSpec

(***************************************************************************)
(* What the client reads.  The JavaScript thread runs the callbacks in the *)
(* order of the calls, and once it skips one it sends nothing more.        *)
(***************************************************************************)

\* ws.send is given only what the core handed to the callback: auth_ok and
\* requests if its client authenticated, auth_ok before any request, and each
\* request once, at the one WebSocket of the connection it was sent to.
SocketTrusted ==
    \A c \in Conns :
        /\ sent[c] \subseteq handed[c]
        /\ (\E m \in sent[c] : m.type \in {"auth_ok", "request"})
              => Secret # EmptyToken /\ auth[c].token = Secret
        /\ (\E r \in Reqs : TunnelRequest(r) \in sent[c]) => AuthOk \in sent[c]
        /\ \A r \in Reqs : TunnelRequest(r) \in sent[c] =>
              reqConn[r] = c /\ auth[c].service = ServiceOf[r]
        /\ \A m \in Range(calls[c]) : m.type = "request" => m \notin sent[c]

InOrder(c) ==
    /\ sent[c] \cup Range(calls[c]) \subseteq handed[c]
    /\ ws[c] = "open" => OkLeads(sent[c], calls[c])
    /\ (\E m \in sent[c] : m.type = "request") => AuthOk \in sent[c]
    /\ Fresh(sent[c], calls[c])

SocketOrder == \A c \in Conns : InOrder(c)

\* No step of the JavaScript thread or of the drain task changes the order.
LEMMA SocketOrderStep ==
    ASSUME IInv, AuthOkFirst', RequestsArriveOnce, NodeInv, SocketOrder, [NodeNext]_allVars
    PROVE  SocketOrder'
<1>0. /\ NodeTypeOK /\ MessagesKept
      /\ ws \in [Conns -> {"none", "open", "closing", "left", "closed"}]
      /\ calls \in [Conns -> Seq(ServerMessages)]
      /\ sent \in [Conns -> SUBSET ServerMessages]
      /\ handed \in [Conns -> SUBSET ServerMessages]
    BY DEF NodeInv, NodeTypeOK, IInv, TypeOK
<1>1. CASE HandleUpgrade
    <2>1. /\ nextConnId \in Conns /\ UNCHANGED <<handed, calls, sent>>
          /\ ws' = [ws EXCEPT ![nextConnId] = "open"]
        BY <1>1 DEF HandleUpgrade, CreateConnection
    <2>2. calls[nextConnId] = <<>> /\ Len(<<>>) = 0
        BY <2>1, EmptySeq DEF NodeInv, FreshSockets, Conns
    <2>3. ASSUME NEW c \in Conns PROVE InOrder(c)'
        <3>1. c # nextConnId => ws'[c] = ws[c]
            BY <1>0, <2>1
        <3> QED BY <2>1, <2>2, <3>1 DEF SocketOrder, InOrder, OkLeads, Fresh
    <2> QED BY <2>3 DEF SocketOrder
<1>2. CASE ~HandleUpgrade
    <2>1. \A d \in Conns : ws'[d] = "open" => ws[d] = "open"
        <3>1. \/ UNCHANGED ws
              \/ \E c \in Conns : \E w \in {"closing", "left", "closed"} :
                    ws[c] # "none" /\ ws' = [ws EXCEPT ![c] = w]
            BY <1>0, <1>2, OtherSteps
        <3> QED BY <1>0, <3>1
    <2>2. ASSUME NEW c \in Conns, InOrder(c)',
                 \A d \in Conns \ {c} : /\ calls'[d] = calls[d] /\ sent'[d] = sent[d]
                                        /\ handed'[d] = handed[d]
          PROVE  SocketOrder'
        <3>1. ASSUME NEW d \in Conns \ {c} PROVE InOrder(d)'
            BY <2>1, <2>2, <3>1 DEF SocketOrder, InOrder, OkLeads, Fresh
        <3> QED BY <2>2, <3>1 DEF SocketOrder
    <2>3. CASE UNCHANGED <<handed, calls, sent>>
        <3>1. ASSUME NEW c \in Conns PROVE InOrder(c)'
            BY <2>1, <2>3 DEF SocketOrder, InOrder, OkLeads, Fresh
        <3> QED BY <3>1 DEF SocketOrder
    <2>4. ASSUME NEW c \in Conns, Deliver(c)
          PROVE  SocketOrder'
        <3> DEFINE m == Head(outQ[c])
        <3>1. m \in ServerMessages
            BY <2>4, DeliveredMessage
        <3>2. /\ handed' = [handed EXCEPT ![c] = @ \cup {m}]
              /\ calls' = [calls EXCEPT ![c] = Append(@, m)]
              /\ UNCHANGED <<ws, sent>>
            BY <2>4 DEF Deliver, DrainDeliver
        <3>3. m.type = "request" => AuthOk \in handed[c]
            BY <2>4, DeliveredInOrder DEF Deliver
        <3>a. m.type = "request" => m \notin handed[c]
            BY <2>4, DeliveredOnce DEF Deliver
        <3> HIDE DEF m
        <3>4. /\ handed'[c] = handed[c] \cup {m}
              /\ calls'[c] = Append(calls[c], m) /\ calls[c] \in Seq(ServerMessages)
              /\ \A d \in Conns \ {c} : handed'[d] = handed[d] /\ calls'[d] = calls[d]
            BY <1>0, <3>2
        <3>5. Range(calls'[c]) = Range(calls[c]) \cup {m}
            BY <3>1, <3>4, RangeAppend
        <3>6. ws[c] = "open" => OkLeads(sent[c], Append(calls[c], m))
            <4>1. ws[c] = "open" => handed[c] = sent[c] \cup Range(calls[c])
                BY <1>0 DEF MessagesKept
            <4> QED BY <3>1, <3>3, <3>4, <4>1, OkLeadsAppend DEF SocketOrder, InOrder
        <3>b. Fresh(sent[c], Append(calls[c], m))
            BY <3>1, <3>4, <3>a, FreshAppend DEF SocketOrder, InOrder
        <3>7. InOrder(c)'
            BY <3>2, <3>4, <3>5, <3>6, <3>b DEF SocketOrder, InOrder
        <3> QED BY <2>2, <3>2, <3>4, <3>7
    <2>5. ASSUME NEW c \in Conns, Callback(c)
          PROVE  SocketOrder'
        <3>1. /\ UNCHANGED <<handed, ws>> /\ calls[c] # <<>>
              /\ calls' = [calls EXCEPT ![c] = Tail(@)]
              /\ \/ ws[c] = "open" /\ sent' = [sent EXCEPT ![c] = @ \cup {Head(calls[c])}]
                 \/ ws[c] # "open" /\ UNCHANGED sent
            BY <2>5 DEF Callback, vars
        <3>2. /\ calls[c] \in Seq(ServerMessages) /\ calls'[c] = Tail(calls[c])
              /\ \/ ws[c] = "open" /\ sent'[c] = sent[c] \cup {Head(calls[c])}
                 \/ ws[c] # "open" /\ sent'[c] = sent[c]
              /\ \A d \in Conns \ {c} : calls'[d] = calls[d] /\ sent'[d] = sent[d]
            BY <1>0, <3>1
        <3>3. Range(calls[c]) = {Head(calls[c])} \cup Range(Tail(calls[c]))
            BY <3>1, <3>2, RangeTail
        <3>4. ws[c] = "open" =>
                /\ Head(calls[c]).type = "request" => AuthOk \in sent[c]
                /\ OkLeads(sent[c] \cup {Head(calls[c])}, Tail(calls[c]))
            BY <3>1, <3>2, OkLeadsTail DEF SocketOrder, InOrder
        <3>6. Fresh(sent[c] \cup {Head(calls[c])}, Tail(calls[c]))
            BY <3>1, <3>2, FreshTail DEF SocketOrder, InOrder
        <3>7. Fresh(sent[c], Tail(calls[c]))
            BY <3>6 DEF Fresh
        <3>8. Fresh(sent[c], calls[c])'
            BY <3>2, <3>6, <3>7
        <3>5. InOrder(c)'
            BY <3>1, <3>2, <3>3, <3>4, <3>8 DEF SocketOrder, InOrder
        <3> QED BY <2>2, <3>1, <3>2, <3>5
    <2> QED BY <1>0, <1>2, <2>3, <2>4, <2>5, OtherSteps
<1> QED BY <1>1, <1>2

\* Behind Node a client reads auth_ok before any request, and reads neither
\* unless it presented the configured secret.  No other client reads the request,
\* and none is given it twice.
THEOREM SocketsTrusted == NodeSpec => []SocketTrusted
<1>1. NodeInit => NodeInv /\ SocketOrder
    <2>1. Range(<<>>) = {} /\ Len(<<>>) = 0
        BY EmptySeq DEF Range
    <2> QED BY <2>1, NodeTypeInit DEF NodeInit, Init, SocketOrder, InOrder, OkLeads,
            Fresh, NodeInv, FreshSockets, MessagesKept
<1>2. IInv /\ NodeInv /\ [NodeNext]_allVars => NodeInv'
    BY NodeTypeStep, FreshSocketStep, KeptStep DEF NodeInv
<1>3. IInv /\ AuthOkFirst' /\ RequestsArriveOnce /\ NodeInv /\ SocketOrder /\ [NodeNext]_allVars
        => SocketOrder'
    BY SocketOrderStep
<1>4. NodeInv /\ SocketOrder /\ OnlyAuthenticated /\ RequestsArriveOnce => SocketTrusted
    <2> SUFFICES ASSUME NodeInv, SocketOrder, OnlyAuthenticated, RequestsArriveOnce, NEW c \in Conns
                 PROVE  /\ sent[c] \subseteq handed[c]
                        /\ (\E m \in sent[c] : m.type \in {"auth_ok", "request"})
                              => Secret # EmptyToken /\ auth[c].token = Secret
                        /\ (\E r \in Reqs : TunnelRequest(r) \in sent[c])
                              => AuthOk \in sent[c]
                        /\ \A r \in Reqs : TunnelRequest(r) \in sent[c] =>
                              reqConn[r] = c /\ auth[c].service = ServiceOf[r]
                        /\ \A m \in Range(calls[c]) : m.type = "request" => m \notin sent[c]
        BY DEF SocketTrusted
    <2>1. \A r \in Reqs : TunnelRequest(r).type = "request"
        BY DEF TunnelRequest
    <2>2. \A r \in Reqs : TunnelRequest(r) \in sent[c] =>
              reqConn[r] = c /\ auth[c].service = ServiceOf[r]
        BY DEF SocketOrder, InOrder, RequestsArriveOnce
    <2>3. \A m \in Range(calls[c]) : m.type = "request" => m \notin sent[c]
        <3>1. Range(calls[c]) = {calls[c][i] : i \in 1 .. Len(calls[c])}
            BY LenProperties DEF NodeInv, NodeTypeOK, Range
        <3> QED BY <3>1 DEF SocketOrder, InOrder, Fresh
    <2> QED BY <2>1, <2>2, <2>3 DEF SocketOrder, InOrder, OnlyAuthenticated
<1>5. NodeSpec => []IInv /\ []AuthOkFirst /\ []OnlyAuthenticated /\ []RequestsArriveOnce
    BY NodeUsesCore, Invariance, AuthOkComesFirst, Authentication, RequestsReachOneClient,
       PTL DEF UsesCore
<1> QED BY <1>1, <1>2, <1>3, <1>4, <1>5, PTL DEF NodeSpec

(***************************************************************************)
(* Nobody waits in a circle.  The WebSocket waits for its client and for   *)
(* run(), the futures for room, the queue for the JavaScript thread.       *)
(***************************************************************************)

\* The JavaScript thread has a callback to run, run() has settled, or the timer
\* of a closing handshake runs; or the runtime has a future to poll.
CanGoOn(c) ==
    \/ calls[c] # <<>>
    \/ ws[c] = "open" /\ runPc[c] = "done"
    \/ ws[c] \in {"closing", "left"}
    \/ \E p \in Pushers : spawned[c][p] # NoFrame

\* Something of a connection can go on, or nothing is left of it, or its
\* WebSocket is open and everything waits for its client.
NoHandlerStuck ==
    \A c \in Conns : ws[c] # "none" =>
        Gone(c) \/ Moves(c) \/ CanGoOn(c) \/ (ws[c] = "open" /\ Idle(c))

\* What the WebSocket says of run() and of the connection.
HandlersInStep ==
    \A c \in Conns :
        /\ ws[c] # "none" => runPc[c] # "none"
        /\ ws[c] = "closed" => ~inTx[c]

\* Only the end of the WebSocket makes it closed, and it closes the connection.
LEMMA HandlersStep ==
    ASSUME IInv, DrainStarted, NodeTypeOK, HandlersInStep, [NodeNext]_allVars
    PROVE  HandlersInStep'
<1>0. /\ ws \in [Conns -> {"none", "open", "closing", "left", "closed"}]
      /\ inTx \in [Conns -> BOOLEAN]
      /\ runPc \in [Conns -> RunPcs]
    BY DEF NodeTypeOK, IInv, TypeOK
<1>1. \A c \in Conns :
         /\ runPc[c] # "none" => runPc'[c] # "none"
         /\ runPc[c] # "none" /\ ~inTx[c] => ~inTx'[c]
    BY CoreSteps, CoreGoesForward DEF NodeTypeOK
<1> USE DEF HandlersInStep
<1>2. ASSUME UNCHANGED ws PROVE HandlersInStep'
    BY <1>1, <1>2
<1>3. ASSUME HandleUpgrade PROVE HandlersInStep'
    <2>1. /\ nextConnId \in Conns /\ runPc' = [runPc EXCEPT ![nextConnId] = "created"]
        BY <1>3, NewConnection DEF HandleUpgrade, IInv
    <2> QED BY <1>0, <1>1, <1>3, <2>1 DEF HandleUpgrade
<1>4. ASSUME NEW d \in Conns, OnClose(d) PROVE HandlersInStep'
    <2>1. /\ ws[d] # "none" /\ ws' = [ws EXCEPT ![d] = "closed"]
          /\ ~inTx'[d]
        BY <1>0, <1>4 DEF OnClose, Close, vars
    <2> QED BY <1>0, <1>1, <2>1
<1>5. ASSUME NEW d \in Conns, RunSettles(d) \/ ClientLeaves(d) PROVE HandlersInStep'
    BY <1>0, <1>1, <1>5 DEF RunSettles, ClientLeaves
<1>6. ASSUME NEW d \in Conns,
             \/ \E f \in Frames : OnMessage(d, f)
             \/ \E p \in Pushers : FirstPoll(d, p) \/ PushReturns(d, p)
             \/ Callback(d) \/ Deliver(d) \/ ReplacedFromOutside(d)
      PROVE  HandlersInStep'
    BY <1>2, <1>6 DEF OnMessage, FirstPoll, PushReturns, Callback, Deliver,
       ReplacedFromOutside, nodeVars
<1>7. ASSUME CoreStep \/ NodeStopped \/ UNCHANGED allVars PROVE HandlersInStep'
    BY <1>2, <1>7 DEF CoreStep, NodeStopped, allVars, nodeVars
<1> HIDE DEF HandlersInStep
<1> QED BY <1>3, <1>4, <1>5, <1>6, <1>7 DEF NodeNext

\* What the adapter awaits is brought by the core or the client.
LEMMA HandlersMove ==
    ASSUME NodeTypeOK, HandlersInStep, NothingStuck
    PROVE  NoHandlerStuck
<1> SUFFICES ASSUME NEW c \in Conns, ws[c] # "none", ~Gone(c), ~Moves(c), ~CanGoOn(c)
             PROVE  ws[c] = "open" /\ Idle(c)
    BY DEF NoHandlerStuck
<1>1. ws[c] \in {"open", "closed"} /\ runPc[c] # "none"
    BY DEF NodeTypeOK, HandlersInStep, CanGoOn
<1>2. CASE runPc[c] = "done"
    <2>1. Free(c) = Pushers
        BY <1>2 DEF Free, CanGoOn, Moves, CanPush
    <2> QED BY <1>1, <1>2, <2>1 DEF Gone, CanGoOn
<1>3. CASE runPc[c] # "done"
    <2>1. Idle(c)
        BY <1>1, <1>3 DEF NothingStuck
    <2> QED BY <1>1, <2>1 DEF Idle, HandlersInStep
<1> QED BY <1>2, <1>3

\* The handlers are in step in every reachable state.
LEMMA HandlersStay == NodeSpec => []HandlersInStep
<1>1. NodeInit => DrainStarted /\ HandlersInStep
    BY DEF NodeInit, Init, DrainStarted, HandlersInStep
<1>2. IInv /\ DrainStarted /\ NodeTypeOK /\ HandlersInStep /\ [NodeNext]_allVars
        => (DrainStarted /\ HandlersInStep)'
    BY CoreSteps, DrainStays, HandlersStep DEF NodeTypeOK
<1>3. NodeSpec => Spec
    BY NodeUsesCore DEF UsesCore
<1> QED BY <1>1, <1>2, <1>3, Invariance, NoMessageLost, PTL DEF NodeSpec

\* The handlers, the futures and the tasks of the core never wait for one
\* another in a circle, whatever the other connections do: once its WebSocket
\* is not open a connection can go on until nothing is left of it.
THEOREM NoHandlerWaitCycle == NodeSpec => []NoHandlerStuck
<1>1. NodeSpec => Spec
    BY NodeUsesCore DEF UsesCore
<1> QED BY <1>1, NoWaitCycle, NoMessageLost, HandlersStay, HandlersMove, PTL
=============================================================================
