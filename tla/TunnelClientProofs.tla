------------------------- MODULE TunnelClientProofs -------------------------
(***************************************************************************)
(* Theorems about TunnelClient, for any requests, any frames a server may  *)
(* send and any capacity of the socket: no request that was read is lost   *)
(* and none is answered twice, or on another connection.                   *)
(***************************************************************************)
EXTENDS TunnelClient, SequenceTheorems, TLAPS

(***************************************************************************)
(* The inductive invariant                                                 *)
(***************************************************************************)

\* Where the response to r may be on its way: in the channel, under way, or
\* written.
Queued(r) == \E i \in 1 .. Len(responses) : responses[i].request_id = r
Underway(r) == pc = "write" /\ writing.kind = "text" /\ writing.frame.request_id = r
Written(r) == \E i \in 2 .. Len(sent) : sent[i].request_id = r

\* The message under way is the auth message or a response or a ping.
WritingFits ==
    /\ pc = "auth" => writing = Text(Hello)
    /\ pc = "write" => writing \in {Text(f) : f \in Responses} \cup {Ping}

\* The auth message is written first, and no request is read before it is
\* answered.
HelloFirst ==
    /\ pc = "auth" => sent = <<>>
    /\ pc \in {"authWait", "select", "write"} => sent # <<>>
    /\ sent # <<>> => sent[1] = Hello
    /\ \A i \in 2 .. Len(sent) : sent[i] \in Responses
    /\ pc \in {"auth", "authWait"} => got = {}

\* A request is on its way to the client once, and was not read before.
AskedOnce ==
    /\ got \subseteq asked
    /\ \A i \in 1 .. Len(toClient) :
          toClient[i].kind = "text" /\ toClient[i].frame \in TunnelRequests =>
              /\ toClient[i].frame.request_id \in asked \ got
              /\ \A j \in 1 .. Len(toClient) :
                    /\ toClient[j].kind = "text"
                    /\ toClient[j].frame = toClient[i].frame
                    => j = i

\* A request that was read is in one place at most, and only those are.
OnePlace ==
    \A r \in Reqs :
        /\ r \in inFlight => ~Queued(r) /\ ~Underway(r) /\ ~Written(r)
        /\ Queued(r) => ~Underway(r) /\ ~Written(r)
        /\ Underway(r) => ~Written(r)
        /\ r \in inFlight \/ Queued(r) \/ Underway(r) \/ Written(r) => r \in got

QueuedOnce ==
    \A i, j \in 1 .. Len(responses) :
        i # j => responses[i].request_id # responses[j].request_id

WrittenOnce ==
    \A i, j \in 2 .. Len(sent) : i # j => sent[i].request_id # sent[j].request_id

\* No request that was read is in no place while its connection lives.
SomePlace ==
    pc \in {"select", "write"} =>
        \A r \in got : r \in inFlight \/ Queued(r) \/ Underway(r) \/ Written(r)

\* A connection that ended leaves no request behind for the next one.
NothingLeft == pc \in {"connect", "sleep", "auth", "authWait"} =>
                   inFlight = {} /\ responses = <<>>

\* There is room for a Close frame on a connection that is open.
RoomToClose == peer = "open" => Len(toClient) =< WireCap

CInv ==
    /\ TypeOK
    /\ RoomToClose
    /\ WritingFits
    /\ HelloFirst
    /\ AskedOnce
    /\ OnePlace
    /\ QueuedOnce
    /\ WrittenOnce
    /\ SomePlace
    /\ NothingLeft

(***************************************************************************)
(* Facts about messages and about the sequences they wait in               *)
(***************************************************************************)

\* The kinds of message are distinct, and every response names its request.
LEMMA Messages ==
    /\ \A f : Text(f).kind = "text" /\ Text(f).frame = f
    /\ Ping.kind = "ping" /\ Other.kind = "other" /\ CloseFrame.kind = "close"
    /\ \A x \in Responses : x.request_id \in Reqs
    /\ \A x \in TunnelRequests : x.request_id \in Reqs
    /\ \A x, y \in TunnelRequests : x.request_id = y.request_id => x = y
BY DEF Text, Ping, Other, CloseFrame, Responses, TunnelResponse, TunnelRequests,
    TunnelRequest

\* What is queued after a response is added.
LEMMA QueuedAppend ==
    ASSUME responses \in Seq(Responses), NEW x \in Responses,
           responses' = Append(responses, x), NEW r
    PROVE  Queued(r)' <=> Queued(r) \/ x.request_id = r
<1>1. /\ Len(responses') = Len(responses) + 1
      /\ \A i \in 1 .. Len(responses) : responses'[i] = responses[i]
      /\ responses'[Len(responses) + 1] = x
      /\ Len(responses) \in Nat
    BY AppendProperties
<1> QED BY <1>1 DEF Queued

\* What is queued after the first response is taken.
LEMMA QueuedTail ==
    ASSUME responses \in Seq(Responses), responses # <<>>, QueuedOnce,
           responses' = Tail(responses), NEW r
    PROVE  Queued(r)' <=> Queued(r) /\ Head(responses).request_id # r
<1>1. /\ Len(responses') = Len(responses) - 1
      /\ \A i \in 1 .. Len(responses') : responses'[i] = responses[i + 1]
      /\ Head(responses) = responses[1]
      /\ Len(responses) \in Nat \ {0}
    BY HeadTailProperties, EmptySeq
<1>2. ASSUME Queued(r)' PROVE Queued(r) /\ Head(responses).request_id # r
  <2>1. PICK i \in 1 .. Len(responses') : responses'[i].request_id = r
    BY <1>2 DEF Queued
  <2>2. i + 1 \in 1 .. Len(responses) /\ 1 \in 1 .. Len(responses) /\ i + 1 # 1
    BY <1>1, <2>1
  <2>3. responses[i + 1].request_id = r
    BY <1>1, <2>1
  <2> QED BY <1>1, <2>2, <2>3 DEF Queued, QueuedOnce
<1>3. ASSUME Queued(r), Head(responses).request_id # r PROVE Queued(r)'
  <2>1. PICK i \in 1 .. Len(responses) : responses[i].request_id = r
    BY <1>3 DEF Queued
  <2>2. i - 1 \in 1 .. Len(responses') /\ responses'[i - 1] = responses[i]
    BY <1>1, <1>3, <2>1
  <2> QED BY <2>1, <2>2 DEF Queued
<1> QED BY <1>2, <1>3

\* What is written after one frame more.
LEMMA WrittenAppend ==
    ASSUME sent \in Seq({Hello} \cup Responses), sent # <<>>, NEW x \in Responses,
           sent' = Append(sent, x), NEW r
    PROVE  Written(r)' <=> Written(r) \/ x.request_id = r
<1>1. /\ Len(sent') = Len(sent) + 1
      /\ \A i \in 1 .. Len(sent) : sent'[i] = sent[i]
      /\ sent'[Len(sent) + 1] = x
      /\ Len(sent) \in Nat \ {0}
    BY AppendProperties, EmptySeq
<1> QED BY <1>1 DEF Written

(***************************************************************************)
(* The types                                                               *)
(***************************************************************************)
Incoming == {Text(f) : f \in WireFrames} \cup {Other, CloseFrame}
Outgoing == {Text(f) : f \in {Hello} \cup Responses} \cup {Ping}

\* What is read as a request is a request the server sent.
LEMMA RequestRead ==
    ASSUME NEW m \in Incoming, m.kind = "text", ParseMessage(m.frame) = "request"
    PROVE  m.frame \in TunnelRequests /\ m.frame.request_id \in Reqs
<1>1. PICK f \in WireFrames : m = Text(f)
    BY Messages DEF Incoming
<1>2. m.frame \in WireFrames
    BY <1>1, Messages
<1> QED BY <1>2, Messages, ClientAssumption DEF WireFrames

\* What ReadMessage does: the connection ends, or a request starts that the
\* server sent, or a message is dropped.
LEMMA ReadCases ==
    ASSUME TypeOK, ReadMessage, ~EndConnection
    PROVE  /\ toClient # <<>> /\ toClient' = Tail(toClient) /\ pc = "select"
           /\ UNCHANGED <<pc, writing, toServer, peer, reader, responses, asked, sent>>
           /\ \/ UNCHANGED <<inFlight, got>>
              \/ /\ Head(toClient).kind = "text" /\ Head(toClient).frame \in TunnelRequests
                 /\ Head(toClient).frame.request_id \in Reqs
                 /\ inFlight' = inFlight \cup {Head(toClient).frame.request_id}
                 /\ got' = got \cup {Head(toClient).frame.request_id}
<1>1. Head(toClient) \in Incoming
    BY HeadTailProperties DEF ReadMessage, TypeOK, Incoming
<1>2. /\ toClient # <<>> /\ toClient' = Tail(toClient) /\ pc = "select"
      /\ UNCHANGED <<pc, writing, toServer, peer, reader, responses, asked, sent>>
    BY DEF ReadMessage
<1>3. CASE Head(toClient).kind = "text" /\ ParseMessage(Head(toClient).frame) = "request"
  <2>1. /\ inFlight' = inFlight \cup {Head(toClient).frame.request_id}
        /\ got' = got \cup {Head(toClient).frame.request_id}
    BY <1>3 DEF ReadMessage
  <2> QED BY <1>1, <1>2, <1>3, <2>1, RequestRead
<1>4. CASE ~(Head(toClient).kind = "text" /\ ParseMessage(Head(toClient).frame) = "request")
  <2>1. UNCHANGED <<inFlight, got>>
    BY <1>4 DEF ReadMessage
  <2> QED BY <1>2, <2>1
<1> QED BY <1>3, <1>4

\* The end of a connection.
LEMMA EndTypes == ASSUME TypeOK, EndConnection PROVE TypeOK' /\ RoomToClose'
<1>1. /\ pc' \in Pcs /\ peer' \in {"none", "open", "closed", "vanished"}
      /\ reader' \in {"reads", "pongs", "left"} /\ inFlight' \in SUBSET Reqs
    BY DEF EndConnection, Pcs
<1>2. /\ toClient' \in Seq(Incoming) /\ toServer' \in Seq(Outgoing) /\ responses' \in Seq(Responses)
      /\ Len(toClient') = 0 /\ Len(toServer') = 0
    BY EmptySeq DEF EndConnection
<1>3. 0 =< WireCap + 1 /\ 0 =< WireCap
    BY ClientAssumption
<1>4. UNCHANGED <<writing, asked, got, sent>>
    BY DEF EndConnection
<1> QED BY <1>1, <1>2, <1>3, <1>4 DEF TypeOK, RoomToClose, Incoming, Outgoing

\* Every step keeps the types.
LEMMA TypeStep == TypeOK /\ RoomToClose /\ [Next]_vars => TypeOK' /\ RoomToClose'
<1> SUFFICES ASSUME TypeOK, RoomToClose, [Next]_vars PROVE TypeOK' /\ RoomToClose'
    OBVIOUS
<1> USE ClientAssumption
<1>0. /\ toClient \in Seq(Incoming) /\ toServer \in Seq(Outgoing) /\ responses \in Seq(Responses)
      /\ sent \in Seq({Hello} \cup Responses)
      /\ Len(toClient) \in Nat /\ Len(toServer) \in Nat
    BY LenProperties DEF TypeOK, Incoming, Outgoing
<1>1. CASE Connect
  <2>1. /\ <<>> \in Seq(Incoming) /\ <<>> \in Seq(Outgoing)
        /\ <<>> \in Seq({Hello} \cup Responses) /\ Len(<<>>) = 0
    BY EmptySeq
  <2>2. pc' \in Pcs /\ writing' \in Outgoing /\ peer' \in {"none", "open", "closed", "vanished"}
    BY <1>1 DEF Connect, Pcs, Outgoing
  <2> QED BY <1>1, <2>1, <2>2 DEF Connect, RoomToClose, TypeOK, Incoming, Outgoing
<1>2. CASE EndConnection
    BY <1>2, EndTypes
<1>3. CASE Wake
    BY <1>3 DEF Wake, TypeOK, RoomToClose, Pcs
<1>4. CASE WriteDone
  <2>1. writing \in Outgoing /\ pc \in {"auth", "write"}
    BY <1>4 DEF TypeOK, Outgoing, WriteDone
  <2>2. /\ Append(toServer, writing) \in Seq(Outgoing)
        /\ Len(Append(toServer, writing)) =< WireCap
    BY <1>0, <1>4, <2>1, AppendProperties DEF WriteDone
  <2>3. writing # Ping => writing.frame \in {Hello} \cup Responses
    BY <2>1, Messages DEF Outgoing
  <2>4. sent' \in Seq({Hello} \cup Responses)
    BY <1>0, <1>4, <2>3, AppendProperties DEF WriteDone
  <2> QED BY <1>4, <2>2, <2>4 DEF WriteDone, TypeOK, RoomToClose, Pcs, Outgoing
<1>5. ASSUME toClient # <<>>, toClient' = Tail(toClient)
      PROVE  /\ toClient' \in Seq(Incoming) /\ Head(toClient) \in Incoming
             /\ Len(toClient') =< WireCap
  <2>1. /\ Head(toClient) \in Incoming /\ Tail(toClient) \in Seq(Incoming)
        /\ Len(Tail(toClient)) = Len(toClient) - 1
    BY <1>0, <1>5, HeadTailProperties
  <2>2. Len(toClient) =< WireCap + 1
    BY DEF TypeOK
  <2> QED BY <1>0, <1>5, <2>1, <2>2
<1>6. CASE AuthAnswer
  <2>1. CASE ~EndConnection
    BY <1>5, <1>6, <2>1 DEF AuthAnswer, RoomToClose, TypeOK, Pcs, Incoming
  <2> QED BY <1>2, <2>1
<1>7. CASE ReadMessage
  <2>1. ASSUME ~EndConnection PROVE TypeOK' /\ RoomToClose'
    <3>1. toClient # <<>> /\ toClient' = Tail(toClient)
      BY <1>7, <2>1 DEF ReadMessage
    <3>2. inFlight' \in SUBSET Reqs /\ got' \in SUBSET Reqs
      BY <1>7, <2>1, ReadCases DEF TypeOK
    <3> QED BY <1>5, <1>7, <2>1, <3>1, <3>2 DEF ReadMessage, RoomToClose, TypeOK, Incoming
  <2> QED BY <1>2, <2>1
<1>8. CASE TakeResponse
  <2>1. Head(responses) \in Responses /\ Tail(responses) \in Seq(Responses)
    BY <1>0, <1>8, HeadTailProperties DEF TakeResponse
  <2> QED BY <1>8, <2>1 DEF TakeResponse, TypeOK, RoomToClose, Pcs
<1>9. CASE PingTick
    BY <1>9 DEF PingTick, TypeOK, RoomToClose, Pcs
<1>10. ASSUME NEW r \in Reqs, NEW n \in Statuses, Forwarded(r, n) PROVE TypeOK' /\ RoomToClose'
  <2>1. TunnelResponse(r, n) \in Responses
    BY DEF Responses
  <2>2. Append(responses, TunnelResponse(r, n)) \in Seq(Responses)
    BY <1>0, <2>1, AppendProperties
  <2>3. inFlight \ {r} \in SUBSET Reqs
    BY DEF TypeOK
  <2> QED BY <1>10, <2>2, <2>3 DEF Forwarded, TypeOK, RoomToClose
<1>11. ASSUME NEW m \in {Text(f) : f \in WireFrames} \cup {Other}, ServerSends(m) PROVE TypeOK' /\ RoomToClose'
  <2>1. m \in Incoming
    BY DEF Incoming
  <2>2. Append(toClient, m) \in Seq(Incoming) /\ Len(Append(toClient, m)) =< WireCap + 1
    BY <1>0, <1>11, <2>1, AppendProperties DEF ServerSends
  <2>3. asked' \in SUBSET Reqs
    BY <1>11, Messages DEF ServerSends, TypeOK, RoomToClose
  <2> QED BY <1>11, <2>2, <2>3 DEF ServerSends, TypeOK, RoomToClose, envVars, Incoming
<1>12. CASE ServerReads
  <2>1. Tail(toServer) \in Seq(Outgoing) /\ Len(Tail(toServer)) = Len(toServer) - 1
    BY <1>0, <1>12, HeadTailProperties DEF ServerReads
  <2>2. Len(Tail(toServer)) =< WireCap
    BY <1>0, <2>1 DEF TypeOK
  <2> QED BY <1>12, <2>1, <2>2 DEF ServerReads, TypeOK, RoomToClose, envVars, Outgoing
<1>13. CASE ServerCloses
  <2>1. /\ Append(toClient, CloseFrame) \in Seq(Incoming)
        /\ Len(Append(toClient, CloseFrame)) = Len(toClient) + 1
    BY <1>0, AppendProperties DEF Incoming
  <2>2. toClient' \in Seq(Incoming) /\ Len(toClient') =< WireCap + 1
    <3>1. Len(toClient) =< WireCap /\ WireCap \in Nat
      BY <1>13 DEF ServerCloses, RoomToClose
    <3>2. CASE toClient' = toClient
      BY <1>0, <3>1, <3>2
    <3>3. CASE toClient' = Append(toClient, CloseFrame)
      BY <1>0, <2>1, <3>1, <3>3
    <3> QED BY <1>13, <3>2, <3>3 DEF ServerCloses
  <2> QED BY <1>13, <2>2 DEF ServerCloses, TypeOK, RoomToClose, envVars, Incoming
<1>14. CASE ServerLeaves \/ ServerVanishes \/ TcpGivesUp \/ UNCHANGED vars
    BY <1>14 DEF ServerLeaves, ServerVanishes, TcpGivesUp, vars, envVars, TypeOK, RoomToClose
<1>15. CASE ServerPongs
  <2>1. Append(toClient, Other) \in Seq(Incoming) /\ Len(Append(toClient, Other)) =< WireCap
    BY <1>0, <1>15, AppendProperties DEF ServerPongs, Incoming
  <2> QED BY <1>15, <2>1 DEF ServerPongs, TypeOK, RoomToClose, envVars, Incoming
<1> QED BY <1>1, <1>2, <1>3, <1>4, <1>6, <1>7, <1>8, <1>9, <1>10, <1>11, <1>12, <1>13, <1>14, <1>15
        DEF Next, Loop, Server, ConnectFails, WriteFails, StreamEnds

(***************************************************************************)
(* The requests on their way to the client                                 *)
(***************************************************************************)

\* Every step keeps AskedOnce.
LEMMA AskedStep == CInv /\ [Next]_vars => AskedOnce'
<1> SUFFICES ASSUME CInv, [Next]_vars PROVE AskedOnce'
    OBVIOUS
<1>0. TypeOK /\ AskedOnce /\ toClient \in Seq(Incoming) /\ Len(toClient) \in Nat
    BY LenProperties DEF CInv, TypeOK, Incoming
<1>1. ASSUME toClient' = <<>>, asked' = asked, got' \in {got, {}}
      PROVE  AskedOnce'
    BY <1>0, <1>1, EmptySeq DEF AskedOnce
<1>2. ASSUME UNCHANGED <<toClient, asked, got>>
      PROVE  AskedOnce'
    BY <1>0, <1>2 DEF AskedOnce
<1>3. ASSUME toClient # <<>>, toClient' = Tail(toClient), asked' = asked,
             \/ got' = got
             \/ /\ Head(toClient).kind = "text" /\ Head(toClient).frame \in TunnelRequests
                /\ got' = got \cup {Head(toClient).frame.request_id}
      PROVE  AskedOnce'
  <2>1. /\ Len(toClient') = Len(toClient) - 1
        /\ \A i \in 1 .. Len(toClient') : toClient'[i] = toClient[i + 1] /\ i + 1 \in 1 .. Len(toClient)
        /\ Head(toClient) = toClient[1] /\ 1 \in 1 .. Len(toClient)
    BY <1>0, <1>3, HeadTailProperties, EmptySeq
  <2>2. got' \subseteq asked'
    BY <1>0, <1>3, <2>1 DEF AskedOnce
  <2>3. ASSUME NEW i \in 1 .. Len(toClient'), toClient'[i].kind = "text",
               toClient'[i].frame \in TunnelRequests
        PROVE  /\ toClient'[i].frame.request_id \in asked' \ got'
               /\ \A j \in 1 .. Len(toClient') :
                     toClient'[j].kind = "text" /\ toClient'[j].frame = toClient'[i].frame => j = i
    <3>1. /\ toClient[i + 1].frame.request_id \in asked \ got
          /\ \A j \in 1 .. Len(toClient) :
                toClient[j].kind = "text" /\ toClient[j].frame = toClient[i + 1].frame => j = i + 1
      BY <1>0, <2>1, <2>3 DEF AskedOnce
    <3>2. \A j \in 1 .. Len(toClient') :
             toClient'[j].kind = "text" /\ toClient'[j].frame = toClient'[i].frame => j = i
      BY <2>1, <3>1
    <3>3. Head(toClient).kind = "text" /\ Head(toClient).frame \in TunnelRequests =>
             Head(toClient).frame.request_id # toClient[i + 1].frame.request_id
      <4>1. 1 # i + 1
        BY <2>3
      <4> QED BY <2>1, <2>3, <3>1, <4>1, Messages
    <3> QED BY <1>3, <2>1, <3>1, <3>2, <3>3
  <2> QED BY <2>2, <2>3 DEF AskedOnce
<1>4. ASSUME NEW m \in Incoming, toClient' = Append(toClient, m), got' = got,
             IF m.kind = "text" /\ m.frame \in TunnelRequests
             THEN m.frame.request_id \notin asked /\ asked' = asked \cup {m.frame.request_id}
             ELSE asked' = asked
      PROVE  AskedOnce'
  <2>1. /\ Len(toClient') = Len(toClient) + 1
        /\ \A i \in 1 .. Len(toClient) : toClient'[i] = toClient[i]
        /\ toClient'[Len(toClient) + 1] = m
    BY <1>0, <1>4, AppendProperties
  <2>2. got' \subseteq asked' /\ asked \subseteq asked'
    BY <1>0, <1>4 DEF AskedOnce
  <2>3. ASSUME NEW i \in 1 .. Len(toClient'), toClient'[i].kind = "text",
               toClient'[i].frame \in TunnelRequests
        PROVE  /\ toClient'[i].frame.request_id \in asked' \ got'
               /\ \A j \in 1 .. Len(toClient') :
                     toClient'[j].kind = "text" /\ toClient'[j].frame = toClient'[i].frame => j = i
    <3>1. CASE i \in 1 .. Len(toClient)
      <4>1. /\ toClient[i].frame.request_id \in asked \ got
            /\ \A j \in 1 .. Len(toClient) :
                  toClient[j].kind = "text" /\ toClient[j].frame = toClient[i].frame => j = i
        BY <1>0, <2>1, <2>3, <3>1 DEF AskedOnce
      <4>2. m.kind = "text" => m.frame # toClient[i].frame
        BY <1>4, <2>1, <2>3, <3>1, <4>1
      <4>3. ASSUME NEW j \in 1 .. Len(toClient'), toClient'[j].kind = "text",
                   toClient'[j].frame = toClient'[i].frame
            PROVE  j = i
        <5>1. CASE j \in 1 .. Len(toClient)
          BY <2>1, <3>1, <4>1, <4>3, <5>1
        <5>2. CASE j = Len(toClient) + 1
          BY <2>1, <3>1, <4>2, <4>3, <5>2
        <5> QED BY <1>0, <2>1, <5>1, <5>2
      <4> QED BY <1>4, <2>1, <2>2, <3>1, <4>1, <4>3
    <3>2. CASE i = Len(toClient) + 1
      <4>1. m.kind = "text" /\ m.frame \in TunnelRequests /\ toClient'[i] = m
        BY <2>1, <2>3, <3>2
      <4>2. m.frame.request_id \notin asked /\ m.frame.request_id \in asked'
        BY <1>4, <4>1
      <4>3. m.frame.request_id \notin got'
        BY <1>0, <1>4, <4>2 DEF AskedOnce
      <4>4. ASSUME NEW j \in 1 .. Len(toClient), toClient[j].kind = "text"
            PROVE  toClient[j].frame # m.frame
        BY <1>0, <4>1, <4>2, <4>4 DEF AskedOnce
      <4>5. ASSUME NEW j \in 1 .. Len(toClient'), toClient'[j].kind = "text",
                   toClient'[j].frame = m.frame
            PROVE  j = i
        <5>1. CASE j \in 1 .. Len(toClient)
          BY <2>1, <4>4, <4>5, <5>1
        <5>2. CASE j = Len(toClient) + 1
          BY <3>2, <5>2
        <5> QED BY <1>0, <2>1, <5>1, <5>2
      <4> QED BY <4>1, <4>2, <4>3, <4>5
    <3> QED BY <1>0, <2>1, <3>1, <3>2
  <2> QED BY <2>2, <2>3 DEF AskedOnce
<1>5. CASE Connect \/ EndConnection
    BY <1>1, <1>5 DEF Connect, EndConnection
<1>6. CASE AuthAnswer
    BY <1>3, <1>5, <1>6 DEF AuthAnswer
<1>7. CASE ReadMessage
    BY <1>0, <1>3, <1>5, <1>7, ReadCases
<1>8. ASSUME NEW m \in {Text(f) : f \in WireFrames} \cup {Other}, ServerSends(m)
      PROVE  AskedOnce'
  <2>1. m \in Incoming
    BY DEF Incoming
  <2> QED BY <1>4, <1>8, <2>1 DEF ServerSends, envVars
<1>9. CASE ServerCloses
  <2>1. CloseFrame \in Incoming /\ CloseFrame.kind # "text"
    BY Messages DEF Incoming
  <2> QED BY <1>2, <1>4, <1>9, <2>1 DEF ServerCloses, envVars
<1>10. CASE \/ Wake \/ WriteDone \/ TakeResponse \/ PingTick \/ ServerReads
            \/ ServerLeaves \/ ServerVanishes \/ TcpGivesUp \/ UNCHANGED vars
    BY <1>2, <1>10 DEF Wake, WriteDone, TakeResponse, PingTick, ServerReads,
        ServerLeaves, ServerVanishes, TcpGivesUp, envVars, vars
<1>11. ASSUME NEW r \in Reqs, NEW n \in Statuses, Forwarded(r, n) PROVE AskedOnce'
    BY <1>2, <1>11 DEF Forwarded
<1>12. CASE ServerPongs
  <2>1. Other \in Incoming /\ Other.kind # "text"
    BY Messages DEF Incoming
  <2> QED BY <1>4, <1>12, <2>1 DEF ServerPongs, envVars
<1> QED BY <1>5, <1>6, <1>7, <1>8, <1>9, <1>10, <1>11, <1>12
        DEF Next, Loop, Server, ConnectFails, WriteFails, StreamEnds

(***************************************************************************)
(* The places of the requests that were read                               *)
(***************************************************************************)
Places ==
    WritingFits /\ HelloFirst /\ OnePlace /\ QueuedOnce /\ WrittenOnce /\ SomePlace /\ NothingLeft

\* Every step keeps them.
LEMMA PlacesStep == CInv /\ [Next]_vars => Places'
<1> SUFFICES ASSUME CInv, [Next]_vars PROVE Places'
    OBVIOUS
<1>0. /\ TypeOK /\ Places /\ AskedOnce
      /\ responses \in Seq(Responses) /\ sent \in Seq({Hello} \cup Responses)
      /\ Len(responses) \in Nat /\ Len(sent) \in Nat
    BY LenProperties DEF CInv, Places, TypeOK
<1>1. CASE Connect
  <2> USE <1>0, <1>1 DEF Places, Connect
  <2>1. WritingFits'
    BY EmptySeq, Messages DEF WritingFits
  <2>2. HelloFirst'
    BY EmptySeq, Messages DEF HelloFirst
  <2>3. OnePlace'
    <3>1. inFlight' = {} /\ Len(responses') = 0 /\ Len(sent') = 0 /\ pc' = "auth"
      BY EmptySeq DEF NothingLeft
    <3> HIDE DEF Connect, Places
    <3>2. \A r \in Reqs : ~Queued(r)' /\ ~Underway(r)' /\ ~Written(r)'
      BY <3>1 DEF Queued, Underway, Written
    <3> QED BY <3>1, <3>2 DEF OnePlace
  <2>4. QueuedOnce'
    BY EmptySeq, Messages DEF QueuedOnce
  <2>5. WrittenOnce'
    BY EmptySeq, Messages DEF WrittenOnce
  <2>6. SomePlace'
    BY EmptySeq, Messages DEF SomePlace, Queued, Underway, Written
  <2>7. NothingLeft'
    BY EmptySeq, Messages DEF NothingLeft
  <2> QED BY <2>1, <2>2, <2>3, <2>4, <2>5, <2>6, <2>7
<1>2. CASE EndConnection
  <2> USE <1>0, <1>2 DEF Places, EndConnection
  <2>1. WritingFits'
    BY EmptySeq, Messages DEF WritingFits
  <2>2. HelloFirst'
    BY EmptySeq, Messages DEF HelloFirst
  <2>3. OnePlace'
    BY EmptySeq, Messages DEF OnePlace, Queued, Underway, Written
  <2>4. QueuedOnce'
    BY EmptySeq, Messages DEF QueuedOnce
  <2>5. WrittenOnce'
    BY EmptySeq, Messages DEF WrittenOnce
  <2>6. SomePlace'
    BY EmptySeq, Messages DEF SomePlace, Queued, Underway, Written
  <2>7. NothingLeft'
    BY EmptySeq, Messages DEF NothingLeft
  <2> QED BY <2>1, <2>2, <2>3, <2>4, <2>5, <2>6, <2>7
<1>3. CASE Wake
  <2> USE <1>0, <1>3 DEF Places, Wake
  <2>1. WritingFits'
    BY DEF WritingFits
  <2>2. HelloFirst'
    BY DEF HelloFirst
  <2>3. OnePlace'
    BY DEF OnePlace, Queued, Underway, Written
  <2>4. QueuedOnce'
    BY DEF QueuedOnce
  <2>5. WrittenOnce'
    BY DEF WrittenOnce
  <2>6. SomePlace'
    BY DEF SomePlace, Queued, Underway, Written
  <2>7. NothingLeft'
    BY DEF NothingLeft
  <2> QED BY <2>1, <2>2, <2>3, <2>4, <2>5, <2>6, <2>7
<1>4. CASE AuthAnswer /\ ~EndConnection
  <2> USE <1>0, <1>4 DEF Places, AuthAnswer
  <2>1. WritingFits'
    BY DEF WritingFits
  <2>2. HelloFirst'
    BY DEF HelloFirst
  <2>3. OnePlace'
    BY DEF OnePlace, Queued, Underway, Written
  <2>4. QueuedOnce'
    BY DEF QueuedOnce
  <2>5. WrittenOnce'
    BY DEF WrittenOnce
  <2>6. SomePlace'
    BY DEF SomePlace, Queued, Underway, Written, NothingLeft, HelloFirst
  <2>7. NothingLeft'
    BY DEF NothingLeft
  <2> QED BY <2>1, <2>2, <2>3, <2>4, <2>5, <2>6, <2>7
<1>5. CASE PingTick
  <2> USE <1>0, <1>5 DEF Places, PingTick
  <2>1. WritingFits'
    BY EmptySeq, Messages DEF WritingFits
  <2>2. HelloFirst'
    BY EmptySeq, Messages DEF HelloFirst
  <2>3. OnePlace'
    BY EmptySeq, Messages DEF OnePlace, Queued, Underway, Written
  <2>4. QueuedOnce'
    BY EmptySeq, Messages DEF QueuedOnce
  <2>5. WrittenOnce'
    BY EmptySeq, Messages DEF WrittenOnce
  <2>6. SomePlace'
    BY EmptySeq, Messages DEF SomePlace, Queued, Underway, Written
  <2>7. NothingLeft'
    BY EmptySeq, Messages DEF NothingLeft
  <2> QED BY <2>1, <2>2, <2>3, <2>4, <2>5, <2>6, <2>7
<1>6. CASE UNCHANGED envVars
  <2> USE <1>0, <1>6 DEF Places, envVars
  <2>1. WritingFits'
    BY DEF WritingFits
  <2>2. HelloFirst'
    BY DEF HelloFirst
  <2>3. OnePlace'
    BY DEF OnePlace, Queued, Underway, Written
  <2>4. QueuedOnce'
    BY DEF QueuedOnce
  <2>5. WrittenOnce'
    BY DEF WrittenOnce
  <2>6. SomePlace'
    BY DEF SomePlace, Queued, Underway, Written
  <2>7. NothingLeft'
    BY DEF NothingLeft
  <2> QED BY <2>1, <2>2, <2>3, <2>4, <2>5, <2>6, <2>7
<1>7. CASE WriteDone
  <2>0. /\ pc \in {"auth", "write"} /\ pc' = (IF pc = "auth" THEN "authWait" ELSE "select")
        /\ sent' = IF writing = Ping THEN sent ELSE Append(sent, writing.frame)
        /\ UNCHANGED <<writing, inFlight, responses, got>>
    BY <1>7 DEF WriteDone
  <2>1. CASE pc = "auth"
    <3>1. writing.frame = Hello /\ writing # Ping /\ sent = <<>>
      BY <1>0, <2>1, Messages DEF Places, WritingFits, HelloFirst
    <3>2. sent' = <<Hello>> /\ Len(sent') = 1 /\ sent'[1] = Hello
      BY <2>0, <3>1
    <3>3. inFlight = {} /\ responses = <<>> /\ got = {}
      BY <1>0, <2>1 DEF Places, HelloFirst, NothingLeft
    <3>4. WritingFits' /\ HelloFirst' /\ NothingLeft' /\ QueuedOnce' /\ WrittenOnce' /\ SomePlace'
      BY <2>0, <2>1, <3>2, <3>3, EmptySeq DEF WritingFits, HelloFirst, NothingLeft,
          QueuedOnce, WrittenOnce, SomePlace
    <3>5. OnePlace'
      BY <2>0, <2>1, <3>2, <3>3, EmptySeq DEF OnePlace, Queued, Underway, Written
    <3> QED BY <3>4, <3>5 DEF Places
  <2>2. CASE pc = "write" /\ writing = Ping
    <3>1. \A r \in Reqs : /\ Queued(r)' <=> Queued(r)
                          /\ Written(r)' <=> Written(r)
                          /\ ~Underway(r) /\ ~Underway(r)'
      BY <2>0, <2>2, Messages DEF Queued, Written, Underway
    <3>2. OnePlace'
      BY <1>0, <2>0, <3>1 DEF Places, OnePlace
    <3>3. SomePlace'
      BY <1>0, <2>0, <2>2, <3>1 DEF Places, SomePlace, TypeOK
    <3>4. WritingFits' /\ HelloFirst' /\ NothingLeft' /\ QueuedOnce' /\ WrittenOnce'
      BY <1>0, <2>0, <2>2 DEF Places, WritingFits, HelloFirst, NothingLeft, QueuedOnce, WrittenOnce
    <3> QED BY <3>2, <3>3, <3>4 DEF Places
  <2>3. CASE pc = "write" /\ writing # Ping
    <3> DEFINE x == writing.frame
    <3>1. x \in Responses /\ x.request_id \in Reqs /\ writing.kind = "text" /\ sent # <<>>
      BY <1>0, <2>3, Messages DEF Places, WritingFits, HelloFirst
    <3>2. sent' = Append(sent, x)
      BY <2>0, <2>3
    <3>3. \A r \in Reqs : /\ Queued(r)' <=> Queued(r)
                          /\ Written(r)' <=> Written(r) \/ Underway(r)
                          /\ ~Underway(r)'
                          /\ Underway(r) <=> r = x.request_id
      <4>1. \A r : Written(r)' <=> Written(r) \/ x.request_id = r
        BY <1>0, <3>1, <3>2, WrittenAppend
      <4> QED BY <2>0, <2>3, <3>1, <4>1 DEF Queued, Underway
    <3>4. OnePlace'
      BY <1>0, <2>0, <3>3 DEF Places, OnePlace
    <3>5. SomePlace'
      BY <1>0, <2>0, <2>3, <3>3 DEF Places, SomePlace, TypeOK
    <3>6. /\ Len(sent') = Len(sent) + 1 /\ sent' # <<>>
          /\ \A i \in 1 .. Len(sent) : sent'[i] = sent[i]
          /\ sent'[Len(sent) + 1] = x /\ Len(sent) \in Nat \ {0}
      BY <1>0, <3>1, <3>2, AppendProperties, EmptySeq
    <3>7. WrittenOnce'
      <4>1. \A i \in 2 .. Len(sent) : sent[i].request_id # x.request_id
        BY <1>0, <3>1, <3>3 DEF Places, OnePlace, Written
      <4>2. \A i, j \in 2 .. Len(sent) :
               i # j => sent[i].request_id # sent[j].request_id
        BY <1>0 DEF Places, WrittenOnce
      <4>3. \A i \in 2 .. Len(sent') :
               \/ i \in 2 .. Len(sent) /\ sent'[i] = sent[i]
               \/ i = Len(sent) + 1 /\ sent'[i] = x
        BY <3>6
      <4> HIDE DEF x
      <4>4. ASSUME NEW i \in 2 .. Len(sent'), NEW j \in 2 .. Len(sent'), i # j
            PROVE  sent'[i].request_id # sent'[j].request_id
        BY <4>1, <4>2, <4>3, <4>4
      <4> QED BY <4>4 DEF WrittenOnce
    <3>8. HelloFirst'
      BY <1>0, <2>0, <2>3, <3>1, <3>6 DEF Places, HelloFirst
    <3>9. WritingFits' /\ NothingLeft' /\ QueuedOnce'
      BY <1>0, <2>0, <2>3 DEF Places, WritingFits, NothingLeft, QueuedOnce
    <3> QED BY <3>4, <3>5, <3>7, <3>8, <3>9 DEF Places
  <2> QED BY <2>0, <2>1, <2>2, <2>3
<1>8. CASE ReadMessage /\ ~EndConnection
  <2> DEFINE m == Head(toClient)
  <2>0. pc = "select" /\ toClient # <<>> /\ UNCHANGED <<pc, writing, responses, sent>>
    BY <1>0, <1>8, ReadCases
  <2>1. CASE UNCHANGED <<inFlight, got>>
    BY <1>6, <2>0, <2>1 DEF envVars
  <2>2. CASE /\ m.kind = "text" /\ m.frame \in TunnelRequests /\ m.frame.request_id \in Reqs
             /\ inFlight' = inFlight \cup {m.frame.request_id}
             /\ got' = got \cup {m.frame.request_id}
    <3>1. m.frame.request_id \notin got
      <4>1. m = toClient[1] /\ 1 \in 1 .. Len(toClient)
        BY <1>0, <2>0, EmptySeq DEF TypeOK
      <4> QED BY <1>0, <2>2, <4>1 DEF AskedOnce
    <3>2. \A r \in Reqs : /\ Queued(r)' <=> Queued(r)
                          /\ Written(r)' <=> Written(r)
                          /\ Underway(r)' <=> Underway(r)
      BY <2>0 DEF Queued, Written, Underway
    <3>3. OnePlace'
      BY <1>0, <2>2, <3>1, <3>2 DEF Places, OnePlace
    <3>4. SomePlace'
      BY <1>0, <2>0, <2>2, <3>2 DEF Places, SomePlace, TypeOK
    <3>5. WritingFits' /\ HelloFirst' /\ NothingLeft' /\ QueuedOnce' /\ WrittenOnce'
      BY <1>0, <2>0 DEF Places, WritingFits, HelloFirst, NothingLeft, QueuedOnce, WrittenOnce
    <3> QED BY <3>3, <3>4, <3>5 DEF Places
  <2> QED BY <1>0, <1>8, <2>1, <2>2, ReadCases
<1>9. CASE TakeResponse
  <2> DEFINE x == Head(responses)
  <2>0. /\ pc = "select" /\ pc' = "write" /\ responses # <<>>
        /\ writing' = Text(x) /\ responses' = Tail(responses)
        /\ UNCHANGED <<inFlight, got, sent>>
    BY <1>9 DEF TakeResponse
  <2>1. x \in Responses /\ x.request_id \in Reqs /\ Queued(x.request_id)
    <3>1. x = responses[1] /\ 1 \in 1 .. Len(responses)
      BY <1>0, <2>0, EmptySeq
    <3> QED BY <1>0, <2>0, <3>1, HeadTailProperties, Messages DEF Queued
  <2>2. \A r \in Reqs : /\ Queued(r)' <=> Queued(r) /\ r # x.request_id
                        /\ Written(r)' <=> Written(r)
                        /\ Underway(r)' <=> r = x.request_id
                        /\ ~Underway(r)
    <3>1. \A r : Queued(r)' <=> Queued(r) /\ x.request_id # r
      BY <1>0, <2>0, QueuedTail DEF Places
    <3> QED BY <2>0, <3>1, Messages DEF Written, Underway
  <2>3. OnePlace'
    BY <1>0, <2>0, <2>1, <2>2 DEF Places, OnePlace
  <2>4. SomePlace'
    BY <1>0, <2>0, <2>1, <2>2 DEF Places, SomePlace, TypeOK
  <2>5. QueuedOnce'
    <3>1. /\ Len(responses') = Len(responses) - 1
          /\ \A i \in 1 .. Len(responses') :
                responses'[i] = responses[i + 1] /\ i + 1 \in 1 .. Len(responses)
      BY <1>0, <2>0, HeadTailProperties, EmptySeq
    <3>2. ASSUME NEW i \in 1 .. Len(responses'), NEW j \in 1 .. Len(responses'), i # j
          PROVE  responses[i + 1].request_id # responses[j + 1].request_id
      <4>1. i + 1 # j + 1
        BY <3>2
      <4> QED BY <1>0, <3>1, <4>1 DEF Places, QueuedOnce
    <3> QED BY <3>1, <3>2 DEF QueuedOnce
  <2>6. WritingFits' /\ HelloFirst' /\ NothingLeft' /\ WrittenOnce'
    BY <1>0, <2>0, <2>1 DEF Places, WritingFits, HelloFirst, NothingLeft, WrittenOnce
  <2> QED BY <2>3, <2>4, <2>5, <2>6 DEF Places
<1>10. ASSUME NEW q \in Reqs, NEW n \in Statuses, Forwarded(q, n) PROVE Places'
  <2> DEFINE x == TunnelResponse(q, n)
  <2>0. /\ q \in inFlight /\ inFlight' = inFlight \ {q} /\ responses' = Append(responses, x)
        /\ UNCHANGED <<pc, writing, got, sent>>
    BY <1>10 DEF Forwarded
  <2>1. x \in Responses /\ x.request_id = q
    BY DEF Responses, TunnelResponse
  <2>2. \A r \in Reqs : /\ Queued(r)' <=> Queued(r) \/ r = q
                        /\ Written(r)' <=> Written(r)
                        /\ Underway(r)' <=> Underway(r)
    <3>1. \A r : Queued(r)' <=> Queued(r) \/ x.request_id = r
      BY <1>0, <2>0, <2>1, QueuedAppend
    <3> QED BY <2>0, <2>1, <3>1 DEF Written, Underway
  <2>3. OnePlace'
    BY <1>0, <2>0, <2>2 DEF Places, OnePlace
  <2>4. SomePlace'
    BY <1>0, <2>0, <2>2 DEF Places, SomePlace, TypeOK
  <2>5. QueuedOnce'
    <3>1. /\ Len(responses') = Len(responses) + 1
          /\ \A i \in 1 .. Len(responses) : responses'[i] = responses[i]
          /\ responses'[Len(responses) + 1] = x
      BY <1>0, <2>0, <2>1, AppendProperties
    <3>2. \A i \in 1 .. Len(responses) : responses[i].request_id # q
      BY <1>0, <2>0 DEF Places, OnePlace, Queued
    <3> QED BY <1>0, <2>1, <3>1, <3>2 DEF Places, QueuedOnce
  <2>6. WritingFits' /\ HelloFirst' /\ WrittenOnce'
    BY <1>0, <2>0 DEF Places, WritingFits, HelloFirst, WrittenOnce
  <2>7. NothingLeft'
    BY <1>0, <2>0 DEF Places, NothingLeft
  <2> QED BY <2>3, <2>4, <2>5, <2>6, <2>7 DEF Places
<1>11. CASE UNCHANGED vars
    BY <1>6, <1>11 DEF vars, envVars
<1>12. CASE Server \/ TcpGivesUp
    BY <1>6, <1>12 DEF Server, ServerSends, ServerReads, ServerPongs, ServerLeaves,
       ServerCloses, ServerVanishes, TcpGivesUp
<1> QED BY <1>1, <1>2, <1>3, <1>4, <1>5, <1>7, <1>8, <1>9, <1>10, <1>11, <1>12
        DEF Next, Loop, ConnectFails, WriteFails, StreamEnds

(***************************************************************************)
(* The theorems                                                            *)
(***************************************************************************)

\* The invariant holds when the client starts.
LEMMA InitInv == Init => CInv
<1> SUFFICES ASSUME Init PROVE CInv
    OBVIOUS
<1>1. /\ <<>> \in Seq(Incoming) /\ <<>> \in Seq(Outgoing) /\ <<>> \in Seq(Responses)
      /\ <<>> \in Seq({Hello} \cup Responses) /\ Len(<<>>) = 0
    BY EmptySeq
<1>2. TypeOK /\ RoomToClose
    BY <1>1, ClientAssumption DEF Init, TypeOK, RoomToClose, Pcs, Incoming, Outgoing
<1>3. WritingFits /\ HelloFirst /\ AskedOnce /\ NothingLeft /\ SomePlace
    BY <1>1 DEF Init, WritingFits, HelloFirst, AskedOnce, NothingLeft, SomePlace
<1>4. OnePlace /\ QueuedOnce /\ WrittenOnce
    BY <1>1 DEF Init, OnePlace, Queued, Underway, Written, QueuedOnce, WrittenOnce
<1> QED BY <1>2, <1>3, <1>4 DEF CInv

\* CInv holds throughout.
THEOREM Invariance == Spec => []CInv
<1>1. CInv /\ [Next]_vars => CInv'
    BY TypeStep, AskedStep, PlacesStep DEF CInv, Places
<1> QED BY InitInv, <1>1, PTL DEF Spec

\* Every variable keeps its type, and the socket its capacity.
THEOREM Types == Spec => []TypeOK
<1>1. CInv => TypeOK
    BY DEF CInv
<1> QED BY <1>1, Invariance, PTL

\* A request that was read is, while its connection lives, being forwarded, or
\* its response is queued, under way or written.
THEOREM RequestsKept == Spec => []NoRequestLost
<1>1. CInv => NoRequestLost
  <2> SUFFICES ASSUME CInv, pc \in {"select", "write"}, NEW r \in got
               PROVE  \/ r \in inFlight
                      \/ \E i \in 1 .. Len(responses) : responses[i].request_id = r
                      \/ pc = "write" /\ writing # Ping /\ writing.frame.request_id = r
                      \/ \E i \in 2 .. Len(sent) : sent[i].request_id = r
    BY DEF NoRequestLost
  <2>1. r \in inFlight \/ Queued(r) \/ Underway(r) \/ Written(r)
    BY DEF CInv, SomePlace
  <2>2. Underway(r) => pc = "write" /\ writing # Ping /\ writing.frame.request_id = r
    BY Messages DEF Underway
  <2> QED BY <2>1, <2>2 DEF Queued, Written
<1> QED BY <1>1, Invariance, PTL

\* A connection carries the auth message and then one response at most to each
\* request read on it, and none to a request of an earlier connection.
THEOREM AnswersOwnRequests == Spec => []WritesAnswers
<1>1. CInv => WritesAnswers
  <2> SUFFICES ASSUME CInv PROVE WritesAnswers
    OBVIOUS
  <2>1. /\ TypeOK /\ HelloFirst /\ OnePlace /\ WrittenOnce
        /\ sent \in Seq({Hello} \cup Responses) /\ Len(sent) \in Nat
    BY LenProperties DEF CInv, TypeOK
  <2>2. ASSUME NEW i \in 1 .. Len(sent), i # 1
        PROVE  sent[i] \in Responses /\ sent[i].request_id \in got
    <3>1. i \in 2 .. Len(sent) /\ sent[i] \in Responses
      BY <2>1, <2>2 DEF HelloFirst
    <3>2. sent[i].request_id \in Reqs /\ Written(sent[i].request_id)
      BY <3>1, Messages DEF Written
    <3> QED BY <2>1, <3>1, <3>2 DEF OnePlace
  <2>3. Len(sent) >= 1 => sent[1] = Hello
    BY <2>1, EmptySeq DEF HelloFirst
  <2> QED BY <2>1, <2>2, <2>3 DEF WritesAnswers, WrittenOnce
<1> QED BY <1>1, Invariance, PTL
=============================================================================
