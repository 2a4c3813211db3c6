---------------------------- MODULE TunnelClient ----------------------------
(***************************************************************************)
(* The tunnel client (crates/outpunch-client/src/lib.rs): run, which       *)
(* connects again and again, run_connection with its select! loop, and the *)
(* tasks that forward one request each to the local service.               *)
(*                                                                         *)
(* The server is the environment: it may send any frame, stop reading,     *)
(* close the WebSocket or vanish without a word (a NAT entry expires, a    *)
(* host loses power).  A WebSocket is two bounded byte streams.            *)
(***************************************************************************)
EXTENDS Protocol

CONSTANTS
    Secret, Service,    \* ClientConfig.secret and ClientConfig.service
    WireCap,            \* bound: frames one direction of the socket buffers
    ServerFrames        \* text frames a server may send besides the requests

ASSUME ClientAssumption ==
    /\ Secret \in Tokens
    /\ Service \in Services
    /\ WireCap \in Nat \ {0}
    /\ \A f \in ServerFrames : ParseMessage(f) # "request"

\* WebSocket messages.  `Other' is any message that is neither Text nor Close.
Text(f) == [kind |-> "text", frame |-> f]
Other == [kind |-> "other"]
CloseFrame == [kind |-> "close"]
Ping == [kind |-> "ping"]

\* The statuses forward_request answers with: one of the local service, 504
\* when it is too slow, 502 when it cannot be reached.
Statuses == {200, 502, 504}

Responses == {TunnelResponse(r, n) : r \in Reqs, n \in Statuses}

Hello == AuthMessage(Secret, Service)

VARIABLES
    pc,         \* where run() is
    writing,    \* the message ws_sink.send has under way
    toClient,   \* the stream from the server: messages not yet read
    toServer,   \* the stream to the server: messages it has not read
    peer,       \* "open", "closed" or "vanished"; "none" before connecting
    reader,     \* the server's reading side: "reads"; "pongs" first, as Rack's
                \* thread does; or has "left", as axum's task once it is aborted
    inFlight,   \* requests being forwarded by a task of in_flight
    responses,  \* the channel of response_tx / response_rx
    asked,      \* history: requests the server has ever sent
    got,        \* history: requests read on this connection
    sent        \* history: text frames written on this connection

vars == <<pc, writing, toClient, toServer, peer, reader, inFlight, responses,
          asked, got, sent>>
envVars == <<pc, writing, inFlight, responses, got, sent>>

Pcs == {"connect", "auth", "authWait", "select", "write", "sleep"}

WireFrames == ServerFrames \cup TunnelRequests

\* Every variable holds a value of its type and the socket its capacity.
TypeOK ==
    /\ pc \in Pcs
    /\ writing \in {Text(f) : f \in {Hello} \cup Responses} \cup {Ping}
    /\ toClient \in Seq({Text(f) : f \in WireFrames} \cup {Other, CloseFrame})
    /\ toServer \in Seq({Text(f) : f \in {Hello} \cup Responses} \cup {Ping})
    /\ Len(toClient) =< WireCap + 1 /\ Len(toServer) =< WireCap
    /\ peer \in {"none", "open", "closed", "vanished"}
    /\ reader \in {"reads", "pongs", "left"}
    /\ inFlight \in SUBSET Reqs
    /\ responses \in Seq(Responses)
    /\ asked \in SUBSET Reqs /\ got \in SUBSET Reqs
    /\ sent \in Seq({Hello} \cup Responses)

Init ==
    /\ pc = "connect"
    /\ writing = Ping
    /\ toClient = <<>> /\ toServer = <<>>
    /\ peer = "none" /\ reader = "reads"
    /\ inFlight = {} /\ responses = <<>>
    /\ asked = {} /\ got = {} /\ sent = <<>>

(***************************************************************************)
(* run and run_connection                                                  *)
(***************************************************************************)

\* connect_async succeeds; authenticate starts to write the auth message.
Connect ==
    /\ pc = "connect"
    /\ pc' = "auth"
    /\ writing' = Text(Hello)
    /\ toClient' = <<>> /\ toServer' = <<>>
    /\ peer' = "open"
    /\ got' = {} /\ sent' = <<>>
    /\ UNCHANGED <<reader, inFlight, responses, asked>>

\* Mutant: the channel of the responses outlives the connection.
EndKeepsResponses ==
    /\ pc' = "sleep"
    /\ inFlight' = {}
    /\ peer' = "none" /\ reader' = "reads"
    /\ toClient' = <<>> /\ toServer' = <<>>
    /\ UNCHANGED <<writing, responses, asked, got, sent>>

\* run_connection returns, Ok or Err, and run sleeps.  Dropping in_flight
\* aborts the tasks, dropping response_rx forgets the responses, dropping the
\* WebSocket closes it.
EndConnection ==
    /\ pc' = "sleep"
    /\ inFlight' = {} /\ responses' = <<>>
    /\ peer' = "none" /\ reader' = "reads"
    /\ toClient' = <<>> /\ toServer' = <<>>
    /\ UNCHANGED <<writing, asked, got, sent>>

ConnectFails == pc = "connect" /\ EndConnection

\* reconnect_delay elapses.
Wake ==
    /\ pc = "sleep"
    /\ pc' = "connect"
    /\ UNCHANGED <<writing, toClient, toServer, peer, reader, inFlight, responses,
                   asked, got, sent>>

\* ws_sink.send(writing).await completes once the socket takes the message,
\* which says nothing of the server.
WriteDone ==
    /\ pc \in {"auth", "write"}
    /\ Len(toServer) < WireCap
    /\ toServer' = Append(toServer, writing)
    /\ sent' = IF writing = Ping THEN sent ELSE Append(sent, writing.frame)
    /\ pc' = IF pc = "auth" THEN "authWait" ELSE "select"
    /\ UNCHANGED <<writing, toClient, peer, reader, inFlight, responses, asked, got>>

\* ws_sink.send(writing).await fails: the `?' ends the connection.
WriteFails ==
    /\ pc \in {"auth", "write"}
    /\ peer = "closed"
    /\ EndConnection

\* authenticate reads the server's answer: only auth_ok goes on.
AuthAnswer ==
    /\ pc = "authWait"
    /\ toClient # <<>>
    /\ LET m == Head(toClient) IN
       IF m.kind = "text" /\ ParseMessage(m.frame) = "auth_ok"
       THEN /\ pc' = "select"
            /\ toClient' = Tail(toClient)
            /\ UNCHANGED <<writing, toServer, peer, reader, inFlight, responses, asked,
                           got, sent>>
       ELSE EndConnection

\* Mutant: authenticate goes on waiting when the stream ends.
StreamEndsInLoop ==
    /\ pc = "select"
    /\ toClient = <<>>
    /\ peer = "closed"
    /\ EndConnection

\* ws_stream.next() is None or an error: nothing is left to read.
StreamEnds ==
    /\ pc \in {"authWait", "select"}
    /\ toClient = <<>>
    /\ peer = "closed"
    /\ EndConnection

\* The branch of select! that reads the WebSocket: a request is given to a
\* task of its own, a Close ends the connection, the rest is ignored.
ReadMessage ==
    /\ pc = "select"
    /\ toClient # <<>>
    /\ LET m == Head(toClient)
           isRequest == m.kind = "text" /\ ParseMessage(m.frame) = "request"
       IN
       IF m.kind = "close" THEN EndConnection
       ELSE /\ toClient' = Tail(toClient)
            /\ inFlight' = IF isRequest THEN inFlight \cup {m.frame.request_id}
                                        ELSE inFlight
            /\ got' = IF isRequest THEN got \cup {m.frame.request_id} ELSE got
            /\ UNCHANGED <<pc, writing, toServer, peer, reader, responses, asked, sent>>

\* The branch that takes a response from the channel and starts to write it.
TakeResponse ==
    /\ pc = "select"
    /\ responses # <<>>
    /\ writing' = Text(Head(responses))
    /\ responses' = Tail(responses)
    /\ pc' = "write"
    /\ UNCHANGED <<toClient, toServer, peer, reader, inFlight, asked, got, sent>>

\* Mutant: an idle client does not ping.
PingWhenBusy ==
    /\ pc = "select"
    /\ inFlight # {}
    /\ writing' = Ping
    /\ pc' = "write"
    /\ UNCHANGED <<toClient, toServer, peer, reader, inFlight, responses, asked, got, sent>>

\* The branch of the ping interval.
PingTick ==
    /\ pc = "select"
    /\ writing' = Ping
    /\ pc' = "write"
    /\ UNCHANGED <<toClient, toServer, peer, reader, inFlight, responses, asked, got, sent>>

\* Mutant: a task whose request to the local service fails sends nothing.
ForwardedOrDropped(r, status) ==
    /\ r \in inFlight
    /\ inFlight' = inFlight \ {r}
    /\ responses' = IF status = 200
                    THEN Append(responses, TunnelResponse(r, status))
                    ELSE responses
    /\ UNCHANGED <<pc, writing, toClient, toServer, peer, reader, asked, got, sent>>

\* A task of in_flight: forward_request returns a response in every case and
\* the task sends it to the loop.
Forwarded(r, status) ==
    /\ r \in inFlight
    /\ inFlight' = inFlight \ {r}
    /\ responses' = Append(responses, TunnelResponse(r, status))
    /\ UNCHANGED <<pc, writing, toClient, toServer, peer, reader, asked, got, sent>>

(***************************************************************************)
(* The server and the network                                              *)
(***************************************************************************)

\* The server sends a message; each request is sent once.
ServerSends(m) ==
    /\ peer = "open"
    /\ Len(toClient) < WireCap
    /\ m.kind = "text" /\ m.frame \in TunnelRequests
            => m.frame.request_id \notin asked
    /\ toClient' = Append(toClient, m)
    /\ asked' = IF m.kind = "text" /\ m.frame \in TunnelRequests
                THEN asked \cup {m.frame.request_id} ELSE asked
    /\ UNCHANGED <<toServer, peer, reader, envVars>>

\* A ping is answered by a pong, which waits in a queue (axum, Node) or which
\* the thread that reads writes first (Rack).
ServerReads ==
    /\ peer = "open"
    /\ reader = "reads"
    /\ toServer # <<>>
    /\ toServer' = Tail(toServer)
    /\ reader' \in IF Head(toServer) = Ping THEN {"reads", "pongs"} ELSE {"reads"}
    /\ UNCHANGED <<toClient, peer, asked, envVars>>

\* The pong is written, which waits for the client to read.
ServerPongs ==
    /\ peer = "open"
    /\ reader = "pongs"
    /\ Len(toClient) < WireCap
    /\ toClient' = Append(toClient, Other)
    /\ reader' = "reads"
    /\ UNCHANGED <<toServer, peer, asked, envVars>>

\* handle_ws (axum) aborts its read task while the last messages of its core
\* wait to be written; the socket is closed after them.
ServerLeaves ==
    /\ peer = "open"
    /\ reader = "reads"
    /\ reader' = "left"
    /\ UNCHANGED <<toClient, toServer, peer, asked, envVars>>

\* The server closes the WebSocket, with or without a Close frame, or the TCP
\* connection is reset.
ServerCloses ==
    /\ peer = "open"
    /\ peer' = "closed"
    /\ toClient' \in {toClient, Append(toClient, CloseFrame)}
    /\ UNCHANGED <<toServer, reader, asked, envVars>>

\* It has left and its last messages are written.
ServerFinishes == reader = "left" /\ Len(toClient) < WireCap /\ ServerCloses

\* The server is gone and nothing tells the client.
ServerVanishes ==
    /\ peer = "open"
    /\ peer' = "vanished"
    /\ UNCHANGED <<toClient, toServer, reader, asked, envVars>>

\* TCP gives up on data that is never acknowledged.
TcpGivesUp ==
    /\ peer = "vanished"
    /\ toServer # <<>>
    /\ peer' = "closed"
    /\ UNCHANGED <<toClient, toServer, reader, asked, envVars>>

Loop == WriteDone \/ WriteFails \/ AuthAnswer \/ StreamEnds \/ ReadMessage

Server ==
    \/ \E m \in {Text(f) : f \in WireFrames} \cup {Other} : ServerSends(m)
    \/ ServerReads \/ ServerPongs \/ ServerLeaves \/ ServerCloses
    \/ ServerVanishes

Next ==
    \/ Connect \/ ConnectFails \/ Wake
    \/ Loop \/ TakeResponse \/ PingTick
    \/ \E r \in Reqs, n \in Statuses : Forwarded(r, n)
    \/ Server \/ TcpGivesUp

Spec == Init /\ [][Next]_vars

(***************************************************************************)
(* Safety                                                                  *)
(***************************************************************************)

\* What is written on a connection is the auth message, once and first, and
\* then responses to requests read on this same connection, one for each: no
\* response of an earlier connection, whose caller has failed, leaks into a
\* later one.
WritesAnswers ==
    /\ \A i \in 1 .. Len(sent) :
          IF i = 1 THEN sent[i] = Hello
          ELSE sent[i] \in Responses /\ sent[i].request_id \in got
    /\ \A i, j \in 2 .. Len(sent) :
          i # j => sent[i].request_id # sent[j].request_id

\* A request read is never forgotten while its connection lives: it is being
\* forwarded, its response is in the channel, is being written, or is written.
NoRequestLost ==
    pc \in {"select", "write"} =>
        \A r \in got :
            \/ r \in inFlight
            \/ \E i \in 1 .. Len(responses) : responses[i].request_id = r
            \/ pc = "write" /\ writing # Ping /\ writing.frame.request_id = r
            \/ \E i \in 2 .. Len(sent) : sent[i].request_id = r

(***************************************************************************)
(* Liveness                                                                *)
(***************************************************************************)

\* The client's task and its timers run, connect_async returns, and a request
\* forwarded to the local service ends within request_timeout.  select! picks
\* at random among the branches that are ready.
ClientFairness ==
    /\ WF_vars(Connect \/ ConnectFails)
    /\ WF_vars(Wake)
    /\ WF_vars(WriteDone) /\ WF_vars(WriteFails)
    /\ WF_vars(AuthAnswer) /\ SF_vars(StreamEnds)
    /\ SF_vars(ReadMessage) /\ SF_vars(TakeResponse)
    /\ SF_vars(PingTick)
    /\ \A r \in Reqs : WF_vars(\E n \in Statuses : Forwarded(r, n))

\* TCP notices data that is not acknowledged.
TcpFairness == WF_vars(TcpGivesUp)

\* A server that is open reads what it is sent, except that its reader waits for
\* a pong to be written; one that has left writes its last messages, of which
\* there are not many, and closes.  Both writes wait for the client to read.
ServerFairness ==
    WF_vars(ServerReads) /\ WF_vars(ServerPongs) /\ SF_vars(ServerFinishes)

ClientSpec == Spec /\ ClientFairness /\ TcpFairness /\ ServerFairness

Ended == pc \in {"sleep", "connect"}

\* Both directions are full.  The client reads nothing while ws_sink.send waits,
\* the server nothing before it has written: each waits for the other to read.
BothWrite ==
    /\ peer = "open"
    /\ pc = "write" /\ Len(toServer) = WireCap
    /\ reader # "reads" /\ Len(toClient) >= WireCap

\* Every request read is answered on its connection, unless the connection
\* ends: a slow request, pings and other requests never hold up its response
\* for good.  Only a server that waits for the client to read while the client
\* waits for it can.
RequestsAnswered ==
    \A r \in Reqs :
        r \in got /\ ~Ended
            ~> \/ Ended \/ BothWrite
               \/ \E i \in 2 .. Len(sent) : sent[i].request_id = r

\* The client finds out that its server closed the connection, and then tries
\* to connect again, whatever it was doing.
ClosedIsNoticed == peer = "closed" ~> pc = "connect"

\* Once authenticated, the client finds out even that its server vanished:
\* the pings it sends are data that is never acknowledged.
VanishedIsNoticed ==
    peer = "vanished" /\ pc \in {"select", "write"} ~> pc = "connect"

\* The same without the restriction to authenticated connections, as the docs
\* have it: the client reconnects automatically on disconnect.  authenticate
\* neither pings nor bounds its wait for the answer.
DisconnectIsNoticed == peer = "vanished" ~> pc = "connect"
=============================================================================
