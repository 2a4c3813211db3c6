------------------------------ MODULE Protocol ------------------------------
(***************************************************************************)
(* The wire protocol of the tunnel (crates/outpunch/src/protocol.rs).      *)
(*                                                                         *)
(* A text frame is what the JSON text of one WebSocket message holds: a    *)
(* record of the members the JSON object has, or NotJson.  The values that *)
(* no code of the core looks at (method, path, query, headers and body of  *)
(* a request; headers and body of a response) are left out: `head' stands  *)
(* for the members a request must have besides its id and its service.     *)
(***************************************************************************)
EXTENDS Naturals, Sequences

CONSTANTS
    Tokens,         \* the tokens an auth message can carry
    EmptyToken,     \* the empty string, as a token or as a secret
    Services,       \* service names
    Reqs,           \* HTTP requests, named by their request_id (a UUID)
    ServiceOf       \* the service each request is for

ASSUME TokenAssumption == EmptyToken \in Tokens

ASSUME RequestAssumption == ServiceOf \in [Reqs -> Services]

\* Text that serde_json does not accept.
NotJson == [text |-> "not JSON"]

\* The members serde demands of each type; the others have a default.
RequiredMembers ==
    [auth       |-> {"type", "token", "service"},
     auth_ok    |-> {"type"},
     auth_error |-> {"type", "message"},
     request    |-> {"type", "request_id", "service", "head"},
     response   |-> {"type", "request_id", "status"}]

\* parse_message: the kind of message a frame holds, "error" for Err(_).
ParseMessage(raw) ==
    IF /\ raw # NotJson
       /\ "type" \in DOMAIN raw
       /\ raw.type \in DOMAIN RequiredMembers
       /\ RequiredMembers[raw.type] \subseteq DOMAIN raw
    THEN raw.type
    ELSE "error"

AuthMessage(token, service) ==
    [type |-> "auth", token |-> token, service |-> service]

AuthOk == [type |-> "auth_ok"]

AuthError(message) == [type |-> "auth_error", message |-> message]

\* build_tunnel_request, serialize_request: the id is fresh because no other
\* member of Reqs is equal to it.
TunnelRequest(r) ==
    [type |-> "request", request_id |-> r, service |-> ServiceOf[r],
     head |-> "head"]

TunnelResponse(r, status) ==
    [type |-> "response", request_id |-> r, status |-> status]

AuthMessages == {AuthMessage(t, s) : t \in Tokens, s \in Services}

AuthErrors == {AuthError(m) : m \in {"auth timeout", "expected auth message",
                                     "invalid token"}}

TunnelRequests == {TunnelRequest(r) : r \in Reqs}

\* What the server sends to a client.
ServerMessages == {AuthOk} \cup AuthErrors \cup TunnelRequests
=============================================================================
