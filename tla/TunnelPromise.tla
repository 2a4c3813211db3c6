--------------------------- MODULE TunnelPromise ----------------------------
(***************************************************************************)
(* What the core promises to the adapters built on it, without channels,   *)
(* tasks or maps: who serves a service, and how a request can end.         *)
(*                                                                         *)
(*   - a connection serves at most one service, once; the one that claims  *)
(*     a service last serves it, until it ends or is displaced;            *)
(*   - a request goes to the connection that serves its service when it    *)
(*     arrives, and only that connection can answer it, while it serves;   *)
(*   - a request ends with that answer, or with an error that is true: the *)
(*     service had no connection, the connection ended without answering,  *)
(*     its way out broke, or the time was up.                              *)
(***************************************************************************)
CONSTANTS Connections, NoConnection, Names, Requests, NameOf

VARIABLES
    phase,      \* of each connection: "new", "serving", "ended"
    owner,      \* of each service: the connection that serves it
    broken,     \* connections whose way out broke
    state,      \* of each request: "idle", "open", "done", "abandoned"
    target,     \* of each request: the connection it was sent to
    answered,   \* requests their target has answered
    outcome     \* of each request: what the caller was told

promiseVars == <<phase, owner, broken, state, target, answered, outcome>>

PromiseInit ==
    /\ phase = [c \in Connections |-> "new"]
    /\ owner = [s \in Names |-> NoConnection]
    /\ broken = {}
    /\ state = [r \in Requests |-> "idle"]
    /\ target = [r \in Requests |-> NoConnection]
    /\ answered = {}
    /\ outcome = [r \in Requests |-> "none"]

Claim(c, s) ==
    /\ phase[c] = "new"
    /\ phase' = [phase EXCEPT ![c] = "serving"]
    /\ owner' = [owner EXCEPT ![s] = c]
    /\ UNCHANGED <<broken, state, target, answered, outcome>>

End(c) ==
    /\ phase[c] # "ended"
    /\ phase' = [phase EXCEPT ![c] = "ended"]
    /\ owner' = [s \in Names |-> IF owner[s] = c THEN NoConnection ELSE owner[s]]
    /\ UNCHANGED <<broken, state, target, answered, outcome>>

Break(c) ==
    /\ broken' = broken \cup {c}
    /\ UNCHANGED <<phase, owner, state, target, answered, outcome>>

Tell(r, what) ==
    /\ state' = [state EXCEPT ![r] = "done"]
    /\ outcome' = [outcome EXCEPT ![r] = what]
    /\ UNCHANGED <<phase, owner, broken, target, answered>>

Refuse(r) ==
    /\ state[r] = "idle"
    /\ owner[NameOf[r]] = NoConnection
    /\ Tell(r, "not_connected")

Accept(r) ==
    /\ state[r] = "idle"
    /\ owner[NameOf[r]] # NoConnection
    /\ state' = [state EXCEPT ![r] = "open"]
    /\ target' = [target EXCEPT ![r] = owner[NameOf[r]]]
    /\ UNCHANGED <<phase, owner, broken, answered, outcome>>

Answer(r) ==
    /\ state[r] = "open"
    /\ phase[target[r]] = "serving"
    /\ answered' = answered \cup {r}
    /\ UNCHANGED <<phase, owner, broken, state, target, outcome>>

Complete(r) == state[r] = "open" /\ r \in answered /\ Tell(r, "ok")

Disconnect(r) ==
    /\ state[r] = "open"
    /\ r \notin answered
    /\ phase[target[r]] = "ended"
    /\ Tell(r, "disconnected")

Lose(r) ==
    state[r] = "open" /\ target[r] \in broken /\ Tell(r, "connection_lost")

TimeUp(r) == state[r] = "open" /\ Tell(r, "timeout")

Abandon(r) ==
    /\ state[r] = "open"
    /\ state' = [state EXCEPT ![r] = "abandoned"]
    /\ UNCHANGED <<phase, owner, broken, target, answered, outcome>>

PromiseNext ==
    \/ \E c \in Connections : \/ \E s \in Names : Claim(c, s)
                              \/ End(c)
                              \/ Break(c)
    \/ \E r \in Requests : \/ Refuse(r) \/ Accept(r) \/ Answer(r) \/ Complete(r)
                           \/ Disconnect(r) \/ Lose(r) \/ TimeUp(r) \/ Abandon(r)

PromiseSpec == PromiseInit /\ [][PromiseNext]_promiseVars
=============================================================================
