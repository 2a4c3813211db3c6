----------------------- MODULE TunnelServerInvariant ------------------------
(***************************************************************************)
(* The inductive invariant behind the theorems of TunnelServerProofs.      *)
(* Each part is what one kind of task relies on while it is suspended.     *)
(***************************************************************************)
EXTENDS TunnelServer

\* Ids are handed out in order: a connection not yet created has done nothing.
FreshConnections ==
    \A c \in Conns : c >= nextConnId => runPc[c] = "none"

\* Nothing is sent to a client before handle_auth answers it.
QuietBeforeAuth ==
    \A c \in Conns : runPc[c] \in {"none", "created", "auth"} =>
        outQ[c] = <<>> /\ handed[c] = {}

\* The secret was checked, and auth no longer changes.
Authenticated(c) ==
    /\ auth[c] \in AuthMessages
    /\ Secret # EmptyToken
    /\ auth[c].token = Secret

AuthenticatedIfServed ==
    \A c \in Conns :
        /\ runPc[c] \in {"authed"} \cup Relaying => Authenticated(c)
        /\ \A m \in ServerMessages :
              /\ m.type \in {"auth_ok", "request"}
              /\ m \in handed[c] \/ \E i \in 1 .. Len(outQ[c]) : outQ[c][i] = m
              => Authenticated(c)

\* A request not yet dispatched has left no trace, one that was refused neither.
Untouched(r) ==
    pending[r] = NoConn /\ slot[r] = NoConn /\ reqConn[r] = NoConn

UntouchedRequests ==
    \A r \in Reqs :
        /\ reqPc[r] = "idle" => Untouched(r) /\ result[r] = "none"
        /\ reqConn[r] = NoConn =>
              Untouched(r) /\ result[r] \in {"none", "not_connected"}
        /\ reqPc[r] \in InDispatch \cup {"cancelled"} => reqConn[r] # NoConn
        /\ reqPc[r] = "done" => pending[r] = NoConn

\* A request was sent to a connection that had registered for its service, and
\* only that connection answers it, once.
RequestTargets ==
    \A r \in Reqs :
        /\ reqConn[r] # NoConn =>
              /\ runPc[reqConn[r]] \in Relaying \cup Past
              /\ Authenticated(reqConn[r])
              /\ auth[reqConn[r]].service = ServiceOf[r]
        /\ slot[r] # NoConn => slot[r] = reqConn[r] /\ pending[r] = NoConn
        /\ result[r] = "ok" => slot[r] # NoConn

\* The drain task outlives every sender of its channel, unless it panics.
DrainOutlivesSenders ==
    /\ \A c \in Conns : runPc[c] \in {"auth", "authed"} \cup Relaying =>
            drain[c] \in {"running", "panicked"}
    /\ \A r \in Reqs : reqPc[r] \in InDispatch =>
            drain[reqConn[r]] \in {"running", "panicked"}

IInv ==
    /\ TypeOK
    /\ FreshConnections
    /\ QuietBeforeAuth
    /\ RegisteredIsRelaying
    /\ PendingOnLiveConnection
    /\ AuthenticatedIfServed
    /\ UntouchedRequests
    /\ RequestTargets
    /\ WaiterIsServed
    /\ DrainOutlivesSenders
    /\ FailureIsTrue
    /\ ReplacedIsClosed
=============================================================================
