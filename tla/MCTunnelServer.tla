--------------------------- MODULE MCTunnelServer ---------------------------
(* Small instances of TunnelServer.                                        *)
EXTENDS TunnelServerRefinement, TLC

CONSTANTS good, empty, bad, svc, other

MCTokens == {good, empty, bad}

\* Every request is for svc, the service the connections compete for.
OneService == [r \in Reqs |-> svc]

\* What a well-behaved client of svc sends: its auth message and responses to
\* the requests.
ClientFrames ==
    {AuthMessage(good, svc)} \cup {TunnelResponse(r, 200) : r \in Reqs}

\* Clients of two services.
TwoServiceFrames == ClientFrames \cup {AuthMessage(good, other)}

\* The same and the ways not to authenticate: an auth message with another
\* token, with the empty one or without a service, and text that is not JSON.
AllFrames ==
    ClientFrames \cup {AuthMessage(t, svc) : t \in Tokens}
        \cup {[type |-> "auth", token |-> good], NotJson}
=============================================================================
