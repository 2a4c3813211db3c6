---------------------------- MODULE MCNodeBridge ----------------------------
(* Small instances of NodeBridge.                                          *)
EXTENDS NodeBridge

CONSTANTS good, empty, bad, svc

OneService == [r \in Reqs |-> svc]

\* The right auth message, a wrong one, and responses.
ClientFrames ==
    {AuthMessage(good, svc), AuthMessage(bad, svc)}
        \cup {TunnelResponse(r, 200) : r \in Reqs}
=============================================================================
