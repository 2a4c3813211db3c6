---------------------------- MODULE MCRackBridge ----------------------------
(* Small instances of RackBridge.                                          *)
EXTENDS RackBridge

CONSTANTS good, empty, bad, svc

OneService == [r \in Reqs |-> svc]

\* The right auth message, and responses, which are refused as a first message.
ClientFrames ==
    {AuthMessage(good, svc)} \cup {TunnelResponse(r, 200) : r \in Reqs}
=============================================================================
