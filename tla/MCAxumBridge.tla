---------------------------- MODULE MCAxumBridge ----------------------------
(* Small instances of AxumBridge.                                          *)
EXTENDS AxumBridge

CONSTANTS good, empty, bad, svc

OneService == [r \in Reqs |-> svc]

\* Clients with the right and with a wrong token, and responses.
ClientFrames ==
    {AuthMessage(good, svc), AuthMessage(bad, svc)}
        \cup {TunnelResponse(r, 200) : r \in Reqs}
=============================================================================
