--------------------------- MODULE MCTunnelClient ---------------------------
(* Small instances of TunnelClient.                                        *)
EXTENDS TunnelClient

CONSTANTS good, empty, svc

OneService == [r \in Reqs |-> svc]

\* The answers to the auth message, and a frame that does not parse.
AllServerFrames == {AuthOk, AuthError("invalid token"), NotJson}
=============================================================================
