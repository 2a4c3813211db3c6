---------------------------- MODULE MCNativeCalls ----------------------------
(* A small instance of NativeCalls.                                        *)
EXTENDS NativeCalls

CONSTANTS reader, runner, worker

\* Two threads of a connection; the third is its writer and, at other times, a
\* thread that serves an HTTP request.
Roles ==
    [t \in Threads |-> IF t = reader THEN {"push"}
                       ELSE IF t = runner THEN {"run"} ELSE {"next", "request"}]
=============================================================================
