----------------------- MODULE TunnelServerRefinement -----------------------
(* TunnelServer keeps the promise of TunnelPromise.                        *)
EXTENDS TunnelServerInvariant

\* A connection serves from its registration to its cleanup.
PhaseOf(pc) == IF pc \in Relaying THEN "serving"
               ELSE IF pc \in Past THEN "ended" ELSE "new"

\* The caller of dispatch learns the result when dispatch returns.
StateOf(pc) == IF pc \in InDispatch THEN "open"
               ELSE IF pc = "cancelled" THEN "abandoned" ELSE pc

phaseMap == [c \in Conns |-> PhaseOf(runPc[c])]
brokenMap == {c \in Conns : drain[c] = "panicked"}
stateMap == [r \in Reqs |-> StateOf(reqPc[r])]
answeredMap == {r \in Reqs : slot[r] # NoConn}
outcomeMap == [r \in Reqs |-> IF reqPc[r] = "done" THEN result[r] ELSE "none"]

Promise == INSTANCE TunnelPromise WITH
    Connections <- Conns, NoConnection <- NoConn, Names <- Services,
    Requests <- Reqs, NameOf <- ServiceOf,
    phase <- phaseMap, owner <- services, broken <- brokenMap,
    state <- stateMap, target <- reqConn, answered <- answeredMap,
    outcome <- outcomeMap

\* Every behaviour of the core, with its channels, maps and tasks, is one of
\* the promise: registrations, answers, failures and timeouts interleave so
\* that each request ends with the answer of the connection it was sent to or
\* with an error that is true.
KeepsPromise == Promise!PromiseSpec
=============================================================================
