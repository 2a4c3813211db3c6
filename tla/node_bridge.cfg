SPECIFICATION NodeSpec
CONSTANTS
    good = good
    empty = empty
    bad = bad
    svc = svc
    Tokens = {good, bad, empty}
    EmptyToken = empty
    Secret = good
    Services = {svc}
    Reqs = {r1}
    ServiceOf <- OneService
    MaxConns = 1
    Pushers = {p1, p2}
    InCap = 1
    OutCap = 1
    Frames <- ClientFrames
    NoFrame = NoFrame
    CallbackMayPanic = FALSE
INVARIANTS
    MessagesKept
PROPERTIES
    ResponseArrives
    BothEnd
