SPECIFICATION Spec
CONSTANTS
    good = good
    empty = empty
    bad = bad
    svc = svc
    other = other
    Tokens <- MCTokens
    EmptyToken = empty
    Secret = good
    Services = {svc}
    Reqs = {r1}
    ServiceOf <- OneService
    MaxConns = 2
    Pushers = {p1}
    InCap = 1
    OutCap = 1
    Frames <- ClientFrames
    NoFrame = NoFrame
    CallbackMayPanic = FALSE
PROPERTIES
    ReplacedEnds
