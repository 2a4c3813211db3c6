SPECIFICATION RackSpec
CONSTANTS
    good = good
    empty = empty
    bad = bad
    svc = svc
    Tokens = {good, bad, empty}
    EmptyToken = empty
    Secret = good
    Services = {svc}
    Reqs = {r1}
    ServiceOf <- OneService
    MaxConns = 1
    Reader = reader
    Pushers = {reader}
    InCap = 1
    OutCap = 1
    WireCap = 1
    Frames <- ClientFrames
    NoFrame = NoFrame
    CallbackMayPanic = FALSE
INVARIANTS
    MessagesKept
    NoThreadStuck
PROPERTIES
    UsesCore
    ThreadsEnd
    ClosedReleases
