SPECIFICATION ClientSpec
CONSTANTS
    good = good
    empty = empty
    svc = svc
    Tokens = {good, empty}
    EmptyToken = empty
    Secret = good
    Services = {svc}
    Service = svc
    Reqs = {r1, r2}
    ServiceOf <- OneService
    WireCap = 1
    ServerFrames <- AllServerFrames
INVARIANTS
    WritesAnswers
    NoRequestLost
PROPERTIES
    RequestsAnswered
    ClosedIsNoticed
    VanishedIsNoticed
CHECK_DEADLOCK FALSE
