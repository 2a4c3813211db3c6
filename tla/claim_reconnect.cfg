SPECIFICATION ClientSpec
CONSTANTS
    good = good
    empty = empty
    svc = svc
    Tokens = {good, empty}
    EmptyToken = empty
    Secret = good
    Services = {svc}
    Service = svc
    Reqs = {r1}
    ServiceOf <- OneService
    WireCap = 1
    ServerFrames <- AllServerFrames
PROPERTIES
    DisconnectIsNoticed
CHECK_DEADLOCK FALSE
