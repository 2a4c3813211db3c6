SPECIFICATION FairSpec
CONSTANTS
    reader = reader
    runner = runner
    worker = worker
    Threads = {reader, runner, worker}
    MayCall <- Roles
    InCap = 1
    OutBound = 1
    MaxInterrupts = 2
INVARIANTS
    CallOutcome
    NothingLeftRunning
PROPERTIES
    CallsEnd
    GvlReleased
