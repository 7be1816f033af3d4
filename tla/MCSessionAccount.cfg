CONSTANTS
    MaxAttempts = 3
    Window = 2
    MaxTime = 2
    MaxLives = 4
    Poll = poll
    Writers = {}
    PollRequests = 2
    FaultKinds = {"transport"}
    MayChangePassword = FALSE
    MaxEvictions = 0
    MaxFaults = 3
    MaxWrites = 0
    QuietFrom = 3
SPECIFICATION Spec
INVARIANT AccountWindowBound
CHECK_DEADLOCK FALSE
