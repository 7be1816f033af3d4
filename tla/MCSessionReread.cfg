CONSTANTS
    MaxAttempts = 3
    Window = 2
    MaxTime = 1
    MaxLives = 1
    Poll = poll
    Writers = {number}
    PollRequests = 1
    FaultKinds = {"rate", "transport", "malformed"}
    MayChangePassword = FALSE
    MaxEvictions = 1
    MaxFaults = 1
    MaxWrites = 1
    QuietFrom = 2
SPECIFICATION Spec
PROPERTY FailedWriteRereads
CHECK_DEADLOCK FALSE
