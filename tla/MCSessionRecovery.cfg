CONSTANTS
    MaxAttempts = 1
    Window = 1
    MaxTime = 2
    MaxLives = 3
    Poll = poll
    Writers = {number, switch}
    PollRequests = 2
    FaultKinds = {"transport"}
    MayChangePassword = FALSE
    MaxEvictions = 1
    MaxFaults = 1
    MaxWrites = 2
    QuietFrom = 1
SPECIFICATION FairSpec
PROPERTY WritesEnd
PROPERTY Recovers
CHECK_DEADLOCK FALSE
