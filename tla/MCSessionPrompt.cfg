CONSTANTS
    MaxAttempts = 3
    Window = 2
    MaxTime = 0
    MaxLives = 1
    Poll = poll
    Writers = {number}
    PollRequests = 2
    FaultKinds = {}
    MayChangePassword = FALSE
    MaxEvictions = 1
    MaxFaults = 0
    MaxWrites = 1
    QuietFrom = 2
SPECIFICATION Spec
INVARIANT PromptOnlyIfPasswordWrong
CHECK_DEADLOCK FALSE
