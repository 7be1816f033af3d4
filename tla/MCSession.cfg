CONSTANTS
    MaxAttempts = 2
    Window = 2
    MaxTime = 2
    MaxLives = 2
    Poll = poll
    Writers = {number, switch}
    PollRequests = 2
    FaultKinds = {"rate", "transport", "malformed"}
    MayChangePassword = TRUE
    MaxEvictions = 1
    MaxFaults = 1
    MaxWrites = 2
    QuietFrom = 2
SPECIFICATION Spec
INVARIANT TypeOK
INVARIANT ToldTheTruth
INVARIANT LoginWindowBound
INVARIANT HeldBackOnlyByLogins
PROPERTY PromptNeedsSecondRejection
PROPERTY BudgetSpec
PROPERTY KeepsContract
SYMMETRY Symmetry
CHECK_DEADLOCK FALSE
