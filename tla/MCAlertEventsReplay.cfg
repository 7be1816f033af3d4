CONSTANTS
    Bowls = {bowl}
    Platforms = {event}
    EmptyEveryN = 2
    MaxEmptyPolls = 1
    MaxSetUps = 1
    Watched = bowl
    Event = event
    Page = 2
    MaxRemembered = 4
    FirstReadEmpty = TRUE
    MaxAlerts = 3
SPECIFICATION Spec
PROPERTY NothingReplayed
