CONSTANTS
    Bowls = {bowl, secondBowl}
    Platforms = {event, sensor}
    EmptyEveryN = 2
    MaxEmptyPolls = 3
    MaxSetUps = 2
    Watched = bowl
    Event = event
    Page = 2
    MaxRemembered = 4
    FirstReadEmpty = FALSE
    MaxAlerts = 7
SPECIFICATION Spec
INVARIANT TypeOK
INVARIANT AddedOnce
INVARIANT ListedBowlsHaveEntities
INVARIANT EmptyAccountWarned
INVARIANT FiredOnce
INVARIANT NoVisibleAlertSwallowed
INVARIANT RestsOnNewest
PROPERTY NothingReplayed
PROPERTY KeepsFeed
