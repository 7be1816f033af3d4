CONSTANTS
    Flags = {text, email}
    EveryNPolls = 3
    None = none
    MaxSaves = 2
    MaxFaults = 2
    MaxPhone = 1
SPECIFICATION FairSpec
INVARIANT TypeOK
INVARIANT FreshWithinNPolls
PROPERTY NotifySettles
PROPERTY SaveKeepsWhatWasRead
