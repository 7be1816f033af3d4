CONSTANTS
    owner = owner
    guest = guest
    junk = junk
    Emails <- MCEmails
    Account <- MCAccount
    Passwords = {old, new}
    Entries = {e1, e2}
    Dialogs = {d1, d2}
    MinInterval = 3
    MaxInterval = 5
    DefaultInterval = 4
    Intervals <- MCIntervals
    None = none
    MaxFlows = 3
    MaxFaults = 1
    MaxEdits = 1
SPECIFICATION Spec
INVARIANT TypeOK
INVARIANT CredentialsBelong
INVARIANT RunsOnStoredData
PROPERTY KeepsRegistry
SYMMETRY MCSymmetry
