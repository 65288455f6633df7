\* The same small instance, asked for KillSwitchRevokesAll.
SPECIFICATION FairSpec
CONSTANTS
    empty = empty
    Tools <- MCTools
    ServesUser <- MCTools
    Callers = {c1, c2}
    embargo_list = {"spam"}
    OverCap = {"weather"}
    MaxReceipts = 2
    MaxRequests = 3
    MaxFailures = 1
PROPERTY
    KillSwitchRevokesAll
