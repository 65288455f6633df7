\* Two calls in flight, three subscription requests, two receipts, one failure.
SPECIFICATION FairSpec
CONSTANTS
    empty = empty
    Tools <- MCTools
    ServesUser <- MCTools
    Callers = {c1, c2}
    embargo_list = {"spam"}
    OverCap = {"weather"}
    MaxReceipts = 2
    MaxRequests = 3
    MaxFailures = 1
INVARIANTS
    TypeOK
    LocalChainSound
    ActiveUntilKilled
PROPERTIES
    KillSwitchRevokes
    KillSwitchReturns
