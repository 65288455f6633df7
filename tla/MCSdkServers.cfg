\* Two calls, one subscription or incident, a minute of two ticks and the next one.  A process may end for good.
SPECIFICATION Spec
SYMMETRY Symmetry
CHECK_DEADLOCK FALSE
CONSTANTS
    null = null
    Principals = {alice, bob}
    Actions = {"echo"}
    Rpm <- MCRpm
    Ticks = 2
    MaxClock = 2
    MaxCalls = 2
    MaxRecords = 1
INVARIANTS
    TypeOK
    RateLimited
    ReceiptsKept
PROPERTIES
    BillingTruthful
    ImplementsChain
