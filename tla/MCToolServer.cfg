\* Three receipts, one crash, two minutes of two ticks.
SPECIFICATION Spec
SYMMETRY Symmetry
CONSTANTS
    null = null
    Principals = {alice, bob}
    Actions = {"echo", "compute_hash"}
    Rpm <- MCRpm
    Ticks = 2
    MaxMinutes = 1
    MaxReceipts = 3
    MaxSubscriptions = 1
    MaxJoins = 1
    MaxCrashes = 1
INVARIANTS
    TypeOK
    RateLimited
    AcknowledgedOnChain
    DanglingOnlyErased
PROPERTIES
    ErasureIsPrivate
    ImplementsChain
