\* One workflow, two clients, all interleavings of open, close and the rest.
SPECIFICATION FairSpec
CONSTANTS
    null = null
    Workflows = {w1}
    Callers = {c1, c2}
    Brokers = {"bank", "registry"}
    ManifestRoles <- MCRoles
    InitiatorDid <- MCInitiatorDid
    Constraints <- MCConstraints
    SegmentInputs <- MCSegmentInputs
    Profiles <- MCProfiles
    InitialProfiles <- MCInitialProfiles
    MaxClock = 3
    MaxSegments = 4
    MaxHeartbeats = 2
    MaxProfiles = 2
INVARIANTS
    TypeOK
    OpenedVetted
    ReceiptsSound
    EngagedHasRequired
    ClosureSound
    ExpirySound
PROPERTIES
    EnvelopeShrinks
    ClosingResolves
    ImplementsLifecycle
