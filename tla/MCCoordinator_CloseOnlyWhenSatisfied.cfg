\* The same small instance, asked for CloseOnlyWhenSatisfied.
SPECIFICATION FairSpec
CONSTANTS
    null = null
    Workflows = {w1}
    Callers = {c1, c2}
    Brokers = {"bank", "registry"}
    ManifestRoles <- MCRoles
    InitiatorDid <- MCInitiatorDid
    Constraints <- MCConstraints
    SegmentInputs <- MCSegmentInputs
    Profiles <- MCProfiles
    InitialProfiles <- MCInitialProfiles
    MaxClock = 3
    MaxSegments = 3
    MaxHeartbeats = 2
    MaxProfiles = 2
PROPERTY
    CloseOnlyWhenSatisfied
