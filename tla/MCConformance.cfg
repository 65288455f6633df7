\* Receipts are valid for one step of the clock, with two witnesses and one listing.
SPECIFICATION Spec
CONSTANTS
    null = null
    reference = reference
    upstart = upstart
    newcomer = newcomer
    holding = holding
    Implementations = {reference, upstart, newcomer}
    Founders = {reference}
    Levels = {"L1", "L4"}
    Quota <- MCQuota
    Files = {"lifecycle", "peer-witness-min-1"}
    Required <- MCRequired
    AppliesTo <- MCAppliesTo
    MinWitnesses <- MCMinWitnesses
    FileResults <- MCFileResults
    FoundingClaims = {"L1", "L4"}
    SelfClaims <- MCSelfClaims
    RuntimeVersion <- MCRuntimeVersion
    Prepared <- MCPrepared
    Organisations = {holding}
    ValidFor = 1
    MaxClock = 1
    MaxWitnesses = 2
    MaxListings = 1
    MaxRuns = 2
INVARIANTS
    TypeOK
    ClaimsEarned
    OnlyInsidersCooperate
    
