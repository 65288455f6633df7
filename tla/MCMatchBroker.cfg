\* Three providers, three registrations that succeed, two faults.
SPECIFICATION Spec
SYMMETRY Symmetry
CONSTANTS
    null = null
    text = text
    Providers = {p1, p2, p3}
    Manifests <- MCManifests
    Intents <- MCIntents
    Names <- MCNames
    Pieces <- MCPieces
    MaxRoots = 4
    MaxFaults = 2
INVARIANTS
    TypeOK
    AnswersProvable
    DenialsTrue
    CandidatesMeetFilters
    IndexesKept
PROPERTIES
    ImplementsIndex
