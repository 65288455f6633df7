\* A request is answered once, and that is all.
SPECIFICATION Spec
CHECK_DEADLOCK FALSE
CONSTANTS
    null = null
    undeclared = undeclared
    Conventions <- MCConventions
    Form <- MCForm
    TypeSpace <- MCTypeSpace
    Likelihood <- MCLikelihood
    LeastLikelihood = 1
    SpaceForType <- MCSpaceForType
    RegretOf <- MCRegretOf
    One = 10
    Tolerance = 4
    ScoreQuantile <- MCScoreQuantile
    ValueQuantile <- MCValueQuantile
    Groups <- MCGroups
    Agents <- MCAgents
    Categories <- MCCategories
    Reports <- MCReports
    Keys <- MCKeys
    Numeral <- MCNumeral
    Queries <- MCQueries
    Markets <- MCMarkets
    Whole = 60
    unpriced = unpriced
INVARIANTS
    FollowersAgree
    AdversariesPowerless
    RingsExact
    
    RankingSound

