\* "Each Receipt cites the SHA 256 hash of the immediately preceding Receipt."
SPECIFICATION Spec
SYMMETRY Symmetry
CONSTANTS
    null = null
    Principals = {alice, bob}
    Actions = {"echo", "compute_hash"}
    Rpm <- MCRpm
    Ticks = 2
    MaxMinutes = 1
    MaxReceipts = 3
    MaxSubscriptions = 1
    MaxJoins = 1
    MaxCrashes = 1
INVARIANT
    CitesPreceding
