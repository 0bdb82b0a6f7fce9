SPECIFICATION Spec
CONSTANTS
    Modes <- MCModes
    Calls <- MCCalls
    MaxFaults = 2
    TidMax = 2
    SleepSuffices = TRUE
INVARIANTS TypeOK OwnAnswer Recovers
PROPERTY CallReturns
