SPECIFICATION Spec
CONSTANTS
    Modes <- RtuBoth
    Calls <- FourReads
    MaxFaults = 2
    TidMax = 2
    SleepSuffices = TRUE
INVARIANT AnswerMatchesRequest
