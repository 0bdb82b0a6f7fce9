SPECIFICATION Spec
CONSTANTS
    Modes <- TcpPlain
    Calls <- MCCalls
    MaxFaults = 1
    TidMax = 2
    SleepSuffices = TRUE
INVARIANT AnswerMatchesRequest
