SPECIFICATION Spec
CONSTANTS
    MAX_ARMS = 3
    UARTS = 2
    Hardware <- OneBoard
    Flashed <- MCFlashed
    Commands <- DefaultOnly
    Leftovers <- OldLinks
    FaultKinds = {"read"}
    MaxFaults = 1
INVARIANTS BoardsFound NoStaleLink
