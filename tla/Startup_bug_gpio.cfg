SPECIFICATION Spec
CONSTANTS
    MAX_ARMS = 3
    UARTS = 2
    Hardware <- OneBoard
    Flashed <- MCFlashed
    Commands <- DefaultOnly
    Leftovers <- NoLeftovers
    FaultKinds = {"gpio"}
    MaxFaults = 1
PROPERTY Served
