SPECIFICATION Spec
CONSTANTS
    MAX_ARMS = 3
    UARTS = 2
    Hardware <- MCHardware
    Flashed <- MCFlashed
    Commands <- MCCommands
    Leftovers <- MCLeftovers
    FaultKinds = {"open", "read", "pty"}
    MaxFaults = 2
INVARIANT LinksLead
PROPERTY Served
