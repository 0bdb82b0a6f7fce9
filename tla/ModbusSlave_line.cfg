SPECIFICATION Spec
CONSTANTS
    Slaves <- TwoSlaves
    Requests <- MCRequests
    Mapping <- FromZero
    Recoveries = {{}, {"LINK", "PROTOCOL"}}
    Patience = {{}, {"timeout", "exception"}}
    MaxFaults = 1
INVARIANTS TypeOK ExecutesOwn Heard InTable
PROPERTY ComesToRest
