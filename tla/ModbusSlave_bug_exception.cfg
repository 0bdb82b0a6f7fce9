SPECIFICATION Spec
CONSTANTS
    Slaves <- TwoSlaves
    Requests <- TwoRequests
    Mapping <- FromZero
    Recoveries = {{}}
    Patience = {{"timeout"}}
    MaxFaults = 0
INVARIANT HeardByTheRule
