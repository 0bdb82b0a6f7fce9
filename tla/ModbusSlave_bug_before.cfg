SPECIFICATION Spec
CONSTANTS
    Slaves <- TwoSlaves
    Requests <- BeforeTheTable
    Mapping <- FromOne
    Recoveries = {{}}
    Patience = {{"timeout"}}
    MaxFaults = 0
INVARIANT InTable
