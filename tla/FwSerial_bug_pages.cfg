\* Run with -continue: each invariant has a violation of its own.
SPECIFICATION Spec
CONSTANTS
    Jobs <- PlainAndDevel
    BinPages = {2, 3}
    RwPages = {1}
    RW_START_PAGE = 2
    LastPage = 3
    Chunks = 2
    MaxErrors = 4
    MaxFaults = 1
INVARIANTS FitsBoards Programmed OkPrinted TryingAgainHelps
