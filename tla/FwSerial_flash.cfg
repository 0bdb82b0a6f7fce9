SPECIFICATION Spec
CONSTANTS
    Jobs <- MCJobs
    BinPages <- MCBin
    RwPages <- MCRw
    RW_START_PAGE = 2
    LastPage = 3
    Chunks = 2
    MaxErrors = 4
    MaxFaults = 4
INVARIANTS TypeOK OkIsBurned Programmed FitsBoards
PROPERTY Ends
