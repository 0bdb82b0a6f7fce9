SPECIFICATION Spec
CONSTANTS
    Jobs <- FullJob
    BinPages = {3}
    RwPages = {1}
    RW_START_PAGE = 2
    LastPage = 3
    Chunks = 2
    MaxErrors = 4
    MaxFaults = 0
PROPERTY Ends
