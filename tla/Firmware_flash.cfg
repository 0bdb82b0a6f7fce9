\* All flows: program, program and settings, the server's update.  Four faults:
\* pages that fail, garbled answers, a board that resets.
SPECIFICATION FairSpec
CONSTANTS
  Flows = {"fwspi", "fwspi_R", "server"}
  BinPages = 3
  RwPages = 1
  RwStart = 4
  ReadOnly = 7
  BadPages = {}
  MaxFault = 4
  MaxIoctl = 0
INVARIANTS TypeOK CompleteIsBurned
PROPERTY Ends
\* The program ends.
CHECK_DEADLOCK FALSE
