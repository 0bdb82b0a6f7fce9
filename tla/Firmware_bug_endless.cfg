\* A page the board cannot burn.
SPECIFICATION FairSpec
CONSTANTS
  Flows = {"fwspi_R"}
  BinPages = 3
  RwPages = 1
  RwStart = 4
  ReadOnly = 7
  BadPages = {1}
  MaxFault = 0
  MaxIoctl = 0
PROPERTY RepeatedErrorEnds
\* The program ends.
CHECK_DEADLOCK FALSE
