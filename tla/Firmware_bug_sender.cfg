\* fwspi and the server's update, with at most one failed ioctl.  Run with
\* -continue: each invariant has a violation of its own.
SPECIFICATION Spec
CONSTANTS
  Flows = {"fwspi_R", "server"}
  BinPages = 3
  RwPages = 1
  RwStart = 4
  ReadOnly = 7
  BadPages = {}
  MaxFault = 0
  MaxIoctl = 1
INVARIANTS ConfirmedIsBurned OnlyImagePages UpdateHasProgram
\* The program ends.
CHECK_DEADLOCK FALSE
