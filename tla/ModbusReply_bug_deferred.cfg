\* No SPI operation fails.
SPECIFICATION FairSpec
CONSTANTS
  Arms = {1, 2}
  MaxArms = 3
  Span = 2
  Group = 8
  FwBit = 9
  ByteMod = 4
  MaxReadBits = 5
  MaxReadRegs = 3
  MaxWriteBits = 5
  MaxWriteRegs = 3
  Cells = {0, 1, 2, 3, 4, 8}
  Units = {0, 1, 2, 3}
  Addresses = {9}
  Counts = {0, 1, 2, 4, 5, 6}
  MaxReq = 3
  MaxFault = 0
PROPERTY FirmwareRequestRuns
\* The clients may stop.
CHECK_DEADLOCK FALSE
