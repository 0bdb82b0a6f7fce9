\* No SPI operation fails.  Run with -continue: each property has a violation of
\* its own.
SPECIFICATION Spec
CONSTANTS
  Arms = {1, 2}
  MaxArms = 3
  Span = 2
  Group = 8
  FwBit = 9
  ByteMod = 4
  MaxReadBits = 5
  MaxReadRegs = 3
  MaxWriteBits = 5
  MaxWriteRegs = 3
  Cells = {0, 1, 2, 3, 4, 8}
  Units = {0, 1, 2, 3}
  Addresses = {0, 1, 8, 10}
  Counts = {0, 1, 2, 4, 5, 6}
  MaxReq = 2
  MaxFault = 0
PROPERTIES LegalReadServed MissingCoilRefused
\* The clients may stop.
CHECK_DEADLOCK FALSE
