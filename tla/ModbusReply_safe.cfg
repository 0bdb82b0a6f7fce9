\* Two boards of three; addresses at the edges of the ranges; counts up to and
\* beyond the limits and the 8 bits; one SPI operation fails.
SPECIFICATION Spec
CONSTANTS
  Arms = {1, 2}
  MaxArms = 3
  Span = 2
  Group = 8
  FwBit = 9
  ByteMod = 4
  MaxReadBits = 5
  MaxReadRegs = 3
  MaxWriteBits = 5
  MaxWriteRegs = 3
  Cells = {0, 1, 2, 3, 4, 8}
  Units = {0, 1, 2, 3}
  Addresses = {0, 1, 2, 3, 4, 8, 9, 11, 24}
  Counts = {0, 1, 2, 4, 5, 6}
  MaxReq = 2
  MaxFault = 1
PROPERTIES ReadsAreExact WritesHitTarget AckedIsWritten
\* The clients may stop.
CHECK_DEADLOCK FALSE
