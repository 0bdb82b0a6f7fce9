\* No SPI operation fails.
SPECIFICATION PtyFairSpec
CONSTANTS
  MaxSet = 3
  MaxTyped = 4
  MaxFailed = 0
  Hangup = {2}
  ReadLen = 2
  TmpLen = 1
PROPERTY SettingsReachUart
\* The application may stop.
CHECK_DEADLOCK FALSE
