\* No transfer fails.
SPECIFICATION Spec
CONSTANTS
  BufLen = 4
  LocalLen = 4
  StrMax = 2
  RemoteLen = 4
  Boards <- OneInterrupting
  MaxChar = 8
  MaxErr = 0
INVARIANT NoCharLost
\* When all characters have arrived the event loop may wait for ever.
CHECK_DEADLOCK FALSE
