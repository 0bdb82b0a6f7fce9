\* A polled and an interrupt-driven board; up to four transfers or writes fail, so
\* that the loop of armpty_readuart gives up.
SPECIFICATION FairSpec
CONSTANTS
  BufLen = 4
  LocalLen = 4
  StrMax = 2
  RemoteLen = 4
  Boards <- WorkingBoards
  MaxChar = 7
  MaxErr = 4
INVARIANTS TypeOK InOrder NoOverrun RemainSound
PROPERTY Flushed
\* When all characters have arrived the event loop may wait for ever.
CHECK_DEADLOCK FALSE
