\* Three settings, the second with speed B0, and four characters; reads of at
\* most two, of one when a status is cleared; SPI operations may fail.
SPECIFICATION PtyFairSpec
CONSTANTS
  MaxSet = 3
  MaxTyped = 4
  MaxFailed = 1
  Hangup = {2}
  ReadLen = 2
  TmpLen = 1
INVARIANT LineInOrder
PROPERTIES AnnouncedIsSet WrittenIsRead
\* The application may stop.
CHECK_DEADLOCK FALSE
