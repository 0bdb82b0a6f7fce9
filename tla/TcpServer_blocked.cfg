\* Replies of two tokens and a send queue of one: sends block, EPOLLOUT is armed,
\* and behind that get_from_pool fails in parse_buffer and in the read loop.  One
\* connection fits in the descriptor table, another one waits.  accept() may fail, and
\* nobody comes again when all who wait for it have reset their connections.
SPECIFICATION Spec
CONSTANTS
  Conn = {c1, c2}
  Buf = {b1, b2}
  Null = Null
  Srv = Srv
  MaxReq = 4
  ReqLen = 2
  RspLen = 2
  HdrLen = 1
  MaxLen = 4
  SizeMod = 5
  SndCap = 1
  MaxEvents = 1
  MaxFd = 1
  AcceptErrors = TRUE
SYMMETRY Symmetry
VIEW View
INVARIANTS PoolPartition RepliesInOrder
CHECK_DEADLOCK FALSE
