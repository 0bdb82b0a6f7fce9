\* Two connections, one buffer more than connections; two pipelined requests cut into
\* arbitrary reads, so that a read may bring both and parse_buffer splits the buffer:
\* then all three are out.  Sends never block.
SPECIFICATION Spec
CONSTANTS
  Conn = {c1, c2}
  Buf = {b1, b2, b3}
  Null = Null
  Srv = Srv
  MaxReq = 2
  ReqLen = 2
  RspLen = 2
  HdrLen = 1
  MaxLen = 4
  SizeMod = 5
  SndCap = 4
  MaxEvents = 2
  MaxFd = 2
  AcceptErrors = FALSE
SYMMETRY Symmetry
VIEW View
INVARIANTS TypeOK PoolPartition RepliesInOrder PoolSuffices DataIsAnnounced
PROPERTY ClosedForCause
