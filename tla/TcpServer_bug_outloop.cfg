\* Queued data is sent completely.
SPECIFICATION FairSpec
CONSTANTS
  Conn = {c1}
  Buf = {b1, b2}
  Null = Null
  Srv = Srv
  MaxReq = 2
  ReqLen = 2
  RspLen = 3
  HdrLen = 1
  MaxLen = 5
  SizeMod = 4
  SndCap = 1
  MaxEvents = 2
  MaxFd = 2
  AcceptErrors = FALSE
PROPERTY OutLoopEnds
