\* Data and FIN in one wakeup.
SPECIFICATION FairSpec
CONSTANTS
  Conn = {c1}
  Buf = {b1, b2}
  Null = Null
  Srv = Srv
  MaxReq = 1
  ReqLen = 2
  RspLen = 2
  HdrLen = 1
  MaxLen = 5
  SizeMod = 4
  SndCap = 4
  MaxEvents = 2
  MaxFd = 2
  AcceptErrors = FALSE
PROPERTY EndOfFileSeen
