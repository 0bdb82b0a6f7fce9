\* As many connections as buffers.
SPECIFICATION Spec
CONSTANTS
  Conn = {c1, c2}
  Buf = {b1}
  Null = Null
  Srv = Srv
  MaxReq = 2
  ReqLen = 2
  RspLen = 2
  HdrLen = 1
  MaxLen = 5
  SizeMod = 4
  SndCap = 4
  MaxEvents = 2
  MaxFd = 2
  AcceptErrors = FALSE
INVARIANT DataReadCompletely
