\* Pipelined requests that fill the buffer beyond the 8-bit size.
SPECIFICATION Spec
CONSTANTS
  Conn = {c1}
  Buf = {b1, b2, b3}
  Null = Null
  Srv = Srv
  MaxReq = 2
  ReqLen = 2
  RspLen = 2
  HdrLen = 1
  MaxLen = 5
  SizeMod = 4
  SndCap = 4
  MaxEvents = 2
  MaxFd = 2
  AcceptErrors = FALSE
INVARIANT CompleteRequestsParsed
