\* A partial send, of the last reply or of one in between, and a reset behind it.
SPECIFICATION Spec
CONSTANTS
  Conn = {c1}
  Buf = {b1, b2}
  Null = Null
  Srv = Srv
  MaxReq = 2
  ReqLen = 2
  RspLen = 3
  HdrLen = 1
  MaxLen = 5
  SizeMod = 4
  SndCap = 1
  MaxEvents = 2
  MaxFd = 2
  AcceptErrors = FALSE
INVARIANTS FatalSendContained QueuedIsArmed QueuedNotPooled
