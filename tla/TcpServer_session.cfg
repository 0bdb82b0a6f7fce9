\* One connection, three pipelined requests cut into arbitrary reads; two fill
\* the buffer, so that the socket is read again.  The stream is shorter than
\* SizeMod and the replies fit the send queue.
SPECIFICATION FairSpec
CONSTANTS
  Conn = {c1}
  Buf = {b1, b2, b3}
  Null = Null
  Srv = Srv
  MaxReq = 3
  ReqLen = 2
  RspLen = 2
  HdrLen = 1
  MaxLen = 4
  SizeMod = 7
  SndCap = 6
  MaxEvents = 3
  MaxFd = 2
  AcceptErrors = FALSE
VIEW View
PROPERTIES Served ImplementsSession
