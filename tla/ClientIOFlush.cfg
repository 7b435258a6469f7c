SPECIFICATION SpecReadingPeers
CONSTANTS
  Client = {c1}
  Fd <- MCFd
  SetSize = 2
  ReplySize <- MCReplySize
  MaxWrite = 1
  SndBuf = 1
  MaxSend = 1
CHECK_DEADLOCK FALSE
PROPERTY RepliesFlushed
