SPECIFICATION Spec
CONSTANTS
  Client = {c1, c2}
  Fd <- MCFd
  SetSize = 1
  ReplySize <- MCReplySize
  MaxWrite = 1
  SndBuf = 1
  MaxSend = 1
CHECK_DEADLOCK FALSE
INVARIANT EveryClientRegistered
