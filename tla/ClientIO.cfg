SPECIFICATION Spec
CONSTANTS
  Client = {c1, c2, c3}
  Fd <- MCFdThree
  SetSize = 2
  ReplySize <- MCReplySize
  MaxWrite = 1
  SndBuf = 1
  MaxSend = 2
CHECK_DEADLOCK FALSE
SYMMETRY MCSymmetry
INVARIANTS
  TypeOK
  QueuesMatchFlags
  ReplyScheduled
  NothingQueuedWhileAsleep
  NoDanglingClient
  NoStaleEvent
PROPERTY NothingAfterProtocolError
