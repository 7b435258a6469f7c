SPECIFICATION ConnSpec
CONSTANTS
  Client = {c1, c2}
  Fd <- MCFd
  SetSize = 2
  ReplySize <- MCReplySize
  MaxWrite = 1
  SndBuf = 1
  MaxSend = 2
  CliOptions <- MCOptions
  CliCommand = {"get", "select1", "select9", "multi", "exec", "discard", "reset", "auth",
                "subscribe", "monitor", "shutdown", "sync"}
  Repeats = {1, 2}
  CliBounds <- MCBounds
CHECK_DEADLOCK FALSE
INVARIANT SessionSound
PROPERTIES ClosedPeerFreed InterruptReturns
