CONSTANTS
  BindLists <- MCBindLists
  ElSetSize = 5
  AcceptsPerCall = 2
  FdLimit = 6
  PortChanges = 2
  SignalBound = 3
  BufSize = 2
  Chunk = 2
  Slack = {0, 1}
  IovMax = 3
  MaxWrite = 4
  ReplyLen = {1, 3}
  MaxBytes = 5
  MaxDeferred = 2
  Clients = {"c1", "c2"}
  ArgLengths <- MCArgLengths
  IobufLen = 16384
  BigArg = 32768
  ResizeThreshold = 32768
  MinIterations = 1
  Hz = 10
  ReadSizes = {19}
  ShortReads = 1
  Step = 3
  MaxSeconds = 3
  ListNodes = {1, 2, 3}
  ListNames = {"l", "o"}
SPECIFICATION MCSpec
INVARIANTS
    OutputSound  CronSound LinksSound
PROPERTIES  ImplementsLists
CHECK_DEADLOCK FALSE
