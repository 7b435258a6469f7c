CONSTANTS
  Stream <- MCStream
  Aborting <- MCAborting
  IoBuf = 8
  BigArg = 2
  InlineMax = 64
  W = 8
  Unit <- MCUnit
  IntMax = 7
  MaxBulk = 4
  ArgvStep = 1
  BufSize = 3
  Chunk = 2
  Slack = {0}
  IovMax = 3
  MaxWrite = 4
SPECIFICATION PipeSpec
INVARIANTS RequestsExact 
PROPERTY Answered
CHECK_DEADLOCK FALSE
