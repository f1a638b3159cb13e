CONSTANTS
  Sides = {a, b}
  MsgSize = 2
  PipeCap = 3
  SendBufferSize = 2
  ReceiveFloodSize = 2
  RecvChunk = 2
  MaxReply = 2
  MaxQueue = 1
  PingAfter = 1
  Timeout = 3
SPECIFICATION FlowFairSpec
INVARIANTS
    BuffersBounded
PROPERTIES
    InactiveOnlyStalled
    BlockedEnds
