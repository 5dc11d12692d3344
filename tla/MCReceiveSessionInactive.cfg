CONSTANTS
  Id = {1, 2}
  PeerFrames <- MCFewFrames
  MaxBytePayload = 2
  MaxBuffered = 3
  MaxInt64 = 4
  MaxOutbox = 1
SPECIFICATION FairSpec
CHECK_DEADLOCK FALSE
PROPERTIES
  InactiveSessionEnds
