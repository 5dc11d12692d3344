CONSTANTS
  N = 2
  Lengths = {0, 2}
  ControlId = {0}
  MaxControl = 1
  ReceiverFrames <- MCReceiverFrames
  MaxUnread = 0
SPECIFICATION FairSpec
CHECK_DEADLOCK FALSE
INVARIANTS
  TypeOK
  SuccessMeansSent
  SentInOrder
PROPERTIES
  SenderEnds
