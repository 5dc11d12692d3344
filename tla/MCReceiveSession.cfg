CONSTANTS
  Id = {1, 2}
  PeerFrames <- MCFrames
  MaxBytePayload = 2
  MaxBuffered = 3
  MaxInt64 = 4
  MaxOutbox = 1
SPECIFICATION FairSpec
CHECK_DEADLOCK FALSE
INVARIANTS
  TypeOK
  BufferAccount
  ReportedWhole
  NoPartialFile
  NothingBeforeConsent
  SuccessIsComplete
  ReceivedAccount
  NoStuckProgress
PROPERTIES
  SilentPeerReleased
