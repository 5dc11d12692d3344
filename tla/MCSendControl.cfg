\* Two devices and one incoming connection.
CONSTANTS
  d1 = d1
  d2 = d2
  r1 = r1
  NoDevice = NoDevice
  Device <- TwoDevices
  Receiver <- OneReceiver
  MaxQueue = 1
SPECIFICATION FairSpec
CHECK_DEADLOCK FALSE
INVARIANTS
  TypeOK
  SearchOwned
  SendOwned
  ProgressOwned
  ListInSync
PROPERTIES
  SearchEnds
  SendEnds
