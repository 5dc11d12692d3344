CONSTANTS
  near1 = near1
  near2 = near2
  far = far
  Instance <- Instances
  Host <- Instances
  Name <- Instances
  Address <- Addresses
  Near <- OneNetwork
  NoAddress = NoAddress
  NoName = NoName
  MaxTtl = 2
  Burst = 2
  Steady = 1
  Own = 3
  WireTtl = {0, 3}
  OwnTtl = {1}
  Moves = 1
  Start = near1
SPECIFICATION FairPresenceSpec
INVARIANTS
  PresenceTypeOK
  ListCurrent
  SelfHidden
  ReachableKept
  HeartbeatKept
PROPERTIES
  GoneDeviceLeaves
