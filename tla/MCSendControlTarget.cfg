\* The selection may change between the tap on Send and the start of the send.
CONSTANTS
  d1 = d1
  d2 = d2
  r1 = r1
  NoDevice = NoDevice
  Device <- TwoDevices
  Receiver <- OneReceiver
  MaxQueue = 1
SPECIFICATION Spec
CHECK_DEADLOCK FALSE
INVARIANTS
  ResolvedTarget
