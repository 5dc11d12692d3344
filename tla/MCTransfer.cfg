CONSTANTS
  N = 3
  Lengths = {0, 2}
SPECIFICATION Spec
CHECK_DEADLOCK FALSE
INVARIANTS
  ReceiverBehind
  SuccessNeedsConsent
  SuccessOnItsWay
PROPERTIES
  Delivers
  TransferCompletes
