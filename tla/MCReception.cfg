\* Two connections, the gate and the shared directory: safety.
CONSTANTS
  s1 = s1
  s2 = s2
  NoSession = NoSession
  Session <- TwoSessions
  Count <- Attachments
  Path <- Numbers
  UserPath = {0}
SPECIFICATION ReceptionSpec
CHECK_DEADLOCK FALSE
INVARIANTS
  ReceptionTypeOK
  NoPartialLeft
PROPERTIES
  KeepsOthers
