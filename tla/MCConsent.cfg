\* Connections around the gate.
CONSTANTS
  s1 = s1
  s2 = s2
  NoSession = NoSession
  Session <- TwoSessions
SPECIFICATION FairSpec
CHECK_DEADLOCK FALSE
INVARIANTS
  TypeOK
  NoOrphanDecision
  FreshConsent
  NoStaleDialog
PROPERTIES
  ConsentResolves
  DialogDismissed
