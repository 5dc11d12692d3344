\* Two connections: a second tap on the dialog of one session admits the other.
CONSTANTS
  s1 = s1
  s2 = s2
  NoSession = NoSession
  Session <- TwoSessions
SPECIFICATION Spec
CHECK_DEADLOCK FALSE
INVARIANTS
  ExplicitConsent
