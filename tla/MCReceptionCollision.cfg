\* The same: two sessions that picked one path overwrite each other's file.
CONSTANTS
  s1 = s1
  s2 = s2
  NoSession = NoSession
  Session <- TwoSessions
  Count <- Attachments
  Path <- Numbers
  UserPath = {}
SPECIFICATION FairReceptionSpec
CHECK_DEADLOCK FALSE
PROPERTIES
  NeverOverwrites
