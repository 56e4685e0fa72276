SPECIFICATION FairSpec
CONSTANTS
  Groups = {g1, g2}
  Refused = {g2}
  Me = me
  Others = {p1}
  Tasks = {t1, t2}
  ConflictRetries = 1
  MaxCalls = 2
  MaxRemote = 1
  MaxFaults = 1
INVARIANTS TypeOK CopiesAreServers OneChangePerCall CheckedChangesHold
PROPERTIES FlagsKept Hydrated
CHECK_DEADLOCK FALSE
