SPECIFICATION Spec
CONSTANTS
  Peers = {p1}
  Me = me
  Group = group
  PeerKeys = {k1, k2}
  OwnKey = own
  NoKey = none
  Timers = {0, 1}
  Versions = {0, 2, 3}
  Times = {1, 2}
  Calls = {call}
  MaxOps = 6
  MaxIngests = 2
  MaxFaults = 1
INVARIANTS TypeOK KeysAgree ProfileIsKeys CallOutcome
PROPERTIES TimerOrder BlockStands MessagesStay
CHECK_DEADLOCK FALSE
