SPECIFICATION FairSpec
CONSTANTS
  Subjects = {c1, p1}
  Packs = {p1}
  Accounts = {account}
  Unmodelled = {callLink}
  Fields = {f1, f2}
  Additive = {f2}
  Filed = {c1, p1, account}
  BatchSize = 1
  WriteAttempts = 2
  EditsDuringSync = FALSE
  RemoteRemoves = FALSE
  MaxEdits = 2
  MaxRemote = 1
  MaxCrashes = 0
  MaxFaults = 1
PROPERTIES OutstandingKept Settles
CHECK_DEADLOCK FALSE
