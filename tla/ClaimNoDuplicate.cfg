SPECIFICATION Spec
CONSTANTS
  Subjects = {c1}
  Packs = {}
  Accounts = {account}
  Unmodelled = {callLink}
  Fields = {f1, f2}
  Additive = {f2}
  Filed = {account}
  BatchSize = 1
  WriteAttempts = 3
  EditsDuringSync = FALSE
  RemoteRemoves = FALSE
  MaxEdits = 1
  MaxRemote = 1
  MaxCrashes = 0
  MaxFaults = 0
INVARIANTS NoDuplicateRecord
CHECK_DEADLOCK FALSE
