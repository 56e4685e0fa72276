SPECIFICATION Spec
CONSTANTS
  Subjects = {c1}
  Packs = {}
  Accounts = {account}
  Unmodelled = {callLink}
  Fields = {f1, f2}
  Additive = {f2}
  Filed = {account}
  BatchSize = 1
  WriteAttempts = 2
  EditsDuringSync = TRUE
  RemoteRemoves = TRUE
  MaxEdits = 1
  MaxRemote = 2
  MaxCrashes = 1
  MaxFaults = 1
INVARIANTS TypeOK VersionReached CurrentWhenCaughtUp OneRecordPerKey ResumeSkipsNothing UnpublishedIsMarked
PROPERTIES ServiceSpec
CHECK_DEADLOCK FALSE
