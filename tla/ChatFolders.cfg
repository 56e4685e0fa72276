SPECIFICATION FairSpec
CONSTANTS
  Alls = {1}
  Own = {2}
  Customs = {3, 4}
  Names = {n1, n2}
  Filed = {1, 3}
  Ttl = 0
  DeletedPosition = 9
  WriteAttempts = 2
  MaxNow = 3
  MaxEdits = 1
  MaxRemote = 1
  MaxFailures = 1
INVARIANTS TypeOK CurrentWhenCaughtUp OneRecordPerFolder
PROPERTIES Settles
CHECK_DEADLOCK FALSE
