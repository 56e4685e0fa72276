SPECIFICATION Spec
CONSTANTS
  Alls = {1}
  Own = {2}
  Customs = {3}
  Names = {n1, n2}
  Filed = {1, 3}
  Ttl = 0
  DeletedPosition = 9
  WriteAttempts = 2
  MaxNow = 2
  MaxEdits = 2
  MaxRemote = 0
  MaxFailures = 0
INVARIANTS FolderChangeIsMarked
CHECK_DEADLOCK FALSE
