SPECIFICATION Spec
CONSTANTS
  Alls = {1}
  Own = {2}
  Customs = {3, 4}
  Names = {n1, n2}
  Filed = {1, 3}
  Ttl = 0
  DeletedPosition = 9
  WriteAttempts = 1
  MaxNow = 3
  MaxEdits = 1
  MaxRemote = 2
  MaxFailures = 0
INVARIANTS OneAllChats
PROPERTIES DeleteStands
CHECK_DEADLOCK FALSE
