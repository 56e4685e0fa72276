SPECIFICATION Spec
CONSTANTS
  TrustNewIdentities = FALSE
  Authors = {a1, a2}
  a1 = a1
  a2 = a2
  MaxItems = 3
  MaxTime = 2
  Chunks = 2
  MaxOps = 5
  ImportCost = 3
  MaxFaults = 1
  MaxEnrolments = 2
  MaxPools = 2
  MaxBatches = 3
  MaxSends = 2
INVARIANTS
  TypeOK
  RegisteredWhole
  MasterIsPools
  PoolKept
  CertificateStays
  UnlinkHonest
  FileIsPrefix
  HistoryWhole
  HandedOutOpens
  ReplayRefused
CHECK_DEADLOCK FALSE
