CONSTANTS
  Links <- MCLinks
  Hashes <- MCHashes
  NoHash = "none"
  HashOf <- MCHashOf
  Magnets = {"m"}
  Looks = {"x", "y"}
  Files = {1, 2}
  Submissions <- FailingApart
  MaxJobs = 3
  InboxCap = 5
  ReturnCap = 50
  Slots <- TwoSlots
  Faults = {"setup", "insert", "send"}
  QueueLimit = 2
  MaxCancels = 0
  MaxReboots = 1
  GitQueries = TRUE
SPECIFICATION ApartSpec
CHECK_DEADLOCK FALSE
INVARIANTS
  TypeOK
  OneWorkerPerJob
  LostEncodesAreResent
  OpenRowsAreQueued
  GitSyncAfterEncodes
PROPERTIES
  ClosedRowsStayClosed
