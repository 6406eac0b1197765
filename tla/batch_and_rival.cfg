CONSTANTS
  Links <- MCLinks
  Hashes <- MCHashes
  NoHash = "none"
  HashOf <- MCHashOf
  Magnets = {"m"}
  Looks = {"x", "y"}
  Files = {1, 2}
  Submissions <- BatchAndRival
  MaxJobs = 4
  InboxCap = 5
  ReturnCap = 1
  Slots <- OneSlot
  Faults = {"Encode"}
  QueueLimit = 4
  MaxCancels = 0
  MaxReboots = 0
  GitQueries = FALSE
SPECIFICATION Spec
INVARIANTS
  OneBatchChildAtEncoder
  BatchCount
PROPERTIES
  BatchOutlivesChildren
