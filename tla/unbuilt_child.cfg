CONSTANTS
  Links <- MCLinks
  Hashes <- MCHashes
  NoHash = "none"
  HashOf <- MCHashOf
  Magnets = {"m"}
  Looks = {"x", "y"}
  Files = {1, 2}
  Submissions <- JustBatch
  MaxJobs = 3
  InboxCap = 5
  ReturnCap = 50
  Slots <- TwoSlots
  Faults = {"child"}
  QueueLimit = 4
  MaxCancels = 0
  MaxReboots = 0
  GitQueries = FALSE
SPECIFICATION Spec
PROPERTIES
  BatchOutlivesChildren
