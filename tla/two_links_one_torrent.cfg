CONSTANTS
  Links <- MCLinks
  Hashes <- MCHashes
  NoHash = "none"
  HashOf <- MCHashOf
  Magnets = {"m"}
  Looks = {"x", "y"}
  Files = {1, 2}
  Submissions <- TwoLinks
  MaxJobs = 2
  InboxCap = 5
  ReturnCap = 50
  Slots <- TwoSlots
  Faults = {}
  QueueLimit = 4
  MaxCancels = 0
  MaxReboots = 0
  GitQueries = FALSE
SPECIFICATION FairSpec
PROPERTIES
  EveryJobEnds
