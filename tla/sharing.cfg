CONSTANTS
  Links <- MCLinks
  Hashes <- MCHashes
  NoHash = "none"
  HashOf <- MCHashOf
  Magnets = {"m"}
  Looks = {"x", "y"}
  Files = {1, 2}
  Submissions <- Sharing
  MaxJobs = 3
  InboxCap = 5
  ReturnCap = 50
  Slots <- TwoSlots
  Faults = {}
  QueueLimit = 4
  MaxCancels = 1
  MaxReboots = 1
  GitQueries = FALSE
SPECIFICATION Spec
INVARIANTS
  InputIsShared
  FollowersAreLed
  PromisesHaveAJob
