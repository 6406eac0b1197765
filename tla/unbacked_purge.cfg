SPECIFICATION VaultSpec
CHECK_DEADLOCK FALSE
CONSTANTS
  VaultFiles = {"env", "drive"}
  Deleted = {"drive"}
  MaxIds = 1
  MaxTouches = 1
  MaxVaultFaults = 0
  MaxCrashes = 0
INVARIANTS
  PlanIsBackedUp
