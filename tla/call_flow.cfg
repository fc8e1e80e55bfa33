SPECIFICATION CentreSpec
CONSTANTS
  Minute = 6
  Rates = {0, 1, 5}
  Increments = {1, 2, 5}
  Fees = {0, 2}
  Balances = {0, 1, 3, 7}
  MaxSeconds = 9
  Worlds <- MCWorlds
  Keys = {"1", "2", "3", "timeout", "maxtries"}
  MaxTransfers = 2
  Scopes <- MCScopes
  RecordedCalls = {k}
  Prompts = {p}
  Waves = {}
  Storages <- MCStorages
  MaxAttempts = 2
  MaxPosts = 2
  MaxChanges = 2
INVARIANTS AllowanceCovers CostsAgree RecordCovered TenantKept
           MenuReachesExtension RecordsFound MediaKept MediaReached
CHECK_DEADLOCK FALSE
