SPECIFICATION Spec
CONSTANTS
  Ids = {"u1", "u2", "u3", "u4"}
  Snapshots <- MCSnapshots
  UsersPerBatch <- TwoPerBatch
  Assets = {"btc", "eth"}
  Columns = {"equity", "debt"}
  Tiers = {1, 2}
  Slots = 8
  Depth = 3
  ChunkSize = 2
  Claims <- MCClaims
  MaxBalance = 5
  MaxRuns = 3
  MaxFaults = 2
CHECK_DEADLOCK FALSE
INVARIANTS RowsVerify DoneHasEveryone WholeRunsAgree AttestedTotal
