SPECIFICATION Spec
CONSTANTS
  Ids = {"u1", "u2", "u3"}
  Snapshots <- DenseSnapshots
  UsersPerBatch <- TwoPerBatch
  Assets = {"btc", "eth"}
  Columns = {"equity"}
  Tiers = {1, 2}
  Slots = 4
  MaxTotal = 2
  ChanCap = 1
  MaxCrashes = 0
  MaxFaults = 0
  MaxAccounts = 3
  MaxBalance = 1
CHECK_DEADLOCK FALSE
INVARIANTS
  CancelSurfaces
