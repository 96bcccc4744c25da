SPECIFICATION FairSpec
CONSTANTS
  Ids = {"u1", "u2", "u3"}
  Snapshots <- DenseSnapshots
  UsersPerBatch <- TwoPerBatch
  Assets = {"btc", "eth"}
  Columns = {"equity"}
  Tiers = {1, 2}
  Slots = 4
  MaxTotal = 2
  ChanCap = 1
  MaxCrashes = 1
  MaxFaults = 1
  MaxAccounts = 3
  MaxBalance = 1
INVARIANTS
  StoredTreeIsOneRun
  RowsChain
  PlacesInv
  LeavesWereEmpty
  BatchesFitTheirTier
  DoneIsComplete
CHECK_DEADLOCK FALSE
PROPERTY Ends
