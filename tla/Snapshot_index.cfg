SPECIFICATION Spec
CONSTANTS
  Capacity = 3
  Leaves = 4
  MaxValue = 4
  MaxSum = 30
  Modulus = 31
  Full = 2
  MaxCredit = 4
  Ids = {"a", "b"}
  Spellings = {1, 2}
  AssetRows <- MCAssetRows
  AccountRows <- MCAccountRows
  Curves <- MCCurves
  Tiers = {2, 3}
  UsersPerBatch = 2
  MaxAssetRows = 2
  MaxRows = 4
CHECK_DEADLOCK FALSE
INVARIANT IndicesAreDense
