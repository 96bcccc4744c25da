\* Four setups over profiles of two and three shapes, two batches.
CONSTANTS
  Profiles <- MCProfiles
  MaxSetups = 4
  MaxBatches = 2
SPECIFICATION KeySpec
INVARIANTS
  KeyInv
  RefusedAfterEveryShape
  PublishedVerifies
CHECK_DEADLOCK FALSE
