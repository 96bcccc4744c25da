\* Two workers over files and tables of up to three batches.
CONSTANTS
  Files <- DamagedFiles
  Stored <- StoredTables
  MaxRows = 3
  Roots = {0, 1, 2, 3}
  Cexs = {0, 1, 2, 9}
  EmptyRoot = 0
  EmptyCex = 0
  PublishedCex = 9
  Tiers = {1, 2}
  W = 2
  MaxFaults = 1
SPECIFICATION FairSpec
INVARIANTS
  AcceptedIsProved
  ProvedIsAccepted
  RangesPartition
  VerifierInv
PROPERTY Decides
