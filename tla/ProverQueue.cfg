\* Two provers, three batches, one death, one failed call, one operator reset;
\* either prover may be stopped and started at any time.
CONSTANTS
  Provers = {p1, p2}
  NoProver = NoProver
  N = 3
  Signalled = {p1, p2}
  ScanLocks = TRUE
  MaxCrashes = 1
  MaxFaults = 1
  MaxResets = 1
SPECIFICATION FairSpec
INVARIANTS
  ExclusiveClaim
  NoDuplicateProof
  ClaimTransaction
  NoBatchAbandoned
  IInv
PROPERTY
  ImplementsLedger
PROPERTY
  PublishedIsClaimed
PROPERTY
  PublishedIsFinished
