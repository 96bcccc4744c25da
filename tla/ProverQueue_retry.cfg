\* One death, then a supervisor that restarts provers for ever.
CONSTANTS
  Provers = {p1, p2}
  NoProver = NoProver
  N = 2
  Signalled = {}
  ScanLocks = FALSE
  MaxCrashes = 1
  MaxFaults = 0
  MaxResets = 0
SPECIFICATION SupervisedSpec
PROPERTY ReceivedIsFinished
