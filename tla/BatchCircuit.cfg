SPECIFICATION CircuitSpec
CONSTANTS
  Capacity = 2
  Leaves = 2
  MaxValue = 3
  MaxSum = 20
  Modulus = 13
  Full = 2
  MaxCredit = 6
  Shapes <- MCShapes
  SlotLists <- MCSlotLists
  Updates <- MCUpdates
  Told <- MCTold
  Statics <- MCStatics
  Ids = {"u"}
CHECK_DEADLOCK FALSE
INVARIANTS TotalsInv TotalsAreTheLeaves LeavesAreSolvent
PROPERTY LeavesAreFinal
