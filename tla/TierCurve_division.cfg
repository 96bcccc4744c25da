\* The quotient the circuit of a tiered model lets through.
CONSTANTS
  TierCount = 2
  MaxBoundary = 7
  MaxValue = 10
  Boundaries = {0, 4, 7}
  Ratios = {40, 100}
  Precomps = {0, 1, 2, 4, 5, 7}
SPECIFICATION Spec
INVARIANT
  DivisionIsFloor
CHECK_DEADLOCK FALSE
