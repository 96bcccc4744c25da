\* Curves of up to two tiers in two slots, one row too many included; values up
\* to three past the largest boundary.
CONSTANTS
  TierCount = 2
  MaxBoundary = 7
  MaxValue = 10
  Boundaries = {0, 4, 7, 8}
  Ratios = {40, 100, 150}
  Precomps = {0, 1, 2, 4, 5, 6, 7}
SPECIFICATION Spec
INVARIANTS
  CurveInv
  CreditIsSound
  HostMatchesCircuit
PROPERTY
  LoadsExactly
CHECK_DEADLOCK FALSE
