CONSTANTS
  Scale = 8
  FeeDenominator = 10
  MaxCrossings = 2
  Price = {0, 4, 5, 6, 7, 8, 9, 11, 16, 20}
  Amount = {0, 1, 2, 3, 5, 7, 12, 40}
  FeeRate = {0, 3, 10}
  PriceAt <- MCPriceAt
  ComputedAt <- MCComputedAt
  Book <- MCBook
  Answer <- MCAnswer
  Stray <- MCStray
  NoBoundary = NoBoundary
CHECK_DEADLOCK FALSE
SPECIFICATION Spec
INVARIANT StaysExact
