CONSTANTS
  small = small
  large = large
  NoLink = NoLink
  NoPool = NoPool
  Bias = 3
  MaxInt = 9
  GridPrice <- MCGridPrice
  ToleranceScale = 16
  Pool <- MCPool
  TicksOf <- MCTicksOf
  Spacing = 2
  Place <- MCPlace
  PageSize = 1
  MaxPages = 2
  FetchBatch = 2
  FetchConcurrency = 1
  LossyListing = TRUE
CHECK_DEADLOCK FALSE
SPECIFICATION Spec
INVARIANT TypeOK
INVARIANT StandingTicksIndexed
INVARIANT LookupsAgree
PROPERTY LoadsEnd
PROPERTY SettledPoolsLoaded
