CONSTANTS
  pool = pool
  NoLink = NoLink
  NoPool = NoPool
  Bias = 3
  MaxInt = 9
  GridPrice <- MCGridPrice
  ToleranceScale = 16
  Pool <- MCPool
  TicksOf <- MCTicksOf
  Spacing = 2
  Place <- MCPlace
  PageSize = 2
  MaxPages = 2
  FetchBatch = 2
  FetchConcurrency = 1
  LossyListing = FALSE
CHECK_DEADLOCK FALSE
SPECIFICATION MomentsSpec
INVARIANT OneMoment
