CONSTANTS
Scale = 8
  FeeDenominator = 10
  MaxCrossings = 2
  Price = {0, 4, 5, 6, 7, 8, 9, 11, 16, 20}
  Amount = {0, 1, 2, 3, 5, 7, 12, 40}
  FeeRate = {0, 3, 10}
  PriceAt <- MCPriceAt
  ComputedAt <- MCComputedAt
  Book <- MCBook
  Answer <- MCAnswer
  Stray <- MCStray
  NoBoundary = NoBoundary
MinTick <- MCMinTick
  MaxTick = 7
  Factor <- MCFactor
  Power <- MCPower
  Unit = 4096
  Narrow = 64
  MinSqrtPrice = 5
  MaxSqrtPrice = 724
  MaxSearchSteps = 4
  Query <- MCQuery
  NoTick = NoTick
Scalar <- MCScalar
  Vector <- MCVector
  Known <- MCKnown
  Within <- MCWithin
  Drift <- MCDrift
TypeParam = {"T0", "T1", "T2"}
  ModuleName <- MCModuleName
  OracleModule = {"price_oracle", "pythnet"}
  OracleWord = {"price_oracle"}
  Subject <- MCSubject
  Calls <- MCCalls
  MaxCalls = 3
  NoEntry = NoEntry
Object <- MCObject
  Watched = "poolA"
  Fetched = {"poolA"}
  TickNode = {"node"}
  Tag <- MCTag
  TagOf <- MCTagOf
  VenueTag = {"Pool", "OtherPool"}
  Mentions <- MCMentions
  Package <- MCPackage
  ScriptPackage = "script"
  Checkpoints <- MCCheckpoints
  Remote <- MCRemote
  MaxCaptures = 2
  Missing = Missing
  Torn = Torn
CHECK_DEADLOCK FALSE
SPECIFICATION CommandsSpec
INVARIANT CommandsTypeOK
INVARIANT PaysForMove
INVARIANT NoFreeRoundTrip
INVARIANT FeeProportional
INVARIANT StepsInOneRange
INVARIANT RangeLiquidity
INVARIANT PriceWithinLimit
INVARIANT BoundedWalk
INVARIANT InputSpent
INVARIANT StaysExactOutsideGap
INVARIANT SearchFindsFloor
INVARIANT DriftFailsClosed
INVARIANT VerdictMatchesTrade
INVARIANT ScanFindsExchange
INVARIANT NothingTorn
INVARIANT WatchedReplayed
INVARIANT CapturedTyped
PROPERTY PriceForward
