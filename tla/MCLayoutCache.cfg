CONSTANTS
  pool = pool
  sys = sys
  task1 = task1
  task2 = task2
  NoEntry = NoEntry
  NoFetch = NoFetch
  NoName = NoName
  Package <- MCPackage
  InPlace <- MCSystem
  Name <- MCTwoNames
  Tag <- MCTwoNames
  Canonical <- MCCanonical
  Names <- MCNames
  Mentions <- MCMentions
  Task <- MCTask
  MaxVersion = 3
  MaxLookups = 2
SYMMETRY Tasks
CHECK_DEADLOCK FALSE
SPECIFICATION BoundedSpec
INVARIANT TypeOK
INVARIANT BytecodeFresh
INVARIANT ResolvedFresh
INVARIANT SerialLookupsFresh
INVARIANT SerialCacheFresh
