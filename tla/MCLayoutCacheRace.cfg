CONSTANTS
  pool = pool
  sys = sys
  task1 = task1
  task2 = task2
  NoEntry = NoEntry
  NoFetch = NoFetch
  NoName = NoName
  Package <- MCPackage
  InPlace <- MCSystem
  Name <- MCOneName
  Tag <- MCOneName
  Canonical <- MCCanonical
  Names <- MCNames
  Mentions <- MCMentions
  Task <- MCTask
  MaxVersion = 2
  MaxLookups = 2
SYMMETRY Tasks
CHECK_DEADLOCK FALSE
SPECIFICATION RaceSpec
INVARIANT LayoutsFresh
