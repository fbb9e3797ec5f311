CONSTANTS
  p1 = p1
  c1 = c1
  c2 = c2
  u1 = u1
  cetus = cetus
  Venue = {p1}
  Pool = {p1}
  Tag = {cetus}
  TagOf <- MCTagOf
  Child = {c1, c2}
  Uid = {u1}
  NodeUid <- MCNodeUid
  ParentOf <- MCParentOf
  ChildCapacity = 2
  TickIndex = {}
  NoTicks = NoTicks
  NoOwner = NoOwner
  NoCheckpoint = NoCheckpoint
  Checkpoints = {}
  MaxAborts = 1
  MaxSeq = 3
  MaxChanges = 2
SPECIFICATION IngestSpec
INVARIANTS
  DeadChildrenLeave
