CONSTANTS
  p1 = p1
  n1 = n1
  c1 = c1
  c2 = c2
  c3 = c3
  u1 = u1
  ux = ux
  cetus = cetus
  navi = navi
  Venue <- MCVenue
  Pool = {p1}
  Tag = {cetus, navi}
  TagOf <- MCTagOf
  Child <- MCChild
  Uid = {u1, ux}
  NodeUid <- MCNodeUid
  ParentOf <- MCParentOf
  ChildCapacity = 1
  TickIndex = {t1}
  NoTicks = NoTicks
  NoOwner = NoOwner
  NoCheckpoint = NoCheckpoint
  Checkpoints <- MCCheckpoints
  MaxAborts = 1
SPECIFICATION CallsSpec
PROPERTIES
  PublishKeepsTicks
