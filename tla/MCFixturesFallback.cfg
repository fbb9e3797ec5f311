CONSTANTS
  Object <- MCObject
  Watched = "poolA"
  Fetched = {"poolA"}
  TickNode = {"node"}
  Tag <- MCTag
  TagOf <- MCTagOf
  VenueTag = {"Pool", "OtherPool"}
  Mentions <- MCMentions
  Package <- MCPackage
  ScriptPackage = "script"
  Checkpoints <- MCCheckpoints
  Remote <- MCRemote
  MaxCaptures = 2
  Missing = Missing
  Torn = Torn
CHECK_DEADLOCK FALSE
SPECIFICATION FixturesSpec
INVARIANT FallbackTypes
