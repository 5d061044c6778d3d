SPECIFICATION FairSpec
CONSTANTS
  WorldSize = 3
  ClientIds <- AnyIds
  MaxLaunches = 2
  NotFound = NotFound
  NoNumber = NoNumber
  NotSent = NotSent
INVARIANTS
  TypeOK
  AllOrNothing
  DbUsable
  SingleProxy
  RoutingTable
  MatchedReceives
  NothingLeftOver
PROPERTIES
  ShardIdPreserved
  LaunchDecides
CHECK_DEADLOCK FALSE
