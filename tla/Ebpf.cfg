SPECIFICATION FairSpec
CONSTANTS
  Pids <- SomePids
  Agents = {2}
  Homes <- SomeHomes
  Room = 1
  MaxEvents = 3
INVARIANTS
  TypeOK
  DeliveredAtMostOnce
PROPERTIES
  NothingPilesUp
