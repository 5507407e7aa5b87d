SPECIFICATION FairSpec
CONSTANTS
  Clients = {c1, c2}
  Collector = collector
  Nobody = nobody
INVARIANTS
  TypeOK
  RemovedAreClosed
  StoreOutlivesCollector
PROPERTIES
  ImplementsFeed
  ServesFeed
  BrokenLeave
