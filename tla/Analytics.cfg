SPECIFICATION FairNetworkSpec
CONSTANTS
  Features = {f1}
  Trackers = {t1, t2}
  Flushers = {p1}
  Worker = Worker
  Nobody = Nobody
  MaxTracked = 3
  MaxLost = 2
INVARIANTS
  TypeOK
  NothingLost
  CountedOnceUnlessLost
PROPERTIES
  LookupsReturn
  WorkerStops
  EventuallyReported
