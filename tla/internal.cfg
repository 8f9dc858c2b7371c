SPECIFICATION InternalSpec
CONSTANTS
  w1 = w1
  w2 = w2
  w3 = w3
  Worker <- ThreeWorkers
  MaxDepth = 6
SYMMETRY Symmetric
INVARIANTS InternalTypeOK OcallReachesItsWorker EntryIsOwn IdsAreCurrent NothingLeaked
\* A thread that waits for itself does nothing more.
CHECK_DEADLOCK FALSE
