SPECIFICATION WorkerSpec
CONSTANTS
  l1 = l1
  h1 = h1
  Listener <- OneListener
  Handler <- OneHandler
  MaxListeners = 1
  MaxHandlers = 1
  MaxTasks = 1
  MaxPosts = 2
  MaxPosted = 2
  MaxTerminates = 2
INVARIANTS WorkerTypeOK TerminatedAfterEarlierPosts HeldIsActive TerminatedHoldsNothing
PROPERTIES InwardChannel OutwardChannel
PROPERTIES PostedIsTakenIn TerminateTakesEffect PostedOutIsDispatched
\* A crashed enclave and a process that ended do nothing more.
CHECK_DEADLOCK FALSE
