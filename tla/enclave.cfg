SPECIFICATION EnclaveSpec
CONSTANTS
  h1 = h1
  h2 = h2
  Handler <- TwoHandlers
  MaxMessages = 2
  MaxTasks = 3
  MaxHandlers = 3
  MaxPosts = 1
INVARIANTS EnclaveTypeOK ResourcesMatchState SnapshotDelivered TasksInOrder TasksDrained
PROPERTIES UsedOnce TasksRun
\* A crashed enclave answers no ECALL.
CHECK_DEADLOCK FALSE
