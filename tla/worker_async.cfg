SPECIFICATION WorkerSpec
CONSTANTS
  l1 = l1
  h1 = h1
  Listener <- OneListener
  Handler <- OneHandler
  MaxListeners = 1
  MaxHandlers = 1
  MaxTasks = 0
  MaxPosts = 1
  MaxPosted = 1
  MaxTerminates = 1
\* A crashed enclave and a process that ended do nothing more.
CHECK_DEADLOCK FALSE
INVARIANT RunsAsynchronously
