SPECIFICATION EnclaveSpec
CONSTANTS
  h1 = h1
  h2 = h2
  Handler <- TwoHandlers
  MaxMessages = 1
  MaxTasks = 1
  MaxHandlers = 1
  MaxPosts = 0
INVARIANT StackBalanced
CHECK_DEADLOCK FALSE
