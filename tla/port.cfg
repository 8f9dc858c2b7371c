SPECIFICATION PortSpec
CONSTANTS
  l1 = l1
  l2 = l2
  Listener <- TwoListeners
  MaxMessages = 3
  MaxListeners = 3
INVARIANTS PortTypeOK ExactlyOnce HeardInOrder StrandedOnlyByThrow
PROPERTY QueuedIsHeard
