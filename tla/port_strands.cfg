SPECIFICATION PortSpec
CONSTANTS
  l1 = l1
  l2 = l2
  Listener <- TwoListeners
  MaxMessages = 3
  MaxListeners = 2
INVARIANT NoneStranded
