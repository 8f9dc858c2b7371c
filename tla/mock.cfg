SPECIFICATION MockSpec
CONSTANTS
  i1 = i1
  o1 = o1
  InsideListener <- OneInside
  OutsideListener <- OneOutside
  MaxListeners = 2
  MaxPosted = 2
  MaxPosts = 2
  MaxTicks = 3
INVARIANTS MockTypeOK NothingLostInward NothingLostOutward CalledFromLoop
PROPERTIES PostedReachesInside PostedReachesOutside
\* A process that ended does nothing more.
CHECK_DEADLOCK FALSE
