SPECIFICATION ImportSpec
CONSTANTS
  main = main
  a = a
  b = b
  none = none
  Key <- AllKeys
  Main = main
  Stored <- StoredKeys
  MaxArgs = 2
INVARIANTS ImportTypeOK ImportedOnce ListsMatchStack
