SPECIFICATION GearSpec
CONSTANTS
  a = a
  b = b
  Thread <- MCThread
  MaxDestructions = 2
INVARIANTS
  ReturnedLives
  OnePart
  PartsFreed
  NoSentinel
