SPECIFICATION ScanSpec
CONSTANTS
  mark = mark
  original = original
  patched = patched
  Any = Any
  Size = 6
  MaxMeddling = 1
  Byte <- MCByte
  Sections <- MCSections
  Recipe <- MCRecipe
INVARIANTS
  FaultNeedsTaking
  OnePlaceOnly
  SecondFindsFirst
  ContextWasThere
PROPERTIES
  WritesInScope
CHECK_DEADLOCK FALSE
