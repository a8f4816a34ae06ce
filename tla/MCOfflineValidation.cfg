SPECIFICATION OffSpec
CONSTANTS
  jackal = jackal
  noBlinking = noBlinking
  devmode = devmode
  Patch <- MCPatch
  Order <- MCOrder
  Place <- MCPlace
  Writes <- MCWrites
  Known <- MCKnown
INVARIANTS
  ValidMeansPatchable
  FailuresFirst
  OnceIsEnough
CHECK_DEADLOCK FALSE
