SPECIFICATION RunSpec
CONSTANTS
  single = single
  multi = multi
  t1 = t1
  t2 = t2
  t3 = t3
  original = original
  patched = patched
  junk = junk
  Bytes <- MCBytes
  Expected <- MCExpected
  Replacement <- MCReplacement
  Patch <- MCPatch
  Order <- MCOrder
  MaxDisturbed = 1
  Target <- MCTarget3
  Writes <- MCWrites3
INVARIANTS
  ReportComplete
PROPERTIES
  PlansComeFirst
  FailureUndone
  SuccessMeansPatched
  RunTerminates
  PatchesAreAtomic
CHECK_DEADLOCK FALSE
