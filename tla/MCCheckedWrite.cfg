SPECIFICATION WriteSpec
CONSTANTS
  border = border
  code = code
  data = data
  original = original
  patched = patched
  junk = junk
  Target <- MCTarget
  Page <- MCPage
  Span <- MCSpan
  Bytes <- MCBytes
  Expected <- MCExpected
  Replacement <- MCReplacement
  PageStates <- MCPageStates
INVARIANTS
  TypeOK
  CrashNeedsMeddling
  ProtectionComesBack
  CodeStaysExecutable
  HonestResult
PROPERTIES
  NoBlindOverwrite
  KeepsPromise
CHECK_DEADLOCK FALSE
