SPECIFICATION CpuSpec
CONSTANTS
  W = 4
  Processors = {0, 1, 2, 3, 6}
  Rates = {1, 3, 4}
  DefaultRate = 2
  Million = 4
  FreqBits = 4
INVARIANTS
  ProcessorsCounted
  ThreadReleased
PROPERTIES
  DetectionEnds
CHECK_DEADLOCK FALSE
