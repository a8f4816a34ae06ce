SPECIFICATION InitializeSpec
CONSTANTS
  PathLengths <- MCPathLengths
  Option <- MCOption
  Default <- MCDefault
  Files <- MCFiles
INVARIANTS
  PathWhole
  LastLineWins
  BadLinesWarned
  LogBesideConfiguration
PROPERTIES
  InitializationReports
CHECK_DEADLOCK FALSE
