SPECIFICATION ImageSpec
CONSTANTS
  Width = 3
  Headers <- MCHeaders
  ImageSizes = {0, 6}
  ModuleSizes = {5, 6}
  FileSizes = {0, 3, 7}
INVARIANTS
  NoPanic
  SectionsApart
  LaidOutAsLoaded
CHECK_DEADLOCK FALSE
