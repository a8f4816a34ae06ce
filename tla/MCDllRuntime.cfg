SPECIFICATION LibSpec
CONSTANTS
  a = a
  b = b
  c = c
  NoThread = NoThread
  Thread <- MCThread
INVARIANTS
  PatchedBeforeUse
  OneInstance
  NoWaitUnderLoaderLock
PROPERTIES
  ExportsReturn
