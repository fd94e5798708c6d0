SPECIFICATION Spec
CONSTANTS
  NBos = 4
  NChannels = 2
  NPages = 2
  MaxSize = 2
  MaxOpen = 2
  Threads = {t1, t2}
  NoThread = NoThread
  ClientLeaks = FALSE
SYMMETRY Symmetry
INVARIANTS
  TypeOK
  InternalBosOwned
  KernelObjectsMatch
  WorkOnBoundEngines
PROPERTIES
  ImplementsGpuVm
