SPECIFICATION Spec
CONSTANTS
  NSyncobjs = 1
  Chans = {c1, c2}
  Threads = {t1, t2}
  NoThread = NoThread
  NoChan = NoChan
  MaxSubmits = 3
  MaxPoint = 1
  CapsExpire = TRUE
SYMMETRY Symmetry
INVARIANTS
  FenceOfOwnWork
PROPERTIES
  WaitSound
  QuerySound
