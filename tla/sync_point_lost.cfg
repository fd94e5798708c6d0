SPECIFICATION Spec
CONSTANTS
  NSyncobjs = 1
  Chans = {c1}
  Threads = {t1, t2}
  NoThread = NoThread
  NoChan = NoChan
  MaxSubmits = 2
  MaxPoint = 2
  CapsExpire = FALSE
INVARIANTS
  PointsRecorded
