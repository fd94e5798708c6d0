SPECIFICATION FairSpec
CONSTANTS
  NSyncobjs = 2
  Chans = {c1}
  Threads = {t1, t2}
  NoThread = NoThread
  NoChan = NoChan
  MaxSubmits = 1
  MaxPoint = 0
  CapsExpire = TRUE
PROPERTIES
  CallsReturn
