SPECIFICATION FairSpec
CONSTANTS
  MaxImages = 3
  Chains = {a}
  NoChain = NoChain
  CapsExpire = FALSE
  Liberties <- None
INVARIANTS
  TypeOK
  NoTearing
  SlotsAccounted
PROPERTIES
  AcquireExclusive
  PresentReturns
