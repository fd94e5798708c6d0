SPECIFICATION Spec
CONSTANTS
  MaxImages = 2
  Chains = {a, b}
  NoChain = NoChain
  CapsExpire = FALSE
  Liberties <- Retire
INVARIANTS
  CurrentRegistered
