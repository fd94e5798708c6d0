SPECIFICATION Spec
CONSTANTS
  Scenarios <- AllScenarios
  Queries <- AllQueries
  Alias <- Aliases
  Vas = {v1, v2, v3}
  Mems = {m1, m2}
  NoMem = NoMem
  MemSize = 10
  BindAlign = 2
  Tile = 2
  BindUnits = {1, 3, 5}
  MaxBinds = 2
SYMMETRY Symmetry
INVARIANTS
  TypeOK
  RangesAccounted
  BindingsSound
  RequirementsCover
  QueriesKept
PROPERTIES
  ImplementsBacking
