SPECIFICATION Spec
CONSTANTS
  Tables <- OneTable
  Mems = {m1, m2, m3, m4}
  NoMem = NoMem
  MaxCount = 2
  MaxSubmits = 2
  MaxUploads = 2
  Drains = {TRUE, FALSE}
SYMMETRY Symmetry
INVARIANTS
  TypeOK
  RefsExact
  TablesUsable
  UploadsOrdered
  SignalsAfterWork
