CONSTANTS
  AccountIds = {a}
  TransferIds = {x, y}
  Copies = 2
  SlotCount = 2
  Blocks = 11
  MaxOps = 3
  MaxCheckpoints = 3
  Limits = {1}
  Cutoffs = {2}
  MaxPages = 3
SPECIFICATION Spec
INVARIANTS
  TypeOK
  NothingIsMissed
  NothingIsInvented
  SteadyFilesAreReadable
  PagesAddUp
CHECK_DEADLOCK FALSE
SYMMETRY Symmetry
