SPECIFICATION Spec
CONSTANTS
  Handlers = {h1, h2}
  ConfigHandlers = {h1, h2}
  Spawned = {t1, t2}
  Jobs = {}
  Patterns = {p}
  BadPatterns = {}
  Buckets = {b}
  DefaultBucket = b
  HasConfigFile = FALSE
  IoFaults = TRUE
  None = None
SYMMETRY Symmetry
INVARIANTS
  TypeOK
  RpcBackupsSerialised
  LockDiscipline
  SuccessMeansGoodCopy
  IdleSchedulerIsLatest
