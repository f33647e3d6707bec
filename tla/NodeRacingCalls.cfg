SPECIFICATION Spec
CONSTANTS
  Handlers = {h1, h2}
  ConfigHandlers = {h1, h2}
  Spawned = {t1}
  Jobs = {}
  Patterns = {p}
  BadPatterns = {}
  Buckets = {b}
  DefaultBucket = b
  HasConfigFile = TRUE
  IoFaults = FALSE
  None = None
INVARIANTS
  FileHoldsSchedule
