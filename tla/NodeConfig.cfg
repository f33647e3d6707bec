SPECIFICATION Spec
CONSTANTS
  Handlers = {h1}
  ConfigHandlers = {h1}
  Spawned = {t1}
  Jobs = {}
  Patterns = {p}
  BadPatterns = {}
  Buckets = {b, d}
  DefaultBucket = b
  HasConfigFile = TRUE
  IoFaults = TRUE
  None = None
INVARIANTS
  AckedConfigIsInForce
