SPECIFICATION Spec
CONSTANTS
  Handlers = {h1}
  ConfigHandlers = {h1}
  Spawned = {t1}
  Jobs = {}
  Patterns = {p}
  BadPatterns = {}
  Buckets = {b}
  DefaultBucket = b
  HasConfigFile = TRUE
  IoFaults = FALSE
  None = None
INVARIANTS
  ScheduleSurvivesRestarts
