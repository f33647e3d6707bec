SPECIFICATION FairSpec
CONSTANTS
  Handlers = {h1}
  ConfigHandlers = {h1}
  Spawned = {t1}
  Jobs = {j1}
  Patterns = {p, q}
  BadPatterns = {q}
  Buckets = {b}
  DefaultBucket = b
  HasConfigFile = FALSE
  IoFaults = FALSE
  None = None
PROPERTIES
  BackupLockComesFree
  SchedulerConverges
  StopSilencesCron
