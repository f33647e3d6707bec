SPECIFICATION LiveSpec
CONSTANTS
  a = a
  b = b
  c = c
  Calls = {c1, c2}
  Sources <- MCSources
  Cutoffs = {0, 20}
  BatchSize = 1
  ProgressCapacity = 1
  None = None
INVARIANTS
  NothingCountsTwice
  SuccessMeansImported
PROPERTIES
  PromiseKept
  JobsEnd
CHECK_DEADLOCK FALSE
