CONSTANTS
  Threads = {creator, pager}
  Pager = pager
  Ids = {1, 2, 3, 4}
  EventLists <- MCEventLists
  Filters <- MCFilters
  PagingFilters <- MCPagingFilters
  InitialLedgers <- MCInitialLedgers
  MaxRequests = 3
  Calls = 1
  BatchMax = 3
  ResultMax = 2
  SizeLimit = 8
  Callers = {th1, th2}
  Randoms = 3
  MsLimit = 4
  MaxIds = 4
  NoGenerator = NoGenerator
SPECIFICATION LibrarySpec
INVARIANT TypeOK
INVARIANT AnswersAreTrue
INVARIANT ReclaimedOnce
INVARIANT NobodyPanics
INVARIANT PagesHaveNoGaps
INVARIANT EverythingIsPaged
INVARIANT IdTypeOK
INVARIANT IdsIncrease
PROPERTY ClosingEnds
\* The program is over once the client is closed.
CHECK_DEADLOCK FALSE
