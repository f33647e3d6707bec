CONSTANTS
  Sources = {stdout, stderr}
  Clients = {c1}
  Capacity = 2
  MaxLines = 4
SPECIFICATION Spec
INVARIANT TypeOK
INVARIANT GapsAreAnnounced
INVARIANT PipesStayInOrder
PROPERTY LinesReachStreams
\* The node is gone.
CHECK_DEADLOCK FALSE
