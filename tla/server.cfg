\* Three descriptor numbers and a limit of two for three clients: numbers are
\* reused and the limit is reached.
SPECIFICATION Spec
CONSTANTS
  NoClient = NoClient
  Listener = Listener
  Workers = {w1, w2}
  Clients = {c1, c2, c3}
  Fds = {1, 2, 3}
  MaxConnections = 2
  MayTimeout = TRUE
  MayFail = TRUE
SYMMETRY MCSymmetry
INVARIANTS TypeOK ConnectionLimit CounterCovers OpenIsMapped BacklogServed
PROPERTY ClosedForCause
CHECK_DEADLOCK FALSE
