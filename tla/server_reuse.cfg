\* Two clients, and a limit that is never reached.
SPECIFICATION Spec
CONSTANTS
  NoClient = NoClient
  Listener = Listener
  Workers = {w1, w2}
  Clients = {c1, c2}
  Fds = {1, 2}
  MaxConnections = 2
  MayTimeout = FALSE
  MayFail = FALSE
SYMMETRY MCSymmetry
PROPERTY WaitingIsNotClosed
CHECK_DEADLOCK FALSE
