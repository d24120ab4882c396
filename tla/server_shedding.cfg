\* A limit of one connection.
SPECIFICATION FairSpec
CONSTANTS
  NoClient = NoClient
  Listener = Listener
  Workers = {w1}
  Clients = {c1, c2, c3}
  Fds = {1, 2, 3}
  MaxConnections = 1
  MayTimeout = FALSE
  MayFail = FALSE
PROPERTY AcceptedOrShed
CHECK_DEADLOCK FALSE
