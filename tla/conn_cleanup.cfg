\* Two workers on the same connection, everything may happen.
SPECIFICATION FairSpec
CONSTANTS
  Workers = {w1, w2}
  Peers <- MixedPeers
  MaxRequests = 2
  MaxBody = 3
  ReadBuf = 2
  SendCap = 1
  ErrorLen = 1
  MaxTasks = 1
  MayTimeout = TRUE
  MayHangUp = TRUE
INVARIANT OpenIsRegistered
PROPERTY Unregistered
CHECK_DEADLOCK FALSE
