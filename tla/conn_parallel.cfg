\* Two workers, one plain request.
SPECIFICATION Spec
CONSTANTS
  Workers = {w1, w2}
  Peers <- OneGet
  MaxRequests = 2
  MaxBody = 3
  ReadBuf = 2
  SendCap = 2
  ErrorLen = 2
  MaxTasks = 2
  MayTimeout = FALSE
  MayHangUp = FALSE
INVARIANT WholeResponses
CHECK_DEADLOCK FALSE
