\* One worker (thread_pool_size = 1), clients that wait for each
\* response or pipeline, in plaintext or over TLS.
SPECIFICATION FairSpec
CONSTANTS
  Workers = {w1}
  Peers <- SerialPeers
  MaxRequests = 2
  MaxBody = 1
  ReadBuf = 2
  SendCap = 2
  ErrorLen = 3
  MaxTasks = 1
  MayTimeout = TRUE
  MayHangUp = TRUE
INVARIANTS TypeOK WholeResponses RequestLimit BoundedBody
PROPERTIES CloseJustified Answered Secured ImplementsExchange
CHECK_DEADLOCK FALSE
