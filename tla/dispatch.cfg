\* One worker, and a process that replaces and removes the files it serves.
SPECIFICATION Spec
CONSTANTS
  Workers = {w1}
  Requests <- MCRequests
  Tables <- MCTables
  Chains <- MCChains
  Files <- MCFiles
  Directories <- MCDirectories
  SizeOf <- MCSizeOf
  ModifiedAt <- MCModifiedAt
  JsonLength = 3
  GzipLengths = {1}
  MaxVersion = 4
  BitXor <- MCBitXor
INVARIANTS TypeOK Framed NotModifiedIsFresh RoutedAsMeant Hardened
CHECK_DEADLOCK FALSE
