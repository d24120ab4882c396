\* A worker, two connections, two signals on any thread.
SPECIFICATION FairSpec
CONSTANTS
  Main = Main
  NoThread = NoThread
  NoClient = NoClient
  Listener = Listener
  Workers = {w1}
  Clients = {c1, c2}
  Victims = {Main, w1}
  MaxSignals = 2
INVARIANTS TypeOK MembersOutliveWorkers NothingOpen QuietAfterStop
PROPERTY StopCompletes
CHECK_DEADLOCK FALSE
