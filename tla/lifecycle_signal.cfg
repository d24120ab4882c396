\* The kernel interrupts main, which it prefers.
SPECIFICATION FairSpec
CONSTANTS
  Main = Main
  NoThread = NoThread
  NoClient = NoClient
  Listener = Listener
  Workers = {w1}
  Clients = {c1}
  Victims = {Main}
  MaxSignals = 1
PROPERTY HandlerReturns
CHECK_DEADLOCK FALSE
