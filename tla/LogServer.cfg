SPECIFICATION FairSpec
CONSTANTS
  Main = main
  Workers = {w1}
  Messages = 3
  Capacity = 2
  MaxServers = 2
  MaxFailures = 2
  LogLiberties = {}
INVARIANTS
  OneServer
  Usable
  InOrder
PROPERTIES
  Written
  Returns
  UsesLogFile
CHECK_DEADLOCK FALSE
