SPECIFICATION FairSpec
CONSTANTS
  Main = main
  Workers = {w1}
  Messages = 2
  Capacity = 1
  MaxServers = 2
  MaxFailures = 1
  LogLiberties = {"fails"}
PROPERTIES
  Returns
CHECK_DEADLOCK FALSE
