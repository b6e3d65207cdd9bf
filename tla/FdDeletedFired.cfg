SPECIFICATION MCSpec
CONSTANTS
  TableSize = 2
  Masks <- AllMasks
  Liberties = {}
PROPERTIES
  OnlyMonitoredCalled
