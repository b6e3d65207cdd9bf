SPECIFICATION MCSpec
CONSTANTS
  TableSize = 1
  Masks <- ReadMask
  Liberties = {}
  Size = 1
  Delays <- SomeDelays
  MaxTime = 2
  MaxId = 1
  TimeLiberties = {}
  IntMax = 1
PROPERTIES
  ArmedTriggered
