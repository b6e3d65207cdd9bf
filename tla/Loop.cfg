SPECIFICATION MCSpec
CONSTANTS
  TableSize = 2
  Masks <- ReadMask
  Liberties = {}
  Size = 3
  Delays <- SomeDelays
  MaxTime = 2
  MaxId = 3
  TimeLiberties = {}
  IntMax = 1
INVARIANTS
  LiveExact
  OwnEntry
PROPERTIES
  ImplementsTimerSet
  NoOversleep
  NoEndlessSleep
  DueTimerFires
  PendingServed
  StopLeaves
