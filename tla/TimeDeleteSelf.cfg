SPECIFICATION TimeSpec
CONSTANTS
  Size = 3
  Delays <- SomeDelays
  MaxTime = 3
  MaxId = 4
  TimeLiberties = {"deleteSelf"}
INVARIANTS
  LiveExact
