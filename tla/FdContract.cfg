SPECIFICATION MCSpec
CONSTANTS
  TableSize = 3
  Masks <- AllMasks
  Liberties = {}
INVARIANTS
  ReadyExact
  CountExact
  CallbackSet
  OncePerScan
PROPERTIES
  PendingCalled
  DeletedForgotten
