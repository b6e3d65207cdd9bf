SPECIFICATION MCSpec
CONSTANTS
  TableSize = 2
  Masks <- ReadMask
  Liberties = {"dropInReady"}
INVARIANTS
  NoneReadyWhenNoneMonitored
