SPECIFICATION MCSpec
CONSTANTS
  TableSize = 2
  Masks <- ReadMask
  Liberties = {"dropPending"}
INVARIANTS
  NoStaleDispatch
