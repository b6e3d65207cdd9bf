SPECIFICATION FairSpec
CONSTANTS
  p1 = p1
  Producers = {p1, p2}
  Consumers = {c1, c2}
  Plain = {p2, c2}
  MayDetach = {p2}
  Batch <- Batches
  Limit <- Limits
  Outcome <- Outcomes
INVARIANTS
  OnePlace
  OneResult
  InOrder
PROPERTIES
  Ends
CHECK_DEADLOCK FALSE
