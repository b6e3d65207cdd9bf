SPECIFICATION FairSpec
CONSTANTS
  p1 = p1
  Producers = {p1}
  Consumers = {c1, c2}
  Plain = {p1, c1, c2}
  MayDetach = {}
  Batch <- Batches
  Limit <- Limits
  Outcome <- Outcomes
PROPERTIES
  Executed
CHECK_DEADLOCK FALSE
