SPECIFICATION FairSpec
CONSTANTS
  c1 = c1
  small = small
  large = large
  None = None
  Jobs <- MCJobs
  Batch <- MCBatch
  Clients = {c1}
  Hurried = {c1}
  Limit = 2
INVARIANTS ReturnedStaysTrue SmallBatchIsOver
PROPERTIES WaitEnds
