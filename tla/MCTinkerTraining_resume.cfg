\* The streaming loop, killed once.
CONSTANTS
  Configs <- MCStream
  NumBatches = 2
  BatchSize = 2
  GroupsPerBatch = 2
  NumSubsteps = 1
  MaxOffPolicy = 0
  SaveEvery = 1
  EvalEvery = 1
  MaxRuns = 2

SPECIFICATION Spec

INVARIANT Resumable

\* A process that has ended stops.
CHECK_DEADLOCK FALSE
