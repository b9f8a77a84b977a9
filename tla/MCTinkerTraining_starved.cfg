\* The asynchronous loop, without a crash.
CONSTANTS
  Configs <- MCAsync
  NumBatches = 2
  BatchSize = 2
  GroupsPerBatch = 2
  NumSubsteps = 1
  MaxOffPolicy = 0
  SaveEvery = 1
  EvalEvery = 1
  MaxRuns = 1

SPECIFICATION Spec

PROPERTY BatchesArrive

\* All loops may come to wait for one another.
CHECK_DEADLOCK FALSE
