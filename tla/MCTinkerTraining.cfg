\* Two batches of two groups, two runs of the process.
CONSTANTS
  Configs <- MCAllLoops
  NumBatches = 2
  BatchSize = 2
  GroupsPerBatch = 2
  NumSubsteps = 1
  MaxOffPolicy = 0
  SaveEvery = 1
  EvalEvery = 1
  MaxRuns = 2

SPECIFICATION Spec

INVARIANTS
  TinkerTypeOK
  OffPolicyBounded
  InOnePlace
  InStep
  SyncResumable

PROPERTIES
  TrainingEnds

\* A process that has ended or failed for good stops; so does the asynchronous
\* loop once a constant group is dropped.
CHECK_DEADLOCK FALSE
