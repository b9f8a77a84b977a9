SPECIFICATION PipeSpec
CONSTANTS
  t1 = t1
  t2 = t2
  Tasks = {t1, t2}
  LastRank = 2
  Concurrency = 1
  DataLen <- MCDataLen
  MiniBatch = 2
  Accumulate = 3
  NumEpochs = 2
  InOrder = TRUE
INVARIANT AdapterAttached
CHECK_DEADLOCK FALSE
