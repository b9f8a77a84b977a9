SPECIFICATION TrainSpec
CONSTANTS
  Ids = {s1, s2, s3, s4}
  NoParent = NoParent
  Values <- MCValues
  NoValue = NoValue
  k1 = k1
  Keys = {k1}
  NoKey = NoKey
  InitialKeys = {NoKey}
  Children <- MCChildren
  TopK = 1
  MaxBuffer = 2
  BatchSize = 1
  PuctC = 1
  MinScale = 1
  RandomInit = FALSE
  GroupSize = 2
  MaxT = 99
  MaxStep = 3
  NoFile = NoFile
  K = 2
  NumEpochs = 3
  SaveEvery = 2
  Torn = Torn
  MaxCrash = 2
INVARIANTS TrainTypeOK InStep CheckpointUsable
PROPERTIES Spec TrainingEnds
CHECK_DEADLOCK FALSE
