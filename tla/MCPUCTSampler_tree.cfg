SPECIFICATION Spec
CONSTANTS
  Ids = {s1, s2, s3, s4}
  NoParent = NoParent
  Values <- MCValues
  NoValue = NoValue
  k1 = k1
  Keys = {k1}
  NoKey = NoKey
  InitialKeys = {k1, NoKey}
  Children <- MCChildren
  TopK = 2
  MaxBuffer = 3
  BatchSize = 1
  PuctC = 1
  MinScale = 1
  RandomInit = TRUE
  GroupSize = 2
  MaxT = 3
  MaxStep = 0
  NoFile = NoFile
SYMMETRY MCSymmetry
INVARIANTS TypeOK VisitsFollowLineage QCoversChildren DistinctConstructions FilesBounded
PROPERTY BestChildKept
