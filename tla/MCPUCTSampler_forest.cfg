SPECIFICATION Spec
CONSTANTS
  Ids = {s1, s2, s3, s4, s5}
  NoParent = NoParent
  Values <- MCFewValues
  NoValue = NoValue
  k1 = k1
  Keys = {k1}
  NoKey = NoKey
  InitialKeys = {NoKey}
  Children <- MCFewChildren
  TopK = 1
  MaxBuffer = 3
  BatchSize = 2
  PuctC = 1
  MinScale = 1
  RandomInit = FALSE
  GroupSize = 1
  MaxT = 3
  MaxStep = 0
  NoFile = NoFile
SYMMETRY MCSymmetry
INVARIANTS RootsShareVisits Rooted PicksUnrelated
PROPERTY NoDominatedPick
