CONSTANTS
  Tokens = {a}
  Images = {image}
  Pad = Pad
  ImageLength = 2
  GroupSize = 2
  NumGroups = 2
  MaxTransitions = 3
  MaxOb = 2
  MaxAc = 2
  MaxExample = 5

SPECIFICATION Spec

INVARIANTS
  SampledOnce
  WeightsOnTargets

\* The batch ends.
CHECK_DEADLOCK FALSE
