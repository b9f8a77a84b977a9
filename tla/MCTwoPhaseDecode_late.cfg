\* The same sequences; one stopped at step 4 gets two tokens of three.
CONSTANTS
  N = 2
  K = 2
  PromptLen = 2
  Phase1Max = 8
  ContextWindow = 14
  ContextBuffer = 1
  PrefillLen = 3
  MiEnabled = TRUE
  MinGen = 2
  CheckInterval = 2
  WrapBudget = 1

SPECIFICATION Spec

INVARIANT PrefillComplete
