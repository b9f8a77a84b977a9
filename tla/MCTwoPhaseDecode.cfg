\* Checks at 2 and 4 of 6 thinking tokens: stopped at 2, prefill and wrap-up
\* just fit; stopped at 4, the prefill is cut.
CONSTANTS
  N = 3
  K = 2
  PromptLen = 2
  Phase1Max = 8
  ContextWindow = 14
  ContextBuffer = 1
  PrefillLen = 3
  MiEnabled = TRUE
  MinGen = 2
  CheckInterval = 2
  WrapBudget = 1

SPECIFICATION Spec

INVARIANTS
  DecodeTypeOK
  CacheFollowsTokens
  MaskIsSampled
  AdapterKept
  PrefillLocated

PROPERTIES
  EachAlone
