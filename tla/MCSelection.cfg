\* Three ranges over four positions with two keys: chains of touching ranges,
\* nested and equal ranges, and duplicates, verified or not.
SPECIFICATION LookupSpec
CONSTANTS
  MaxPosition = 4
  MaxCandidates = 3
  Keys = {1, 2}
  PromptTokens = 4
  NoPlan = NoPlan
  Responses <- MCResponses
INVARIANTS
  SelectionIsBest
  PlansAreAccountable
CHECK_DEADLOCK FALSE
