SPECIFICATION Spec
CONSTANTS
    Requests <- MCRequests
    PromptTokens <- MCPromptTokens
    Scripts <- MCScripts
    Others <- MCOthers
    Cached <- MCCached
    MaxOthers = 1
    ReusableTokens = 2
    Chunk = 2
    Capacity = 4
    MaxRestarts = 1
INVARIANTS
    CountersConserve
    EvidenceIsOfTarget
    RefusesOnlyForCause
