\* A running request is preempted in the middle of its prompt and resumed.
SPECIFICATION Spec
CONSTANTS
  Requests = {1}
  BlockTables = {b1}
  MaxMatches = 1
  None = None
  Layers = {l1, l2}
  TransferModes = {TRUE}
  MaxSeqs = 1
  Budget = 3
  StagingCapacity = 2
  ChunkSize = 2
  MaxOutputs = 2
  MaxPreemptions = 1
  Workloads <- OnePreemption
INVARIANTS
  ResumedHandoffIsAccepted
CHECK_DEADLOCK FALSE
