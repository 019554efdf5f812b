\* Control-flow mode, a request that stops on its first token.
SPECIFICATION Spec
CONSTANTS
  Requests = {1}
  BlockTables = {b1}
  MaxMatches = 1
  None = None
  Layers = {l1, l2}
  TransferModes = {FALSE}
  MaxSeqs = 2
  Budget = 3
  StagingCapacity = 2
  ChunkSize = 2
  MaxOutputs = 2
  MaxPreemptions = 0
  Workloads <- OneRequest
INVARIANTS
  LateReceiptsAccepted
CHECK_DEADLOCK FALSE
