\* Both modes as the project configures them (one sequence with whole prompts in
\* transfer mode; concurrent sequences, chunked prompts and fewer block tables
\* than sequences in control-flow mode), and both with everything the engine and
\* the store may do.
SPECIFICATION Spec
CONSTANTS
  Requests = {1, 2, 3}
  BlockTables = {b1, b2}
  MaxMatches = 1
  None = None
  Layers = {l1, l2}
  TransferModes = {TRUE, FALSE}
  MaxSeqs = 3
  Budget = 3
  StagingCapacity = 2
  ChunkSize = 2
  MaxOutputs = 2
  MaxPreemptions = 1
  Workloads <- AllWorkloads
INVARIANTS
  OnlyKnownFailuresRaise
  BoundToHeldBlocks
  ActiveTransferOwnsBlocks
  RolesAgree
  StoresAreComplete
  FinishedAreForgotten
PROPERTIES
  RequestsComplete
  WorkerForgets
CHECK_DEADLOCK FALSE
