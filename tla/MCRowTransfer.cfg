\* Three requests, at most two of which hold blocks at a time.
SPECIFICATION Spec
CONSTANTS
  NumLayers = 2
  BlockSize = 2
  NumBlocks = 13
  ChunkSize = 2
  Capacity = 4
  KvCacheConfigs <- OfferedConfigs
  Prompts <- ServedPrompts
  Allocations <- OfferedAllocations
  MaxRequests = 3
INVARIANTS
  LoadedRowsAreCorrected
  ForeignRowsUntouched
  StoredRowsAreComputed
  EvidenceIsTrue
