\* Two engines store and look up two documents that share a chunk, through a
\* matcher that has no room for all three of their chunks.
SPECIFICATION Spec
CONSTANTS
  Namespaces = {n1, n2}
  Documents <- StoredDocuments
  Prompts <- LookedUpPrompts
  ChunkSize = 2
  HashBase = 3
  IndexLimit = 2
  BucketLimit = 2
  Jobs = {j1, j2}
  MaxLookups = 1
  None = None
  Over = Over
INVARIANTS
  LoadedIsVerified
  RecordsDescribeObjects
  PublicationIsAtomic
  StoredIsFindable
SYMMETRY Symmetry
