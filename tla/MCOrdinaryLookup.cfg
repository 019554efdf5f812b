\* One engine; the sidecar's bucket limit is out of reach.
SPECIFICATION Spec
CONSTANTS
  Namespaces = {n1}
  Documents <- StoredDocuments
  Prompts <- LookedUpPrompts
  ChunkSize = 2
  HashBase = 3
  IndexLimit = 4
  BucketLimit = 4
  Jobs = {j1, j2}
  MaxLookups = 1
  None = None
  Over = Over
INVARIANT OrdinaryLookupsSucceed
