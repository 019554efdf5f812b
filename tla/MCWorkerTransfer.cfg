\* Two requests, so that what one leaves behind can meet the other; close may
\* be called twice.
SPECIFICATION Spec
CONSTANTS
  Requests = {r1, r2}
  None = None
  MaxCloses = 2
INVARIANTS
  ScatteredIsRetrieved
  StoredIsGathered
  ServerMemoryIsOwned
PROPERTIES
  WorkerReturns
