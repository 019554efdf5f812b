\* Two ordinary requests and one that is too large, three transports, two
\* preemptions.
SPECIFICATION Spec
CONSTANTS
  Requests = {r1, r2, r3}
  TooLarge = {r3}
  MaxTransports = 3
  MaxPreemptions = 2
  None = None
SYMMETRY Symmetry
INVARIANTS
  TransportsOwned
PROPERTIES
  FailsClosed
  LookupIsStable
