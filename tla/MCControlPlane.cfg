\* One request, two block tables, one match, two preemptions: late receipts
\* of two earlier generations can meet the third.
SPECIFICATION Spec
CONSTANTS
  Requests = {r1}
  BlockTables = {b1, b2}
  MaxMatches = 1
  MaxGen = 2
  None = None
SYMMETRY Symmetry
INVARIANTS
  PlanesConsistent
  ReceiptIsCurrent
  WorkerNeverAhead
  OneAllocationPerGeneration
PROPERTIES
  ImplementsLedger
CHECK_DEADLOCK FALSE
