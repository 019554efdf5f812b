\* Up to two forwards of a prompt; two hashing runs over two files, each written once.
SPECIFICATION Spec
CONSTANTS
  NumLayers = 2
  BlockSize = 2
  NumBlocks = 5
  MaxContextTokens = 4
  Inputs <- SelectionInputs
  Ratios <- SweptRatios
  KvConfig <- TwoGroups
  MaxForwards = 2
  NumArtifacts = 2
  FirstContent <- TwoChunks
  Contents <- FileContents
  ClassPaths = {extension, other}
  MaxWrites = 1
  MaxHashes = 2
INVARIANTS
  OnlyPlannedRowsWritten
  ReceiptIsTrue
  AttentionReadsBlendedRows
  SelectionIsByRank
  SweepsCanBeRead
  EvidenceIsOfOneFile
  ModelHasItsBackend
CHECK_DEADLOCK FALSE
