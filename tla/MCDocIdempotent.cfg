SPECIFICATION Spec
CONSTANTS
  Documents <- fewDocuments
  Pieces <- fewPieces
  Headings = {"A"}
  MaxDisturbances = 2
INVARIANT
  Idempotent
