SPECIFICATION Spec
CONSTANTS
  Documents <- mcDocuments
  Pieces <- mcPieces
  Headings = {"A"}
  MaxDisturbances = 2
INVARIANTS
  TypeOK
  TwoRebuildsSettle
  CheckTellsTheTruth
  EveryDocumentListed
PROPERTY
  RebuildsSettle
