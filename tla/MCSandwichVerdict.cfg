SPECIFICATION Spec
CONSTANTS
  Blobs <- MCBlobs
  Observations <- MCObservations
  Records <- MCRecords
  MaxEvidence = 2
  MaxHistory = 2
  MaxAppended = 1
INVARIANT TypeOK
INVARIANT CitedEvidenceInWindow
INVARIANT NothingSpare
INVARIANT PassNeedsAnAnswer
INVARIANT BoundUnlessAppended
PROPERTY AppendedNeverHelps
CHECK_DEADLOCK FALSE
