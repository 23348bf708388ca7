\* The dispatcher and the database thread, two writes and one loss of the
\* session; no symmetry, because of the liveness property.
\* Batches of rows from one byte to as long as a statement may be.
CONSTANTS
  Threads = {t1, t2}
  Writes = {w1, w2}
  MaxLosses = 1
  None = none
  MaxPacket = 5
  QueryLength = 2
  MaxRow = 5
  MaxRows = 4
SPECIFICATION PartSpec
INVARIANTS
  AnswerIsKept
  RowsInserted
PROPERTY QueriesReturn
