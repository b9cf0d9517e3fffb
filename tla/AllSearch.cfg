CONSTANTS
  q1 = q1
  q2 = q2
  Goroutines = {g1, g2}
  Ids = {1, 2, 3, 4}
  Queries = {q1, q2}
  Width = 3
  Indexes <- MCIndexes
  NoQuery = NoQuery
  Bitmaps = {b1, b2, b3, b4, b5, b6, b7, b8, b9}
  NoBitmap = NoBitmap
  Posting = Posting
  ScanLimit = 1
  ArrayLimit = 1
SPECIFICATION Spec
SYMMETRY Symmetry
INVARIANTS TypeOK ScratchExclusive
PROPERTIES IndexSpec SearchAdvances
