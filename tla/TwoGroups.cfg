CONSTANTS
  q1 = q1
  Goroutines = {g1}
  Ids = {1, 2, 3, 4, 5, 6}
  Queries = {q1}
  Width = 4
  Indexes <- MCIndexes
  NoQuery = NoQuery
  Bitmaps = {b1, b2, b3, b4, b5, b6, b7}
  NoBitmap = NoBitmap
  Posting = Posting
  ScanLimit = 1
  ArrayLimit = 2
SPECIFICATION Spec
INVARIANT AnswersExact
