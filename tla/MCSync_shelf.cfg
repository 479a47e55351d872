\* A book, its reading position and a capture of it, with a run that fails.
CONSTANTS
  tag1 = tag1
  book1 = book1
  place1 = place1
  capture1 = capture1
  Device = {1, 2}
  Record = {book1, capture1, place1}
  Kind <- KindOf
  BookOf <- BookOfEach
  Writers = {1, 2}
  Skew <- NoClockAhead
  Illegible <- AllLegible
  BatchSize = 2
  PageSize = 2
  MaxWrites = 2
  MaxFaults = 1
SPECIFICATION Spec
INVARIANTS OrderedAccounted 
