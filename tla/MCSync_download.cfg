\* A book edited on one device and downloaded on the other.
CONSTANTS
  tag1 = tag1
  book1 = book1
  place1 = place1
  capture1 = capture1
  Device = {1, 2}
  Record = {book1}
  Kind <- KindOf
  BookOf <- BookOfEach
  Writers = {1}
  Skew <- NoClockAhead
  Illegible <- AllLegible
  BatchSize = 1
  PageSize = 1
  MaxWrites = 4
  MaxFaults = 0
SPECIFICATION Spec
PROPERTIES HeldEditAttached
