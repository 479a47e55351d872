\* A write made after the round has read the markers.
CONSTANTS
  tag1 = tag1
  book1 = book1
  place1 = place1
  capture1 = capture1
  Device = {1, 2}
  Record = {tag1}
  Kind <- KindOf
  BookOf <- BookOfEach
  Writers = {1, 2}
  Skew <- NoClockAhead
  Illegible <- AllLegible
  BatchSize = 1
  PageSize = 1
  MaxWrites = 3
  MaxFaults = 0
SPECIFICATION Spec
PROPERTIES NewerEditKept
