\* A free record, a run that fails, a write device 2 cannot read, under fairness.
CONSTANTS
  tag1 = tag1
  book1 = book1
  place1 = place1
  capture1 = capture1
  Device = {1, 2}
  Record = {tag1}
  Kind <- KindOf
  BookOf <- BookOfEach
  Writers = {1, 2}
  Skew <- NoClockAhead
  Illegible <- LastIllegible
  BatchSize = 1
  PageSize = 2
  MaxWrites = 2
  MaxFaults = 1
SPECIFICATION FairSpec
INVARIANTS TypeOK CursorAccounted VersionsAreLogged ContentMatchesVersion SameWhenQuiet
PROPERTIES EventuallySame KeepsRegisters PendingEditKept
