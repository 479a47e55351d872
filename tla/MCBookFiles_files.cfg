\* Two operations at once on two books, two files, four operations, one failure.
CONSTANTS
  Task = {t1, t2}
  Book = {b1, b2}
  File = {f1, f2}
  Coverless = {f2}
  None = None
  Torn = Torn
  MaxStarts = 4
  MaxFaults = 1
SPECIFICATION FairSpec
INVARIANTS  ShelvedOrRetired StagedInUse StraysKnown
PROPERTIES Finishes
\* A browser in which nobody starts anything is at rest.
CHECK_DEADLOCK FALSE
