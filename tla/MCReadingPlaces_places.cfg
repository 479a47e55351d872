\* Two books, two places, saves that overlap, one failure, one tab that closes.
CONSTANTS
  Books = {b1, b2}
  Places = {p1, p2}
  Choices = {f1, f2}
  None = None
  MaxMoves = 3
  MaxOpens = 2
  MaxChoices = 1
  MaxFaults = 1
  MaxCloses = 1
  MaxInFlight = 2
SPECIFICATION FairSpec
INVARIANTS TypeOK LastPlaceKept  HeldIsStored
PROPERTIES AllSettle
\* When the reader is done nothing happens.
CHECK_DEADLOCK FALSE
