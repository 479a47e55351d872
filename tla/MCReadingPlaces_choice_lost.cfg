\* One book, one move, one setting.
CONSTANTS
  Books = {b1}
  Places = {p1, p2}
  Choices = {f1, f2}
  None = None
  MaxMoves = 1
  MaxOpens = 1
  MaxChoices = 1
  MaxFaults = 0
  MaxCloses = 0
  MaxInFlight = 2
SPECIFICATION FairSpec
INVARIANTS ChoiceKept
CHECK_DEADLOCK FALSE
