\* Two loads at once, four started, two versions of a file of up to two chunks.
CONSTANTS
  Loader = {l1, l2}
  Length <- Lengths
  Chunk = 2
  None = None
  Hole = Hole
  MaxStarts = 4
  MaxFaults = 2
SPECIFICATION FairSpec
INVARIANTS PartialFits
PROPERTIES BodyWhole KeepsBytes Ends
\* When no load goes on nothing happens.
CHECK_DEADLOCK FALSE
