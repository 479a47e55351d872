\* Three calls, up to two openings, one cancel, one worker that dies.
CONSTANTS
  Call = {c1, c2, c3}
  None = None
  MaxOpenings = 2
  MaxCancels = 1
  MaxFaults = 1
SPECIFICATION FairSpec
INVARIANTS PendingServed OneWorker HandedOut
PROPERTIES KeepsPromise Answered
\* When all calls are answered nothing happens.
CHECK_DEADLOCK FALSE
