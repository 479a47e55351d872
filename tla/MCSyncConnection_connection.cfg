\* One tab, two devices, three changes read one at a time, a run that fails.
CONSTANTS
  Tab = {tab1}
  PageSize = 1
  MaxLog = 3
  MaxFaults = 1
  MaxDevices = 2
SPECIFICATION FairSpec
INVARIANTS CursorApplied
PROPERTIES CatchesUp
