\* Two tabs, runs of the scheduler and of the user, one outage.
CONSTANTS
  Tab = {tab1, tab2}
  UserTabs = {tab1}
  MaxChanges = 1
  MaxOutages = 1
SPECIFICATION FairSpec
INVARIANTS Awake OneRun
PROPERTIES AskedStarts Served
