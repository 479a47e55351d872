\* Two tabs, three builds, two visits, one check by hand or failed install.
CONSTANTS
  t1 = t1
  t2 = t2
  Tab = {t1, t2}
  MaxBuild = 3
  MaxVisits = 2
  MaxExtras = 1
SPECIFICATION FairSpec
INVARIANTS WaitingOffered ShellWhole
PROPERTIES ReloadsAsked ApplyEnds NewestOffered
CHECK_DEADLOCK FALSE
