SPECIFICATION FairSpec
CONSTANTS
  Devices = {d1, d2}
  Wanted = {d1}
  Ids = {1, 2, 3, 4}
  Faults = {"open"}
  MAX_LOST = 0
  None = None
  MAX_QUEUE = 0
INVARIANTS TypeOK ConnectionsOwned OneCheck
PROPERTIES Announced LastWord DetachCloses
\* The monitor may be destroyed.
CHECK_DEADLOCK FALSE
