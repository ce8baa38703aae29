SPECIFICATION Spec
CONSTANTS
  Devices = {d1}
  Wanted = {d1}
  Ids = {1, 2, 3}
  Faults = {}
  MAX_LOST = 0
  None = None
  MAX_QUEUE = 0
INVARIANT CloneIsApart
\* The monitor may be destroyed.
CHECK_DEADLOCK FALSE
