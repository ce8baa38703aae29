SPECIFICATION Spec
CONSTANTS
  Transfers = {1, 2}
  Faults = {"disconnect"}
  UserCallbacks = {TRUE}
  MAX_SEQ = 2
INVARIANT StartedFreedIsQuiet
\* The system may stop: the camera is gone and the handle closed.
CHECK_DEADLOCK FALSE
