SPECIFICATION Spec
CONSTANTS
  Transfers = {1, 2}
  Faults = {"caught"}
  UserCallbacks = {FALSE}
  MAX_SEQ = 2
INVARIANT PollersCancelled
\* A poller caught in a handle that is freed under it goes no further.
CHECK_DEADLOCK FALSE
