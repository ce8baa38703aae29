SPECIFICATION FairSpec
CONSTANTS
  Transfers = {1, 2, 3}
  Faults = {"disconnect", "resubmit", "error", "packet"}
  UserCallbacks = {TRUE, FALSE}
  MAX_SEQ = 2
INVARIANTS FreedIsQuiet StoppedIsDrained
PROPERTIES ImplementsFeed StopReturns CallerEnds HeldFrameTaken
\* The system may stop: the camera is gone and the handle closed, or the stop
\* waits for a transfer that was lost.
CHECK_DEADLOCK FALSE
