SPECIFICATION FairSpec
CONSTANTS
  Requests = {q1, q2, q3}
  Callers = {c1, c2}
  SurfaceCallers = {c1}
  FrameCallers = {c1}
  HolderCallers = {c2}
  Ids = {1}
  None = None
  MAX_IN_USE = 0
INVARIANT RequestOwnedOnce
PROPERTIES SurfaceCallReturns RemovedWhenReturned StillReturns ReleaseReturns CaptureEnds
\* The system stops when the renderer is released.
CHECK_DEADLOCK FALSE
