SPECIFICATION FairSpec
CONSTANTS
  N = 2
  MAX_DRAIN = 2
  MAX_FRAMES = 2
INVARIANT OnlyMissingCodecCrashes
PROPERTIES KeepsMovieFile StopEnds
\* The recording stops when its threads have ended, or wait for ever.
CHECK_DEADLOCK FALSE
