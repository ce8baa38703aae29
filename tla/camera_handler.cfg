SPECIFICATION FairSpec
CONSTANTS
  Users = {u1}
  Recordings = {r1, r2}
  EncoderTypes = {"surface", "buffer"}
  Faults = {"prepare", "collected"}
  None = None
  MAX_QUEUE = 1
INVARIANTS CameraAlive PreviewKnown RecordingOwned RecordingHasCamera EndsStopped WokenAfterStop
PROPERTIES StopAnswered ReleaseEnds
\* The system stops after release.
CHECK_DEADLOCK FALSE
