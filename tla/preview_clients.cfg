SPECIFICATION FairSpec
CONSTANTS
  Frames = {f1}
  NoFrame = NoFrame
  Null = Null
  MAX_FRAME = 1
  CaptureThreads = {"capture1"}
  Clients = {"client1", "client2"}
  Callbacks = {j1}
  Surfaces = {}
  Modes = {"YUYV"}
INVARIANTS
  NoMissedFrame
  StoppedIsClean
  OnePreviewThread
PROPERTY
  QueuedFrameServed
