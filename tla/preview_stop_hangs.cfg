SPECIFICATION FairSpec
CONSTANTS
  Frames = {f1, f2}
  NoFrame = NoFrame
  Null = Null
  MAX_FRAME = 1
  CaptureThreads = {"capture1"}
  Clients = {"client1"}
  Callbacks = {}
  Surfaces = {}
  Modes = {"YUYV"}
PROPERTY
  StopReturns
