SPECIFICATION Spec
CONSTANTS
  Frames = {f1, f2, f3, f4}
  NoFrame = NoFrame
  Null = Null
  MAX_FRAME = 1
  CaptureThreads = {"capture1"}
  Clients = {"client1"}
  Callbacks = {}
  Surfaces = {s1}
  Modes = {"MJPEG"}
VIEW ShapeView
INVARIANT
  FrameOwnedOnce
PROPERTY
  LeakOnlyWhenStopped
\* The program crashes when there is no memory for a decoded picture.
CHECK_DEADLOCK FALSE
