# TLA+ models of LibUVCCameraDemo

A verification project for the USB camera library of this repository
(`src/libuvccamera`): TLA+ modules of its concurrent core, TLC runs on small
instances, and TLAPS proofs for all instances.  `PROJECT.json` lists every
run, the source lines of every definition, the findings and the hazards.

Paths below are relative to `src/libuvccamera/src/main/`; `jni/` is the native
code, `java/` stands for `java/com/serenegiant/`.

## 1. The system

A camera frame goes this way:

    camera -> libusb event thread -> libuvc stream handle -> callback thread
           -> UVCPreview queue -> preview thread -> window
                                               \-> capture thread -> movie
                                                   window or Java callback
           -> Java: renderer, encoders, muxer

and a command the other way: user's thread -> handler messages -> camera thread
-> UVCCamera.java -> JNI -> UVCCamera.cpp -> UVCPreview / libuvc.

| Component | State | Operations | Interacts with | What is hard |
|---|---|---|---|---|
| UVCPreview (`jni/UVCCamera/UVCPreview.cpp`, `objectarray.h`) | running and capturing flags, frame pool, preview queue, capture slot, windows, Java callback, three mutexes with condition variables | setPreviewSize, setPreviewDisplay, setFrameCallback, startPreview, stopPreview, setCaptureDisplay; stream callback; preview and capture threads | libuvc calls the stream callback; the capture thread calls Java | flags read without the mutex, single waits, signals without the mutex, frames handed over four threads |
| libuvc stream handle (`jni/libuvc/src/stream.c`) | running, transfers, working and held buffer with sequence numbers, callback thread | start, stop, close, poll; stream callback of libusb | libusb's event thread; the user's callback | transfers that outlive the handle, disconnect, failing submissions, unlocked reads |
| libuvc device and context (`device.c`, `init.c`) | open devices, reference counts, claimed interfaces, handler thread, kill flag, status transfer | uvc_open, uvc_close, uvc_ref/unref_device, uvc_exit | stream handle, libusb | the handler thread ends with the last device; status transfer against close |
| libuvc controls (`ctrl.c`, `diag.c`), conversions (`frame.c`, `frame-mjpeg.c`) | none | getters, setters; pixel formats | device | none that interleaves |
| UVCCamera native (`UVCCamera.cpp`, status and button callback) | context, device handle, preview, callback objects, control ranges | connect, release, controls | all native parts | order of destruction in release |
| UVCCamera.java | native pointer, control block | open, close, startPreview, stopPreview, startCapture, ... | camera handler, JNI | monitor of the object |
| USBMonitor (`java/usb/USBMonitor.java`) | control blocks, permissions, device counts, handler thread | register, unregister, requestPermission, openDevice, destroy; broadcasts | system broadcasts, listener | attach, permission and detach events out of order |
| Camera handler (`java/usbcameracommon/*`) | message queue of the camera thread, camera, muxer, previewing and recording flags | open, close, startPreview, stopPreview, startRecording, release | UVCCamera.java, encoders | waits of the user's thread for answers of the camera thread |
| Encoders and muxer (`java/encoder/*`) | request counters, EOS flags, started counts | prepare, start, stop, frameAvailableSoon, drain | codec, muxer | start barrier, end of stream, lost notifications |
| Renderer (`java/glutils/*`) | request queue and pool, client surfaces, capture task | offer, offerAndWait, addSurface, removeSurface, release | camera handler, EGL | pooled requests, release against pending requests |
| Proxy and service (`java/proxy`, `java/service`) | messengers, camera handler of each side | messenger messages | USBMonitor, camera handler | messages before the client is known |
| Pipelines (`jni/UVCCamera/pipeline`) | - | - | - | not built |
| Vendored (`jni/libusb`, libjpeg-turbo, rapidjson), widgets, demo app | - | - | - | outside the core |

What makes each component correct:

* UVCPreview: a frame has one owner at any time; nothing is lost while
  previewing; nobody sleeps on work; stopping ends all threads and leaves no
  stale picture; an object given by the client (window, callback) is not
  released while in use.
* Stream handle: freed only when no transfer and no thread, pollers included,
  uses it; stop ends; frames reach the user once, in order, whole.
* Device: what connect acquired is given back, whatever fails; nothing uses a
  freed handle; release ends; a status event is handled.
* Camera handler: every wait of the user's thread is answered; preview and
  recording flags match what the camera does.
* Encoders: the muxer is started and stopped once, after and before all
  encoders; every recording ends.
* Renderer: every offerAndWait gets its own result; release ends the thread
  and every pending wait.
* USBMonitor: a device is announced, and its end told last; a connection is
  closed by who holds it, and a clone is no business of the monitor's.

## 2. Plan

Done, with their proofs: `FramePool` and `UVCPreview`; `UvcStream`, refining
`FrameFeed`; `CameraHandler`; `MessageTask` and `RendererHolder`;
`MediaRecording`, refining `MovieFile`; `UsbMonitor`; `UvcDevice`.

Left, most important first:

1. The still capture of the camera handler, and with it
   `UVCCameraHandlerMultiSurface`, whose monitor guards the renderer: its posted
   still capture takes the monitor on the camera thread while `release` holds it
   and waits for the camera thread.
2. The composition of preview and stream: stopPreview joins the preview thread,
   which stops the stream, which joins the callback thread, which takes the
   preview mutex.
3. `RenderHandler`, the encoder's own task, whose waits lose a notify.
4. The messenger protocol of proxy and service.
5. The payload parser of the stream as an operator checked against a reference,
   and format negotiation.

Abstract specifications: the one-frame mailbox (`FrameFeed`) and the movie file
(`MovieFile`) are stated and implemented; the device life cycle and the
request/answer channel are stated as properties only.  Every safety property of
the passing runs has its theorem, and each of their liveness properties has one about
its safe part.  Worth proving next: the properties of what is left above, first the
composition of preview and stream, for which the theorems on both are ready.

## 3. Modules

### FramePool and UVCPreview

`FramePool` has the frames: `live` (allocated), `pool` (mFramePool),
`previewFrames`, and `held`, which maps every local variable and field that may
point at a frame to what it points at.  `GetFrame`, `RecycleFrame`,
`ClearPreviewFrame`, `ClearCaptureFrame` and `MoveFrame` are the helpers of the
code.  `UVCPreview` adds the flags, windows, the callback object and one
program counter per thread: `cb` (libuvc's callback), `pv` (preview thread),
`cap[t]` (capture threads; one may outlive its join), `api[c]` (clients).  An
action is the code between two points where another thread can get in: a
critical section is one action, an unlocked read of a flag is a step of its
own, a `pthread_cond_wait` splits a function.  capture_mutex is modelled where
it is held across a wait (`CaptureMutexFree`).  The clients hold the monitor
of UVCCamera.java as their methods do.  Pixel data, sizes and formats are left
out except that conversions and allocations may fail.

### FrameFeed and UvcStream

`FrameFeed` is the promise: a mailbox of one frame, taken at most once and
given in order; after a broken frame, which the callback thread passes over,
and only then, the last one may be given again (`Pass`, `Give`).  `UvcStream` is stream.c: the client's start and stop, the
event thread in `_uvc_stream_callback` (one transfer at a time, in `event` and
`transfer`), the callback thread `caller`, the poller `poll`.  `transfers[t]`
is "null" (deleted), "alloc", "submitted" (libusb has it), "held" (its callback
runs) or "lost" (its resubmission failed).  `waiting` is the wait set of
cb_cond.  The faults of the environment are a constant, so that a run says
which ones it needs; so are the kinds of start, with a callback or to be polled
(`UserCallbacks`).  uvc_stream_close tests `running` (`CloseTest`), and
uvc_stream_stop tests it again (`StopFlag`): when the stream callback clears it
before either, nothing is cancelled, waited for or joined, and the handle is
freed.  No step is modelled that would use a freed handle: the invariants say
when there would be one.  The fault "caught" is the application's: a poller
still polls when the client stops the stream.

### CameraHandler

`CameraHandler` is `AbstractUVCCameraHandler.java`.  `queue` holds the messages;
a looper that was quit drops what is sent (`Send`).  The camera thread takes a
message (`TakeMessage`), and `camera` says which part of its handler is next:
`handleClose`, which `handleOpen` and `handleRelease` begin with, is the chain
HandleStopRecording, StopMuxer, TakeCamera, DestroyCamera, and `msg` tells
where it returns to.  A user's `op[u]` goes through `close`, `stopPreview` and
`release` in the same way, with `call[u]` for the return.  A step is one access
to the queue, one critical section of mSync, or one access to what is read
without it.  `native` is the camera behind `mUVCCamera`.  `encoder[r]` is the
video encoder of a recording: prepared, recording, asked to stop, and then the
steps of `onStopped` on its own thread up to the delayed MSG_MEDIA_UPDATE.  An
encoder whose muxer wrapper was collected has no path to announce
(`OnStoppedNoPath`); when the handler was released, it runs handleRelease itself,
beside the camera thread.  There the check ends (`elsewhere`, `Ongoing`): see
section 7.
`removeMessages` leaves holes, "removed", which the looper skips: the order of
the rest is that of the code, and the proofs need no filter.

### MovieFile and MediaRecording

`MovieFile` is the promise to the platform's muxer: tracks are added before it
starts, samples are written between start and stop, it is stopped when the last
encoder has finished, and a muxer nobody refers to is lost.  `MediaRecording` is
one recording (`MediaMuxerWrapper`, `MediaEncoder` and its subclasses).  `phase`
and `turn` are the camera thread, which constructs, prepares, starts and stops
the encoders one after the other; `pc[e]` is the thread of an encoder: the two
critical sections of `run`, then `drain` in steps, the barrier where it waits for
`isStarted`, and the end.  `mStatredCount` (the code's spelling), `mIsStarted`
and `tracks` are the wrapper's, `muxer` and `written` the platform's.  A codec
is frames put in and taken out; an exception nobody catches is `pc` "crashed".
`Collect` is the garbage collector: the encoders refer to the wrapper weakly,
and it may go when no drain holds it and the camera handler has let go of it.

### MessageTask and RendererHolder

`MessageTask` is `glutils/MessageTask.java`: `mRequestQueue`, `mRequestPool`
(a bag: the deque of the code may hold an object twice), and `request[q]`, the
contents of each Request object.  `worker` and `current` are its thread, `mine[c]`
is the Request a caller refers to.  `RendererHolder` is the task of
`RendererHolder.java` and what is built on it: `mClients`, the master surface,
`capture` for the thread that takes still pictures, and `api[c]` for the callers
of addSurface, removeSurface, getSurface, requestFrame, captureStill and
release.  `overtaken` becomes true when the worker takes a Request that
`removeRequest` has found and not yet removed: nothing is said after that.

### UsbMonitor

`UsbMonitor` is `usb/USBMonitor.java` with its three threads: `main` (register,
unregister, destroy, requestPermission, the broadcasts), `async` (the looper of
mAsyncHandler: the check of the devices, connecting, the listener's callbacks)
and `camera` (UVCCamera.java opening and closing a clone of a control block).
`queue` are the posted messages, `timer` the checks posted with a delay.  A
control block is a device and a number, and `opened` are those with a
connection.  A step after which nobody will close an open connection any more
(`Lose`) leaves it in `opened` and adds it to `lost`: `Forget`, the end of
UsbControlBlock.close, which takes whatever block the device has out of the map;
`ConnectPut` behind the iterator of destroy, whose mCtrlBlocks.clear() (`Clear`)
drops the block; `CameraFails`, an open whose clone is dropped; and an open on top
of another.  unregister takes the checks out of the queue and the rest closes up
(`WithoutChecks`, written as a function of the kept places, which the provers can
reason about).  `known` is what the listener was told last; `excused`, `rearmed` and
`stale` remember the interleavings that the properties except.

### UvcDevice

`UvcDevice` is `UVCCamera::connect`, `release` and the destructor with the parts
of `device.c` and `init.c` that they use.  `caller` walks through the Java methods
open, startPreview, close and destroy; `handler` is the event thread of the
context, which `uvc_open` starts and `uvc_close` joins.  Every acquisition may
fail, and the steps back are those of the code.  `alive` are the callback
objects and the preview, `registered` those the handle knows, `xfer` the
status transfer.  `stream` is the stream in outline, as UVCPreview and UvcStream
have it in full: it runs, is "stuck" when a resubmission failed, "unplugged" when
the stream callback found the camera gone, and then it is "cancelled" and waited
for, or, unplugged, "orphaned": freed under its transfers and its callback
thread.  stopPreview may not return (`StopHangs`).  The test of the kill flag and
the entry into libusb_handle_events are two steps (`HandlerTests`,
`HandlerEnters`): the thread may enter after libusb_close, and then waits for
events a last time, for a minute at most.

### MC modules

`MCUVCPreview` adds a view for TLC; `MCUvcStream` and `MCCameraHandler` are the
modules themselves, with the constants of the cfg files.  `MediaRecording`,
`RendererHolder`, `UsbMonitor` and `UvcDevice` need no definition beyond their cfg
and are checked directly.

Some definitions are marked as mutants ("Bug to be caught", "Mutant of"): each
is an action with a plausible error, used only to see that a property notices it
(`PROJECT.json`, "mutants").

## 4. Runs

`TypeOK` is a theorem of every module, or a part of the invariant of one; the
runs `usb_monitor` and `uvc_device` check it as well, with the queue's messages
and the reference count that it bounds.

Preview (all with MAX_FRAME = 1 where the code has 4: the queue is full, empty
and overflowing with one place; Frames is at least one more than the pool,
queue and threads need together where the bound matters, and small where an
allocation should fail; one capture thread, so that a restart waits until the
old one has gone: the proofs have any number of them):

* `preview_frames`: MJPEG frames through decoder, queue, capture slot and a
  movie window that is set and taken away: one owner, no leak while running
  (1.4 million states).
* `preview_clients`: two clients call everything, with a Java callback and memory
  for one frame, so that the pool runs dry: one preview thread, no missed frame, a
  stopped engine is clean, and, with fair threads, a queued frame is drawn or the
  preview stops (0.35 million states).  A lost wake-up, an overlapping start or
  something left by a stop needs a single frame; the queue and the slot that
  overflow are in `preview_frames`, and the theorems on all these properties but
  the liveness have any number of frames.
* `preview_stop_hangs`: a finding: the signal of stopPreview may be lost.

Stream (two or three transfers where the code has ten: one is held, one in
flight and one waiting is every situation of the loops; two or three frames, so
that one can be read, one held and one collected):

* `stream_frames`: starts with a callback or for polling, and stops, with every
  fault but a failing start and a poller that is caught: failing transfers and
  resubmissions, bad packets, a disconnect.  A stop that gets to its join has
  drained the stream; the handle is freed only when no transfer, no callback
  thread and no poller uses it, unless the camera is gone; the refinement of
  FrameFeed; stop returns, the callback thread ends and a held frame is taken,
  except where a transfer was lost (`Hung`) or, for the callback thread, the
  handle was freed under it after a disconnect.
* `stream_unplug_freed`: a finding: a stream whose transfers were all submitted
  (`StartedFreedIsQuiet`) loses its camera, and closing it frees the handle under
  transfers and the callback thread.
* `stream_poller_freed`: a finding: a poller that waits for a frame is not
  waited for, and the handle is freed under it.

Camera handler (one user, two recordings, of which one may still be ending when
the next begins; MAX_QUEUE = 1: a user begins a call with at most one message
waiting, and the messages that the call sends come on top, so that up to five
messages are queued; the encoders "surface", the default, and "buffer", whose end
is not reported; "video" differs from "surface" only in not setting a capture;
`prepare` may fail halfway, and the muxer wrapper may be collected):

* `camera_handler`: the camera is not lost or used destroyed, one recording at a
  time, stopPreview is answered when the preview is over, and release ends the
  thread, up to the point where an encoder's thread runs handleRelease (0.65
  million states).

Recording (a video and an audio encoder, as the application has; a codec is
given two frames, and mRequestDrain counts to two, so that a drain can have more
to do when it ends):

* `media_recording`: the refinement of MovieFile, no exception but for a missing
  codec, and a stopped encoder ends (187 thousand states).

Renderer (one caller adds and removes the one surface and asks for frames,
another takes still pictures and releases; three Requests are one each for the
worker and two callers, and MAX_IN_USE = 0 starts a call when no other Request is
out, after which further ones come from the task itself):

* `renderer`: Requests are in one place, and each wait of a caller ends, with the
  exceptions that are named in the properties (343 thousand states).

USB monitor (two devices, one of which the application wants; four numbers for
control blocks, one each for the map and the three threads; MAX_QUEUE = 0: a
device or a call comes when the looper's queue is empty, though its threads may
be in the middle of something; MAX_LOST = 0: a camera is opened as long as no
connection has been lost, so that one more is; of `Faults` the failing open, while
an open on top of another, "reopen", is in the theorems only):

* `usb_monitor`: exactly the named connections are lost, one check at a time, the
  listener hears of each device (559 thousand states).
* `usb_monitor_clone`: a finding: a camera that closes its clone makes the monitor
  forget the original, whose connection stays open.

Device (no bound):

* `uvc_device`: what was acquired is given back, nothing uses a freed handle but
  an orphaned stream, a release ends, a status event is handled, with the
  exceptions that the properties name.

No run uses symmetry.  The view of the preview runs (`ShapeView`) identifies
states that differ in which frame is where, which no checked property of those
runs tells apart; runs of liveness properties have no view.

## 5. Fairness

Weak fairness on each thread's next step: Android's scheduler runs every
runnable thread.  Nothing forces a client to call, the camera to send, memory to
be available, or a spurious wake-up to happen.

* `UvcStream`: libusb completes every submitted transfer (5000 ms timeout, set in
  uvc_stream_start_bandwidth) and the user's callback returns
  (uvc_preview_frame_callback only takes preview_mutex for a moment).
* `CameraHandler`: the camera thread runs (its calls into the camera return,
  which `preview_stop_hangs` shows may fail), a user goes on with a call that has begun, an encoder that was asked to stop
  ends, and the second of sendMessageDelayed passes.
* `MediaRecording`: the encoders' threads run and the camera thread goes on once
  it stops a recording; nothing makes it begin to.
* `RendererHolder`: the worker, the capture thread and a caller in the middle of
  a call go on.  A caller that waits is not woken but by a notify.
* `UsbMonitor`: the main thread and the looper finish what they have begun, and a
  delayed message comes.  The system need not attach, permit or detach.
* `UvcDevice`: the caller goes on with a method that it has begun, unless its
  stopPreview hangs, and the event thread runs.  Strong fairness of `HandlerStream` and `HandlerStatus`: the event
  thread may wake up for other reasons between, and an event that libusb keeps
  having is handled at one of these turns.

## 6. Proofs

`FramePool_proofs` has the lemmas on the pool: what get_frame, recycle_frame,
the clear functions and a move between variables keep.  `UVCPreview_proofs`
proves, for any numbers of frames, clients and capture threads and any queue
bound: `TypeOK`, `FrameOwnedOnce`, `SlotsMatch`, `OnePreviewThread`, and that
no step loses a frame while mIsRunning is set.  FrameOwnedOnce is not inductive
alone: recycle_frame is applied to a variable, and that this variable points at
a frame at that point is `SlotsMatch`; OnePreviewThread needs that the two
callers of startPreview and stopPreview exclude each other (`Lifecycle`).  One
lemma per thread, one step per action.

`NoMissedFrame` and `StoppedIsClean` need more: the states of the preview thread
in which the stream and its callback live, and what stopPreview has still to
clear when the thread was joined.

`UvcStream_proofs` proves for any number of transfers: `TypeOK`;
`StoppedIsDrained` for all faults, by the invariant that the transfer of a
running callback is held; `FreedIsQuiet` when starts do not fail and the
application ends its pollers before it stops, by `Stopped` (as long as the camera
is there, an open stream runs until stopped, so close does not skip the stop); and
the refinement of FrameFeed, for all faults, by `Mailbox`, which ties the data
held, taken and given to the sequence numbers.  That FreedIsQuiet must except a
camera that is gone is what `stream_unplug_freed` shows, and `stream_poller_freed`
why the pollers must have ended.  `WaitsServed`, for all faults, is about the two
condition variables while the handle exists: a stop sleeps only on a transfer that
libusb or the event thread has or whose resubmission failed; the caller thread only
on a frame it has seen and, when the stream is over, only until the event thread,
the stop or the close that is under way wakes it.  Its invariant is `Waits`.

`CameraHandler_proofs` proves for any users, recordings and queue, and up to a
handleRelease on an encoder's thread: `TypeOK`;
`CameraAlive`, `PreviewKnown`, `RecordingOwned`, `RecordingHasCamera` and
`EndsStopped` by one invariant, `Owning`, which adds to them what handleClose has
achieved at each of its points (`Closing`: no muxer is left when the camera is
taken, no camera when the looper is quit, and nothing runs after that); and for
a single user `WokenAfterStop`, by `Answered`: while the user waits there is
exactly one stop on its way and mIsPreviewing stays set, and once it was answered
no start is left in the queue or in the camera thread.  For the single user
`StopServed` adds that the stop it waits for is in the queue or in the camera
thread.  For any users `ReleaseServed` says that after release something is left
that will quit the looper, or a recording was forgotten: its invariant `Refused`
says that no start of a recording is queued behind a release (`Ordered`), because
it is refused once mReleased is set.

`MediaRecording_proofs` proves for any number of encoders: `TypeOK`, that only a
missing codec throws, and the refinement of MovieFile.  Inductive is what
mStatredCount counts (`Counting`): the encoders that have told their track and
passed `start`, and have not told their end; so the muxer starts when all are
among them and stops when the last one leaves.  `StartedByAll` and `Passed`
say that an encoder past the barrier knows a muxer that has started.
`StopServed` says that of the stopped encoders none sleeps but one that missed the
stop, and none waits at the barrier but for an encoder without a format or
one about to start the muxer.  It needs `Hearing` (who was told to stop has
mRequestStop set, and nobody ends untold) and `Gathered` (when all encoders are
counted the muxer has started).

`RendererHolder_proofs` proves for any number of callers, surfaces and pending
requests that a Request is in one place (`RequestOwnedOnce`): the queue has no
object twice and none of the pool, and when `removeRequest` has found a Request no
draw request is queued before it, so that what `remove` takes out, the first that
equals it, is the one found.  It needs `EndlessRequests` (objects can be made),
finitely many callers, and `OneFrameCaller`, see section 7.  It then proves
`RemovedWhenReturned`, and that a caller which waits for its surface is served
(`SurfaceCallServed`): its request is queued or in the worker's hands, and the
worker is at work, until the renderer is released.  `Asking` is the invariant: at
most one request is about a surface, it is that of a caller who waits, and who
waits has one.  This needs `OneSurfaceCaller`: addSurface and removeSurface are
synchronized methods of UVCCameraHandlerMultiSurface, and with two callers the
answer to one would wake both.  `StillServed`, without assumptions, says that who
waits for a still picture has left a file that the capture thread, awake, will take
or has taken, and that the capture thread does not sleep through the end, except
where `CaptureEnds` says so.  `ReleaseServed`, under the first three assumptions,
says that the quit message of a released task is not lost while others offer,
remove or release again (`Ending`, `Quitting`), and that at the worker's end no
surface is left.

`UsbMonitor_proofs` proves for any number of devices and blocks which connections
are lost: an open one is in nobody's hands exactly when it is in `lost`
(`ConnectionsOwned`), and so those that are lost are lost for good.  One half, that
what is not lost will be closed, is `Connections`: a device that is being connected
is missing in the map until its block is put there, and a block that was closed is
open no more when its thread lets go of it.  The other half needs that no block has
two holders (`Apart`).  `OneCheck` counts the checks that are queued, due or
running (`Polls`): a new one comes only from a check that ends or from a register
after everything was stopped, and what is left over then is the one that
unregister interrupted.  The lemmas on counting say how the number of checks
changes when a message is posted, taken or removed; the devices are finitely
many, so that a list of them can be posted.

Three more theorems are about what the listener is told and what is closed.
`AnnounceServed`: a registered monitor polls, and a wanted device that is there is
known to the listener, or its announcement is on its way, or the next check will
make one, now or when main has received that another device is gone.  The last
case is the hard one, since mDeviceCounts is a number that says nothing of which
devices were counted; `Counted` ties it to a set of devices that are known,
announced or leaving, so that one that is none of these makes the attached more
than were counted.  `LastWordServed`: after the end of a device, onDettach is the
last the listener hears of it, or main has still to post it.  Here the order of the
queue matters, which cancelling the checks keeps: an attach or connect is followed
by the onDettach, an answer to a permission by the broadcast of the end
(`LastWords`).  `DetachServed`: a connection to a device that ended is the
camera's, or was lost before, or main has still to receive the end, or closes it
now.

`UvcDevice_proofs` has no parameter to generalise over; what it adds to the run is
the account itself.  `Held` says for each thing that connect acquires at which
places of the caller it is there: the reference count is that of the camera plus
that of its handle, the interface is claimed while the handle is, an object that
is registered is alive while the handle is.  `HandlerLives` adds when the event
thread lives and what it has let go of when libusb_close returns.  From it follow
`TypeOK`, `AllOrNothing`, `FreedQuietly`, and `ReleaseServed`: what release waits
for, the event thread still does, unless a transfer was lost or the camera was
connected again; at the join it may be in its last wait for events.

Assumptions: `PoolAssumption`, `PreviewAssumption`, `StreamAssumption`,
`HandlerAssumption`, `RecordingAssumption`, `TaskAssumption`,
`MonitorAssumption`, which TLC evaluates, and what a theorem names (`Users = {u}`,
the faults, the four of the renderer).

Only model-checked: all liveness, which is out of the prover's reach under
fairness.  Every safety property of a passing run is proved, and of each
liveness property the safe part is: that whoever waits is waited upon, so that what is
left to fairness is that the threads named go on.

| Liveness property | Its safe part, proved |
| --- | --- |
| `QueuedFrameServed` | `NoMissedFrame` |
| `StopReturns` of `UvcStream`, `CallerEnds`, `HeldFrameTaken` | `WaitsServed` |
| `StopAnswered` | `StopServed` of `CameraHandler_proofs`, for one user |
| `ReleaseEnds` of `CameraHandler` | `ReleaseServed` of `CameraHandler_proofs` |
| `StopEnds` | `StopServed` of `MediaRecording_proofs` |
| `SurfaceCallReturns` | `SurfaceCallServed` |
| `StillReturns`, `CaptureEnds` | `StillServed` |
| `ReleaseReturns` | `ReleaseServed` of `RendererHolder_proofs` |
| `Announced` | `AnnounceServed` |
| `LastWord` | `LastWordServed` |
| `DetachCloses` | `DetachServed` |
| `StatusHandled`, `ReleaseEnds` of `UvcDevice` | `ReleaseServed` of `UvcDevice_proofs` |

That the second gives the first under the fairness of section 5 is not proved.

## 7. Known behaviour without a run

The models have these behaviours of the code, but no property that a document
of the repository states is about them; the hazards give the lines.

* Stream: a start that fails frees the handle under its transfers; a failed
  resubmission leaves a transfer that stop waits for (`Hung`); the first frame has the
  sequence number of "none" and is not given; hold_bfh_err is read again after
  the mutex, and the frame before a broken one may be given twice; a stream whose transfers all fail is silent.
* Preview: the callback or the window may be released in use (a single wait that
  any broadcast ends); the window just set may be lost to the capture thread; a
  capture thread that is created after a stop outlives it.
* Camera handler: stopPreview returns early while a preview is being started;
  with two users, the second stop of a preview is not answered;
  a media update between the test and the wait of stopPreview after release
  leaves the wait without an answer; handleClose leaves mIsPreviewing set, and
  the preview of the camera opened next does not start until a stop; a
  recording whose end is not reported keeps the thread alive after release
  (`RecordingForgotten`, which `ReleaseEnds` excepts); the end of a recording
  stops the capture of the one that began meanwhile.  An encoder whose muxer
  wrapper was collected finds no path (line 696) and, after a release, runs
  handleRelease on its own thread (699): it takes mUVCCamera away at any point of
  the camera thread, which handleStartRecording and handleStopRecording (596-604)
  use untested, it closes the camera a second thread works with, and it has no
  looper to quit, so that the camera thread does not end.  The check ends where
  this begins, and the properties say so.
* Recording: a stop between the two critical sections of an encoder's loop is
  not heard until another frame (`missed`); an encoder that reached the barrier
  waits for ever when another one stopped before its first output; a `prepare`
  that throws leaves the threads waiting; the wrapper may be collected between
  two drains, and the file gets no index; an encoder without a codec crashes at
  its stop.
* Renderer: the worker may take and recycle what removeRequest has found; two
  threads in requestFrame may give the same Request back twice; addSurface and
  removeSurface wait for ever for a Request that release throws away, and
  captureStill when it comes after the end; the capture thread may miss the
  notify of the end; offerAndWait reads the answer in a Request that was already
  recycled.
* USB monitor: a block that is put behind the iterator of destroy stays
  connected; a device that goes while it is connected stays connected, in the map; a check that register or a detach interrupts overwrites
  mDeviceCounts; a check that runs during unregister goes on beside the one
  of the next register; an open of UVCCamera.java that fails, or a second one,
  loses its clone.
* Device: the kill flag is never reset, so that after a close and an open the
  event thread ends at once, no status event comes, and a release with a
  running stream does not end; nor does one whose stopPreview hangs or whose
  stream has lost a transfer; the handle is freed beside an orphaned stream; the callback objects are deleted while they are
  registered, before uvc_close; after a connect that failed, release closes a
  descriptor that is not the camera's; a resubmission of the status transfer that
  fails is not noticed; the reference count is changed without a lock.

## 8. Left out

Frame contents, formats, windows' pixels, logging; payload parsing (its effects
are kept); format negotiation; restarting a stream handle after
uvc_stream_stop, which the application never does; still capture, callbacks of
the user and weak references of the camera handler; OpenGL, EGL, time stamps and
codecs; the scan of descriptors; camera controls, each one USB transfer without
a state; pixel conversion; `RenderHandler`; proxy and service, which nothing in
the repository starts; the pipelines, which are not built; widgets.
`PROJECT.json` gives the reason of each component that is not modelled.

Most of the lines under `src/` are vendored (libusb, libjpeg-turbo, rapidjson,
with their tools and the code for other systems).  They are the environment of
these models, not their subject, so that the modelled part is a small share of
all lines although it has most of the concurrent code of the library itself.
