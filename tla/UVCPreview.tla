----------------------------- MODULE UVCPreview -----------------------------
(***************************************************************************)
(* The preview engine of the native camera (UVCPreview.cpp): the stream    *)
(* callback that libuvc runs, the preview thread, the capture threads and  *)
(* the threads that call the public operations.  They share mIsRunning and *)
(* mIsCapturing (volatile, read and written without a lock), the frame     *)
(* queue under preview_mutex, the capture slot under capture_mutex and two *)
(* condition variables.                                                    *)
(*                                                                         *)
(* A step is one critical section, or one access to unlocked shared state, *)
(* and the thread-local work around it.  capture_mutex is held across      *)
(* steps only between the two halves of setFrameCallback and               *)
(* setCaptureDisplay, where an unlocked broadcast can fall.  Waiting       *)
(* threads may wake spuriously, as POSIX allows.                           *)
(***************************************************************************)
EXTENDS FramePool

CONSTANTS Clients,    \* threads that call the public operations
          Callbacks,  \* Java IFrameCallback objects
          Surfaces,   \* windows the movie may be captured on
          Null,       \* the NULL pointer
          Modes       \* the values of requestMode: subset of {"YUYV", "MJPEG"}

ASSUME PreviewAssumption ==
    /\ Null \notin Callbacks \cup Surfaces \cup CaptureThreads
    /\ Clients \cap CaptureThreads = {}
    /\ Modes # {} /\ Modes \subseteq {"YUYV", "MJPEG"}

VARIABLES
    mIsRunning, mIsCapturing,
    mPreviewWindow,      \* whether a preview window is set
    mCaptureWindow,      \* the window of the movie, or Null
    liveWindows,         \* capture windows on which a reference is held
    mFrameCallbackObj,   \* the callback, or Null
    requestMode, frameMode,
    streaming,           \* libuvc runs the stream and may call back
    capture_thread,      \* the pthread_t last filled in by pthread_create
    capture_sync,        \* threads waiting on that condition variable
    cb,                  \* pc of uvc_preview_frame_callback
    pv,                  \* pc of the preview thread
    cap, surf,           \* pc of the capture threads; in do_capture_surface?
    window, calling,     \* window / callback a capture thread is using
    api, arg             \* pc and argument of the clients

flags    == <<mIsRunning, mIsCapturing>>
winVars  == <<mPreviewWindow, mCaptureWindow, liveWindows>>
modeVars == <<requestMode, frameMode>>
capVars  == <<cap, surf, window, calling>>
apiVars  == <<api, arg>>

vars == <<frameVars, flags, winVars, mFrameCallbackObj, modeVars, streaming,
          capture_thread, capture_sync, cb, pv, capVars, apiVars>>

-----------------------------------------------------------------------------
\* The thread identifiers are not initialised by the constructor: until the
\* first pthread_create a join fails at once, which Null stands for.
Init ==
    /\ FrameInit
    /\ mIsRunning = FALSE /\ mIsCapturing = FALSE
    /\ mPreviewWindow = FALSE
    /\ mCaptureWindow = Null /\ liveWindows = {}
    /\ mFrameCallbackObj = Null
    /\ requestMode \in Modes /\ frameMode = "YUYV"
    /\ streaming = FALSE
    /\ capture_thread = Null
    /\ capture_sync = {}
    /\ cb = "idle" /\ pv = "none"
    /\ cap = [t \in CaptureThreads |-> "none"]
    /\ surf = [t \in CaptureThreads |-> FALSE]
    /\ window = [t \in CaptureThreads |-> Null]
    /\ calling = [t \in CaptureThreads |-> Null]
    /\ api = [c \in Clients |-> "idle"]
    /\ arg = [c \in Clients |-> Null]

\* A client keeps capture_mutex between the halves of the two operations.
CaptureMutexFree ==
    \A c \in Clients : api[c] \notin {"callbackHold", "displayHold"}

\* pthread_cond_signal wakes one waiter, if any; a broadcast wakes all.
Signalled == IF capture_sync = {} THEN {{}}
             ELSE {capture_sync \ {w} : w \in capture_sync}
SignalCapture == capture_sync' \in Signalled

-----------------------------------------------------------------------------
(* uvc_preview_frame_callback, on libuvc's callback thread *)

\* A complete frame arrived and the preview is running.  Broken frames are
\* discarded and change nothing.
CbArrive ==
    /\ cb = "idle" /\ streaming /\ mIsRunning
    /\ cb' = "get"
    /\ UNCHANGED <<frameVars, pv>>

\* Second test of isRunning, then get_frame.
CbGet ==
    /\ cb = "get"
    /\ \/ mIsRunning /\ GetFrame(copySlot) /\ cb' = "duplicate"
       \/ (~mIsRunning \/ GetFrameFails) /\ cb' = "idle" /\ UNCHANGED frameVars
    /\ UNCHANGED pv

\* uvc_duplicate_frame, which may fail.
CbDuplicate ==
    /\ cb = "duplicate"
    /\ cb' \in {"add", "recycle"}
    /\ UNCHANGED <<frameVars, pv>>

\* Mutants of AddPreviewFrame: the frame just queued is recycled as well; the
\* waiting thread is not signalled.
AddPreviewFrameTwice ==
    /\ cb = "add"
    /\ previewFrames' = IF mIsRunning /\ Len(previewFrames) < MAX_FRAME
                           THEN Append(previewFrames, held[copySlot])
                           ELSE previewFrames
    /\ pv' = IF pv = "waiting" THEN "woken" ELSE pv
    /\ cb' = "recycle"
    /\ UNCHANGED <<live, pool, held>>

AddPreviewFrameSilently ==
    /\ cb = "add"
    /\ IF mIsRunning /\ Len(previewFrames) < MAX_FRAME
          THEN /\ previewFrames' = Append(previewFrames, held[copySlot])
               /\ held' = [held EXCEPT ![copySlot] = NoFrame]
               /\ cb' = "idle"
          ELSE cb' = "recycle" /\ UNCHANGED <<previewFrames, held>>
    /\ UNCHANGED <<live, pool, pv>>

\* The critical section of addPreviewFrame: the signal wakes the preview
\* thread, the only one that waits on preview_sync.
AddPreviewFrame ==
    /\ cb = "add"
    /\ IF mIsRunning /\ Len(previewFrames) < MAX_FRAME
          THEN /\ previewFrames' = Append(previewFrames, held[copySlot])
               /\ held' = [held EXCEPT ![copySlot] = NoFrame]
               /\ pv' = IF pv = "waiting" THEN "woken" ELSE pv
               /\ cb' = "idle"
          ELSE cb' = "recycle" /\ UNCHANGED <<previewFrames, held, pv>>
    /\ UNCHANGED <<live, pool>>

CbRecycle ==
    /\ cb = "recycle"
    /\ RecycleFrame(copySlot)
    /\ cb' = "idle"
    /\ UNCHANGED pv

CallbackStep ==
    /\ CbArrive \/ CbGet \/ CbDuplicate \/ AddPreviewFrame \/ CbRecycle
    /\ UNCHANGED <<flags, winVars, mFrameCallbackObj, modeVars, streaming,
                   capture_thread, capture_sync, capVars, apiVars>>

-----------------------------------------------------------------------------
(* The preview thread: preview_thread_func, prepare_preview, do_preview *)

\* Steps that leave the frames, the streams and the capture side alone.
PvOnly(next) ==
    /\ pv' = next
    /\ UNCHANGED <<frameVars, frameMode, streaming, capture_thread, capture_sync, cap>>

PvFrames(next) ==
    /\ pv' = next
    /\ UNCHANGED <<frameMode, streaming, capture_thread, capture_sync, cap>>

\* prepare_preview: the negotiation with the camera may fail.
PvPrepare ==
    /\ pv = "prepare"
    /\ pv' \in {"start", "exited"}
    /\ frameMode' = IF pv' = "start" THEN requestMode ELSE frameMode
    /\ UNCHANGED <<frameVars, streaming, capture_thread, capture_sync, cap>>

\* uvc_start_streaming_bandwidth: on failure the thread ends and mIsRunning
\* stays set.
PvStartStreaming ==
    /\ pv = "start"
    /\ \/ pv' = "clear" /\ streaming' = TRUE
       \/ pv' = "exited" /\ UNCHANGED streaming
    /\ UNCHANGED <<frameVars, frameMode, capture_thread, capture_sync, cap>>

PvClear == pv = "clear" /\ ClearPreviewFrame /\ PvFrames("create")

\* pthread_create of the capture thread; its result is not looked at.  A
\* thread that ended frees its place.
PvCreateCapture ==
    /\ pv = "create"
    /\ pv' = "loop"
    /\ \/ \E t \in CaptureThreads :
             /\ cap[t] \in {"none", "exited"}
             /\ cap' = [cap EXCEPT ![t] = "begin"]
             /\ capture_thread' = t
       \/ /\ \A t \in CaptureThreads : cap[t] \notin {"none", "exited"}
          /\ UNCHANGED <<cap, capture_thread>>
    /\ UNCHANGED <<frameVars, frameMode, streaming, capture_sync>>

\* The test of isRunning at the head of the loop, without a lock.
PvLoop == pv = "loop" /\ PvOnly(IF mIsRunning THEN "wait" ELSE "finish")

\* The end of waitPreviewFrame: take the first frame, if still running.
TakePreviewFrame ==
    IF mIsRunning /\ previewFrames # <<>>
       THEN /\ previewFrames' = Tail(previewFrames)
            /\ held' = [held EXCEPT ![IF frameMode = "MJPEG" THEN mjpegSlot
                                      ELSE frameSlot] = Head(previewFrames)]
            /\ UNCHANGED <<live, pool>>
            /\ PvFrames(IF frameMode = "MJPEG" THEN "getYuyv" ELSE "draw")
       ELSE PvOnly("loop")

\* waitPreviewFrame tests the queue once and waits once.
WaitPreviewFrame ==
    /\ pv = "wait"
    /\ IF previewFrames = <<>> THEN PvOnly("waiting") ELSE TakePreviewFrame

PvWoken == pv = "woken" /\ TakePreviewFrame

\* MJPEG only: a frame for the decoded picture.  A NULL frame is dereferenced
\* at once by uvc_mjpeg2yuyv, so the model has no step for it.
PvGetYuyv == pv = "getYuyv" /\ GetFrame(frameSlot) /\ PvFrames("decode")

\* uvc_mjpeg2yuyv, then the MJPEG frame goes back to the pool.
PvDecode ==
    /\ pv = "decode"
    /\ RecycleFrame(mjpegSlot)
    /\ \/ PvFrames("draw")
       \/ PvFrames("recycle")

PvRecycleBroken == pv = "recycle" /\ RecycleFrame(frameSlot) /\ PvFrames("loop")

\* draw_preview_one: is there a window, and a frame for the conversion?
PvDraw ==
    /\ pv = "draw"
    /\ \/ mPreviewWindow /\ GetFrame(convertedSlot) /\ PvFrames("drawn")
       \/ (~mPreviewWindow \/ GetFrameFails) /\ PvOnly("addCapture")

\* The picture is on the window, or could not be converted.
PvDrawn == pv = "drawn" /\ RecycleFrame(convertedSlot) /\ PvFrames("addCapture")

\* Mutants of AddCaptureFrame: the frame it replaces is forgotten; no waiter
\* is woken.
AddCaptureFrameForgets ==
    /\ pv = "addCapture" /\ CaptureMutexFree
    /\ pv' = "loop"
    /\ IF mIsRunning THEN MoveFrame(frameSlot, captureQueu) /\ capture_sync' = {}
       ELSE held' = [held EXCEPT ![frameSlot] = NoFrame] /\ UNCHANGED capture_sync
    /\ UNCHANGED <<live, pool, previewFrames, frameMode, streaming,
                   capture_thread, cap>>

AddCaptureFrameSilently ==
    /\ pv = "addCapture" /\ CaptureMutexFree
    /\ pv' = "loop"
    /\ IF mIsRunning
          THEN /\ IF held[captureQueu] = NoFrame THEN UNCHANGED <<live, pool>>
                  ELSE PutBack(held[captureQueu])
               /\ MoveFrame(frameSlot, captureQueu)
          ELSE /\ held' = [held EXCEPT ![frameSlot] = NoFrame]
               /\ UNCHANGED <<live, pool>>
    /\ UNCHANGED <<previewFrames, frameMode, streaming, capture_thread, capture_sync, cap>>

\* addCaptureFrame keeps only the latest frame.  When the preview no longer
\* runs the frame is neither stored nor recycled.
AddCaptureFrame ==
    /\ pv = "addCapture" /\ CaptureMutexFree
    /\ pv' = "loop"
    /\ IF mIsRunning
          THEN /\ IF held[captureQueu] = NoFrame THEN UNCHANGED <<live, pool>>
                  ELSE PutBack(held[captureQueu])
               /\ MoveFrame(frameSlot, captureQueu)
               /\ capture_sync' = {}
          ELSE /\ held' = [held EXCEPT ![frameSlot] = NoFrame]
               /\ UNCHANGED <<live, pool, capture_sync>>
    /\ UNCHANGED <<previewFrames, frameMode, streaming, capture_thread, cap>>

\* After the loop the capture thread is signalled, without its mutex.
PvFinish ==
    /\ pv = "finish"
    /\ SignalCapture
    /\ pv' = "stop"
    /\ UNCHANGED <<frameVars, frameMode, streaming, capture_thread, cap>>

\* uvc_stop_streaming joins libuvc's callback thread.
PvStopStreaming ==
    /\ pv = "stop" /\ cb = "idle"
    /\ streaming' = FALSE
    /\ pv' = "exited"
    /\ UNCHANGED <<frameVars, frameMode, capture_thread, capture_sync, cap>>

PreviewThreadStep ==
    /\ \/ PvPrepare \/ PvStartStreaming \/ PvClear \/ PvCreateCapture
       \/ PvLoop \/ WaitPreviewFrame \/ PvWoken \/ PvGetYuyv \/ PvDecode
       \/ PvRecycleBroken \/ PvDraw \/ PvDrawn \/ AddCaptureFrame
       \/ PvFinish \/ PvStopStreaming
    /\ UNCHANGED <<flags, winVars, mFrameCallbackObj, requestMode, cb,
                   surf, window, calling, apiVars>>

-----------------------------------------------------------------------------
(* The capture threads: capture_thread_func and do_capture *)

CapOnly(t, next) ==
    /\ cap' = [cap EXCEPT ![t] = next]
    /\ UNCHANGED <<frameVars, mIsCapturing, mCaptureWindow, liveWindows,
                   capture_sync, surf, window, calling>>

CapFrames(t, next) ==
    /\ cap' = [cap EXCEPT ![t] = next]
    /\ UNCHANGED <<mIsCapturing, mCaptureWindow, liveWindows, capture_sync,
                   surf, window, calling>>

\* do_capture up to its loop.
CapBegin(t) ==
    /\ cap[t] = "begin" /\ CaptureMutexFree
    /\ ClearCaptureFrame
    /\ CapFrames(t, "loop")

\* The head of do_capture's loop.
CapLoop(t) ==
    /\ cap[t] = "loop"
    /\ mIsCapturing' = (mIsRunning \/ mIsCapturing)
    /\ cap' = [cap EXCEPT ![t] = IF mIsRunning THEN "select" ELSE "exited"]
    /\ UNCHANGED <<frameVars, mCaptureWindow, liveWindows, capture_sync,
                   surf, window, calling>>

\* do_capture_surface if there is a window now, else do_capture_idle_loop.
CapSelect(t) ==
    /\ cap[t] = "select"
    /\ surf' = [surf EXCEPT ![t] = mCaptureWindow # Null]
    /\ cap' = [cap EXCEPT ![t] = "check"]
    /\ UNCHANGED <<frameVars, mIsCapturing, mCaptureWindow, liveWindows,
                   capture_sync, window, calling>>

\* The head of both inner loops.
CapCheck(t) ==
    /\ cap[t] = "check"
    /\ CapOnly(t, IF mIsRunning /\ mIsCapturing THEN "wait"
                  ELSE IF surf[t] THEN "endSurface" ELSE "broadcast")

TakeCaptureFrame(t) ==
    IF mIsRunning /\ held[captureQueu] # NoFrame
       THEN /\ MoveFrame(captureQueu, capFrame(t))
            /\ UNCHANGED <<live, pool, previewFrames>>
            /\ CapFrames(t, IF surf[t] THEN "convert" ELSE "callback")
       ELSE CapOnly(t, "check")

\* waitCaptureFrame tests the slot once and waits once.
WaitCaptureFrame(t) ==
    /\ cap[t] = "wait" /\ CaptureMutexFree
    /\ IF held[captureQueu] = NoFrame
          THEN /\ capture_sync' = capture_sync \cup {t}
               /\ cap' = [cap EXCEPT ![t] = "waiting"]
               /\ UNCHANGED <<frameVars, mIsCapturing, mCaptureWindow,
                              liveWindows, surf, window, calling>>
          ELSE TakeCaptureFrame(t)

CapWoken(t) ==
    /\ cap[t] = "waiting" /\ t \notin capture_sync /\ CaptureMutexFree
    /\ TakeCaptureFrame(t)

\* do_capture_surface: a frame for the conversion is taken once and kept.
CapConvert(t) ==
    /\ cap[t] = "convert"
    /\ \/ /\ mIsCapturing /\ held[capConverted(t)] = NoFrame
          /\ GetFrame(capConverted(t)) /\ CapFrames(t, "copy")
       \/ /\ mIsCapturing /\ held[capConverted(t)] # NoFrame
          /\ CapOnly(t, "copy")
       \/ /\ \/ ~mIsCapturing
             \/ held[capConverted(t)] = NoFrame /\ GetFrameFails
          /\ CapOnly(t, "callback")

\* mCaptureWindow is read and used without capture_mutex; when it is Null or
\* the conversion failed nothing is copied.
CapCopy(t) ==
    /\ cap[t] = "copy"
    /\ \/ CapOnly(t, "callback")
       \/ /\ mCaptureWindow # Null
          /\ window' = [window EXCEPT ![t] = mCaptureWindow]
          /\ cap' = [cap EXCEPT ![t] = "copying"]
          /\ UNCHANGED <<frameVars, mIsCapturing, mCaptureWindow, liveWindows,
                         capture_sync, surf, calling>>

CapCopied(t) ==
    /\ cap[t] = "copying"
    /\ window' = [window EXCEPT ![t] = Null]
    /\ cap' = [cap EXCEPT ![t] = "callback"]
    /\ UNCHANGED <<frameVars, mIsCapturing, mCaptureWindow, liveWindows,
                   capture_sync, surf, calling>>

\* do_capture_callback: without a callback the frame is recycled; with one it
\* is passed on as it is or, if the pixel format asks for it, converted.
CapCallback(t) ==
    /\ cap[t] = "callback"
    /\ \/ mFrameCallbackObj = Null /\ CapOnly(t, "recycle")
       \/ /\ mFrameCallbackObj # Null
          /\ \/ /\ MoveFrame(capFrame(t), capCallback(t))
                /\ UNCHANGED <<live, pool, previewFrames>>
                /\ CapFrames(t, "call")
             \/ GetFrame(capCallback(t)) /\ CapFrames(t, "converted")
             \/ GetFrameFails /\ CapOnly(t, "recycle")

\* The source frame goes back, the conversion succeeded or failed.
CapConverted(t) ==
    /\ cap[t] = "converted"
    /\ RecycleFrame(capFrame(t))
    /\ CapFrames(t, "call") \/ CapFrames(t, "recycleCallback")

\* mFrameCallbackObj is read again, without capture_mutex, for onFrame.
CapCall(t) ==
    /\ cap[t] = "call"
    /\ calling' = [calling EXCEPT ![t] = mFrameCallbackObj]
    /\ cap' = [cap EXCEPT ![t] = "inCallback"]
    /\ UNCHANGED <<frameVars, mIsCapturing, mCaptureWindow, liveWindows,
                   capture_sync, surf, window>>

CapReturn(t) ==
    /\ cap[t] = "inCallback"
    /\ RecycleFrame(capCallback(t))
    /\ calling' = [calling EXCEPT ![t] = Null]
    /\ cap' = [cap EXCEPT ![t] = "check"]
    /\ UNCHANGED <<mIsCapturing, mCaptureWindow, liveWindows, capture_sync,
                   surf, window>>

CapRecycle(t) ==
    \/ cap[t] = "recycle" /\ RecycleFrame(capFrame(t)) /\ CapFrames(t, "check")
    \/ /\ cap[t] = "recycleCallback"
       /\ RecycleFrame(capCallback(t)) /\ CapFrames(t, "check")

\* The end of do_capture_surface releases the window and forgets it, both
\* without capture_mutex.
CapEndSurface(t) ==
    /\ cap[t] = "endSurface"
    /\ IF held[capConverted(t)] = NoFrame THEN UNCHANGED frameVars
       ELSE RecycleFrame(capConverted(t))
    /\ CapFrames(t, "release")

CapRelease(t) ==
    /\ cap[t] = "release"
    /\ liveWindows' = liveWindows \ {mCaptureWindow}
    /\ cap' = [cap EXCEPT ![t] = IF mCaptureWindow = Null THEN "broadcast"
                                 ELSE "forget"]
    /\ UNCHANGED <<frameVars, mIsCapturing, mCaptureWindow, capture_sync,
                   surf, window, calling>>

CapForget(t) ==
    /\ cap[t] = "forget"
    /\ mCaptureWindow' = Null
    /\ cap' = [cap EXCEPT ![t] = "broadcast"]
    /\ UNCHANGED <<frameVars, mIsCapturing, liveWindows, capture_sync,
                   surf, window, calling>>

\* "wait finishing capturing" ends here; the broadcast holds no mutex.
CapBroadcast(t) ==
    /\ cap[t] = "broadcast"
    /\ capture_sync' = {}
    /\ cap' = [cap EXCEPT ![t] = "loop"]
    /\ UNCHANGED <<frameVars, mIsCapturing, mCaptureWindow, liveWindows,
                   surf, window, calling>>

CaptureThreadStep(t) ==
    /\ \/ CapBegin(t) \/ CapLoop(t) \/ CapSelect(t) \/ CapCheck(t)
       \/ WaitCaptureFrame(t) \/ CapWoken(t) \/ CapConvert(t) \/ CapCopy(t)
       \/ CapCopied(t) \/ CapCallback(t) \/ CapConverted(t) \/ CapCall(t)
       \/ CapReturn(t) \/ CapRecycle(t) \/ CapEndSurface(t) \/ CapRelease(t)
       \/ CapForget(t) \/ CapBroadcast(t)
    /\ UNCHANGED <<mIsRunning, mPreviewWindow, mFrameCallbackObj, modeVars,
                   streaming, capture_thread, cb, pv, apiVars>>

-----------------------------------------------------------------------------
(* The public operations *)

\* UVCCamera.java makes startPreview, stopPreview and setPreviewDisplay
\* synchronized: one client at a time is inside one of them.
Synchronized == {"create", "startFailed", "signal", "joinCapture",
                 "joinPreview", "clearPreview", "clearCapture",
                 "releaseDisplay", "releaseCapture"}
EnterMonitor(c) ==
    api[c] = "idle" /\ \A d \in Clients : api[d] \notin Synchronized

ApiGoto(c, next) == api' = [api EXCEPT ![c] = next]

\* What no operation but the named ones writes.
ApiKeeps == UNCHANGED <<frameMode, streaming, cb, surf, window, calling>>

SetPreviewSize(c) ==
    /\ api[c] = "idle"
    /\ requestMode' \in Modes
    /\ UNCHANGED <<frameVars, flags, winVars, mFrameCallbackObj,
                   capture_thread, capture_sync, pv, cap, apiVars>>

SetPreviewDisplay(c) ==
    /\ EnterMonitor(c)
    /\ mPreviewWindow' \in BOOLEAN
    /\ UNCHANGED <<frameVars, flags, mCaptureWindow, liveWindows,
                   mFrameCallbackObj, requestMode, capture_thread,
                   capture_sync, pv, cap, apiVars>>

\* Mutant of StartPreview: mIsRunning is not tested.
StartPreviewAnyway(c) ==
    /\ EnterMonitor(c)
    /\ mIsRunning' = TRUE
    /\ ApiGoto(c, "create")
    /\ UNCHANGED <<frameVars, mIsCapturing, winVars, mFrameCallbackObj,
                   requestMode, capture_thread, capture_sync, pv, cap, arg>>

\* startPreview sets mIsRunning first ...
StartPreview(c) ==
    /\ EnterMonitor(c) /\ ~mIsRunning
    /\ mIsRunning' = TRUE
    /\ ApiGoto(c, "create")
    /\ UNCHANGED <<frameVars, mIsCapturing, winVars, mFrameCallbackObj,
                   requestMode, capture_thread, capture_sync, pv, cap, arg>>

\* ... then creates the thread, if there is a window; either may fail.
StartCreate(c) ==
    /\ api[c] = "create"
    /\ \/ mPreviewWindow /\ pv' = "prepare" /\ ApiGoto(c, "idle")
       \/ pv' = pv /\ ApiGoto(c, "startFailed")
    /\ UNCHANGED <<frameVars, flags, winVars, mFrameCallbackObj, requestMode,
                   capture_thread, capture_sync, cap, arg>>

StartFailed(c) ==
    /\ api[c] = "startFailed"
    /\ mIsRunning' = FALSE
    /\ pv' = IF pv = "waiting" THEN "woken" ELSE pv
    /\ ApiGoto(c, "idle")
    /\ UNCHANGED <<frameVars, mIsCapturing, winVars, mFrameCallbackObj,
                   requestMode, capture_thread, capture_sync, cap, arg>>

\* stopPreview clears mIsRunning ...
StopPreview(c) ==
    /\ EnterMonitor(c)
    /\ mIsRunning' = FALSE
    /\ ApiGoto(c, IF mIsRunning THEN "signal" ELSE "clearPreview")
    /\ UNCHANGED <<frameVars, mIsCapturing, winVars, mFrameCallbackObj,
                   requestMode, capture_thread, capture_sync, pv, cap, arg>>

\* ... signals both conditions, holding neither mutex ...
StopSignal(c) ==
    /\ api[c] = "signal"
    /\ pv' = IF pv = "waiting" THEN "woken" ELSE pv
    /\ SignalCapture
    /\ ApiGoto(c, "joinCapture")
    /\ UNCHANGED <<frameVars, flags, winVars, mFrameCallbackObj, requestMode,
                   capture_thread, cap, arg>>

\* ... joins the capture thread first; the join of an identifier that names
\* no thread fails at once ...
JoinCapture(c) ==
    /\ api[c] = "joinCapture"
    /\ capture_thread # Null => cap[capture_thread] \in {"none", "exited"}
    /\ cap' = [t \in CaptureThreads |->
                 IF t = capture_thread THEN "none" ELSE cap[t]]
    /\ ApiGoto(c, "joinPreview")
    /\ UNCHANGED <<frameVars, flags, winVars, mFrameCallbackObj, requestMode,
                   capture_thread, capture_sync, pv, arg>>

\* ... then the preview thread ...
JoinPreview(c) ==
    /\ api[c] = "joinPreview" /\ pv = "exited"
    /\ pv' = "none"
    /\ ApiGoto(c, "clearPreview")
    /\ UNCHANGED <<frameVars, flags, winVars, mFrameCallbackObj, requestMode,
                   capture_thread, capture_sync, cap, arg>>

\* Mutant of StopClear: the capture slot is left as it is.
StopClearQueueOnly(c) ==
    /\ \/ /\ api[c] = "clearPreview"
          /\ ClearPreviewFrame /\ ApiGoto(c, "clearCapture")
       \/ /\ api[c] = "clearCapture" /\ CaptureMutexFree
          /\ UNCHANGED frameVars /\ ApiGoto(c, "releaseDisplay")
    /\ UNCHANGED <<flags, winVars, mFrameCallbackObj, requestMode,
                   capture_thread, capture_sync, pv, cap, arg>>

\* ... and, running or not, empties the queue and the slot ...
StopClear(c) ==
    /\ \/ /\ api[c] = "clearPreview"
          /\ ClearPreviewFrame /\ ApiGoto(c, "clearCapture")
       \/ /\ api[c] = "clearCapture" /\ CaptureMutexFree
          /\ ClearCaptureFrame /\ ApiGoto(c, "releaseDisplay")
    /\ UNCHANGED <<flags, winVars, mFrameCallbackObj, requestMode,
                   capture_thread, capture_sync, pv, cap, arg>>

\* ... and releases both windows.
StopRelease(c) ==
    /\ \/ /\ api[c] = "releaseDisplay"
          /\ mPreviewWindow' = FALSE
          /\ UNCHANGED <<mCaptureWindow, liveWindows>>
          /\ ApiGoto(c, "releaseCapture")
       \/ /\ api[c] = "releaseCapture" /\ CaptureMutexFree
          /\ liveWindows' = liveWindows \ {mCaptureWindow}
          /\ mCaptureWindow' = Null
          /\ UNCHANGED mPreviewWindow
          /\ ApiGoto(c, "idle")
    /\ UNCHANGED <<frameVars, flags, mFrameCallbackObj, requestMode,
                   capture_thread, capture_sync, pv, cap, arg>>

\* The wait of setFrameCallback and setCaptureDisplay: one signal, one wait,
\* which may be handed its own kind of wake-up or any other.
WaitCapturing(c, holding, waiting) ==
    /\ api[c] = holding
    /\ \E rest \in Signalled : capture_sync' = rest \cup {c}
    /\ ApiGoto(c, waiting)
    /\ UNCHANGED <<frameVars, flags, winVars, mFrameCallbackObj, requestMode,
                   capture_thread, pv, cap, arg>>

\* setFrameCallback: while capturing, the flag is cleared and, if there is a
\* callback, the caller is to wait; otherwise the callback is replaced now.
SetFrameCallback(c, obj) ==
    /\ api[c] = "idle" /\ CaptureMutexFree
    /\ mIsCapturing' = (mIsCapturing /\ ~mIsRunning)
    /\ IF mIsRunning /\ mIsCapturing /\ mFrameCallbackObj # Null
          THEN /\ ApiGoto(c, "callbackHold")
               /\ arg' = [arg EXCEPT ![c] = obj]
               /\ UNCHANGED mFrameCallbackObj
          ELSE mFrameCallbackObj' = obj /\ UNCHANGED apiVars
    /\ UNCHANGED <<frameVars, mIsRunning, winVars, requestMode,
                   capture_thread, capture_sync, pv, cap>>

SetFrameCallbackWait(c) == WaitCapturing(c, "callbackHold", "callbackWait")

SetFrameCallbackEnd(c) ==
    /\ api[c] = "callbackWait" /\ c \notin capture_sync /\ CaptureMutexFree
    /\ mFrameCallbackObj' = arg[c]
    /\ arg' = [arg EXCEPT ![c] = Null]
    /\ ApiGoto(c, "idle")
    /\ UNCHANGED <<frameVars, flags, winVars, requestMode, capture_thread,
                   capture_sync, pv, cap>>

\* Replacing the window releases the old one.
ReplaceWindow(w, windows) ==
    /\ mCaptureWindow' = w
    /\ liveWindows' = windows \ ({mCaptureWindow} \ {w})

\* setCaptureDisplay with a window the object does not know, or with Null.
SetCaptureDisplay(c, w) ==
    /\ api[c] = "idle" /\ CaptureMutexFree
    /\ w \notin liveWindows
    /\ mIsCapturing' = (mIsCapturing /\ ~mIsRunning)
    /\ LET windows == liveWindows \cup ({w} \ {Null})
       IN  IF mIsRunning /\ mIsCapturing /\ mCaptureWindow # Null
              THEN /\ ApiGoto(c, "displayHold")
                   /\ arg' = [arg EXCEPT ![c] = w]
                   /\ liveWindows' = windows
                   /\ UNCHANGED mCaptureWindow
              ELSE ReplaceWindow(w, windows) /\ UNCHANGED apiVars
    /\ UNCHANGED <<frameVars, mIsRunning, mPreviewWindow, mFrameCallbackObj,
                   requestMode, capture_thread, capture_sync, pv, cap>>

SetCaptureDisplayWait(c) == WaitCapturing(c, "displayHold", "displayWait")

SetCaptureDisplayEnd(c) ==
    /\ api[c] = "displayWait" /\ c \notin capture_sync /\ CaptureMutexFree
    /\ ReplaceWindow(arg[c], liveWindows)
    /\ arg' = [arg EXCEPT ![c] = Null]
    /\ ApiGoto(c, "idle")
    /\ UNCHANGED <<frameVars, flags, mPreviewWindow, mFrameCallbackObj,
                   requestMode, capture_thread, capture_sync, pv, cap>>

\* A call begins; it goes on.
Call(c) ==
    \/ SetPreviewSize(c) \/ SetPreviewDisplay(c)
    \/ StartPreview(c) \/ StopPreview(c)
    \/ \E obj \in Callbacks \cup {Null} : SetFrameCallback(c, obj)
    \/ \E w \in Surfaces \cup {Null} : SetCaptureDisplay(c, w)

Continue(c) ==
    \/ StartCreate(c) \/ StartFailed(c) \/ StopSignal(c) \/ JoinCapture(c)
    \/ JoinPreview(c) \/ StopClear(c) \/ StopRelease(c)
    \/ SetFrameCallbackWait(c) \/ SetFrameCallbackEnd(c)
    \/ SetCaptureDisplayWait(c) \/ SetCaptureDisplayEnd(c)

ClientCall(c)     == Call(c) /\ ApiKeeps
ClientContinue(c) == Continue(c) /\ ApiKeeps

-----------------------------------------------------------------------------
\* pthread_cond_wait may return without a signal.
SpuriousWakeup ==
    /\ \/ pv = "waiting" /\ pv' = "woken" /\ UNCHANGED capture_sync
       \/ /\ \E w \in capture_sync : capture_sync' = capture_sync \ {w}
          /\ UNCHANGED pv
    /\ UNCHANGED <<frameVars, flags, winVars, mFrameCallbackObj, modeVars,
                   streaming, capture_thread, cb, capVars, apiVars>>

Next ==
    \/ CallbackStep
    \/ PreviewThreadStep
    \/ \E t \in CaptureThreads : CaptureThreadStep(t)
    \/ \E c \in Clients : ClientCall(c) \/ ClientContinue(c)
    \/ SpuriousWakeup

Spec == Init /\ [][Next]_vars

\* Every thread that can run runs on; nothing is promised about calls, the
\* arrival of frames or spurious wake-ups.
Fairness ==
    /\ WF_vars(cb # "idle" /\ CallbackStep)
    /\ WF_vars(PreviewThreadStep)
    /\ \A t \in CaptureThreads : WF_vars(CaptureThreadStep(t))
    /\ \A c \in Clients : WF_vars(ClientContinue(c))

FairSpec == Spec /\ Fairness

-----------------------------------------------------------------------------
(* Properties *)

PvStates == {"none", "prepare", "start", "clear", "create", "loop", "wait",
             "waiting", "woken", "getYuyv", "decode", "recycle", "draw",
             "drawn", "addCapture", "finish", "stop", "exited"}
CapStates == {"none", "begin", "loop", "select", "check", "wait", "waiting",
              "convert", "copy", "copying", "callback", "converted", "call",
              "inCallback", "recycle", "recycleCallback", "endSurface",
              "release", "forget", "broadcast", "exited"}
ApiStates == Synchronized \cup {"idle", "callbackHold", "callbackWait",
                                "displayHold", "displayWait"}

ControlTypeOK ==
    /\ mIsRunning \in BOOLEAN /\ mIsCapturing \in BOOLEAN
    /\ mPreviewWindow \in BOOLEAN
    /\ mCaptureWindow \in Surfaces \cup {Null}
    /\ liveWindows \subseteq Surfaces
    /\ mFrameCallbackObj \in Callbacks \cup {Null}
    /\ requestMode \in Modes /\ frameMode \in {"YUYV", "MJPEG"}
    /\ streaming \in BOOLEAN
    /\ capture_thread \in CaptureThreads \cup {Null}
    /\ capture_sync \subseteq CaptureThreads \cup Clients
    /\ cb \in {"idle", "get", "duplicate", "add", "recycle"}
    /\ pv \in PvStates
    /\ cap \in [CaptureThreads -> CapStates]
    /\ surf \in [CaptureThreads -> BOOLEAN]
    /\ window \in [CaptureThreads -> Surfaces \cup {Null}]
    /\ calling \in [CaptureThreads -> Callbacks \cup {Null}]
    /\ api \in [Clients -> ApiStates]
    /\ arg \in [Clients -> Callbacks \cup Surfaces \cup {Null}]
    /\ \A c \in Clients :
          /\ api[c] \in {"callbackHold", "callbackWait"} => arg[c] \in Callbacks \cup {Null}
          /\ api[c] \in {"displayHold", "displayWait"} => arg[c] \in Surfaces \cup {Null}

\* The type of every variable.
TypeOK == FrameTypeOK /\ ControlTypeOK

\* A second start never creates a preview thread beside one that is alive,
\* although mIsRunning is tested and set without a lock and a thread that
\* failed to start the stream leaves it set.
OnePreviewThread ==
    \A c \in Clients : api[c] \in {"create", "startFailed"} => pv = "none"

\* What the local variables of each thread point at.
CallbackSlots == held[copySlot] # NoFrame <=> cb \in {"duplicate", "add", "recycle"}
PreviewSlots ==
    /\ held[mjpegSlot] # NoFrame <=> pv \in {"getYuyv", "decode"}
    /\ held[frameSlot] # NoFrame
         <=> pv \in {"decode", "recycle", "draw", "drawn", "addCapture"}
    /\ held[convertedSlot] # NoFrame <=> pv = "drawn"
CaptureSlots(t) ==
    /\ held[capFrame(t)] # NoFrame
         <=> cap[t] \in {"convert", "copy", "copying", "callback", "converted",
                         "recycle"}
    /\ held[capCallback(t)] # NoFrame
         <=> cap[t] \in {"converted", "call", "inCallback", "recycleCallback"}
    /\ held[capConverted(t)] # NoFrame
         => surf[t] /\ cap[t] \notin {"none", "begin", "loop", "select",
                        "release", "forget", "broadcast", "exited"}
    /\ cap[t] \in {"convert", "copy", "copying"} => surf[t]

\* No path of a thread forgets a frame or uses one it gave away: each local
\* variable points at a frame exactly between get and recycle (the strength-
\* ening that makes FrameOwnedOnce inductive).
SlotsMatch ==
    CallbackSlots /\ PreviewSlots /\ \A t \in CaptureThreads : CaptureSlots(t)

\* Nobody sleeps on work: the preview thread does not wait while a frame is
\* queued, no capture thread waits unsignalled while the slot is full.
NoMissedFrame ==
    /\ pv = "waiting" => previewFrames = <<>>
    /\ \A t \in CaptureThreads :
          cap[t] = "waiting" /\ t \in capture_sync => held[captureQueu] = NoFrame

\* Once stopPreview is over and until the next start the engine holds no
\* stale picture and libuvc calls it no more.
StoppedIsClean ==
    (pv = "none" /\ \A c \in Clients : api[c] \notin Synchronized)
      => /\ previewFrames = <<>> /\ held[captureQueu] = NoFrame
         /\ ~streaming /\ cb = "idle"

\* A frame gets lost only when the preview stops while the preview thread
\* carries it to addCaptureFrame: never while the preview runs.
LeakOnlyWhenStopped == [][Leaked' \subseteq Leaked \/ ~mIsRunning]_vars

\* While the preview runs, a frame that was queued is taken off the queue
\* (needs FairSpec).
QueuedFrameServed ==
    \A f \in Frames :
        (mIsRunning /\ f \in Queued) ~> (~mIsRunning \/ f \notin Queued)

\* UVCCamera.java, stopPreview ("stop preview"): a stop comes to an end
\* (needs FairSpec).
StopReturns == \A c \in Clients : api[c] = "signal" ~> api[c] = "idle"

=============================================================================
