---------------------------- MODULE CameraHandler ----------------------------
(***************************************************************************)
(* The camera handler (AbstractUVCCameraHandler.java): users, on any       *)
(* thread, send messages to the camera thread, which owns the UVCCamera    *)
(* and the recording; the encoder thread of a recording calls back when it *)
(* has prepared and when it has stopped.                                   *)
(*                                                                         *)
(* A step is one access to the message queue, one critical section of      *)
(* mSync or one access to state that is read without it.  Nothing holds    *)
(* mSync across steps but the wait of stopPreview, which releases it.      *)
(* Java allows a wait to end for no reason; the code does not count with   *)
(* it, and neither does the model.  Callbacks of the user, still capture   *)
(* and media files are left out; so is the garbage collection of the       *)
(* activity and the camera view, which the thread references weakly.       *)
(*                                                                         *)
(* When an encoder has lost its muxer wrapper to the garbage collector and *)
(* the handler has been released, the encoder thread itself runs           *)
(* handleRelease, beside the camera thread: the check ends there.          *)
(***************************************************************************)
EXTENDS Naturals, Sequences

CONSTANTS Users,        \* the threads that call the handler
          Recordings,   \* bound: the recordings alive at once
          EncoderTypes, \* the types of encoder that a handler is created with
          Faults,       \* what may happen: "prepare", MediaMuxerWrapper.prepare throws
                        \* halfway; "collected", the wrapper is garbage collected
          None,         \* Java's null
          MAX_QUEUE     \* bound: messages in the queue when a call begins, and
                        \* after a request

ASSUME HandlerAssumption ==
    /\ EncoderTypes \subseteq {"surface", "video", "buffer"}
    /\ Faults \subseteq {"prepare", "collected"}
    /\ None \notin Recordings
    /\ MAX_QUEUE \in Nat

VARIABLES
    queue,          \* the messages sent and not yet taken
    looper,         \* "loop", "quit" (quit was called) or "ended"
    mUVCCamera,     \* whether there is one
    native,         \* the camera behind it: "closed", "open" or "preview"
    mIsPreviewing, mIsRecording, mReleased,
    mMuxer,         \* the recording that can be stopped, or None
    capture,        \* the recording whose surface the camera writes to, or None
    encoder,        \* what each recording's video encoder is doing
    mEncoderType,   \* "surface", "video" or "buffer"
    camera, msg,    \* what the camera thread is doing, and for which message
    stopping,       \* the muxer handleStopRecording took out of mMuxer
    op, call,       \* what each user is doing, and in which call
    waiting,        \* the users in mSync.wait()
    elsewhere       \* history: handleRelease runs on an encoder's thread

flags      == <<mIsPreviewing, mIsRecording, mReleased>>
deviceVars == <<mUVCCamera, native>>
recVars    == <<mMuxer, capture, encoder>>
threadVars == <<mEncoderType, looper, camera, msg, stopping>>
userVars   == <<op, call, waiting>>
vars == <<queue, threadVars, deviceVars, flags, recVars, userVars, elsewhere>>

Init ==
    /\ mEncoderType \in EncoderTypes
    /\ queue = <<>> /\ looper = "loop"
    /\ mUVCCamera = FALSE /\ native = "closed"
    /\ mIsPreviewing = FALSE /\ mIsRecording = FALSE /\ mReleased = FALSE
    /\ mMuxer = None /\ capture = None /\ stopping = None
    /\ encoder = [r \in Recordings |-> "none"]
    /\ camera = "idle" /\ msg = "none"
    /\ op = [u \in Users |-> "idle"] /\ call = [u \in Users |-> "none"]
    /\ waiting = {} /\ elsewhere = FALSE

-----------------------------------------------------------------------------
(* The users *)

\* Handler.sendMessage: a looper that was quit drops the message.
Send(m) == queue' = IF looper = "loop" THEN Append(queue, m) ELSE queue

UserOnly == UNCHANGED <<threadVars, deviceVars, mIsPreviewing, mIsRecording, recVars>>

Begin(u) == op[u] = "idle" /\ Len(queue) <= MAX_QUEUE

\* The user begins a call of several steps, and goes on with it at pc.
Enter(u, what, pc) ==
    op' = [op EXCEPT ![u] = pc] /\ call' = [call EXCEPT ![u] = what]
UserGoto(u, pc) == Enter(u, IF pc = "idle" THEN "none" ELSE call[u], pc)

\* open, startPreview and startRecording throw after release.
Request(u) ==
    /\ Begin(u) /\ Len(queue) < MAX_QUEUE /\ ~mReleased
    /\ Send("open") \/ Send("start") \/ Send("captureStart")
    /\ UserOnly /\ UNCHANGED <<mReleased, userVars>>

StopRecording(u) ==
    /\ Begin(u) /\ Send("captureStop")
    /\ UserOnly /\ UNCHANGED <<mReleased, userVars>>

StopPreview(u) ==
    /\ Begin(u)
    /\ Enter(u, "stopPreview", "remove")
    /\ UserOnly /\ UNCHANGED <<queue, mReleased, waiting>>

Close(u) ==
    /\ Begin(u)
    /\ Enter(u, "close", "isOpened")
    /\ UserOnly /\ UNCHANGED <<queue, mReleased, waiting>>

\* release is the last call of a user.
Release(u) ==
    /\ Begin(u)
    /\ mReleased' = TRUE
    /\ Enter(u, "release", "isOpened")
    /\ UserOnly /\ UNCHANGED <<queue, waiting>>

\* Where close and stopPreview return to.
AfterClose(u) == IF call[u] = "release" THEN "sendRelease" ELSE "idle"
AfterStop(u) == IF call[u] = "stopPreview" THEN "idle" ELSE "sendClose"

IsOpened(u) ==
    /\ op[u] = "isOpened"
    /\ UserGoto(u, IF mUVCCamera THEN "remove" ELSE AfterClose(u))
    /\ UserOnly /\ UNCHANGED <<queue, mReleased, waiting>>

\* removeMessages(MSG_PREVIEW_START) leaves holes, which the looper skips.
RemoveStarts(u) ==
    /\ op[u] = "remove"
    /\ queue' = [i \in 1..Len(queue) |->
                   IF queue[i] = "start" THEN "removed" ELSE queue[i]]
    /\ UserGoto(u, "captureStop")
    /\ UserOnly /\ UNCHANGED <<mReleased, waiting>>

SendCaptureStop(u) ==
    /\ op[u] = "captureStop"
    /\ Send("captureStop") /\ UserGoto(u, "isPreviewing")
    /\ UserOnly /\ UNCHANGED <<mReleased, waiting>>

IsPreviewing(u) ==
    /\ op[u] = "isPreviewing"
    /\ UserGoto(u, IF mUVCCamera /\ mIsPreviewing THEN "sendStop" ELSE AfterStop(u))
    /\ UserOnly /\ UNCHANGED <<queue, mReleased, waiting>>

SendStopAndWait(u) ==
    /\ op[u] = "sendStop"
    /\ Send("stop") /\ waiting' = waiting \cup {u}
    /\ UserGoto(u, "waiting")
    /\ UserOnly /\ UNCHANGED <<mReleased>>

Woken(u) ==
    /\ op[u] = "waiting" /\ u \notin waiting
    /\ UserGoto(u, AfterStop(u))
    /\ UserOnly /\ UNCHANGED <<queue, mReleased, waiting>>

SendClose(u) ==
    /\ op[u] = "sendClose"
    /\ Send("close") /\ UserGoto(u, AfterClose(u))
    /\ UserOnly /\ UNCHANGED <<mReleased, waiting>>

SendRelease(u) ==
    /\ op[u] = "sendRelease"
    /\ Send("release") /\ UserGoto(u, "released")
    /\ UserOnly /\ UNCHANGED <<mReleased, waiting>>

UserCall(u) ==
    Request(u) \/ StopRecording(u) \/ StopPreview(u) \/ Close(u) \/ Release(u)

UserContinue(u) ==
    \/ IsOpened(u) \/ RemoveStarts(u) \/ SendCaptureStop(u) \/ IsPreviewing(u)
    \/ SendStopAndWait(u) \/ Woken(u) \/ SendClose(u) \/ SendRelease(u)

-----------------------------------------------------------------------------
(* The camera thread *)

\* Looper.loop takes a message; camera is the handler to run.
TakeMessage ==
    /\ looper = "loop" /\ camera = "idle" /\ queue # <<>>
    /\ IF Head(queue) = "removed" THEN UNCHANGED <<camera, msg>>
                                  ELSE camera' = Head(queue) /\ msg' = Head(queue)
    /\ queue' = Tail(queue)
    /\ UNCHANGED <<mEncoderType, looper, stopping, deviceVars, flags, recVars,
                   userVars>>

\* The handler goes on at pc; at "idle" the message has been handled.
Goto(pc) == /\ camera' = pc /\ msg' = IF pc = "idle" THEN "none" ELSE msg
            /\ UNCHANGED mEncoderType
Step(pc) == Goto(pc) /\ UNCHANGED <<looper, stopping>>
Done == Step("idle")

\* UVCCamera.stopCapture, when there is a camera.
StopCapture == capture' = IF mUVCCamera THEN None ELSE capture

\* Bug to be caught: a release that came before is forgotten.
HandleUpdateMediaOnly ==
    /\ camera = "mediaUpdate"
    /\ Step("idle")
    /\ UNCHANGED <<queue, deviceVars, flags, recVars, userVars>>

\* handleUpdateMedia; it releases on behalf of a release that came while the
\* recording was ending.
HandleUpdateMedia ==
    /\ camera = "mediaUpdate"
    /\ Step(IF mReleased THEN "release" ELSE "idle")
    /\ UNCHANGED <<queue, deviceVars, flags, recVars, userVars>>

\* handleStopRecording, with which handleClose, and so handleOpen and
\* handleRelease, begin: its critical section.
HandleStopRecording ==
    /\ camera \in {"captureStop", "open", "close", "release"}
    /\ stopping' = mMuxer /\ mMuxer' = None
    /\ StopCapture
    /\ camera' = "stopMuxer"
    /\ UNCHANGED <<queue, mEncoderType, looper, msg, deviceVars, flags, encoder,
                   userVars>>

\* Bug to be caught: a close leaves the encoders recording.
StopMuxerWhenAsked ==
    /\ camera = "stopMuxer"
    /\ encoder' = [r \in Recordings |->
                     IF r = stopping /\ msg = "captureStop" THEN "stopping"
                                                            ELSE encoder[r]]
    /\ stopping' = None
    /\ Goto(IF msg = "captureStop" THEN "idle" ELSE "takeCamera")
    /\ UNCHANGED <<queue, looper, deviceVars, flags, mMuxer, capture, userVars>>

\* muxer.stopRecording asks the encoders to stop.
StopMuxer ==
    /\ camera = "stopMuxer"
    /\ encoder' = [r \in Recordings |->
                     IF r = stopping THEN "stopping" ELSE encoder[r]]
    /\ stopping' = None
    /\ Goto(IF msg = "captureStop" THEN "idle" ELSE "takeCamera")
    /\ UNCHANGED <<queue, looper, deviceVars, flags, mMuxer, capture, userVars>>

\* Where handleClose returns to.
AfterHandleClose == CASE msg = "open"  -> "openCamera"
                      [] msg = "close" -> "idle"
                      [] OTHER         -> "quit"

\* Bug to be caught: the camera keeps being referenced while it is destroyed.
TakeCameraLate ==
    /\ camera = "takeCamera"
    /\ Step(IF mUVCCamera THEN "destroy" ELSE AfterHandleClose)
    /\ UNCHANGED <<queue, deviceVars, flags, recVars, userVars>>

\* handleClose: the camera is taken out of mUVCCamera under mSync ...
TakeCamera ==
    /\ camera = "takeCamera"
    /\ mUVCCamera' = FALSE
    /\ Step(IF mUVCCamera THEN "destroy" ELSE AfterHandleClose)
    /\ UNCHANGED <<queue, native, flags, recVars, userVars>>

\* ... stopped and destroyed; mIsPreviewing stays as it is.
DestroyCamera ==
    /\ camera = "destroy"
    /\ native' = "closed" /\ capture' = None
    /\ Step(AfterHandleClose)
    /\ UNCHANGED <<queue, mUVCCamera, flags, mMuxer, encoder, userVars>>

\* The rest of handleOpen; UVCCamera.open may throw.
OpenCamera ==
    /\ camera = "openCamera"
    /\ \/ native' = "open" /\ mUVCCamera' = TRUE
       \/ UNCHANGED deviceVars
    /\ Done
    /\ UNCHANGED <<queue, flags, recVars, userVars>>

\* Bug to be caught: an exception after the start keeps mIsPreviewing unset.
HandleStartPreviewThrows ==
    /\ camera = "start"
    /\ \/ UNCHANGED native
       \/ mUVCCamera /\ ~mIsPreviewing /\ native' = "preview"
    /\ Done
    /\ UNCHANGED <<queue, mUVCCamera, flags, recVars, userVars>>

\* handleStartPreview does nothing, or setPreviewSize throws, or the camera is
\* started; the result of the native startPreview is not looked at.
HandleStartPreview ==
    /\ camera = "start"
    /\ \/ Done /\ UNCHANGED native
       \/ /\ mUVCCamera /\ ~mIsPreviewing
          /\ native' \in {"open", "preview"}
          /\ Step("startFlag")
    /\ UNCHANGED <<queue, mUVCCamera, flags, recVars, userVars>>

StartFlag ==
    /\ camera = "startFlag"
    /\ mIsPreviewing' = TRUE
    /\ Done
    /\ UNCHANGED <<queue, deviceVars, mIsRecording, mReleased, recVars, userVars>>

\* Bug to be caught: the answer is given before the preview has stopped.
HandleStopPreviewEarly ==
    /\ camera = "stop"
    /\ IF mIsPreviewing THEN Step("stopFlag") /\ waiting' = {}
                        ELSE Done /\ UNCHANGED waiting
    /\ UNCHANGED <<queue, deviceVars, flags, recVars, op, call>>

\* handleStopPreview stops the camera, which also gives up its capture ...
HandleStopPreview ==
    /\ camera = "stop"
    /\ \/ ~mIsPreviewing /\ Done /\ UNCHANGED <<native, capture>>
       \/ /\ mIsPreviewing /\ Step("stopFlag")
          /\ StopCapture
          /\ native' = IF mUVCCamera THEN "open" ELSE native
    /\ UNCHANGED <<queue, mUVCCamera, flags, mMuxer, encoder, userVars>>

\* Bug to be caught: nobody is notified.
StopFlagSilently ==
    /\ camera = "stopFlag"
    /\ mIsPreviewing' = FALSE
    /\ Done
    /\ UNCHANGED <<queue, deviceVars, mIsRecording, mReleased, recVars, userVars>>

\* ... and then answers those who wait.
StopFlag ==
    /\ camera = "stopFlag"
    /\ mIsPreviewing' = FALSE /\ waiting' = {}
    /\ Done
    /\ UNCHANGED <<queue, deviceVars, mIsRecording, mReleased, recVars, op, call>>

\* onPrepared, called on the camera thread for every encoder that is prepared.
OnPrepared(r) ==
    /\ mIsRecording' = TRUE
    /\ capture' = IF mEncoderType = "surface" THEN r ELSE capture

\* Bug to be caught: a recording is begun on top of another.
HandleStartRecordingAnyway ==
    /\ camera = "captureStart"
    /\ \/ Done /\ UNCHANGED <<mIsRecording, capture, encoder>>
       \/ /\ mUVCCamera
          /\ \E r \in Recordings :
                /\ encoder[r] = "none"
                /\ OnPrepared(r)
                /\ encoder' = [encoder EXCEPT ![r] = "prepared"]
          /\ Step("startRecording")
    /\ UNCHANGED <<queue, deviceVars, mIsPreviewing, mReleased, mMuxer, userVars>>

\* Bug to be caught: whether there is a camera is not looked at.
HandleStartRecordingClosed ==
    /\ camera = "captureStart"
    /\ \/ Done /\ UNCHANGED <<mIsRecording, capture, encoder>>
       \/ /\ mMuxer = None
          /\ \E r \in Recordings :
                /\ encoder[r] = "none"
                /\ OnPrepared(r)
                /\ encoder' = [encoder EXCEPT ![r] = "prepared"]
          /\ Step("startRecording")
    /\ UNCHANGED <<queue, deviceVars, mIsPreviewing, mReleased, mMuxer, userVars>>

\* handleStartRecording does nothing, or fails before the first encoder is
\* prepared, or prepares the encoders, the second of which may fail.
HandleStartRecording ==
    /\ camera = "captureStart"
    /\ \/ Done /\ UNCHANGED <<mIsRecording, capture, encoder>>
       \/ /\ mUVCCamera /\ mMuxer = None
          /\ \E r \in Recordings :
                /\ encoder[r] = "none"
                /\ OnPrepared(r)
                /\ \/ /\ encoder' = [encoder EXCEPT ![r] = "prepared"]
                      /\ Step("startRecording")
                   \/ "prepare" \in Faults /\ Done /\ UNCHANGED encoder
    /\ UNCHANGED <<queue, deviceVars, mIsPreviewing, mReleased, mMuxer, userVars>>

\* muxer.startRecording, and the muxer becomes the one that can be stopped.
StartRecording ==
    /\ camera = "startRecording"
    /\ \E r \in Recordings :
          /\ encoder[r] = "prepared"
          /\ encoder' = [encoder EXCEPT ![r] = "recording"]
          /\ mMuxer' = r
    /\ Done
    /\ UNCHANGED <<queue, deviceVars, flags, capture, userVars>>

\* The rest of handleRelease: unless a recording is going to its end, the
\* looper is quit and drops all messages, the delayed ones too.
Quit ==
    /\ camera = "quit"
    /\ \/ /\ mIsRecording
          /\ UNCHANGED <<looper, queue, mReleased, encoder>>
       \/ /\ ~mIsRecording
          /\ looper' = "quit" /\ queue' = <<>> /\ mReleased' = TRUE
          /\ encoder' = [r \in Recordings |->
                           IF encoder[r] = "update" THEN "none" ELSE encoder[r]]
    /\ Goto("idle")
    /\ UNCHANGED <<stopping, deviceVars, mIsPreviewing, mIsRecording, mMuxer,
                   capture, userVars>>

\* The end of run.
ThreadEnds ==
    /\ looper = "quit" /\ camera = "idle"
    /\ looper' = "ended" /\ mReleased' = TRUE /\ waiting' = {}
    /\ UNCHANGED <<queue, mEncoderType, camera, msg, stopping, deviceVars,
                   mIsPreviewing, mIsRecording, recVars, op, call>>

CameraThreadStep ==
    \/ TakeMessage \/ HandleUpdateMedia \/ HandleStopRecording \/ StopMuxer
    \/ TakeCamera \/ DestroyCamera \/ OpenCamera \/ HandleStartPreview
    \/ StartFlag \/ HandleStopPreview \/ StopFlag \/ HandleStartRecording
    \/ StartRecording \/ Quit \/ ThreadEnds

-----------------------------------------------------------------------------
(* The encoder thread of a recording that was asked to stop: onStopped *)

Encoder(r, from, to) ==
    /\ encoder[r] = from /\ encoder' = [encoder EXCEPT ![r] = to]
    /\ UNCHANGED <<threadVars, deviceVars, mIsPreviewing, mReleased, mMuxer, userVars>>

\* A MediaVideoBufferEncoder is neither a MediaVideoEncoder nor a
\* MediaSurfaceEncoder: onStopped ignores it.
OnStoppedIgnored(r) ==
    /\ mEncoderType = "buffer"
    /\ Encoder(r, "stopping", "none")
    /\ UNCHANGED <<queue, mIsRecording, capture>>

OnStopped(r) ==
    /\ mEncoderType # "buffer"
    /\ mIsRecording' = FALSE
    /\ Encoder(r, "stopping", "stopped")
    /\ UNCHANGED <<queue, capture>>

\* Then, with the capture of the moment stopped, which nothing else looks at,
\* onStopped comes to the path of the movie.
AtPath(r, to) ==
    /\ Encoder(r, "stopped", to)
    /\ StopCapture
    /\ UNCHANGED <<queue, mIsRecording>>

\* The path is known: a delayed message, or an exception that is caught, since
\* mHandler is null.
OnStoppedPost(r) == AtPath(r, IF looper = "loop" THEN "update" ELSE "none")

\* The path went with the muxer wrapper: there is nothing to announce.  In a
\* looper that was quit handleRelease finds neither camera nor recording, and
\* its exception is caught.
OnStoppedNoPath(r) ==
    /\ "collected" \in Faults
    /\ ~mReleased \/ looper # "loop"
    /\ AtPath(r, "none")

\* Nor is there, but the handler was released, and handleRelease begins on the
\* encoder's thread.
OnStoppedReleases(r) ==
    /\ "collected" \in Faults
    /\ mReleased /\ looper = "loop"
    /\ AtPath(r, "none")
    /\ elsewhere' = TRUE

\* The second is over.
MediaUpdateDue(r) ==
    /\ Send("mediaUpdate")
    /\ Encoder(r, "update", "none")
    /\ UNCHANGED <<mIsRecording, capture>>

EncoderStep(r) ==
    \/ OnStoppedIgnored(r) \/ OnStopped(r) \/ OnStoppedPost(r)
    \/ OnStoppedNoPath(r) \/ MediaUpdateDue(r)

-----------------------------------------------------------------------------

\* handleRelease runs on no thread but the camera's.
Ongoing == ~elsewhere /\ UNCHANGED elsewhere

Next ==
    \/ Ongoing /\ \E u \in Users : UserCall(u) \/ UserContinue(u)
    \/ Ongoing /\ CameraThreadStep
    \/ Ongoing /\ \E r \in Recordings : EncoderStep(r)
    \/ ~elsewhere /\ \E r \in Recordings : OnStoppedReleases(r)

Spec == Init /\ [][Next]_vars

\* Threads that can run do run, an encoder that was asked to stop stops, and
\* a second passes.  Nothing makes a user call.
FairSpec ==
    /\ Spec
    /\ WF_vars(Ongoing /\ CameraThreadStep)
    /\ \A u \in Users : WF_vars(Ongoing /\ UserContinue(u))
    /\ WF_vars(Ongoing /\ \E r \in Recordings : EncoderStep(r))

-----------------------------------------------------------------------------
(* Properties *)

Messages == {"open", "close", "start", "stop", "captureStart", "captureStop",
             "mediaUpdate", "release"}

QueueTypeOK ==
    /\ queue \in Seq(Messages \cup {"removed"})
    /\ looper # "loop" => queue = <<>>

ThreadTypeOK ==
    /\ mEncoderType \in {"surface", "video", "buffer"}
    /\ looper \in {"loop", "quit", "ended"}
    /\ camera \in Messages \cup {"idle", "stopMuxer", "takeCamera", "destroy",
                     "openCamera", "startFlag", "stopFlag", "startRecording", "quit"}
    /\ msg \in Messages \cup {"none"}
    /\ stopping \in Recordings \cup {None}
    /\ native \in {"closed", "open", "preview"}
    /\ mMuxer \in Recordings \cup {None} /\ capture \in Recordings \cup {None}
    /\ encoder \in [Recordings -> {"none", "prepared", "recording", "stopping",
                                   "stopped", "update"}]

FlagTypeOK == {mUVCCamera, mIsPreviewing, mIsRecording, mReleased} \subseteq BOOLEAN

UserTypeOK ==
    /\ op \in [Users -> {"idle", "isOpened", "remove", "captureStop",
                         "isPreviewing", "sendStop", "waiting", "sendClose",
                         "sendRelease", "released"}]
    /\ call \in [Users -> {"none", "stopPreview", "close", "release"}]
    /\ waiting \subseteq Users

\* The type of every variable; a looper that was quit has no message left.
TypeOK == /\ QueueTypeOK /\ ThreadTypeOK /\ FlagTypeOK /\ UserTypeOK
          /\ elsewhere \in BOOLEAN

\* mUVCCamera, which other threads use under mSync at any time, is a camera
\* that is open; and a camera that is open is never lost: not by an open on
\* top of another, nor by a close, a release or the end of a recording.
CameraAlive == native # "closed" <=> mUVCCamera \/ camera = "destroy"

\* Whatever the order of messages, no preview runs that the handler does not
\* know of and that stopPreview would not stop.
PreviewKnown ==
    native = "preview" => mIsPreviewing \/ camera = "startFlag"

\* At any time at most one recording records, the one that can be stopped.
RecordingOwned ==
    \A r \in Recordings : encoder[r] = "recording" => r \in {mMuxer, stopping}

\* handleStartRecording and handleStopRecording use mUVCCamera after the muxer,
\* untested and outside mSync: there is a camera whenever they do, as long as
\* no encoder's thread runs handleRelease, which takes it away at any point.
RecordingHasCamera ==
    camera = "startRecording" \/ stopping # None => mUVCCamera

\* The camera thread does not end while an encoder records or begins to.
EndsStopped ==
    looper # "loop" =>
      \A r \in Recordings : encoder[r] \notin {"prepared", "recording"}

\* stopPreview, "wait for actually preview stopped to avoid releasing
\* Surface/SurfaceTexture while preview is still running": when it has waited
\* and no other user interferes, the preview is not running.
WokenAfterStop ==
    \A u \in Users : op[u] = "waiting" /\ u \notin waiting => native # "preview"

\* A user who waits for the camera thread before it ends is answered, as long
\* as no encoder's thread runs handleRelease.
StopAnswered ==
    \A u \in Users :
        (u \in waiting /\ looper # "ended") ~> u \notin waiting \/ elsewhere

\* mIsRecording without an encoder that will reset it: onStopped ignores a
\* "buffer" encoder, and a recording that failed to prepare never stops.
RecordingForgotten ==
    mIsRecording /\ \/ mEncoderType = "buffer"
                     \/ \A r \in Recordings :
                           encoder[r] \notin {"prepared", "recording", "stopping"}

\* After release the camera thread ends, when the recording has, unless the
\* end of a recording is not reported, or an encoder whose muxer wrapper was
\* collected runs handleRelease on its own thread, which has no looper to quit.
ReleaseEnds == mReleased ~> looper = "ended" \/ RecordingForgotten \/ elsewhere
=============================================================================
