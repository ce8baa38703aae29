--------------------------- MODULE MediaRecording ---------------------------
(***************************************************************************)
(* One recording: the encoders of a MediaMuxerWrapper, each with the       *)
(* thread that drains its codec into the muxer (MediaEncoder.run), the     *)
(* thread that builds, starts and stops the recording (the camera thread,  *)
(* handleStartRecording and handleStopRecording), and the sources that     *)
(* feed the codecs.  Encoder 1 is the video, 2 the audio encoder.          *)
(*                                                                         *)
(* The muxer is held by the camera handler only: the encoders have a weak  *)
(* reference to it, which they turn into a strong one while they drain.    *)
(* Codecs, frames and the platform's MediaMuxer are external; an exception *)
(* nobody catches ends the process.                                        *)
(***************************************************************************)
EXTENDS Integers, FiniteSets

CONSTANTS N,           \* encoders of the recording
          MAX_DRAIN,   \* bound on mRequestDrain
          MAX_FRAMES   \* bound on the frames a codec is given

ASSUME RecordingAssumption ==
    /\ N \in Nat \ {0}
    /\ MAX_DRAIN \in Nat \ {0} /\ MAX_FRAMES \in Nat

Encoders == 1..N

VARIABLES
    phase, turn,         \* what the camera thread does, to which encoder next
    pc,                  \* of each encoder's thread
    then,                \* what follows the drain that goes on
    mIsCapturing, mRequestStop, mRequestDrain,
    mMuxerStarted,
    codec,               \* mMediaCodec: is there one?
    frames,              \* in the codec, not yet taken out
    mStatredCount, mIsStarted,
    muxer, tracks, written,   \* the platform's MediaMuxer
    collected,           \* the muxer's wrapper was garbage collected
    missed               \* history: encoders whose stop came between the two
                         \* critical sections of the loop

callerVars == <<phase, turn>>
flagVars   == <<mIsCapturing, mRequestStop, mRequestDrain>>
codecVars  == <<codec, frames>>
muxerVars  == <<mMuxerStarted, mStatredCount, mIsStarted, muxer, tracks, written>>
vars == <<callerVars, pc, then, flagVars, codecVars, muxerVars, collected, missed>>

-----------------------------------------------------------------------------
\* A fresh MediaMuxerWrapper.
Init ==
    /\ phase = "construct" /\ turn = 1
    /\ pc = [e \in Encoders |-> "none"]
    /\ then = [e \in Encoders |-> "loop"]
    /\ mIsCapturing = [e \in Encoders |-> FALSE]
    /\ mRequestStop = [e \in Encoders |-> FALSE]
    /\ mRequestDrain = [e \in Encoders |-> 0]
    /\ mMuxerStarted = [e \in Encoders |-> FALSE]
    /\ codec = [e \in Encoders |-> FALSE]
    /\ frames = [e \in Encoders |-> 0]
    /\ mStatredCount = 0 /\ mIsStarted = FALSE
    /\ muxer = "open" /\ tracks = {}
    /\ written = [e \in Encoders |-> 0]
    /\ collected = FALSE /\ missed = {}

\* Mutant of mEncoderCount: the audio encoder is not counted.
mEncoderCountVideo == IF phase = "construct" THEN turn - 1 ELSE 1

\* addEncoder counts the encoders as they are made; none comes later.
mEncoderCount == IF phase = "construct" THEN turn - 1 ELSE N

\* notifyAll on mSync: the thread goes on with its loop.
Notified(e) == IF pc[e] = "waiting" THEN [pc EXCEPT ![e] = "loop"] ELSE pc

-----------------------------------------------------------------------------
(* The camera thread *)

\* The calls of one phase, encoder by encoder.
Proceed(from, to) ==
    /\ phase = from
    /\ turn' = IF turn = N THEN 1 ELSE turn + 1
    /\ phase' = IF turn = N THEN to ELSE from

\* The constructor starts the thread and waits for its first section, which
\* resets the requests and notifies: nothing can come between.
Construct ==
    /\ Proceed("construct", "prepare")
    /\ pc' = [pc EXCEPT ![turn] = "loop"]
    /\ mRequestStop' = [mRequestStop EXCEPT ![turn] = FALSE]
    /\ mRequestDrain' = [mRequestDrain EXCEPT ![turn] = 0]
    /\ UNCHANGED <<then, mIsCapturing, codecVars, muxerVars, collected, missed>>

\* prepare makes the codec, or finds none and says nothing.
Prepare ==
    /\ Proceed("prepare", "start")
    /\ \E found \in BOOLEAN : codec' = [codec EXCEPT ![turn] = found]
    /\ mMuxerStarted' = [mMuxerStarted EXCEPT ![turn] = FALSE]
    /\ UNCHANGED <<pc, then, flagVars, frames, mStatredCount, mIsStarted, muxer,
                   tracks, written, collected, missed>>

\* An exception of prepare leaves the recording unstarted and the muxer
\* without an owner; the encoders' threads are left as they are.
PrepareFails ==
    /\ phase = "prepare"
    /\ phase' = "failed"
    /\ UNCHANGED <<turn, pc, then, flagVars, codecVars, muxerVars, collected, missed>>

StartRecording ==
    /\ Proceed("start", "recording")
    /\ mIsCapturing' = [mIsCapturing EXCEPT ![turn] = TRUE]
    /\ mRequestStop' = [mRequestStop EXCEPT ![turn] = FALSE]
    /\ pc' = Notified(turn)
    /\ UNCHANGED <<then, mRequestDrain, codecVars, muxerVars, collected, missed>>

\* handleStopRecording takes the muxer out of its field.
HandleStopRecording ==
    /\ phase = "recording"
    /\ phase' = "stop"
    /\ UNCHANGED <<turn, pc, then, flagVars, codecVars, muxerVars, collected, missed>>

StopRecording ==
    /\ Proceed("stop", "stopped")
    /\ LET e == turn
           heard == mIsCapturing[e] /\ ~mRequestStop[e]
       IN  /\ mRequestStop' = [mRequestStop EXCEPT ![e] = heard \/ @]
           /\ pc' = IF heard THEN Notified(e) ELSE pc
           /\ missed' = IF heard /\ pc[e] = "idle" THEN missed \cup {e} ELSE missed
    /\ UNCHANGED <<then, mIsCapturing, mRequestDrain, codecVars, muxerVars, collected>>

CameraThreadStep ==
    \/ Construct \/ Prepare \/ PrepareFails \/ StartRecording
    \/ HandleStopRecording \/ StopRecording

-----------------------------------------------------------------------------
(* The sources: the audio thread, the frame callback or the renderer *)

Frame(e) ==
    /\ codec[e] /\ frames[e] + written[e] < MAX_FRAMES
    /\ frames' = [frames EXCEPT ![e] = @ + 1]
    /\ UNCHANGED <<callerVars, pc, then, flagVars, codec, muxerVars, collected, missed>>

\* The count is capped at MAX_DRAIN.
FrameAvailableSoon(e) ==
    /\ mIsCapturing[e] /\ ~mRequestStop[e]
    /\ mRequestDrain' = [mRequestDrain EXCEPT
                           ![e] = IF @ < MAX_DRAIN THEN @ + 1 ELSE @]
    /\ pc' = Notified(e)
    /\ UNCHANGED <<callerVars, then, mIsCapturing, mRequestStop, codecVars,
                   muxerVars, collected, missed>>

-----------------------------------------------------------------------------
(* The thread of an encoder: MediaEncoder.run *)

EncoderGoto(e, next) == pc' = [pc EXCEPT ![e] = next]

\* drain begins: without a codec or a muxer it returns at once.
DrainPc(e) == IF codec[e] /\ ~collected THEN "drain" ELSE "drained"

\* The first critical section of the loop reads and lowers the requests.
Loop(e) ==
    /\ pc[e] = "loop"
    /\ mRequestDrain' = [mRequestDrain EXCEPT ![e] = IF @ > 0 THEN @ - 1 ELSE 0]
    /\ EncoderGoto(e, IF mRequestStop[e] \/ mRequestDrain[e] > 0
                      THEN DrainPc(e) ELSE "idle")
    /\ then' = [then EXCEPT ![e] = IF mRequestStop[e] THEN "endOfStream" ELSE "loop"]
    /\ UNCHANGED <<callerVars, mIsCapturing, mRequestStop, codecVars, muxerVars, collected, missed>>

\* The second one waits, whatever was requested in between.
Wait(e) ==
    /\ pc[e] = "idle"
    /\ EncoderGoto(e, "waiting")
    /\ UNCHANGED <<callerVars, then, flagVars, codecVars, muxerVars, collected, missed>>

SpuriousWakeup(e) ==
    /\ pc[e] = "waiting"
    /\ EncoderGoto(e, "loop")
    /\ UNCHANGED <<callerVars, then, flagVars, codecVars, muxerVars, collected, missed>>

\* drain: the codec tells its format before its first output, once.
DrainFormat(e) ==
    /\ pc[e] = "drain" /\ frames[e] > 0 /\ ~mMuxerStarted[e]
    /\ IF mIsStarted THEN EncoderGoto(e, "crashed") /\ UNCHANGED <<tracks, mMuxerStarted>>
       ELSE /\ tracks' = tracks \cup {e}
            /\ mMuxerStarted' = [mMuxerStarted EXCEPT ![e] = TRUE]
            /\ EncoderGoto(e, "startMuxer")
    /\ UNCHANGED <<callerVars, then, flagVars, codecVars, mStatredCount,
                   mIsStarted, muxer, written, collected, missed>>

\* Mutant of StartMuxer: the first encoder does not wait for the others.
StartMuxerAlone(e) ==
    /\ pc[e] = "startMuxer"
    /\ mStatredCount' = mStatredCount + 1
    /\ mIsStarted' = (mStatredCount' = mEncoderCount \/ mIsStarted)
    /\ muxer' = IF mIsStarted' THEN "started" ELSE muxer
    /\ EncoderGoto(e, "drain")
    /\ UNCHANGED <<callerVars, then, flagVars, codecVars, mMuxerStarted,
                   tracks, written, collected, missed>>

\* MediaMuxerWrapper.start: the last encoder starts the muxer, the others
\* are to wait for it.
StartMuxer(e) ==
    /\ pc[e] = "startMuxer"
    /\ mStatredCount' = mStatredCount + 1
    /\ mIsStarted' = (mStatredCount' = mEncoderCount \/ mIsStarted)
    /\ muxer' = IF mStatredCount' = mEncoderCount THEN "started" ELSE muxer
    /\ EncoderGoto(e, IF mIsStarted' THEN "drain" ELSE "barrier")
    /\ UNCHANGED <<callerVars, then, flagVars, codecVars, mMuxerStarted,
                   tracks, written, collected, missed>>

\* The wait for isStarted, which nothing else ends.
Barrier(e) ==
    /\ pc[e] = "barrier" /\ mIsStarted
    /\ EncoderGoto(e, "drain")
    /\ UNCHANGED <<callerVars, then, flagVars, codecVars, muxerVars, collected, missed>>

\* writeSampleData drops the sample when no encoder has started.
DrainSample(e) ==
    /\ pc[e] = "drain" /\ frames[e] > 0 /\ mMuxerStarted[e]
    /\ frames' = [frames EXCEPT ![e] = @ - 1]
    /\ written' = [written EXCEPT ![e] = IF mStatredCount > 0 THEN @ + 1 ELSE @]
    /\ UNCHANGED <<callerVars, pc, then, flagVars, codec, mMuxerStarted,
                   mStatredCount, mIsStarted, muxer, tracks, collected, missed>>

\* Mutant of DrainEnds: the drains of a stop wait for the end of the stream.
DrainEndsAtEndOfStream(e) ==
    /\ pc[e] = "drain" /\ then[e] = "loop"
    /\ EncoderGoto(e, "drained")
    /\ UNCHANGED <<callerVars, then, flagVars, codecVars, muxerVars, collected, missed>>

\* The codec had nothing to give for a while, or is slow.
DrainEnds(e) ==
    /\ pc[e] = "drain"
    /\ EncoderGoto(e, "drained")
    /\ UNCHANGED <<callerVars, then, flagVars, codecVars, muxerVars, collected, missed>>

\* After the drain: the loop, the end of the stream, which an encoder without
\* a codec does not survive and otherwise reaches no codec (its buffer has
\* length zero), with another drain, or release.
AfterDrain(e) ==
    /\ pc[e] = "drained"
    /\ EncoderGoto(e, CASE then[e] = "loop" -> "loop"
                        [] then[e] = "endOfStream" ->
                             IF codec[e] THEN DrainPc(e) ELSE "crashed"
                        [] then[e] = "release" -> "release")
    /\ then' = [then EXCEPT ![e] = IF @ = "endOfStream" THEN "release" ELSE @]
    /\ UNCHANGED <<callerVars, flagVars, codecVars, muxerVars, collected, missed>>

\* release: onStopped is called and the codec released ...
Release(e) ==
    /\ pc[e] = "release"
    /\ mIsCapturing' = [mIsCapturing EXCEPT ![e] = FALSE]
    /\ codec' = [codec EXCEPT ![e] = FALSE]
    /\ frames' = [frames EXCEPT ![e] = 0]
    /\ EncoderGoto(e, "stopMuxer")
    /\ UNCHANGED <<callerVars, then, mRequestStop, mRequestDrain, muxerVars, collected, missed>>

\* ... then the muxer, if there still is one, is told.  The thread ends.
StopMuxer(e) ==
    /\ pc[e] = "stopMuxer"
    /\ IF mMuxerStarted[e] /\ ~collected
          THEN /\ mStatredCount' = mStatredCount - 1
               /\ muxer' = IF mStatredCount' <= 0 THEN "stopped" ELSE muxer
               /\ mIsStarted' = (mIsStarted /\ mStatredCount' > 0)
          ELSE UNCHANGED <<mStatredCount, muxer, mIsStarted>>
    /\ EncoderGoto(e, "ended")
    /\ mRequestStop' = [mRequestStop EXCEPT ![e] = TRUE]
    /\ UNCHANGED <<callerVars, then, mIsCapturing, mRequestDrain, codecVars,
                   mMuxerStarted, tracks, written, collected, missed>>

EncoderStep(e) ==
    \/ Loop(e) \/ Wait(e) \/ DrainFormat(e) \/ StartMuxer(e) \/ Barrier(e)
    \/ DrainSample(e) \/ DrainEnds(e) \/ AfterDrain(e) \/ Release(e) \/ StopMuxer(e)

-----------------------------------------------------------------------------
\* Nobody but the encoders' weak references knows the muxer any more.
InUse == {"drain", "startMuxer", "barrier"}
Collect ==
    /\ phase \in {"failed", "stopped"} /\ ~collected
    /\ \A e \in Encoders : pc[e] \notin InUse
    /\ collected' = TRUE
    /\ UNCHANGED <<callerVars, pc, then, flagVars, codecVars, muxerVars, missed>>

Running == \A e \in Encoders : pc[e] # "crashed"

Next ==
    /\ Running
    /\ \/ CameraThreadStep
       \/ \E e \in Encoders : Frame(e) \/ FrameAvailableSoon(e)
       \/ \E e \in Encoders : EncoderStep(e) \/ SpuriousWakeup(e)
       \/ Collect

Spec == Init /\ [][Next]_vars

\* The threads run on once they are started; nobody has to stop a recording,
\* to send a frame, or to collect garbage.
FairSpec ==
    /\ Spec
    /\ \A e \in Encoders : WF_vars(Running /\ EncoderStep(e))
    /\ WF_vars(Running /\ StopRecording)

-----------------------------------------------------------------------------
(* Properties *)

\* Types, and the bounds.
TypeOK ==
    /\ phase \in {"construct", "prepare", "start", "recording", "stop", "stopped", "failed"}
    /\ turn \in Encoders
    /\ pc \in [Encoders -> {"none", "loop", "idle", "waiting", "drain", "startMuxer",
                            "barrier", "drained", "release", "stopMuxer", "ended", "crashed"}]
    /\ then \in [Encoders -> {"loop", "endOfStream", "release"}]
    /\ mIsCapturing \in [Encoders -> BOOLEAN] /\ mRequestStop \in [Encoders -> BOOLEAN]
    /\ mRequestDrain \in [Encoders -> 0..MAX_DRAIN]
    /\ mMuxerStarted \in [Encoders -> BOOLEAN] /\ codec \in [Encoders -> BOOLEAN]
    /\ frames \in [Encoders -> 0..MAX_FRAMES] /\ written \in [Encoders -> 0..MAX_FRAMES]
    /\ mStatredCount \in 0..N /\ mIsStarted \in BOOLEAN
    /\ muxer \in {"open", "started", "stopped"} /\ tracks \subseteq Encoders
    /\ collected \in BOOLEAN /\ missed \subseteq Encoders

\* The encoders drive the platform's muxer as it asks for: all tracks, start,
\* samples of encoders that still run, one stop after the last, whatever the
\* order in which the encoders get their formats, stop and end.
Movie == INSTANCE MovieFile WITH
    Tracks <- Encoders,
    file <- IF collected /\ muxer # "stopped" THEN "lost" ELSE muxer,
    added <- tracks,
    finished <- {e \in Encoders : pc[e] = "ended"},
    samples <- written
KeepsMovieFile == Movie!Spec

\* An encoder ends only by a crash that a missing codec explains: the two
\* checks that throw in drain and addTrack never do.
OnlyMissingCodecCrashes ==
    \A e \in Encoders : pc[e] = "crashed" => ~codec[e]

\* The only ways in which a stopped encoder keeps its thread: the request fell
\* between its test and its wait, or it is at the barrier and stays there,
\* because another encoder was stopped before it had a format.
Unheard(e) == pc[e] = "waiting" /\ e \in missed
StopEnds ==
    \A e \in Encoders :
        (phase = "stopped")
          ~> \/ pc[e] = "ended"
             \/ Unheard(e)
             \/ pc[e] = "barrier" /\ \E other \in Encoders : other \notin tracks
             \/ ~Running
=============================================================================
