----------------------- MODULE MediaRecording_proofs -----------------------
(***************************************************************************)
(* For every number of encoders: the muxer's calls follow MovieFile, only  *)
(* a missing codec ends an encoder's thread by an exception, and a stopped *)
(* encoder is held up by nothing but what StopEnds names.                  *)
(*                                                                         *)
(* What makes them inductive is what mStatredCount counts: the encoders    *)
(* that told their track, passed start() and have not yet told their end.  *)
(* So the muxer starts when every encoder is among them and stops when the *)
(* last one leaves, and an encoder past the barrier knows it started.      *)
(***************************************************************************)
EXTENDS MediaRecording, FiniteSetTheorems, TLAPS

\* The encoders mStatredCount stands for.
Counted == {e \in Encoders : mMuxerStarted[e] /\ pc[e] \notin {"startMuxer", "ended"}}

\* Before a recording is started the encoders' threads have nothing to do.
Unstarted ==
    phase \in {"construct", "prepare", "failed"} =>
      \A e \in Encoders :
         /\ pc[e] \in {"none", "loop", "idle", "waiting"}
         /\ ~mIsCapturing[e] /\ ~mRequestStop[e] /\ mRequestDrain[e] = 0
         /\ ~mMuxerStarted[e]

Counting  == ~collected => mStatredCount = Cardinality(Counted)
TrackKnown == tracks = {e \in Encoders : mMuxerStarted[e]}
AtStart ==
    \A e \in Encoders : pc[e] \in {"startMuxer", "barrier"} => mMuxerStarted[e]

\* The muxer runs once every encoder has passed start(), and to the last end.
StartedByAll ==
    /\ mIsStarted <=> muxer = "started"
    /\ mIsStarted => \A e \in Encoders : mMuxerStarted[e] /\ pc[e] # "startMuxer"
    /\ muxer = "stopped" => \A e \in Encoders : pc[e] = "ended"

\* An encoder past the barrier.
Passed ==
    \A e \in Encoders :
       mMuxerStarted[e] /\ pc[e] \notin {"startMuxer", "barrier"} => muxer # "open"

Unreachable == collected => \A e \in Encoders : pc[e] \notin InUse

FramesCounted == \A e \in Encoders : frames[e] + written[e] <= MAX_FRAMES

Muxing ==
    Counting /\ TrackKnown /\ AtStart /\ StartedByAll /\ Passed /\ Unreachable

-----------------------------------------------------------------------------
(* Sets of encoders *)

\* Encoders are finitely many, and only all of them are N.
LEMMA EncodersFinite ==
    /\ N \in Nat /\ N > 0 /\ IsFiniteSet(Encoders) /\ Cardinality(Encoders) = N
    /\ \A S \in SUBSET Encoders :
          /\ IsFiniteSet(S) /\ Cardinality(S) \in 0..N
          /\ Cardinality(S) = N => S = Encoders
  <1>1. N \in Nat /\ N > 0 /\ IsFiniteSet(Encoders) /\ Cardinality(Encoders) = N
    BY RecordingAssumption, FS_Interval DEF Encoders
  <1>2. ASSUME NEW S \in SUBSET Encoders
        PROVE  /\ IsFiniteSet(S) /\ Cardinality(S) \in 0..N
               /\ Cardinality(S) = N => S = Encoders
    <2>1. /\ IsFiniteSet(S) /\ Cardinality(S) <= N
          /\ Cardinality(S) = N => S = Encoders
      BY <1>1, FS_Subset
    <2> QED BY <1>1, <2>1, FS_CardinalityType
  <1> QED BY <1>1, <1>2

-----------------------------------------------------------------------------
(* Types *)

Pcs == {"none", "loop", "idle", "waiting", "drain", "startMuxer", "barrier",
        "drained", "release", "stopMuxer", "ended", "crashed"}

\* TypeOK without the count, whose range is a matter of what it counts.
Types ==
    /\ phase \in {"construct", "prepare", "start", "recording", "stop", "stopped", "failed"}
    /\ turn \in Encoders
    /\ pc \in [Encoders -> Pcs]
    /\ then \in [Encoders -> {"loop", "endOfStream", "release"}]
    /\ mIsCapturing \in [Encoders -> BOOLEAN] /\ mRequestStop \in [Encoders -> BOOLEAN]
    /\ mRequestDrain \in [Encoders -> 0..MAX_DRAIN]
    /\ mMuxerStarted \in [Encoders -> BOOLEAN] /\ codec \in [Encoders -> BOOLEAN]
    /\ frames \in [Encoders -> 0..MAX_FRAMES] /\ written \in [Encoders -> 0..MAX_FRAMES]
    /\ mIsStarted \in BOOLEAN
    /\ muxer \in {"open", "started", "stopped"} /\ tracks \subseteq Encoders
    /\ collected \in BOOLEAN /\ missed \subseteq Encoders

\* The bounds are numbers.
LEMMA Bounds == N \in Nat \ {0} /\ MAX_DRAIN \in Nat \ {0} /\ MAX_FRAMES \in Nat
  BY RecordingAssumption

\* The camera thread goes through the encoders.
LEMMA TurnType ==
    ASSUME NEW from, NEW to, turn \in Encoders, Proceed(from, to)
    PROVE  turn' \in Encoders /\ phase' \in {from, to}
  BY Bounds DEF Proceed, Encoders

\* Every step keeps the types and the frames' bound.
LEMMA TypesStep == Types /\ FramesCounted /\ Next => Types' /\ FramesCounted'
  <1> SUFFICES ASSUME Types, FramesCounted, Next PROVE Types' /\ FramesCounted'
    OBVIOUS
  <1> USE Bounds DEF Types, Pcs, FramesCounted, callerVars, flagVars, codecVars, muxerVars
  <1>1. CASE CameraThreadStep
    <2> USE DEF Notified
    <2>1. CASE Construct
      BY <2>1, TurnType DEF Construct
    <2>2. CASE Prepare
      BY <2>2, TurnType DEF Prepare
    <2>3. CASE PrepareFails \/ HandleStopRecording
      BY <2>3 DEF PrepareFails, HandleStopRecording
    <2>4. CASE StartRecording
      BY <2>4, TurnType DEF StartRecording
    <2>5. CASE StopRecording
      BY <2>5, TurnType DEF StopRecording
    <2> QED BY <1>1, <2>1, <2>2, <2>3, <2>4, <2>5 DEF CameraThreadStep
  <1>2. ASSUME NEW e \in Encoders, Frame(e) \/ FrameAvailableSoon(e)
        PROVE  Types' /\ FramesCounted'
    BY <1>2 DEF Frame, FrameAvailableSoon, Notified
  <1>3. ASSUME NEW e \in Encoders, EncoderStep(e) \/ SpuriousWakeup(e)
        PROVE  Types' /\ FramesCounted'
    <2> USE DEF EncoderGoto, DrainPc
    <2>1. CASE Loop(e)
      BY <2>1 DEF Loop
    <2>2. CASE Wait(e) \/ SpuriousWakeup(e) \/ DrainEnds(e) \/ Barrier(e)
      BY <2>2 DEF Wait, SpuriousWakeup, DrainEnds, Barrier
    <2>3. CASE DrainFormat(e)
      <3>1. pc' \in [Encoders -> Pcs] /\ tracks' \subseteq Encoders
        BY <2>3 DEF DrainFormat
      <3>2. mMuxerStarted' \in [Encoders -> BOOLEAN]
        BY <2>3 DEF DrainFormat
      <3> QED BY <2>3, <3>1, <3>2 DEF DrainFormat
    <2>4. CASE StartMuxer(e)
      <3>1. mIsStarted' \in BOOLEAN
        BY <2>4, Zenon DEF StartMuxer
      <3>2. muxer' \in {"open", "started", "stopped"}
        BY <2>4 DEF StartMuxer
      <3>3. pc' \in [Encoders -> Pcs]
        BY <2>4 DEF StartMuxer
      <3> QED BY <2>4, <3>1, <3>2, <3>3 DEF StartMuxer
    <2>5. CASE DrainSample(e)
      BY <2>5 DEF DrainSample
    <2>6. CASE AfterDrain(e)
      BY <2>6 DEF AfterDrain
    <2>7. CASE Release(e)
      BY <2>7 DEF Release
    <2>8. CASE StopMuxer(e)
      BY <2>8 DEF StopMuxer
    <2> QED BY <1>3, <2>1, <2>2, <2>3, <2>4, <2>5, <2>6, <2>7, <2>8 DEF EncoderStep
  <1>4. CASE Collect
    BY <1>4 DEF Collect
  <1> QED BY <1>1, <1>2, <1>3, <1>4 DEF Next

-----------------------------------------------------------------------------
(* The steps that leave the muxer alone *)

\* A step that does not move an encoder into, out of or past start(), or to
\* its end, nor into a drain once there is no muxer.
Calm ==
    /\ UNCHANGED <<mMuxerStarted, mStatredCount, mIsStarted, muxer, tracks, collected>>
    /\ \A e \in Encoders :
          \/ pc'[e] = pc[e]
          \/ /\ pc[e] \notin {"startMuxer", "barrier", "ended"}
             /\ pc'[e] \notin {"startMuxer", "barrier", "ended"}
             /\ collected => pc'[e] # "drain"

\* Such a step keeps all that is said of the muxer.
LEMMA CalmMuxing == Types /\ Muxing /\ Calm => Muxing'
  <1> SUFFICES ASSUME Types, Muxing, Calm PROVE Muxing'
    OBVIOUS
  <1>1. Counted' = Counted
    BY DEF Calm, Counted
  <1>2. Counting'
    BY <1>1 DEF Calm, Muxing, Counting
  <1>3. TrackKnown' /\ AtStart' /\ Passed'
    BY DEF Calm, Muxing, TrackKnown, AtStart, Passed
  <1>4. StartedByAll' /\ Unreachable'
    BY DEF Calm, Muxing, StartedByAll, Unreachable, InUse
  <1> QED BY <1>2, <1>3, <1>4 DEF Muxing

\* The camera thread, the sources and the loop of an encoder are calm.
LEMMA CallerIsCalm ==
    Types /\ Unstarted /\ CameraThreadStep => Calm /\ UNCHANGED written
  <1> SUFFICES ASSUME Types, Unstarted, CameraThreadStep
               PROVE  Calm /\ UNCHANGED written
    OBVIOUS
  <1> USE DEF Types, Calm, Proceed, Notified, muxerVars
  <1>1. CASE Construct
    BY <1>1 DEF Construct, Unstarted
  <1>2. CASE Prepare
    BY <1>2 DEF Prepare, Unstarted
  <1>3. CASE PrepareFails \/ StartRecording \/ HandleStopRecording
    BY <1>3 DEF PrepareFails, StartRecording, HandleStopRecording
  <1>4. CASE StopRecording
    BY <1>4 DEF StopRecording
  <1> QED BY <1>1, <1>2, <1>3, <1>4 DEF CameraThreadStep

\* Of an encoder's thread: what it does outside start(), stop() and addTrack.
Aside(e) ==
    \/ Frame(e) \/ FrameAvailableSoon(e) \/ SpuriousWakeup(e)
    \/ Loop(e) \/ Wait(e) \/ DrainEnds(e) \/ AfterDrain(e) \/ Release(e)

LEMMA AsideIsCalm ==
    ASSUME Types, NEW e \in Encoders, Aside(e)
    PROVE  Calm /\ UNCHANGED written
  <1> USE DEF Types, Calm, Notified, EncoderGoto, DrainPc, codecVars, muxerVars
  <1>1. CASE Frame(e) \/ FrameAvailableSoon(e) \/ SpuriousWakeup(e)
    BY <1>1 DEF Frame, FrameAvailableSoon, SpuriousWakeup
  <1>2. CASE Loop(e) \/ Wait(e) \/ DrainEnds(e) \/ Release(e)
    BY <1>2 DEF Loop, Wait, DrainEnds, Release
  <1>3. CASE AfterDrain(e)
    BY <1>3 DEF AfterDrain
  <1> QED BY <1>1, <1>2, <1>3 DEF Aside

-----------------------------------------------------------------------------
(* The steps that drive the muxer *)

\* addTrack: an encoder without a track finds the muxer open.
LEMMA FormatStep ==
    ASSUME Types, Muxing, NEW e \in Encoders, DrainFormat(e)
    PROVE  /\ Muxing' /\ muxer = "open" /\ ~collected /\ e \notin tracks
           /\ tracks' = tracks \cup {e} /\ pc' = [pc EXCEPT ![e] = "startMuxer"]
  <1> USE DEF DrainFormat, EncoderGoto, muxerVars
  <1>1. ~mIsStarted /\ muxer = "open" /\ ~collected /\ e \notin tracks
    BY DEF Types, Muxing, StartedByAll, Unreachable, InUse, TrackKnown
  <1>2. /\ tracks' = tracks \cup {e} /\ pc' = [pc EXCEPT ![e] = "startMuxer"]
        /\ mMuxerStarted' = [mMuxerStarted EXCEPT ![e] = TRUE]
        /\ UNCHANGED <<mStatredCount, mIsStarted, muxer, collected>>
    BY <1>1
  <1> HIDE DEF DrainFormat
  <1>3. Counted' = Counted
    BY <1>2 DEF Types, Counted, DrainFormat
  <1>4. Counting' /\ Unreachable'
    BY <1>1, <1>2, <1>3 DEF Muxing, Counting, Unreachable
  <1>5. TrackKnown' /\ AtStart' /\ Passed' /\ StartedByAll'
    BY <1>1, <1>2 DEF Types, Muxing, TrackKnown, AtStart, Passed, StartedByAll
  <1> QED BY <1>1, <1>2, <1>4, <1>5 DEF Muxing

\* start(): the last encoder to come starts the muxer, which knows all tracks.
LEMMA StartStep ==
    ASSUME Types, Unstarted, Muxing, NEW e \in Encoders, StartMuxer(e)
    PROVE  /\ Muxing' /\ muxer = "open" /\ ~collected /\ UNCHANGED tracks
           /\ pc'[e] \in {"drain", "barrier"}
           /\ \/ muxer' = "started" /\ tracks = Encoders
              \/ UNCHANGED muxer
  <1> USE DEF StartMuxer, EncoderGoto
  <1>1. ~mIsStarted /\ muxer = "open" /\ ~collected /\ mMuxerStarted[e]
    BY DEF Types, Muxing, StartedByAll, Unreachable, InUse, AtStart
  <1>2. mEncoderCount = N
    BY DEF mEncoderCount, Unstarted
  <1>3. Counted' = Counted \cup {e} /\ e \notin Counted
    BY <1>1 DEF Types, Counted
  <1>4. mStatredCount' = Cardinality(Counted') /\ UNCHANGED collected
    <2>1. IsFiniteSet(Counted) /\ Cardinality(Counted \cup {e}) = Cardinality(Counted) + 1
      BY <1>3, EncodersFinite, FS_AddElement DEF Counted
    <2> QED BY <1>1, <1>3, <2>1 DEF Muxing, Counting
  <1>5. mStatredCount' = N => Counted' = Encoders
    BY <1>4, EncodersFinite DEF Counted
  <1>6. CASE mStatredCount' = N
    <2>1. /\ mIsStarted' /\ muxer' = "started" /\ pc' = [pc EXCEPT ![e] = "drain"]
          /\ UNCHANGED <<mMuxerStarted, tracks, collected>>
      BY <1>2, <1>6
    <2>2. \A x \in Encoders : mMuxerStarted'[x] /\ pc'[x] \notin {"startMuxer", "ended"}
      BY <1>5, <1>6 DEF Counted
    <2>3. TrackKnown' /\ AtStart' /\ Passed' /\ StartedByAll' /\ Unreachable'
      BY <1>1, <2>1, <2>2 DEF Muxing, TrackKnown, AtStart, Passed, StartedByAll, Unreachable
    <2>4. tracks = Encoders
      BY <2>1, <2>2 DEF Muxing, TrackKnown
    <2> QED BY <1>1, <1>4, <2>1, <2>3, <2>4 DEF Muxing, Counting, Types
  <1>7. CASE mStatredCount' # N
    <2>1. /\ ~mIsStarted' /\ pc' = [pc EXCEPT ![e] = "barrier"]
          /\ UNCHANGED <<muxer, mMuxerStarted, tracks, collected>>
      BY <1>1, <1>2, <1>7
    <2>2. TrackKnown' /\ AtStart' /\ Passed' /\ StartedByAll' /\ Unreachable'
      BY <1>1, <2>1 DEF Types, Muxing, TrackKnown, AtStart, Passed, StartedByAll, Unreachable
    <2> QED BY <1>1, <1>4, <2>1, <2>2 DEF Muxing, Counting, Types
  <1> QED BY <1>6, <1>7

\* An encoder leaves the barrier when the muxer runs.
LEMMA BarrierStep ==
    ASSUME Types, Muxing, NEW e \in Encoders, Barrier(e)
    PROVE  Muxing' /\ UNCHANGED <<muxer, tracks, written, collected>>
                   /\ pc' = [pc EXCEPT ![e] = "drain"]
  <1> USE DEF Barrier, EncoderGoto, muxerVars
  <1>1. muxer = "started" /\ ~collected
    BY DEF Muxing, StartedByAll, Unreachable, InUse
  <1>2. Counted' = Counted
    BY DEF Types, Counted
  <1>3. Counting' /\ Unreachable' /\ TrackKnown'
    BY <1>1, <1>2 DEF Muxing, Counting, Unreachable, TrackKnown
  <1>4. AtStart' /\ Passed' /\ StartedByAll'
    BY <1>1 DEF Types, Muxing, AtStart, Passed, StartedByAll
  <1> QED BY <1>3, <1>4 DEF Muxing

\* stop(): the last encoder to end stops the muxer, and no other does.
LEMMA StopStep ==
    ASSUME Types, Muxing, NEW e \in Encoders, StopMuxer(e)
    PROVE  /\ Muxing' /\ UNCHANGED <<tracks, written, collected>> /\ muxer # "stopped"
           /\ pc' = [pc EXCEPT ![e] = "ended"]
           /\ collected => UNCHANGED muxer
           /\ ~collected => muxer' = IF muxer = "started"
                                        /\ \A x \in Encoders \ {e} : pc[x] = "ended"
                                     THEN "stopped" ELSE muxer
  <1> USE DEF StopMuxer, EncoderGoto
  <1>0. /\ muxer # "stopped" /\ pc' = [pc EXCEPT ![e] = "ended"]
        /\ UNCHANGED <<mMuxerStarted, tracks, written, collected>>
        /\ mIsStarted \in BOOLEAN /\ mIsStarted <=> muxer = "started"
        /\ pc[e] = "stopMuxer" /\ pc \in [Encoders -> Pcs]
    BY DEF Types, Muxing, StartedByAll
  <1>1. TrackKnown' /\ AtStart' /\ Unreachable'
    BY <1>0 DEF Muxing, TrackKnown, AtStart, Unreachable, InUse
  <1>2. CASE mMuxerStarted[e] /\ ~collected
    <2>1. muxer = "started" /\ \A x \in Encoders : mMuxerStarted[x] /\ pc[x] # "startMuxer"
      BY <1>0, <1>2 DEF Types, Muxing, Passed, StartedByAll
    <2>2. Counted' = Counted \ {e} /\ e \in Counted
      BY <1>0, <1>2 DEF Counted
    <2>3. IsFiniteSet(Counted) /\ Counted' \subseteq Encoders
      BY EncodersFinite DEF Counted
    <2>4. mStatredCount' = Cardinality(Counted') /\ Cardinality(Counted') \in Nat
      BY <1>2, <2>2, <2>3, FS_RemoveElement, FS_CardinalityType DEF Muxing, Counting
    <2>5. mStatredCount' <= 0 <=> Counted' = {}
      BY <2>2, <2>3, <2>4, FS_RemoveElement, FS_EmptySet
    <2>6. Counted' = {} <=> \A x \in Encoders \ {e} : pc[x] = "ended"
      BY <1>0, <2>1, <2>2 DEF Counted
    <2>7. /\ muxer' = IF Counted' = {} THEN "stopped" ELSE muxer
          /\ mIsStarted' = (mIsStarted /\ ~(Counted' = {}))
      BY <1>2, <2>4, <2>5
    <2>8. Counting'
      BY <2>4 DEF Counting
    <2>9. StartedByAll'
      BY <1>0, <2>1, <2>6, <2>7 DEF StartedByAll
    <2>10. Passed'
      BY <1>0, <2>1, <2>7 DEF Muxing, Passed
    <2> QED BY <1>0, <1>1, <1>2, <2>1, <2>6, <2>7, <2>8, <2>9, <2>10 DEF Muxing
  <1>3. CASE ~mMuxerStarted[e] \/ collected
    <2>1. UNCHANGED <<mStatredCount, muxer, mIsStarted>>
      BY <1>3
    <2>2. ~collected => Counted' = Counted /\ muxer # "started"
      BY <1>0, <1>3 DEF Counted, Muxing, StartedByAll
    <2>3. Counting'
      BY <1>0, <2>1, <2>2 DEF Muxing, Counting
    <2>4. StartedByAll'
      BY <1>0, <2>1 DEF Muxing, StartedByAll
    <2>5. Passed'
      BY <1>0, <2>1 DEF Muxing, Passed
    <2> QED BY <1>0, <1>1, <2>1, <2>2, <2>3, <2>4, <2>5 DEF Muxing
  <1> QED BY <1>2, <1>3

\* A sample is written while the muxer runs, by an encoder that has not ended.
LEMMA SampleStep ==
    ASSUME Types, Muxing, NEW e \in Encoders, DrainSample(e)
    PROVE  /\ Calm /\ muxer = "started" /\ ~collected /\ e \in tracks
           /\ pc[e] # "ended" /\ UNCHANGED pc
           /\ written' = [written EXCEPT ![e] = @ + 1]
  <1> USE DEF DrainSample
  <1>1. muxer = "started" /\ ~collected /\ e \in tracks
    BY DEF Types, Muxing, Passed, StartedByAll, Unreachable, InUse, TrackKnown
  <1>2. mStatredCount > 0
    <2>1. IsFiniteSet(Counted) /\ e \in Counted
      BY EncodersFinite DEF Counted
    <2>2. Cardinality(Counted) \in Nat /\ Cardinality(Counted) # 0
      BY <2>1, FS_CardinalityType, FS_EmptySet
    <2> QED BY <1>1, <2>2 DEF Muxing, Counting
  <1> QED BY <1>1, <1>2 DEF Calm

\* Nobody drains a muxer that is collected.
LEMMA CollectStep == Types /\ Muxing /\ Collect => Muxing' /\ UNCHANGED <<pc, tracks, written>>
  BY DEF Muxing, Collect, Counting, TrackKnown, AtStart, StartedByAll, Passed, Unreachable,
     muxerVars

\* Every step keeps what is said of the muxer.
LEMMA MuxingStep == Types /\ Unstarted /\ Muxing /\ Next => Muxing'
  <1> SUFFICES ASSUME Types, Unstarted, Muxing, Next PROVE Muxing'
    OBVIOUS
  <1>1. CASE CameraThreadStep
    BY <1>1, CallerIsCalm, CalmMuxing
  <1>2. ASSUME NEW e \in Encoders, Aside(e) PROVE Muxing'
    BY <1>2, AsideIsCalm, CalmMuxing
  <1>3. ASSUME NEW e \in Encoders,
               DrainFormat(e) \/ StartMuxer(e) \/ Barrier(e) \/ DrainSample(e) \/ StopMuxer(e)
        PROVE  Muxing'
    BY <1>3, FormatStep, StartStep, BarrierStep, StopStep, SampleStep, CalmMuxing
  <1>4. CASE Collect
    BY <1>4, CollectStep
  <1> QED BY <1>1, <1>2, <1>3, <1>4 DEF Next, EncoderStep, Aside

-----------------------------------------------------------------------------
(* What an unstarted recording and a crashed thread are *)

\* Until the recording starts the encoders' threads only wait.
LEMMA UnstartedStep == Types /\ Unstarted /\ Next => Unstarted'
  <1> SUFFICES ASSUME Types, Unstarted, Next PROVE Unstarted'
    OBVIOUS
  <1> USE DEF Types, Unstarted, callerVars, flagVars, codecVars, muxerVars, EncoderGoto, Notified
  <1>1. CASE CameraThreadStep
    <2> USE DEF Proceed
    <2>1. CASE Construct \/ Prepare
      BY <2>1 DEF Construct, Prepare
    <2>2. CASE PrepareFails \/ StartRecording \/ HandleStopRecording \/ StopRecording
      BY <2>2 DEF PrepareFails, StartRecording, HandleStopRecording, StopRecording
    <2> QED BY <1>1, <2>1, <2>2 DEF CameraThreadStep
  <1>2. ASSUME NEW e \in Encoders, Frame(e) \/ FrameAvailableSoon(e) \/ SpuriousWakeup(e)
        PROVE  Unstarted'
    BY <1>2 DEF Frame, FrameAvailableSoon, SpuriousWakeup
  <1>3. ASSUME NEW e \in Encoders, EncoderStep(e) PROVE Unstarted'
    <2>1. CASE Loop(e)
      BY <2>1, Bounds DEF Loop, DrainPc
    <2>2. CASE Wait(e)
      BY <2>2 DEF Wait
    <2>3. CASE DrainFormat(e) \/ StartMuxer(e) \/ Barrier(e) \/ DrainSample(e) \/ DrainEnds(e)
               \/ AfterDrain(e) \/ Release(e) \/ StopMuxer(e)
      <3>1. pc[e] \notin {"none", "loop", "idle", "waiting"} /\ UNCHANGED phase
        BY <2>3 DEF DrainFormat, StartMuxer, Barrier, DrainSample, DrainEnds, AfterDrain,
           Release, StopMuxer
      <3> QED BY <3>1
    <2> QED BY <1>3, <2>1, <2>2, <2>3 DEF EncoderStep
  <1>4. CASE Collect
    BY <1>4 DEF Collect
  <1> QED BY <1>1, <1>2, <1>3, <1>4 DEF Next

\* No check throws: a thread crashes at the end of the stream it cannot send.
LEMMA CrashStep == Types /\ Muxing /\ OnlyMissingCodecCrashes /\ Next => OnlyMissingCodecCrashes'
  <1> SUFFICES ASSUME Types, Muxing, Next, NEW e \in Encoders, pc'[e] = "crashed"
               PROVE  ~codec'[e]
    BY DEF OnlyMissingCodecCrashes
  <1>0. pc[e] # "crashed"
    BY DEF Next, Running
  <1> USE DEF Types, EncoderGoto, Notified, callerVars, flagVars, codecVars, muxerVars
  <1>1. ~CameraThreadStep
    BY <1>0 DEF CameraThreadStep, Construct, Prepare, PrepareFails, StartRecording,
       HandleStopRecording, StopRecording, Proceed
  <1>2. ~Collect
    BY <1>0 DEF Collect
  <1>3. PICK d \in Encoders : Frame(d) \/ FrameAvailableSoon(d) \/ SpuriousWakeup(d) \/ EncoderStep(d)
    BY <1>1, <1>2 DEF Next
  <1>4. ~Frame(d) /\ ~FrameAvailableSoon(d) /\ ~SpuriousWakeup(d)
    BY <1>0 DEF Frame, FrameAvailableSoon, SpuriousWakeup
  <1>5. /\ ~Loop(d) /\ ~Wait(d) /\ ~DrainEnds(d) /\ ~Release(d)
        /\ ~StartMuxer(d) /\ ~Barrier(d) /\ ~DrainSample(d) /\ ~StopMuxer(d)
    BY <1>0 DEF Loop, Wait, DrainEnds, Release, StartMuxer, Barrier, DrainSample, StopMuxer, DrainPc
  <1>6. ~DrainFormat(d)
    BY <1>0, FormatStep
  <1>7. AfterDrain(d)
    BY <1>3, <1>4, <1>5, <1>6 DEF EncoderStep
  <1> QED BY <1>0, <1>7 DEF AfterDrain, DrainPc

-----------------------------------------------------------------------------
(* The invariant and what follows from it *)

\* The count is that of a set of encoders, and nobody touches it once the muxer
\* is collected.
CountType == mStatredCount \in 0..N

LEMMA CountStep ==
    Types /\ Unstarted /\ Muxing /\ CountType /\ Muxing' /\ Next => CountType'
  <1> SUFFICES ASSUME Types, Unstarted, Muxing, CountType, Muxing', Next PROVE CountType'
    OBVIOUS
  <1>1. CASE ~collected'
    <2>1. Counted' \subseteq Encoders
      BY DEF Counted
    <2> QED BY <1>1, <2>1, EncodersFinite DEF Muxing, Counting, CountType
  <1>2. CASE collected'
    <2>1. CASE CameraThreadStep
      BY <2>1, CallerIsCalm DEF Calm, CountType
    <2>2. ASSUME NEW e \in Encoders, Aside(e) \/ DrainSample(e) PROVE CountType'
      BY <2>2, AsideIsCalm, SampleStep DEF Calm, CountType
    <2>3. ASSUME NEW e \in Encoders, DrainFormat(e) \/ Barrier(e) PROVE CountType'
      BY <2>3 DEF DrainFormat, Barrier, muxerVars, CountType
    <2>4. ASSUME NEW e \in Encoders, StartMuxer(e) PROVE CountType'
      BY <1>2, <2>4, StartStep DEF StartMuxer
    <2>5. ASSUME NEW e \in Encoders, StopMuxer(e) PROVE CountType'
      BY <1>2, <2>5, StopStep DEF StopMuxer, CountType
    <2>6. CASE Collect
      BY <2>6 DEF Collect, muxerVars, CountType
    <2> QED BY <2>1, <2>2, <2>3, <2>4, <2>5, <2>6 DEF Next, EncoderStep, Aside
  <1> QED BY <1>1, <1>2

\* The inductive invariant.
Core ==
    Types /\ CountType /\ Unstarted /\ Muxing /\ FramesCounted /\ OnlyMissingCodecCrashes

\* A fresh recording satisfies it.
LEMMA InitCore == Init => Core
  <1> SUFFICES ASSUME Init PROVE Core
    OBVIOUS
  <1> USE Bounds DEF Init
  <1>1. Types /\ CountType
    <2>1. 1 \in Encoders /\ 0 \in 0..N /\ 0 \in 0..MAX_DRAIN /\ 0 \in 0..MAX_FRAMES
      BY EncodersFinite DEF Encoders
    <2> QED BY <2>1 DEF Types, Pcs, CountType
  <1>2. Counted = {}
    BY DEF Counted
  <1>3. Muxing
    BY <1>2, FS_EmptySet DEF Muxing, Counting, TrackKnown, AtStart, StartedByAll, Passed,
       Unreachable, InUse
  <1>4. Unstarted /\ FramesCounted /\ OnlyMissingCodecCrashes
    BY DEF Unstarted, FramesCounted, OnlyMissingCodecCrashes
  <1> QED BY <1>1, <1>3, <1>4 DEF Core

\* Every step keeps it.
LEMMA CoreAlways == Spec => []Core
  <1>1. Core /\ Next => Core'
    BY TypesStep, CountStep, UnstartedStep, MuxingStep, CrashStep DEF Core
  <1>2. Core /\ UNCHANGED vars => Core'
    BY DEF Core, Types, CountType, Unstarted, Muxing, FramesCounted, OnlyMissingCodecCrashes,
       vars, callerVars, flagVars, codecVars, muxerVars, Counting, Counted, TrackKnown, AtStart,
       StartedByAll, Passed, Unreachable
  <1> QED BY InitCore, <1>1, <1>2, PTL DEF Spec

\* Types, and the bounds of the counters.
THEOREM TypeCorrect == Spec => []TypeOK
  <1>1. Core => TypeOK
    BY DEF Core, Types, CountType, TypeOK, Pcs
  <1> QED BY <1>1, CoreAlways, PTL

\* However many encoders record, and however their formats, stops and ends
\* interleave: the checks that throw in drain, start and addTrack never do; a
\* thread dies only for want of a codec.
THEOREM CrashNeedsMissingCodec == Spec => []OnlyMissingCodecCrashes
  <1>1. Core => OnlyMissingCodecCrashes
    BY DEF Core
  <1> QED BY <1>1, CoreAlways, PTL

-----------------------------------------------------------------------------
(* What a stopped encoder has before it                                    *)

\* The camera thread has told the encoder to stop.
Told(e) == phase = "stopped" \/ (phase = "stop" /\ e < turn)

\* An encoder is capturing until it ends, so that it is never deaf to a stop;
\* it ends only because it was told to; and it sleeps on a stop only when it had
\* already looked for one.
Hearing ==
    /\ \A e \in Encoders : Told(e) => mRequestStop[e]
    /\ phase \notin {"stop", "stopped"} => \A e \in Encoders : ~mRequestStop[e]
    /\ phase = "recording" => turn = 1
    /\ phase = "start" => \A e \in Encoders : e < turn => mIsCapturing[e]
    /\ phase \in {"recording", "stop", "stopped"} =>
          \A e \in Encoders : mIsCapturing[e] \/ pc[e] \in {"stopMuxer", "ended"}
    /\ \A e \in Encoders : mRequestStop[e] /\ pc[e] \in {"idle", "waiting"} => e \in missed
    /\ \A e \in Encoders :
          then[e] # "loop" \/ pc[e] \in {"release", "stopMuxer", "ended"} => mRequestStop[e]

\* Once the last encoder has passed start the muxer has started.
Gathered == Counted = Encoders => muxer # "open"

\* The camera thread tells every encoder, and each of them can hear it.
LEMMA CallerTells ==
    Types /\ Unstarted /\ Hearing /\ CameraThreadStep => Hearing'
  <1> SUFFICES ASSUME Types, Unstarted, Hearing, CameraThreadStep PROVE Hearing'
    OBVIOUS
  <1>0. N \in Nat /\ N > 0 /\ Encoders = 1..N
    BY EncodersFinite DEF Encoders
  <1> USE <1>0 DEF Types, Hearing, Told, Proceed, Notified, flagVars
  <1>1. CASE Construct
    BY <1>1 DEF Construct, Unstarted
  <1>2. CASE Prepare
    BY <1>2 DEF Prepare, Unstarted
  <1>3. CASE PrepareFails
    BY <1>3 DEF PrepareFails
  <1>4. CASE StartRecording
    <2>1. /\ phase = "start" /\ phase' \in {"start", "recording"}
          /\ turn' = IF turn = N THEN 1 ELSE turn + 1
          /\ phase' = IF turn = N THEN "recording" ELSE "start"
          /\ mIsCapturing' = [mIsCapturing EXCEPT ![turn] = TRUE]
          /\ mRequestStop' = [mRequestStop EXCEPT ![turn] = FALSE]
          /\ \A e \in Encoders : pc'[e] = pc[e] \/ (pc[e] = "waiting" /\ pc'[e] = "loop")
          /\ UNCHANGED <<then, missed>>
      BY <1>4 DEF StartRecording
    <2>2. /\ \A e \in Encoders : ~mRequestStop[e] /\ ~mRequestStop'[e]
          /\ phase' = "recording" => turn' = 1
      BY <2>1
    <2>3. phase' = "start" => \A e \in Encoders : e < turn' => mIsCapturing'[e]
      BY <2>1
    <2>4. phase' = "recording" => \A e \in Encoders : mIsCapturing'[e]
      BY <2>1
    <2> QED BY <2>1, <2>2, <2>3, <2>4
  <1>5. CASE HandleStopRecording
    BY <1>5 DEF HandleStopRecording
  <1>6. CASE StopRecording
    <2>1. /\ phase = "stop" /\ phase' \in {"stop", "stopped"} /\ UNCHANGED <<then, mIsCapturing>>
          /\ turn' = IF turn = N THEN 1 ELSE turn + 1
          /\ phase' = IF turn = N THEN "stopped" ELSE "stop"
      BY <1>6 DEF StopRecording
    <2>2. mRequestStop'[turn] /\ \A e \in Encoders : mRequestStop[e] => mRequestStop'[e]
      BY <1>6 DEF StopRecording
    <2>3. \A e \in Encoders : Told(e)' => e = turn \/ Told(e)
      BY <2>1
    <2>4. /\ \A e \in Encoders : pc'[e] = pc[e] \/ (pc[e] = "waiting" /\ pc'[e] = "loop")
          /\ \A e \in Encoders : e # turn => mRequestStop'[e] = mRequestStop[e]
          /\ \A e \in Encoders : e \in missed => e \in missed'
      BY <1>6 DEF StopRecording
    <2>5. mRequestStop'[turn] /\ pc'[turn] \in {"idle", "waiting"} => turn \in missed'
      BY <1>6 DEF StopRecording
    <2> HIDE DEF Told
    <2> QED BY <2>1, <2>2, <2>3, <2>4, <2>5
  <1> QED BY <1>1, <1>2, <1>3, <1>4, <1>5, <1>6 DEF CameraThreadStep

\* An encoder that has been told to stop does not go to sleep again.
LEMMA EncoderHears ==
    ASSUME Types, Hearing, NEW e \in Encoders,
           Frame(e) \/ FrameAvailableSoon(e) \/ EncoderStep(e) \/ SpuriousWakeup(e)
    PROVE  Hearing'
  <1> USE DEF Types, Hearing, Told, callerVars, flagVars, EncoderGoto, Notified
  <1>1. CASE Frame(e) \/ FrameAvailableSoon(e) \/ SpuriousWakeup(e)
    BY <1>1 DEF Frame, FrameAvailableSoon, SpuriousWakeup
  <1>2. CASE Loop(e)
    BY <1>2 DEF Loop, DrainPc
  <1>3. CASE Wait(e)
    BY <1>3 DEF Wait
  <1>4. CASE DrainFormat(e) \/ StartMuxer(e) \/ Barrier(e) \/ DrainSample(e) \/ DrainEnds(e)
    BY <1>4 DEF DrainFormat, StartMuxer, Barrier, DrainSample, DrainEnds
  <1>5. CASE AfterDrain(e)
    BY <1>5 DEF AfterDrain, DrainPc
  <1>6. CASE Release(e)
    BY <1>6 DEF Release
  <1>7. CASE StopMuxer(e)
    BY <1>7 DEF StopMuxer
  <1> QED BY <1>1, <1>2, <1>3, <1>4, <1>5, <1>6, <1>7 DEF EncoderStep

\* The last encoder at start does not wait for the others.
LEMMA GatheredStep ==
    Types /\ Unstarted /\ Muxing /\ Muxing' /\ Gathered /\ Next => Gathered'
  <1> SUFFICES ASSUME Types, Unstarted, Muxing, Muxing', Gathered, Next, Counted' = Encoders
               PROVE  muxer' # "open"
    BY DEF Gathered
  <1>0. Encoders # {}
    BY EncodersFinite, FS_EmptySet
  <1>1. ASSUME Calm PROVE muxer' # "open"
    <2>1. Counted' = Counted /\ muxer' = muxer
      BY <1>1 DEF Calm, Counted
    <2> QED BY <2>1 DEF Gathered
  <1>2. CASE CameraThreadStep
    BY <1>1, <1>2, CallerIsCalm
  <1>3. ASSUME NEW e \in Encoders, Aside(e) \/ DrainSample(e) PROVE muxer' # "open"
    BY <1>1, <1>3, AsideIsCalm, SampleStep
  <1>4. ASSUME NEW e \in Encoders, DrainFormat(e) PROVE muxer' # "open"
    <2>1. pc'[e] = "startMuxer"
      BY <1>4, FormatStep DEF Types
    <2> QED BY <2>1 DEF Counted
  <1>5. ASSUME NEW e \in Encoders, StartMuxer(e) PROVE muxer' # "open"
    <2>1. ~collected' /\ mEncoderCount = N
      BY <1>5, StartStep DEF StartMuxer, mEncoderCount, Unstarted
    <2>2. mStatredCount' = N
      BY <2>1, EncodersFinite DEF Muxing, Counting
    <2> QED BY <1>5, <2>1, <2>2 DEF StartMuxer
  <1>6. ASSUME NEW e \in Encoders, Barrier(e) PROVE muxer' # "open"
    BY <1>6, BarrierStep DEF Barrier, Muxing, StartedByAll
  <1>7. ASSUME NEW e \in Encoders, StopMuxer(e) PROVE muxer' # "open"
    <2>1. pc'[e] = "ended"
      BY <1>7, StopStep DEF Types
    <2> QED BY <2>1 DEF Counted
  <1>8. CASE Collect
    <2>1. Counted' = Counted /\ muxer' = muxer
      BY <1>8 DEF Collect, muxerVars, Counted
    <2> QED BY <2>1 DEF Gathered
  <1> QED BY <1>2, <1>3, <1>4, <1>5, <1>6, <1>7, <1>8 DEF Next, EncoderStep, Aside

\* A stopped encoder sleeps only on a stop that it missed, and is held up at the
\* barrier only by an encoder that has no format or is on its way to start it
\* (MediaEncoder.run and drain, MediaMuxerWrapper.start).
StopServed ==
    phase = "stopped" =>
       \A e \in Encoders :
          /\ pc[e] \in {"idle", "waiting"} => e \in missed
          /\ pc[e] = "barrier" =>
                mIsStarted \/ \E d \in Encoders : d \notin tracks \/ pc[d] = "startMuxer"

\* However many encoders there are, nothing but what StopEnds names keeps the
\* thread of a stopped one: the safe part of that property.
THEOREM StopAlwaysServed == Spec => []StopServed
  <1>1. Init => Hearing /\ Gathered
    <2> SUFFICES ASSUME Init PROVE Hearing /\ Gathered
      OBVIOUS
    <2>1. Hearing
      BY DEF Init, Hearing, Told
    <2>2. Counted = {} /\ Encoders # {}
      BY EncodersFinite, FS_EmptySet DEF Init, Counted
    <2> QED BY <2>1, <2>2 DEF Gathered
  <1>2. Core /\ Hearing /\ [Next]_vars => Hearing'
    <2> SUFFICES ASSUME Core, Hearing, [Next]_vars PROVE Hearing'
      OBVIOUS
    <2>1. CASE CameraThreadStep
      BY <2>1, CallerTells DEF Core
    <2>2. ASSUME NEW e \in Encoders,
                 Frame(e) \/ FrameAvailableSoon(e) \/ EncoderStep(e) \/ SpuriousWakeup(e)
          PROVE  Hearing'
      BY <2>2, EncoderHears DEF Core
    <2>3. CASE Collect \/ UNCHANGED vars
      BY <2>3 DEF Collect, vars, callerVars, flagVars, Hearing, Told
    <2> QED BY <2>1, <2>2, <2>3 DEF Next
  <1>3. Core /\ Core' /\ Gathered /\ [Next]_vars => Gathered'
    <2>1. UNCHANGED vars => Counted' = Counted /\ muxer' = muxer
      BY DEF vars, muxerVars, Counted
    <2> QED BY <2>1, GatheredStep DEF Core, Gathered
  <1>4. Core /\ Hearing /\ Gathered => StopServed
    <2> SUFFICES ASSUME Core, Hearing, Gathered, phase = "stopped", NEW e \in Encoders
                 PROVE  /\ pc[e] \in {"idle", "waiting"} => e \in missed
                        /\ pc[e] = "barrier" => mIsStarted \/
                              \E d \in Encoders : d \notin tracks \/ pc[d] = "startMuxer"
      BY DEF StopServed
    <2>1. pc[e] \in {"idle", "waiting"} => e \in missed
      BY DEF Hearing, Told
    <2>2. ASSUME pc[e] = "barrier", tracks = Encoders,
                 \A d \in Encoders : pc[d] # "startMuxer"
          PROVE  mIsStarted
      <3>1. \A d \in Encoders : mMuxerStarted[d]
        BY <2>2 DEF Core, Muxing, TrackKnown
      <3>2. CASE \E d \in Encoders : pc[d] = "ended"
        BY <2>2, <3>1, <3>2 DEF Core, Muxing, Passed, StartedByAll, Types
      <3>3. CASE \A d \in Encoders : pc[d] # "ended"
        <4>1. Counted = Encoders
          BY <2>2, <3>1, <3>3 DEF Counted
        <4> QED BY <2>2, <4>1 DEF Gathered, Core, Muxing, StartedByAll, Types
      <3> QED BY <3>2, <3>3
    <2>3. tracks \subseteq Encoders
      BY DEF Core, Types
    <2> QED BY <2>1, <2>2, <2>3
  <1> QED BY <1>1, <1>2, <1>3, <1>4, CoreAlways, PTL DEF Spec

-----------------------------------------------------------------------------
(* The refinement: every step is a step of MovieFile or none of it *)

\* The mapped variables, by name.
File     == IF collected /\ muxer # "stopped" THEN "lost" ELSE muxer
Finished == {e \in Encoders : pc[e] = "ended"}

\* A calm step that writes nothing is none of MovieFile's.
LEMMA CalmIsStutter == Calm /\ UNCHANGED written => UNCHANGED Movie!vars
  BY DEF Calm, Movie!vars

\* The steps of an encoder that are.
LEMMA MuxerSteps ==
    ASSUME Types, Unstarted, Muxing, NEW e \in Encoders,
           DrainFormat(e) \/ StartMuxer(e) \/ Barrier(e) \/ DrainSample(e) \/ StopMuxer(e)
    PROVE  Movie!Next \/ UNCHANGED Movie!vars
  <1> USE DEF Types
  <1>1. CASE DrainFormat(e)
    <2>1. Finished' = Finished
      BY <1>1, FormatStep DEF Finished, DrainFormat
    <2>2. UNCHANGED <<muxer, collected, written>>
      BY <1>1 DEF DrainFormat, muxerVars
    <2>3. Movie!AddTrack(e)
      BY <1>1, <2>1, <2>2, FormatStep DEF Movie!AddTrack, Finished
    <2> QED BY <2>3 DEF Movie!Next
  <1>2. CASE StartMuxer(e)
    <2>1. Finished' = Finished /\ UNCHANGED <<collected, written>>
      BY <1>2 DEF Finished, StartMuxer, EncoderGoto
    <2>2. CASE muxer' = "started" /\ tracks = Encoders
      BY <1>2, <2>1, <2>2, StartStep DEF Movie!Next, Movie!Start, Finished
    <2>3. CASE UNCHANGED muxer
      BY <1>2, <2>1, <2>3, StartStep DEF Movie!vars, Finished
    <2> QED BY <1>2, <2>2, <2>3, StartStep
  <1>3. CASE Barrier(e)
    <2>1. Finished' = Finished
      BY <1>3, BarrierStep DEF Finished, Barrier
    <2> QED BY <1>3, <2>1, BarrierStep DEF Movie!vars, Finished
  <1>4. CASE DrainSample(e)
    <2>1. Movie!Write(e)
      BY <1>4, SampleStep DEF Movie!Write, Calm
    <2> QED BY <2>1 DEF Movie!Next
  <1>5. CASE StopMuxer(e)
    <2>1. Finished' = Finished \cup {e} /\ e \notin Finished
      <3>1. pc' = [pc EXCEPT ![e] = "ended"] /\ pc[e] # "ended"
        BY <1>5, StopStep DEF StopMuxer
      <3> QED BY <3>1 DEF Finished
    <2>2. Finished' = Encoders <=> \A x \in Encoders \ {e} : pc[x] = "ended"
      BY <2>1 DEF Finished
    <2>3. File' = IF File = "started" /\ Finished' = Encoders THEN "stopped" ELSE File
      BY <1>5, <2>2, StopStep DEF File
    <2>4. Movie!Finish(e)
      BY <1>5, <2>1, <2>3, StopStep DEF Movie!Finish, File, Finished
    <2> QED BY <2>4 DEF Movie!Next
  <1> QED BY <1>1, <1>2, <1>3, <1>4, <1>5

\* The encoders, the wrapper that counts them and the garbage collector drive
\* the platform's muxer only as MovieFile allows: no sample before every track
\* is known, none after the end, one stop, with the last encoder.
THEOREM RecordingKeepsMovieFile == Spec => KeepsMovieFile
  <1>1. Init => Movie!Init
    BY DEF Init, Movie!Init
  <1>2. Core /\ Next => Movie!Next \/ UNCHANGED Movie!vars
    <2> SUFFICES ASSUME Core, Next PROVE Movie!Next \/ UNCHANGED Movie!vars
      OBVIOUS
    <2> USE DEF Core
    <2>1. CASE CameraThreadStep
      BY <2>1, CallerIsCalm, CalmIsStutter
    <2>2. ASSUME NEW e \in Encoders, Aside(e) PROVE UNCHANGED Movie!vars
      BY <2>2, AsideIsCalm, CalmIsStutter
    <2>3. CASE Collect
      BY <2>3, CollectStep DEF Types, Collect, muxerVars, Movie!vars, Movie!Next, Movie!Lose
    <2> QED BY <2>1, <2>2, <2>3, MuxerSteps DEF Next, EncoderStep, Aside
  <1>3. UNCHANGED vars => UNCHANGED Movie!vars
    BY DEF vars, muxerVars, Movie!vars
  <1>4. Core /\ [Next]_vars => [Movie!Next]_Movie!vars
    BY <1>2, <1>3
  <1> QED BY <1>1, <1>4, CoreAlways, PTL DEF Spec, KeepsMovieFile, Movie!Spec
=============================================================================
