------------------------- MODULE CameraHandler_proofs -------------------------
(***************************************************************************)
(* For any users, recordings and encoders: the camera handler keeps its    *)
(* types, never loses or keeps a destroyed camera, knows of every preview  *)
(* that runs, owns every recording that records, and does not end while    *)
(* one does; after release something is left that will quit it; and for a  *)
(* single user, a stopPreview that waits has its answer on the way, and    *)
(* returns when the preview is over.                                       *)
(***************************************************************************)
EXTENDS CameraHandler, TLAPS

USE DEF flags, deviceVars, recVars, threadVars, userVars

Queues == Seq(Messages \cup {"removed"})

\* What the queue operations keep: its messages.
LEMMA QueueKept ==
    ASSUME QueueTypeOK
    PROVE  /\ \A m \in Messages : Append(queue, m) \in Queues
           /\ queue # <<>> => Tail(queue) \in Queues
                              /\ Head(queue) \in Messages \cup {"removed"}
           /\ [i \in 1..Len(queue) |->
                 IF queue[i] = "start" THEN "removed" ELSE queue[i]] \in Queues
  <1> DEFINE holes == [i \in 1..Len(queue) |->
                         IF queue[i] = "start" THEN "removed" ELSE queue[i]]
  <1>1. queue \in Queues
    BY DEF QueueTypeOK, Queues
  <1>2. \A m \in Messages : Append(queue, m) \in Queues
    BY <1>1 DEF Queues
  <1>3. queue # <<>> => /\ Tail(queue) \in Queues
                        /\ Head(queue) \in Messages \cup {"removed"}
    BY <1>1 DEF Queues
  <1>4. Len(queue) \in Nat /\ \A i \in 1..Len(queue) : queue[i] \in Messages \cup {"removed"}
    BY <1>1 DEF Queues
  <1>5. \A i \in 1..Len(queue) : holes[i] \in Messages \cup {"removed"}
    BY <1>4
  <1>6. holes \in [1..Len(queue) -> Messages \cup {"removed"}]
    BY <1>5
  <1>7. holes \in Queues
    BY <1>4, <1>6 DEF Queues
  <1> QED BY <1>2, <1>3, <1>7

-----------------------------------------------------------------------------
\* A step of a user keeps the types.
LEMMA UserTypes ==
    ASSUME TypeOK, NEW u \in Users, UserCall(u) \/ UserContinue(u),
           UNCHANGED elsewhere
    PROVE  TypeOK'
  <1>0. QueueTypeOK /\ ThreadTypeOK /\ FlagTypeOK /\ UserTypeOK
    BY DEF TypeOK
  <1>1. CASE Request(u)
    <2>1. QueueTypeOK'
      BY <1>0, <1>1, QueueKept DEF Request, Begin, Send, UserOnly,
         QueueTypeOK, Queues, Messages
    <2>2. ThreadTypeOK' /\ FlagTypeOK'
      BY <1>0, <1>1 DEF Request, UserOnly, ThreadTypeOK, FlagTypeOK
    <2>3. UserTypeOK'
      BY <1>0, <1>1 DEF Request, Begin, UserTypeOK
    <2> QED BY <2>1, <2>2, <2>3 DEF TypeOK
  <1>2. CASE StopRecording(u)
    <2>1. QueueTypeOK'
      BY <1>0, <1>2, QueueKept DEF StopRecording, Begin, Send, UserOnly,
         QueueTypeOK, Queues, Messages
    <2>2. ThreadTypeOK' /\ FlagTypeOK'
      BY <1>0, <1>2 DEF StopRecording, UserOnly, ThreadTypeOK, FlagTypeOK
    <2>3. UserTypeOK'
      BY <1>0, <1>2 DEF StopRecording, Begin, UserTypeOK
    <2> QED BY <2>1, <2>2, <2>3 DEF TypeOK
  <1>3. CASE StopPreview(u)
    <2>1. QueueTypeOK'
      BY <1>0, <1>3, QueueKept DEF StopPreview, Begin, Enter, UserOnly,
         QueueTypeOK, Queues, Messages
    <2>2. ThreadTypeOK' /\ FlagTypeOK'
      BY <1>0, <1>3 DEF StopPreview, UserOnly, ThreadTypeOK, FlagTypeOK
    <2>3. UserTypeOK'
      BY <1>0, <1>3 DEF StopPreview, Begin, Enter, UserTypeOK
    <2> QED BY <2>1, <2>2, <2>3 DEF TypeOK
  <1>4. CASE Close(u)
    <2>1. QueueTypeOK'
      BY <1>0, <1>4, QueueKept DEF Close, Begin, Enter, UserOnly,
         QueueTypeOK, Queues, Messages
    <2>2. ThreadTypeOK' /\ FlagTypeOK'
      BY <1>0, <1>4 DEF Close, UserOnly, ThreadTypeOK, FlagTypeOK
    <2>3. UserTypeOK'
      BY <1>0, <1>4 DEF Close, Begin, Enter, UserTypeOK
    <2> QED BY <2>1, <2>2, <2>3 DEF TypeOK
  <1>5. CASE Release(u)
    <2>1. QueueTypeOK'
      BY <1>0, <1>5, QueueKept DEF Release, Begin, Enter, UserOnly,
         QueueTypeOK, Queues, Messages
    <2>2. ThreadTypeOK' /\ FlagTypeOK'
      BY <1>0, <1>5 DEF Release, UserOnly, ThreadTypeOK, FlagTypeOK
    <2>3. UserTypeOK'
      BY <1>0, <1>5 DEF Release, Begin, Enter, UserTypeOK
    <2> QED BY <2>1, <2>2, <2>3 DEF TypeOK
  <1>6. CASE IsOpened(u)
    <2>1. QueueTypeOK'
      BY <1>0, <1>6, QueueKept DEF IsOpened, UserGoto, Enter, AfterClose,
         UserOnly, QueueTypeOK, Queues, Messages
    <2>2. ThreadTypeOK' /\ FlagTypeOK'
      BY <1>0, <1>6 DEF IsOpened, UserOnly, ThreadTypeOK, FlagTypeOK
    <2>3. UserTypeOK'
      BY <1>0, <1>6 DEF IsOpened, UserGoto, Enter, AfterClose, UserTypeOK
    <2> QED BY <2>1, <2>2, <2>3 DEF TypeOK
  <1>7. CASE RemoveStarts(u)
    <2>1. QueueTypeOK'
      BY <1>0, <1>7, QueueKept DEF RemoveStarts, UserGoto, Enter, UserOnly,
         QueueTypeOK, Queues, Messages
    <2>2. ThreadTypeOK' /\ FlagTypeOK'
      BY <1>0, <1>7 DEF RemoveStarts, UserOnly, ThreadTypeOK, FlagTypeOK
    <2>3. UserTypeOK'
      BY <1>0, <1>7 DEF RemoveStarts, UserGoto, Enter, UserTypeOK
    <2> QED BY <2>1, <2>2, <2>3 DEF TypeOK
  <1>8. CASE SendCaptureStop(u)
    <2>1. QueueTypeOK'
      BY <1>0, <1>8, QueueKept DEF SendCaptureStop, Send, UserGoto, Enter,
         UserOnly, QueueTypeOK, Queues, Messages
    <2>2. ThreadTypeOK' /\ FlagTypeOK'
      BY <1>0, <1>8 DEF SendCaptureStop, UserOnly, ThreadTypeOK, FlagTypeOK
    <2>3. UserTypeOK'
      BY <1>0, <1>8 DEF SendCaptureStop, UserGoto, Enter, UserTypeOK
    <2> QED BY <2>1, <2>2, <2>3 DEF TypeOK
  <1>9. CASE IsPreviewing(u)
    <2>1. QueueTypeOK'
      BY <1>0, <1>9, QueueKept DEF IsPreviewing, UserGoto, Enter, AfterStop,
         UserOnly, QueueTypeOK, Queues, Messages
    <2>2. ThreadTypeOK' /\ FlagTypeOK'
      BY <1>0, <1>9 DEF IsPreviewing, UserOnly, ThreadTypeOK, FlagTypeOK
    <2>3. UserTypeOK'
      BY <1>0, <1>9 DEF IsPreviewing, UserGoto, Enter, AfterStop, UserTypeOK
    <2> QED BY <2>1, <2>2, <2>3 DEF TypeOK
  <1>10. CASE SendStopAndWait(u)
    <2>1. QueueTypeOK'
      BY <1>0, <1>10, QueueKept DEF SendStopAndWait, Send, UserGoto, Enter,
         UserOnly, QueueTypeOK, Queues, Messages
    <2>2. ThreadTypeOK' /\ FlagTypeOK'
      BY <1>0, <1>10 DEF SendStopAndWait, UserOnly, ThreadTypeOK, FlagTypeOK
    <2>3. UserTypeOK'
      BY <1>0, <1>10 DEF SendStopAndWait, UserGoto, Enter, UserTypeOK
    <2> QED BY <2>1, <2>2, <2>3 DEF TypeOK
  <1>11. CASE Woken(u)
    <2>1. QueueTypeOK'
      BY <1>0, <1>11, QueueKept DEF Woken, UserGoto, Enter, AfterStop,
         UserOnly, QueueTypeOK, Queues, Messages
    <2>2. ThreadTypeOK' /\ FlagTypeOK'
      BY <1>0, <1>11 DEF Woken, UserOnly, ThreadTypeOK, FlagTypeOK
    <2>3. UserTypeOK'
      BY <1>0, <1>11 DEF Woken, UserGoto, Enter, AfterStop, UserTypeOK
    <2> QED BY <2>1, <2>2, <2>3 DEF TypeOK
  <1>12. CASE SendClose(u)
    <2>1. QueueTypeOK'
      BY <1>0, <1>12, QueueKept DEF SendClose, Send, UserGoto, Enter,
         AfterClose, UserOnly, QueueTypeOK, Queues, Messages
    <2>2. ThreadTypeOK' /\ FlagTypeOK'
      BY <1>0, <1>12 DEF SendClose, UserOnly, ThreadTypeOK, FlagTypeOK
    <2>3. UserTypeOK'
      BY <1>0, <1>12 DEF SendClose, UserGoto, Enter, AfterClose, UserTypeOK
    <2> QED BY <2>1, <2>2, <2>3 DEF TypeOK
  <1>13. CASE SendRelease(u)
    <2>1. QueueTypeOK'
      BY <1>0, <1>13, QueueKept DEF SendRelease, Send, UserGoto, Enter,
         UserOnly, QueueTypeOK, Queues, Messages
    <2>2. ThreadTypeOK' /\ FlagTypeOK'
      BY <1>0, <1>13 DEF SendRelease, UserOnly, ThreadTypeOK, FlagTypeOK
    <2>3. UserTypeOK'
      BY <1>0, <1>13 DEF SendRelease, UserGoto, Enter, UserTypeOK
    <2> QED BY <2>1, <2>2, <2>3 DEF TypeOK
  <1> QED
    BY <1>1, <1>2, <1>3, <1>4, <1>5, <1>6, <1>7, <1>8, <1>9, <1>10, <1>11,
       <1>12, <1>13 DEF UserCall, UserContinue

\* A step of the camera thread keeps the types.
LEMMA CameraTypes ==
    ASSUME TypeOK, CameraThreadStep, UNCHANGED elsewhere
    PROVE  TypeOK'
  <1>0. QueueTypeOK /\ ThreadTypeOK /\ FlagTypeOK /\ UserTypeOK
    BY DEF TypeOK
  <1>1. CASE TakeMessage
    <2>1. QueueTypeOK'
      BY <1>0, <1>1, QueueKept DEF TakeMessage, QueueTypeOK, Queues
    <2>2. ThreadTypeOK'
      BY <1>0, <1>1, QueueKept DEF TakeMessage, ThreadTypeOK, Messages
    <2>3. FlagTypeOK'
      BY <1>0, <1>1 DEF TakeMessage, FlagTypeOK
    <2>4. UserTypeOK'
      BY <1>0, <1>1 DEF TakeMessage, UserTypeOK
    <2> QED BY <2>1, <2>2, <2>3, <2>4 DEF TypeOK
  <1>2. CASE HandleUpdateMedia
    <2>1. QueueTypeOK'
      BY <1>0, <1>2, QueueKept DEF HandleUpdateMedia, Step, QueueTypeOK,
         Queues
    <2>2. ThreadTypeOK'
      BY <1>0, <1>2, QueueKept DEF HandleUpdateMedia, Step, Goto,
         ThreadTypeOK, Messages
    <2>3. FlagTypeOK'
      BY <1>0, <1>2 DEF HandleUpdateMedia, FlagTypeOK
    <2>4. UserTypeOK'
      BY <1>0, <1>2 DEF HandleUpdateMedia, UserTypeOK
    <2> QED BY <2>1, <2>2, <2>3, <2>4 DEF TypeOK
  <1>3. CASE HandleStopRecording
    <2>1. QueueTypeOK'
      BY <1>0, <1>3, QueueKept DEF HandleStopRecording, QueueTypeOK, Queues
    <2>2. ThreadTypeOK'
      BY <1>0, <1>3, QueueKept DEF HandleStopRecording, StopCapture,
         ThreadTypeOK, Messages
    <2>3. FlagTypeOK'
      BY <1>0, <1>3 DEF HandleStopRecording, FlagTypeOK
    <2>4. UserTypeOK'
      BY <1>0, <1>3 DEF HandleStopRecording, UserTypeOK
    <2> QED BY <2>1, <2>2, <2>3, <2>4 DEF TypeOK
  <1>4. CASE StopMuxer
    <2>1. QueueTypeOK'
      BY <1>0, <1>4, QueueKept DEF StopMuxer, QueueTypeOK, Queues
    <2>2. ThreadTypeOK'
      BY <1>0, <1>4, QueueKept DEF StopMuxer, Goto, ThreadTypeOK, Messages
    <2>3. FlagTypeOK'
      BY <1>0, <1>4 DEF StopMuxer, FlagTypeOK
    <2>4. UserTypeOK'
      BY <1>0, <1>4 DEF StopMuxer, UserTypeOK
    <2> QED BY <2>1, <2>2, <2>3, <2>4 DEF TypeOK
  <1>5. CASE TakeCamera
    <2>1. QueueTypeOK'
      BY <1>0, <1>5, QueueKept DEF TakeCamera, Step, QueueTypeOK, Queues
    <2>2. ThreadTypeOK'
      BY <1>0, <1>5, QueueKept DEF TakeCamera, Step, Goto, AfterHandleClose,
         ThreadTypeOK, Messages
    <2>3. FlagTypeOK'
      BY <1>0, <1>5 DEF TakeCamera, FlagTypeOK
    <2>4. UserTypeOK'
      BY <1>0, <1>5 DEF TakeCamera, UserTypeOK
    <2> QED BY <2>1, <2>2, <2>3, <2>4 DEF TypeOK
  <1>6. CASE DestroyCamera
    <2>1. QueueTypeOK'
      BY <1>0, <1>6, QueueKept DEF DestroyCamera, Step, QueueTypeOK, Queues
    <2>2. ThreadTypeOK'
      BY <1>0, <1>6, QueueKept DEF DestroyCamera, Step, Goto,
         AfterHandleClose, ThreadTypeOK, Messages
    <2>3. FlagTypeOK'
      BY <1>0, <1>6 DEF DestroyCamera, FlagTypeOK
    <2>4. UserTypeOK'
      BY <1>0, <1>6 DEF DestroyCamera, UserTypeOK
    <2> QED BY <2>1, <2>2, <2>3, <2>4 DEF TypeOK
  <1>7. CASE OpenCamera
    <2>1. QueueTypeOK'
      BY <1>0, <1>7, QueueKept DEF OpenCamera, Done, Step, QueueTypeOK,
         Queues
    <2>2. ThreadTypeOK'
      BY <1>0, <1>7, QueueKept DEF OpenCamera, Done, Step, Goto,
         ThreadTypeOK, Messages
    <2>3. FlagTypeOK'
      BY <1>0, <1>7 DEF OpenCamera, FlagTypeOK
    <2>4. UserTypeOK'
      BY <1>0, <1>7 DEF OpenCamera, UserTypeOK
    <2> QED BY <2>1, <2>2, <2>3, <2>4 DEF TypeOK
  <1>8. CASE HandleStartPreview
    <2>1. QueueTypeOK'
      BY <1>0, <1>8, QueueKept DEF HandleStartPreview, Done, Step,
         QueueTypeOK, Queues
    <2>2. ThreadTypeOK'
      BY <1>0, <1>8, QueueKept DEF HandleStartPreview, Done, Step, Goto,
         ThreadTypeOK, Messages
    <2>3. FlagTypeOK'
      BY <1>0, <1>8 DEF HandleStartPreview, FlagTypeOK
    <2>4. UserTypeOK'
      BY <1>0, <1>8 DEF HandleStartPreview, UserTypeOK
    <2> QED BY <2>1, <2>2, <2>3, <2>4 DEF TypeOK
  <1>9. CASE StartFlag
    <2>1. QueueTypeOK'
      BY <1>0, <1>9, QueueKept DEF StartFlag, Done, Step, QueueTypeOK,
         Queues
    <2>2. ThreadTypeOK'
      BY <1>0, <1>9, QueueKept DEF StartFlag, Done, Step, Goto,
         ThreadTypeOK, Messages
    <2>3. FlagTypeOK'
      BY <1>0, <1>9 DEF StartFlag, FlagTypeOK
    <2>4. UserTypeOK'
      BY <1>0, <1>9 DEF StartFlag, UserTypeOK
    <2> QED BY <2>1, <2>2, <2>3, <2>4 DEF TypeOK
  <1>10. CASE HandleStopPreview
    <2>1. QueueTypeOK'
      BY <1>0, <1>10, QueueKept DEF HandleStopPreview, Done, Step,
         QueueTypeOK, Queues
    <2>2. ThreadTypeOK'
      BY <1>0, <1>10, QueueKept DEF HandleStopPreview, Done, Step, Goto,
         StopCapture, ThreadTypeOK, Messages
    <2>3. FlagTypeOK'
      BY <1>0, <1>10 DEF HandleStopPreview, FlagTypeOK
    <2>4. UserTypeOK'
      BY <1>0, <1>10 DEF HandleStopPreview, UserTypeOK
    <2> QED BY <2>1, <2>2, <2>3, <2>4 DEF TypeOK
  <1>11. CASE StopFlag
    <2>1. QueueTypeOK'
      BY <1>0, <1>11, QueueKept DEF StopFlag, Done, Step, QueueTypeOK,
         Queues
    <2>2. ThreadTypeOK'
      BY <1>0, <1>11, QueueKept DEF StopFlag, Done, Step, Goto,
         ThreadTypeOK, Messages
    <2>3. FlagTypeOK'
      BY <1>0, <1>11 DEF StopFlag, FlagTypeOK
    <2>4. UserTypeOK'
      BY <1>0, <1>11 DEF StopFlag, UserTypeOK
    <2> QED BY <2>1, <2>2, <2>3, <2>4 DEF TypeOK
  <1>12. CASE HandleStartRecording
    <2>1. QueueTypeOK'
      BY <1>0, <1>12, QueueKept DEF HandleStartRecording, Done, Step,
         QueueTypeOK, Queues
    <2>2. ThreadTypeOK'
      BY <1>0, <1>12, QueueKept DEF HandleStartRecording, Done, Step, Goto,
         OnPrepared, ThreadTypeOK, Messages
    <2>3. FlagTypeOK'
      BY <1>0, <1>12 DEF HandleStartRecording, OnPrepared, FlagTypeOK
    <2>4. UserTypeOK'
      BY <1>0, <1>12 DEF HandleStartRecording, UserTypeOK
    <2> QED BY <2>1, <2>2, <2>3, <2>4 DEF TypeOK
  <1>13. CASE StartRecording
    <2>1. QueueTypeOK'
      BY <1>0, <1>13, QueueKept DEF StartRecording, Done, Step, QueueTypeOK,
         Queues
    <2>2. ThreadTypeOK'
      BY <1>0, <1>13, QueueKept DEF StartRecording, Done, Step, Goto,
         ThreadTypeOK, Messages
    <2>3. FlagTypeOK'
      BY <1>0, <1>13 DEF StartRecording, FlagTypeOK
    <2>4. UserTypeOK'
      BY <1>0, <1>13 DEF StartRecording, UserTypeOK
    <2> QED BY <2>1, <2>2, <2>3, <2>4 DEF TypeOK
  <1>14. CASE Quit
    <2>1. QueueTypeOK'
      <3>1. (queue' = queue /\ looper' = looper) \/ queue' = <<>>
        BY <1>14 DEF Quit
      <3>2. queue \in Queues /\ <<>> \in Queues
        BY <1>0 DEF QueueTypeOK, Queues
      <3> QED BY <1>0, <3>1, <3>2 DEF QueueTypeOK, Queues
    <2>2. ThreadTypeOK'
      BY <1>0, <1>14, QueueKept DEF Quit, Goto, ThreadTypeOK, Messages
    <2>3. FlagTypeOK'
      BY <1>0, <1>14 DEF Quit, FlagTypeOK
    <2>4. UserTypeOK'
      BY <1>0, <1>14 DEF Quit, UserTypeOK
    <2> QED BY <2>1, <2>2, <2>3, <2>4 DEF TypeOK
  <1>15. CASE ThreadEnds
    <2>1. QueueTypeOK'
      BY <1>0, <1>15, QueueKept DEF ThreadEnds, QueueTypeOK, Queues
    <2>2. ThreadTypeOK'
      BY <1>0, <1>15, QueueKept DEF ThreadEnds, ThreadTypeOK, Messages
    <2>3. FlagTypeOK'
      BY <1>0, <1>15 DEF ThreadEnds, FlagTypeOK
    <2>4. UserTypeOK'
      BY <1>0, <1>15 DEF ThreadEnds, UserTypeOK
    <2> QED BY <2>1, <2>2, <2>3, <2>4 DEF TypeOK
  <1> QED
    BY <1>1, <1>2, <1>3, <1>4, <1>5, <1>6, <1>7, <1>8, <1>9, <1>10, <1>11,
       <1>12, <1>13, <1>14, <1>15 DEF CameraThreadStep

\* A step of an encoder thread keeps the types.
LEMMA EncoderKeepsTypes ==
    ASSUME TypeOK, NEW r \in Recordings,
           (EncoderStep(r) /\ UNCHANGED elsewhere) \/ OnStoppedReleases(r)
    PROVE  TypeOK'
  <1>0. QueueTypeOK /\ ThreadTypeOK /\ FlagTypeOK /\ UserTypeOK /\ elsewhere \in BOOLEAN
    BY DEF TypeOK
  <1>1. QueueTypeOK'
    BY <1>0, QueueKept DEF EncoderStep, OnStoppedIgnored, OnStopped, AtPath,
       OnStoppedPost, OnStoppedNoPath, OnStoppedReleases, MediaUpdateDue,
       Encoder, StopCapture, Send, QueueTypeOK, Queues, Messages
  <1>2. ThreadTypeOK'
    BY <1>0 DEF EncoderStep, OnStoppedIgnored, OnStopped, AtPath, OnStoppedPost,
       OnStoppedNoPath, OnStoppedReleases, MediaUpdateDue, Encoder, StopCapture,
       Send, ThreadTypeOK
  <1>3. FlagTypeOK' /\ UserTypeOK' /\ elsewhere' \in BOOLEAN
    BY <1>0 DEF EncoderStep, OnStoppedIgnored, OnStopped, AtPath, OnStoppedPost,
       OnStoppedNoPath, OnStoppedReleases, MediaUpdateDue, Encoder, StopCapture,
       Send, FlagTypeOK, UserTypeOK
  <1> QED BY <1>1, <1>2, <1>3 DEF TypeOK

\* Every variable of the camera handler has its type.
THEOREM TypeCorrect == Spec => []TypeOK
  <1>1. Init => TypeOK
    <2> SUFFICES ASSUME Init PROVE TypeOK
      OBVIOUS
    <2>1. QueueTypeOK
      BY DEF Init, QueueTypeOK
    <2>2. ThreadTypeOK
      BY HandlerAssumption DEF Init, ThreadTypeOK
    <2>3. FlagTypeOK /\ UserTypeOK /\ elsewhere \in BOOLEAN
      BY DEF Init, FlagTypeOK, UserTypeOK
    <2> QED BY <2>1, <2>2, <2>3 DEF TypeOK
  <1>2. TypeOK /\ UNCHANGED vars => TypeOK'
    BY DEF vars, TypeOK, QueueTypeOK, ThreadTypeOK, FlagTypeOK, UserTypeOK
  <1>3. TypeOK /\ [Next]_vars => TypeOK'
    BY <1>2, UserTypes, CameraTypes, EncoderKeepsTypes DEF Next, Ongoing
  <1> QED BY <1>1, <1>3, PTL DEF Spec

-----------------------------------------------------------------------------
\* handleClose leaves no recording and no camera behind it, and no handler
\* runs in a looper that was quit.
Closing ==
    /\ looper # "loop" => camera = "idle" /\ mMuxer = None /\ ~mUVCCamera
    /\ stopping # None => camera = "stopMuxer"
    /\ camera \in {"stopMuxer", "takeCamera", "destroy", "openCamera", "quit",
                   "startRecording"} => mMuxer = None
    /\ camera \in {"destroy", "openCamera", "quit"} => ~mUVCCamera
    /\ mMuxer # None => mUVCCamera
    /\ camera = "stopFlag" => native # "preview"
    /\ \A r \in Recordings : encoder[r] = "prepared" => camera = "startRecording"
    /\ \A r, s \in Recordings :
          encoder[r] = "prepared" /\ encoder[s] = "prepared" => r = s

Owning == /\ Closing /\ CameraAlive /\ PreviewKnown
          /\ RecordingOwned /\ RecordingHasCamera

\* A step of the camera thread keeps it.
LEMMA CameraOwns ==
    ASSUME TypeOK, Owning, CameraThreadStep
    PROVE  Owning'
  <1>0. QueueTypeOK /\ ThreadTypeOK /\ FlagTypeOK
    BY DEF TypeOK
  <1>1. CASE TakeMessage
    BY <1>0, <1>1, QueueKept DEF TakeMessage, ThreadTypeOK, FlagTypeOK,
       Owning, Closing, CameraAlive, PreviewKnown, RecordingOwned,
       RecordingHasCamera, Messages
  <1>2. CASE HandleUpdateMedia
    BY <1>0, <1>2 DEF HandleUpdateMedia, Step, Goto, ThreadTypeOK,
       FlagTypeOK, Owning, Closing, CameraAlive, PreviewKnown, RecordingOwned,
       RecordingHasCamera
  <1>3. CASE HandleStopRecording
    BY <1>0, <1>3 DEF HandleStopRecording, StopCapture, ThreadTypeOK,
       FlagTypeOK, Owning, Closing, CameraAlive, PreviewKnown, RecordingOwned,
       RecordingHasCamera
  <1>4. CASE StopMuxer
    BY <1>0, <1>4 DEF StopMuxer, Goto, ThreadTypeOK, FlagTypeOK, Owning,
       Closing, CameraAlive, PreviewKnown, RecordingOwned, RecordingHasCamera
  <1>5. CASE TakeCamera
    BY <1>0, <1>5 DEF TakeCamera, Step, Goto, AfterHandleClose,
       ThreadTypeOK, FlagTypeOK, Owning, Closing, CameraAlive, PreviewKnown,
       RecordingOwned, RecordingHasCamera
  <1>6. CASE DestroyCamera
    BY <1>0, <1>6 DEF DestroyCamera, Step, Goto, AfterHandleClose,
       ThreadTypeOK, FlagTypeOK, Owning, Closing, CameraAlive, PreviewKnown,
       RecordingOwned, RecordingHasCamera
  <1>7. CASE OpenCamera
    BY <1>0, <1>7 DEF OpenCamera, Done, Step, Goto, ThreadTypeOK,
       FlagTypeOK, Owning, Closing, CameraAlive, PreviewKnown, RecordingOwned,
       RecordingHasCamera
  <1>8. CASE HandleStartPreview
    BY <1>0, <1>8 DEF HandleStartPreview, Done, Step, Goto, ThreadTypeOK,
       FlagTypeOK, Owning, Closing, CameraAlive, PreviewKnown, RecordingOwned,
       RecordingHasCamera
  <1>9. CASE StartFlag
    BY <1>0, <1>9 DEF StartFlag, Done, Step, Goto, ThreadTypeOK, FlagTypeOK,
       Owning, Closing, CameraAlive, PreviewKnown, RecordingOwned,
       RecordingHasCamera
  <1>10. CASE HandleStopPreview
    BY <1>0, <1>10 DEF HandleStopPreview, Done, Step, Goto, StopCapture,
       ThreadTypeOK, FlagTypeOK, Owning, Closing, CameraAlive, PreviewKnown,
       RecordingOwned, RecordingHasCamera
  <1>11. CASE StopFlag
    BY <1>0, <1>11 DEF StopFlag, Done, Step, Goto, ThreadTypeOK, FlagTypeOK,
       Owning, Closing, CameraAlive, PreviewKnown, RecordingOwned,
       RecordingHasCamera
  <1>12. CASE HandleStartRecording
    BY <1>0, <1>12 DEF HandleStartRecording, Done, Step, Goto, OnPrepared,
       ThreadTypeOK, FlagTypeOK, Owning, Closing, CameraAlive, PreviewKnown,
       RecordingOwned, RecordingHasCamera
  <1>13. CASE StartRecording
    BY <1>0, <1>13, HandlerAssumption DEF StartRecording, Done, Step, Goto,
       ThreadTypeOK, FlagTypeOK, Owning, Closing, CameraAlive, PreviewKnown,
       RecordingOwned, RecordingHasCamera
  <1>14. CASE Quit
    BY <1>0, <1>14 DEF Quit, Goto, ThreadTypeOK, FlagTypeOK, Owning,
       Closing, CameraAlive, PreviewKnown, RecordingOwned, RecordingHasCamera
  <1>15. CASE ThreadEnds
    BY <1>0, <1>15 DEF ThreadEnds, ThreadTypeOK, FlagTypeOK, Owning,
       Closing, CameraAlive, PreviewKnown, RecordingOwned, RecordingHasCamera
  <1> QED
    BY <1>1, <1>2, <1>3, <1>4, <1>5, <1>6, <1>7, <1>8, <1>9, <1>10, <1>11,
       <1>12, <1>13, <1>14, <1>15 DEF CameraThreadStep

\* So do the encoder threads, which take a recording only from "stopping"
\* on, and the users, who change neither camera nor recording.
LEMMA OthersOwn ==
    ASSUME TypeOK, Owning,
           \/ \E r \in Recordings : EncoderStep(r) \/ OnStoppedReleases(r)
           \/ \E u \in Users : UserCall(u) \/ UserContinue(u)
    PROVE  Owning'
  <1>0. ThreadTypeOK
    BY DEF TypeOK
  <1>1. ASSUME NEW r \in Recordings, EncoderStep(r) \/ OnStoppedReleases(r)
        PROVE  Owning'
    BY <1>0, <1>1 DEF EncoderStep, OnStoppedReleases, OnStoppedIgnored, OnStopped,
       AtPath, OnStoppedPost, OnStoppedNoPath, MediaUpdateDue, Encoder, ThreadTypeOK,
       Owning, Closing, CameraAlive, PreviewKnown, RecordingOwned,
       RecordingHasCamera
  <1>2. ASSUME NEW u \in Users, UserCall(u) \/ UserContinue(u) PROVE Owning'
    BY <1>2 DEF UserCall, UserContinue, Request, StopRecording, StopPreview,
       Close, Release, IsOpened, RemoveStarts, SendCaptureStop, IsPreviewing,
       SendStopAndWait, Woken, SendClose, SendRelease, UserOnly, Owning,
       Closing, CameraAlive, PreviewKnown, RecordingOwned, RecordingHasCamera
  <1> QED BY <1>1, <1>2

\* The invariant behind the next theorems.
LEMMA OwningAlways == Spec => []Owning
  <1>1. Init => Owning
    BY DEF Init, Owning, Closing, CameraAlive, PreviewKnown, RecordingOwned,
       RecordingHasCamera
  <1>2. Owning /\ UNCHANGED vars => Owning'
    BY DEF vars, Owning, Closing, CameraAlive, PreviewKnown, RecordingOwned,
       RecordingHasCamera
  <1>3. TypeOK /\ Owning /\ [Next]_vars => Owning'
    BY <1>2, CameraOwns, OthersOwn DEF Next, Ongoing
  <1> QED BY TypeCorrect, <1>1, <1>3, PTL DEF Spec

\* Whatever users, messages and encoders do, an open camera is referenced,
\* and a referenced camera is open.
THEOREM CameraAlwaysAlive == Spec => []CameraAlive
  <1>1. Owning => CameraAlive
    BY DEF Owning
  <1> QED BY OwningAlways, <1>1, PTL

\* A preview that runs is one that stopPreview stops.
THEOREM PreviewAlwaysKnown == Spec => []PreviewKnown
  <1>1. Owning => PreviewKnown
    BY DEF Owning
  <1> QED BY OwningAlways, <1>1, PTL

\* A recording that records can be stopped, so that there is only one.
THEOREM RecordingAlwaysOwned == Spec => []RecordingOwned
  <1>1. Owning => RecordingOwned
    BY DEF Owning
  <1> QED BY OwningAlways, <1>1, PTL

\* The camera thread never misses the camera of the recording it starts or
\* stops, as long as no encoder's thread runs handleRelease beside it.
THEOREM RecordingAlwaysHasCamera == Spec => []RecordingHasCamera
  <1>1. Owning => RecordingHasCamera
    BY DEF Owning
  <1> QED BY OwningAlways, <1>1, PTL

\* The looper is quit only when no encoder records or is about to.
THEOREM EndsWhenStopped == Spec => []EndsStopped
  <1>1. Owning => EndsStopped
    BY HandlerAssumption DEF Owning, Closing, RecordingOwned, EndsStopped
  <1> QED BY OwningAlways, <1>1, PTL

-----------------------------------------------------------------------------
(* A single user *)

Has(q, m) == \E i \in 1..Len(q) : q[i] = m
Once(q, m) == \A i, j \in 1..Len(q) : q[i] = m /\ q[j] = m => i = j

\* While the user waits, it is the one the stop will answer; once it has been
\* answered, nothing can start the preview again.
Answered(u) ==
    /\ waiting # {} => op[u] = "waiting"
    /\ op[u] = "sendStop" \/ waiting # {} => mIsPreviewing
    /\ camera = "startFlag" => ~mIsPreviewing
    /\ op[u] \in {"captureStop", "isPreviewing", "sendStop", "waiting"}
         => ~Has(queue, "start")
    /\ op[u] = "waiting" /\ waiting = {}
         => camera \notin {"start", "startFlag"} /\ native # "preview"
    /\ Has(queue, "stop") \/ camera \in {"stop", "stopFlag"} => waiting # {}
    /\ Once(queue, "stop")
    /\ camera \in {"stop", "stopFlag"} => ~Has(queue, "stop")

\* What the queue operations do to the messages in the queue.
LEMMA QueueHas ==
    ASSUME QueueTypeOK, NEW m
    PROVE  /\ \A n \in Messages :
                /\ Has(Append(queue, n), m) <=> Has(queue, m) \/ n = m
                /\ Once(queue, m) /\ (n # m \/ ~Has(queue, m))
                     => Once(Append(queue, n), m)
           /\ queue # <<>> =>
                /\ Has(Tail(queue), m) => Has(queue, m)
                /\ Has(queue, Head(queue))
                /\ Once(queue, m) => Once(Tail(queue), m)
                /\ Once(queue, m) /\ Head(queue) = m => ~Has(Tail(queue), m)
           /\ ~Has(<<>>, m) /\ Once(<<>>, m)
  <1>1. queue \in Seq(Messages \cup {"removed"})
    BY DEF QueueTypeOK
  <1>2. ASSUME NEW n \in Messages
        PROVE  /\ Has(Append(queue, n), m) <=> Has(queue, m) \/ n = m
               /\ Once(queue, m) /\ (n # m \/ ~Has(queue, m))
                    => Once(Append(queue, n), m)
    <2> DEFINE q == Append(queue, n)
    <2>1. /\ Len(queue) \in Nat /\ Len(q) = Len(queue) + 1
          /\ \A i \in 1..Len(queue) : q[i] = queue[i]
          /\ q[Len(q)] = n
      BY <1>1
    <2>2. \A i \in 1..Len(q) : i \in 1..Len(queue) \/ i = Len(q)
      BY <2>1
    <2>3. 1..Len(queue) \subseteq 1..Len(q) /\ Len(q) \in 1..Len(q)
      BY <2>1
    <2> HIDE DEF q
    <2>4. Has(q, m) <=> Has(queue, m) \/ n = m
      BY <2>1, <2>2, <2>3 DEF Has
    <2>5. ASSUME Once(queue, m), n # m \/ ~Has(queue, m) PROVE Once(q, m)
      BY <2>1, <2>2, <2>3, <2>5 DEF Has, Once
    <2> QED BY <2>4, <2>5 DEF q
  <1>3. ASSUME queue # <<>>
        PROVE  /\ Has(Tail(queue), m) => Has(queue, m)
               /\ Has(queue, Head(queue))
               /\ Once(queue, m) => Once(Tail(queue), m)
               /\ Once(queue, m) /\ Head(queue) = m => ~Has(Tail(queue), m)
    <2> DEFINE q == Tail(queue)
    <2>1. /\ Len(queue) \in Nat \ {0} /\ Len(q) = Len(queue) - 1
          /\ \A i \in 1..Len(q) : q[i] = queue[i + 1]
          /\ Head(queue) = queue[1]
      BY <1>1, <1>3
    <2>2. \A i \in 1..Len(q) : i + 1 \in 1..Len(queue) /\ i + 1 # 1
      BY <2>1
    <2>3. 1 \in 1..Len(queue)
      BY <2>1
    <2>4. \A i, j \in 1..Len(q) : i + 1 = j + 1 => i = j
      BY <2>1
    <2> HIDE DEF q
    <2>5. Has(q, m) => Has(queue, m)
      BY <2>1, <2>2 DEF Has
    <2>6. Has(queue, Head(queue))
      BY <2>1, <2>3 DEF Has
    <2>7. Once(queue, m) => Once(q, m)
      BY <2>1, <2>2, <2>4 DEF Once
    <2>8. Once(queue, m) /\ Head(queue) = m => ~Has(q, m)
      BY <2>1, <2>2, <2>3 DEF Has, Once
    <2> QED BY <2>5, <2>6, <2>7, <2>8 DEF q
  <1>4. ~Has(<<>>, m) /\ Once(<<>>, m)
    BY DEF Has, Once
  <1> QED BY <1>2, <1>3, <1>4

\* removeMessages removes the starts and no stop.
LEMMA RemovedHas ==
    ASSUME QueueTypeOK,
           NEW q, q = [i \in 1..Len(queue) |->
                         IF queue[i] = "start" THEN "removed" ELSE queue[i]]
    PROVE  /\ ~Has(q, "start")
           /\ Has(q, "stop") <=> Has(queue, "stop")
           /\ Once(q, "stop") <=> Once(queue, "stop")
  <1>1. Len(queue) \in Nat
    BY DEF QueueTypeOK
  <1>2. Len(q) = Len(queue)
    BY <1>1
  <1>3. \A i \in 1..Len(q) : q[i] # "start" /\ (q[i] = "stop" <=> queue[i] = "stop")
    BY <1>2
  <1> QED BY <1>2, <1>3 DEF Has, Once

\* A step of the single user keeps the promise.
LEMMA UserAnswered ==
    ASSUME NEW u, Users = {u}, TypeOK, Owning, Answered(u),
           UserCall(u) \/ UserContinue(u)
    PROVE  Answered(u)'
  <1>0. QueueTypeOK /\ UserTypeOK /\ op[u] # "released" /\ waiting \subseteq {u}
    <2>1. QueueTypeOK /\ UserTypeOK
      BY DEF TypeOK
    <2> QED BY <2>1 DEF UserTypeOK, UserCall, UserContinue, Begin, Request,
            StopRecording, StopPreview, Close, Release, IsOpened, RemoveStarts,
            SendCaptureStop, IsPreviewing, SendStopAndWait, Woken, SendClose,
            SendRelease
  <1> DEFINE SQ == /\ Has(queue', "start") => Has(queue, "start")
                   /\ Has(queue', "stop") => Has(queue, "stop")
                   /\ Once(queue', "stop")
  <1>1. CASE Request(u)
    <2>1. op' = op /\ waiting' = waiting /\ op[u] = "idle" /\ UNCHANGED <<camera, native, mIsPreviewing>>
      BY <1>1 DEF Request, Begin, UserOnly
    <2>2. (Has(queue', "stop") => Has(queue, "stop")) /\ Once(queue', "stop")
      BY <1>0, <1>1, QueueHas DEF Request, Send, Messages, Answered
    <2> QED BY <1>0, <2>1, <2>2 DEF Answered
  <1>2. CASE StopRecording(u)
    <2>1. SQ
      BY <1>0, <1>2, QueueHas DEF StopRecording, Send, Messages, Answered
    <2> QED
      BY <1>0, <1>2, <2>1 DEF StopRecording, Begin, UserOnly, UserTypeOK,
         Answered
  <1>3. CASE StopPreview(u)
    BY <1>0, <1>3 DEF StopPreview, Begin, Enter, UserOnly, UserTypeOK,
       Answered
  <1>4. CASE Close(u)
    BY <1>0, <1>4 DEF Close, Begin, Enter, UserOnly, UserTypeOK, Answered
  <1>5. CASE Release(u)
    BY <1>0, <1>5 DEF Release, Begin, Enter, UserOnly, UserTypeOK, Answered
  <1>6. CASE IsOpened(u)
    BY <1>0, <1>6 DEF IsOpened, UserGoto, Enter, AfterClose, UserOnly,
       UserTypeOK, Answered
  <1>7. CASE RemoveStarts(u)
    <2>1. /\ ~Has(queue', "start")
          /\ Has(queue', "stop") <=> Has(queue, "stop")
          /\ Once(queue', "stop")
      BY <1>0, <1>7, RemovedHas DEF RemoveStarts, Answered
    <2> QED
      BY <1>0, <1>7, <2>1 DEF RemoveStarts, UserGoto, Enter, UserOnly,
         UserTypeOK, Answered
  <1>8. CASE SendCaptureStop(u)
    <2>1. SQ
      BY <1>0, <1>8, QueueHas DEF SendCaptureStop, Send, Messages, Answered
    <2> QED
      BY <1>0, <1>8, <2>1 DEF SendCaptureStop, UserGoto, Enter, UserOnly,
         UserTypeOK, Answered
  <1>9. CASE IsPreviewing(u)
    BY <1>0, <1>9 DEF IsPreviewing, UserGoto, Enter, AfterStop, UserOnly,
       UserTypeOK, Answered
  <1>10. CASE SendStopAndWait(u)
    <2>1. /\ op[u] = "sendStop" /\ op'[u] = "waiting" /\ waiting' = {u}
          /\ UNCHANGED <<camera, native, mIsPreviewing>>
      BY <1>0, <1>10 DEF SendStopAndWait, UserGoto, Enter, UserOnly, UserTypeOK
    <2>2. waiting = {} /\ ~Has(queue, "stop") /\ ~Has(queue, "start")
      BY <2>1 DEF Answered
    <2>3. Once(queue', "stop") /\ ~Has(queue', "start")
      BY <1>0, <1>10, <2>2, QueueHas DEF SendStopAndWait, Send, Messages, Answered
    <2>4. camera \notin {"stop", "stopFlag"}
      BY <2>2 DEF Answered
    <2> QED BY <2>1, <2>2, <2>3, <2>4 DEF Answered
  <1>11. CASE Woken(u)
    BY <1>0, <1>11 DEF Woken, UserGoto, Enter, AfterStop, UserOnly,
       UserTypeOK, Answered
  <1>12. CASE SendClose(u)
    <2>1. SQ
      BY <1>0, <1>12, QueueHas DEF SendClose, Send, Messages, Answered
    <2> QED
      BY <1>0, <1>12, <2>1 DEF SendClose, UserGoto, Enter, AfterClose,
         UserOnly, UserTypeOK, Answered
  <1>13. CASE SendRelease(u)
    <2>1. SQ
      BY <1>0, <1>13, QueueHas DEF SendRelease, Send, Messages, Answered
    <2> QED
      BY <1>0, <1>13, <2>1 DEF SendRelease, UserGoto, Enter, UserOnly,
         UserTypeOK, Answered
  <1> QED
    BY <1>1, <1>2, <1>3, <1>4, <1>5, <1>6, <1>7, <1>8, <1>9, <1>10, <1>11,
       <1>12, <1>13 DEF UserCall, UserContinue

\* So does a step of the camera thread.
LEMMA CameraAnswered ==
    ASSUME NEW u, Users = {u}, TypeOK, Owning, Answered(u), CameraThreadStep
    PROVE  Answered(u)'
  <1>0. QueueTypeOK /\ ThreadTypeOK /\ Closing /\ CameraAlive
    BY DEF TypeOK, Owning
  <1>1. CASE TakeMessage
    <2>1. /\ queue # <<>> /\ queue' = Tail(queue) /\ camera = "idle"
          /\ camera' \in {"idle", Head(queue)}
          /\ UNCHANGED <<native, mIsPreviewing, waiting, op>>
      BY <1>1 DEF TakeMessage
    <2>2. /\ Has(queue', "start") => Has(queue, "start")
          /\ Has(queue', "stop") => Has(queue, "stop")
          /\ Once(queue', "stop")
          /\ Has(queue, Head(queue))
          /\ Head(queue) = "stop" => ~Has(queue', "stop")
      BY <1>0, <2>1, QueueHas DEF Answered
    <2>3. Head(queue) \notin {"startFlag", "stopFlag"}
      BY <1>0, <2>1, QueueKept DEF Messages
    <2> QED BY <2>1, <2>2, <2>3 DEF Answered
  <1>2. CASE HandleUpdateMedia
    BY <1>0, <1>2 DEF HandleUpdateMedia, Step, Goto, Answered
  <1>3. CASE HandleStopRecording
    BY <1>0, <1>3 DEF HandleStopRecording, StopCapture, Answered
  <1>4. CASE StopMuxer
    BY <1>0, <1>4 DEF StopMuxer, Goto, Answered
  <1>5. CASE TakeCamera
    BY <1>0, <1>5 DEF TakeCamera, Step, Goto, AfterHandleClose, Answered
  <1>6. CASE DestroyCamera
    BY <1>0, <1>6 DEF DestroyCamera, Step, Goto, AfterHandleClose, Answered
  <1>7. CASE OpenCamera
    BY <1>0, <1>7 DEF OpenCamera, Done, Step, Goto, Answered
  <1>8. CASE HandleStartPreview
    BY <1>0, <1>8 DEF HandleStartPreview, Done, Step, Goto, Answered
  <1>9. CASE StartFlag
    BY <1>0, <1>9 DEF StartFlag, Done, Step, Goto, Answered
  <1>10. CASE HandleStopPreview
    BY <1>0, <1>10 DEF HandleStopPreview, Done, Step, Goto, StopCapture,
       Answered, Closing, CameraAlive
  <1>11. CASE StopFlag
    BY <1>0, <1>11 DEF StopFlag, Done, Step, Goto, Answered, Closing
  <1>12. CASE HandleStartRecording
    BY <1>0, <1>12 DEF HandleStartRecording, Done, Step, Goto, OnPrepared,
       Answered
  <1>13. CASE StartRecording
    BY <1>0, <1>13 DEF StartRecording, Done, Step, Goto, Answered
  <1>14. CASE Quit
    <2>1. /\ queue' = queue \/ queue' = <<>>
          /\ camera' = "idle"
          /\ UNCHANGED <<native, mIsPreviewing, waiting, op>>
      BY <1>14 DEF Quit, Goto
    <2>2. /\ Has(queue', "start") => Has(queue, "start")
          /\ Has(queue', "stop") => Has(queue, "stop")
          /\ Once(queue', "stop")
      BY <1>0, <2>1, QueueHas DEF Answered
    <2> QED BY <2>1, <2>2 DEF Answered
  <1>15. CASE ThreadEnds
    <2>1. queue = <<>> /\ native = "closed" /\ camera = "idle"
      BY <1>0, <1>15 DEF ThreadEnds, QueueTypeOK, Closing, CameraAlive
    <2>2. ~Has(queue, "start") /\ ~Has(queue, "stop")
      BY <1>0, <2>1, QueueHas
    <2> QED BY <1>15, <2>1, <2>2 DEF ThreadEnds, Answered
  <1> QED
    BY <1>1, <1>2, <1>3, <1>4, <1>5, <1>6, <1>7, <1>8, <1>9, <1>10, <1>11,
       <1>12, <1>13, <1>14, <1>15 DEF CameraThreadStep

\* So does an encoder thread, which sends no start and no stop.
LEMMA EncoderAnswered ==
    ASSUME NEW u, TypeOK, Answered(u), NEW r \in Recordings,
           EncoderStep(r) \/ OnStoppedReleases(r)
    PROVE  Answered(u)'
  <1>0. QueueTypeOK
    BY DEF TypeOK
  <1>1. UNCHANGED <<camera, native, mIsPreviewing, op, waiting>>
    BY DEF EncoderStep, OnStoppedReleases, OnStoppedIgnored, OnStopped, AtPath,
       OnStoppedPost, OnStoppedNoPath, MediaUpdateDue, Encoder
  <1>2. queue' = queue \/ queue' = Append(queue, "mediaUpdate")
    BY DEF EncoderStep, OnStoppedReleases, OnStoppedIgnored, OnStopped, AtPath,
       OnStoppedPost, OnStoppedNoPath, MediaUpdateDue, Send
  <1>3. /\ Has(queue', "start") => Has(queue, "start")
        /\ Has(queue', "stop") => Has(queue, "stop")
        /\ Once(queue', "stop")
    BY <1>0, <1>2, QueueHas DEF Messages, Answered
  <1> QED BY <1>1, <1>3 DEF Answered

\* The invariant behind the next two theorems.
LEMMA AnsweredAlways ==
    ASSUME NEW u, Users = {u}
    PROVE  Spec => []Answered(u)
  <1>1. Init => Answered(u)
    <2> SUFFICES ASSUME Init PROVE Answered(u)
      OBVIOUS
    <2>1. QueueTypeOK
      BY DEF Init, QueueTypeOK
    <2>2. ~Has(queue, "stop") /\ Once(queue, "stop")
      BY <2>1, QueueHas DEF Init
    <2> QED BY <2>2 DEF Init, Answered
  <1>2. Answered(u) /\ UNCHANGED vars => Answered(u)'
    BY DEF vars, Answered, Has, Once
  <1>3. TypeOK /\ Owning /\ Answered(u) /\ [Next]_vars => Answered(u)'
    BY <1>2, UserAnswered, CameraAnswered, EncoderAnswered DEF Next, Ongoing
  <1> QED BY TypeCorrect, OwningAlways, <1>1, <1>3, PTL DEF Spec

\* With a single user a stopPreview that has waited returns when the preview
\* is over, and no message left behind starts it again before it returns.
THEOREM SingleUserWaits ==
    ASSUME NEW u, Users = {u}
    PROVE  Spec => []WokenAfterStop
  <1>1. TypeOK /\ Answered(u) => WokenAfterStop
    BY DEF TypeOK, UserTypeOK, Answered, WokenAfterStop
  <1> QED BY TypeCorrect, AnsweredAlways, <1>1, PTL

-----------------------------------------------------------------------------
(* What a user who waits, and a handler that was released, wait for *)

\* What else the queue operations keep.
LEMMA QueueKeeps ==
    ASSUME QueueTypeOK, NEW m, m \notin {"start", "removed"}
    PROVE  /\ queue # <<>> /\ Has(queue, m) => Head(queue) = m \/ Has(Tail(queue), m)
           /\ Has([i \in 1..Len(queue) |->
                     IF queue[i] = "start" THEN "removed" ELSE queue[i]], m)
                <=> Has(queue, m)
  <1> DEFINE q == Tail(queue)
  <1> DEFINE holes == [i \in 1..Len(queue) |->
                         IF queue[i] = "start" THEN "removed" ELSE queue[i]]
  <1>1. queue \in Seq(Messages \cup {"removed"})
    BY DEF QueueTypeOK
  <1>2. Len(queue) \in Nat
    BY <1>1
  <1>3. ASSUME queue # <<>>, Has(queue, m) PROVE Head(queue) = m \/ Has(q, m)
    <2>1. /\ Len(q) = Len(queue) - 1 /\ Head(queue) = queue[1]
          /\ \A i \in 1..Len(q) : q[i] = queue[i + 1]
      BY <1>1, <1>3
    <2>2. PICK i \in 1..Len(queue) : queue[i] = m
      BY <1>3 DEF Has
    <2>3. i = 1 \/ (i - 1 \in 1..Len(q) /\ (i - 1) + 1 = i)
      BY <1>2, <2>1
    <2> HIDE DEF q
    <2>4. i # 1 => q[i - 1] = m
      BY <2>1, <2>2, <2>3
    <2> QED BY <2>1, <2>2, <2>3, <2>4 DEF Has
  <1>4. Len(holes) = Len(queue)
    BY <1>2
  <1>5. \A i \in 1..Len(queue) : holes[i] = m <=> queue[i] = m
    OBVIOUS
  <1>6. Has(holes, m) <=> Has(queue, m)
    <2> HIDE DEF holes
    <2> QED BY <1>4, <1>5 DEF Has
  <1> QED BY <1>3, <1>6

\* A user who waits is not forgotten: the stop that will answer is in the queue
\* or in the camera thread, and a thread that will quit has nothing else to do.
StopServed ==
    /\ waiting # {} /\ looper = "loop" =>
          Has(queue, "stop") \/ camera \in {"stop", "stopFlag"}
    /\ looper = "quit" => camera = "idle"

\* A step of the single user keeps it.
LEMMA UserStopServed ==
    ASSUME NEW u, Users = {u}, TypeOK, StopServed, UserCall(u) \/ UserContinue(u)
    PROVE  StopServed'
  <1>0. QueueTypeOK
    BY DEF TypeOK
  <1>1. UNCHANGED <<looper, camera>>
    BY DEF UserCall, UserContinue, Request, StopRecording, StopPreview, Close,
       Release, IsOpened, RemoveStarts, SendCaptureStop, IsPreviewing,
       SendStopAndWait, Woken, SendClose, SendRelease, UserOnly
  <1>2. Has(queue, "stop") => Has(queue', "stop")
    <2>1. CASE RemoveStarts(u)
      BY <1>0, <2>1, QueueKeeps DEF RemoveStarts
    <2>2. CASE ~RemoveStarts(u)
      <3>1. queue' = queue \/ \E m \in Messages : queue' = Append(queue, m)
        BY <2>2 DEF UserCall, UserContinue, Request, StopRecording, StopPreview,
           Close, Release, IsOpened, SendCaptureStop, IsPreviewing,
           SendStopAndWait, Woken, SendClose, SendRelease, Send, Messages
      <3> QED BY <1>0, <3>1, QueueHas
    <2> QED BY <2>1, <2>2
  <1>3. waiting' = waiting \/ (looper = "loop" => Has(queue', "stop"))
    <2>1. CASE SendStopAndWait(u)
      BY <1>0, <2>1, QueueHas DEF SendStopAndWait, Send, Messages
    <2> QED
      BY <2>1 DEF UserCall, UserContinue, Request, StopRecording, StopPreview,
         Close, Release, IsOpened, RemoveStarts, SendCaptureStop, IsPreviewing,
         Woken, SendClose, SendRelease
  <1> QED BY <1>1, <1>2, <1>3 DEF StopServed

\* So does a step of the camera thread: a stop that it takes finds the preview
\* it is to stop, since a user waits for it.
LEMMA CameraStopServed ==
    ASSUME NEW u, TypeOK, Owning, Owning', Answered(u), StopServed, CameraThreadStep
    PROVE  StopServed'
  <1>0. QueueTypeOK
    BY DEF TypeOK
  <1>1. looper' = "quit" => camera' = "idle"
    BY DEF Owning, Closing
  <1>2. ASSUME waiting' # {}, looper' = "loop"
        PROVE  Has(queue', "stop") \/ camera' \in {"stop", "stopFlag"}
    <2>1. CASE TakeMessage
      <3>1. /\ queue # <<>> /\ queue' = Tail(queue) /\ camera = "idle"
            /\ Head(queue) = "stop" => camera' = "stop"
            /\ waiting' = waiting /\ looper = "loop"
        BY <2>1 DEF TakeMessage
      <3>2. Has(queue, "stop")
        BY <1>2, <3>1 DEF StopServed
      <3> QED BY <1>0, <3>1, <3>2, QueueKeeps
    <2>2. CASE HandleStopPreview
      BY <1>2, <2>2 DEF HandleStopPreview, Step, Goto, Answered
    <2>3. CASE StopFlag
      BY <1>2, <2>3 DEF StopFlag
    <2>4. CASE ~TakeMessage /\ ~HandleStopPreview /\ ~StopFlag
      <3>1. /\ looper = "loop" /\ waiting' = waiting /\ queue' = queue
            /\ camera \notin {"stop", "stopFlag"}
        BY <1>2, <2>4 DEF CameraThreadStep, HandleUpdateMedia,
           HandleStopRecording, StopMuxer, TakeCamera, DestroyCamera, OpenCamera,
           HandleStartPreview, StartFlag, HandleStartRecording, StartRecording,
           Quit, ThreadEnds, Step, Done
      <3> QED BY <1>2, <3>1 DEF StopServed
    <2> QED BY <2>1, <2>2, <2>3, <2>4
  <1> QED BY <1>1, <1>2 DEF StopServed

\* A single user who waits for the end of the preview, and so does close and
\* release, is answered as soon as the camera thread has run: the safe part of
\* StopAnswered.
THEOREM StopAlwaysServed ==
    ASSUME NEW u, Users = {u}
    PROVE  Spec => []StopServed
  <1>1. Init => StopServed
    BY DEF Init, StopServed
  <1>2. StopServed /\ UNCHANGED vars => StopServed'
    BY DEF vars, StopServed, Has
  <1>3. ASSUME TypeOK, StopServed, NEW r \in Recordings,
               EncoderStep(r) \/ OnStoppedReleases(r)
        PROVE  StopServed'
    <2>0. QueueTypeOK
      BY <1>3 DEF TypeOK
    <2>1. /\ UNCHANGED <<camera, looper, waiting>>
          /\ queue' = queue \/ queue' = Append(queue, "mediaUpdate")
      BY <1>3 DEF EncoderStep, OnStoppedReleases, OnStoppedIgnored, OnStopped, AtPath,
         OnStoppedPost, OnStoppedNoPath, MediaUpdateDue, Encoder, Send
    <2>2. Has(queue, "stop") => Has(queue', "stop")
      BY <2>0, <2>1, QueueHas DEF Messages
    <2> QED BY <1>3, <2>1, <2>2 DEF StopServed
  <1>4. TypeOK /\ Owning /\ Owning' /\ Answered(u) /\ StopServed /\ [Next]_vars
          => StopServed'
    BY <1>2, <1>3, UserStopServed, CameraStopServed DEF Next, Ongoing
  <1> QED BY TypeCorrect, OwningAlways, AnsweredAlways, <1>1, <1>4, PTL DEF Spec

-----------------------------------------------------------------------------
\* A release in the queue comes after the last start of a recording.
Ordered(q) ==
    \A i, j \in 1..Len(q) : i < j /\ q[i] = "release" => q[j] # "captureStart"

\* The user will send the release; the end of the recording will be reported
\* and the handler looked at again; no recording will be started; handleRelease
\* runs, or will after handleUpdateMedia.
Leaving(u) == call[u] = "release" /\ op[u] \notin {"idle", "released"}
Reported(r) ==
    \/ encoder[r] \in {"stopped", "update"}
    \/ encoder[r] = "stopping" /\ mEncoderType # "buffer"
NoneStarts ==
    ~Has(queue, "captureStart") /\ camera \notin {"captureStart", "startRecording"}
Releasing == msg \in {"release", "mediaUpdate"}

\* open, startPreview and startRecording are refused before a release is sent; the
\* two messages that release lead through handleClose to the end of
\* handleRelease; and the end of a "buffer" encoder is not reported.
Refused ==
    /\ Ordered(queue)
    /\ Has(queue, "release") \/ (\E u \in Users : Leaving(u)) => mReleased
    /\ \A u \in Users : op[u] = "sendRelease" => call[u] = "release"
    /\ Releasing => camera \in {"mediaUpdate", "release", "stopMuxer", "takeCamera",
                                "destroy", "quit"}
    /\ mEncoderType = "buffer" =>
         \A r \in Recordings : encoder[r] \notin {"stopped", "update"}

\* A released handler whose looper still runs has something left that will quit
\* it, or has the recording forgotten that keeps it (RecordingForgotten), unless
\* an encoder's thread took the release over.
ReleaseServed ==
    mReleased /\ looper = "loop" /\ ~elsewhere =>
      \/ \E u \in Users : Leaving(u)
      \/ Has(queue, "release")
      \/ NoneStarts /\ \/ Releasing
                       \/ Has(queue, "mediaUpdate")
                       \/ \E r \in Recordings : Reported(r)
                       \/ RecordingForgotten

\* What the queue operations do to the order.
LEMMA QueueOrder ==
    ASSUME QueueTypeOK, Ordered(queue)
    PROVE  /\ \A n \in Messages :
                n # "captureStart" \/ ~Has(queue, "release") => Ordered(Append(queue, n))
           /\ queue # <<>> =>
                /\ Ordered(Tail(queue))
                /\ Head(queue) = "release" => ~Has(Tail(queue), "captureStart")
           /\ Ordered([i \in 1..Len(queue) |->
                         IF queue[i] = "start" THEN "removed" ELSE queue[i]])
           /\ Ordered(<<>>)
  <1>1. queue \in Seq(Messages \cup {"removed"}) /\ Len(queue) \in Nat
    BY DEF QueueTypeOK
  <1>2. ASSUME NEW n \in Messages, n # "captureStart" \/ ~Has(queue, "release")
        PROVE  Ordered(Append(queue, n))
    <2> DEFINE q == Append(queue, n)
    <2>1. /\ Len(q) = Len(queue) + 1
          /\ \A i \in 1..Len(queue) : q[i] = queue[i]
          /\ q[Len(q)] = n
      BY <1>1
    <2> HIDE DEF q
    <2>2. ASSUME NEW i \in 1..Len(q), NEW j \in 1..Len(q), i < j, q[i] = "release"
          PROVE  q[j] # "captureStart"
      <3>1. i \in 1..Len(queue) /\ q[i] = queue[i]
        BY <1>1, <2>1, <2>2
      <3>2. Has(queue, "release")
        BY <2>2, <3>1 DEF Has
      <3>3. CASE j \in 1..Len(queue)
        BY <2>1, <2>2, <3>1, <3>3 DEF Ordered
      <3>4. CASE j \notin 1..Len(queue)
        <4>1. j = Len(q)
          BY <1>1, <2>1, <3>4
        <4> QED BY <1>2, <2>1, <3>2, <4>1
      <3> QED BY <3>3, <3>4
    <2>3. Ordered(q)
      BY <2>2 DEF Ordered
    <2> QED BY <2>3 DEF q
  <1>3. ASSUME queue # <<>>
        PROVE  /\ Ordered(Tail(queue))
               /\ Head(queue) = "release" => ~Has(Tail(queue), "captureStart")
    <2> DEFINE q == Tail(queue)
    <2>1. /\ Len(queue) \in Nat \ {0} /\ Len(q) = Len(queue) - 1
          /\ \A i \in 1..Len(q) : q[i] = queue[i + 1]
          /\ Head(queue) = queue[1]
      BY <1>1, <1>3
    <2>2. \A i \in 1..Len(q) : i + 1 \in 1..Len(queue) /\ 1 < i + 1 /\ 1 \in 1..Len(queue)
      BY <2>1
    <2>3. \A i, j \in 1..Len(q) : i < j => i + 1 < j + 1
      BY <2>1
    <2> HIDE DEF q
    <2>4. Ordered(q)
      BY <2>1, <2>2, <2>3 DEF Ordered
    <2>5. Head(queue) = "release" => ~Has(q, "captureStart")
      BY <2>1, <2>2 DEF Ordered, Has
    <2> QED BY <2>4, <2>5 DEF q
  <1>4. Ordered([i \in 1..Len(queue) |->
                   IF queue[i] = "start" THEN "removed" ELSE queue[i]])
    <2> DEFINE q == [i \in 1..Len(queue) |->
                       IF queue[i] = "start" THEN "removed" ELSE queue[i]]
    <2>1. Len(q) = Len(queue)
      BY <1>1
    <2>2. \A i \in 1..Len(queue) :
             (q[i] = "release" => queue[i] = "release")
             /\ (q[i] = "captureStart" => queue[i] = "captureStart")
      OBVIOUS
    <2> HIDE DEF q
    <2>3. Ordered(q)
      BY <2>1, <2>2 DEF Ordered
    <2> QED BY <2>3 DEF q
  <1>5. Ordered(<<>>)
    BY DEF Ordered
  <1> QED BY <1>2, <1>3, <1>4, <1>5

\* What a step of a user sends: startRecording is refused after a release, a
\* release comes from a user who leaves, and no release is lost.
LEMMA UserSends ==
    ASSUME TypeOK, Refused, NEW u \in Users, UserCall(u) \/ UserContinue(u)
    PROVE  /\ UNCHANGED <<mEncoderType, looper, camera, msg, mIsRecording, encoder>>
           /\ Ordered(queue')
           /\ \A m \in {"release", "mediaUpdate"} : Has(queue, m) => Has(queue', m)
           /\ Has(queue', "release") => Has(queue, "release") \/ Leaving(u)
           /\ Has(queue', "captureStart") => Has(queue, "captureStart") \/ ~mReleased
  <1>0. QueueTypeOK /\ Ordered(queue) /\ (Has(queue, "release") => mReleased)
    BY DEF TypeOK, Refused
  <1>1. UNCHANGED <<mEncoderType, looper, camera, msg, mIsRecording, encoder>>
    BY DEF UserCall, UserContinue, Request, StopRecording, StopPreview, Close,
       Release, IsOpened, RemoveStarts, SendCaptureStop, IsPreviewing,
       SendStopAndWait, Woken, SendClose, SendRelease, UserOnly
  <1>2. CASE RemoveStarts(u)
    <2>1. \A m \in {"release", "mediaUpdate", "captureStart"} :
             Has(queue', m) <=> Has(queue, m)
      BY <1>0, <1>2, QueueKeeps DEF RemoveStarts
    <2>2. Ordered(queue')
      BY <1>0, <1>2, QueueOrder DEF RemoveStarts
    <2> QED BY <1>1, <2>1, <2>2
  <1>3. CASE ~RemoveStarts(u)
    <2>1. \/ queue' = queue
          \/ \E m \in Messages : /\ queue' = Append(queue, m)
                                 /\ m = "captureStart" => ~mReleased
                                 /\ m = "release" => op[u] = "sendRelease"
      BY <1>3 DEF UserCall, UserContinue, Request, StopRecording, StopPreview,
         Close, Release, IsOpened, SendCaptureStop, IsPreviewing,
         SendStopAndWait, Woken, SendClose, SendRelease, Send, Messages
    <2>2. op[u] = "sendRelease" => Leaving(u)
      BY DEF Refused, Leaving
    <2>3. CASE queue' = queue
      BY <1>0, <1>1, <2>3
    <2>4. ASSUME NEW m \in Messages, queue' = Append(queue, m),
                 m = "captureStart" => ~mReleased,
                 m = "release" => op[u] = "sendRelease"
          PROVE  /\ Ordered(queue')
                 /\ \A n \in {"release", "mediaUpdate"} : Has(queue, n) => Has(queue', n)
                 /\ Has(queue', "release") => Has(queue, "release") \/ Leaving(u)
                 /\ Has(queue', "captureStart") => Has(queue, "captureStart") \/ ~mReleased
      <3>1. Ordered(queue')
        BY <1>0, <2>4, QueueOrder
      <3>2. \A n : Has(queue', n) <=> Has(queue, n) \/ m = n
        BY <1>0, <2>4, QueueHas
      <3> QED BY <2>2, <2>4, <3>1, <3>2
    <2> QED BY <1>1, <2>1, <2>3, <2>4
  <1> QED BY <1>2, <1>3

\* A user who releases leaves, and who leaves does until the release is sent.
LEMMA UserLeaves ==
    ASSUME TypeOK, Refused, NEW u \in Users, UserCall(u) \/ UserContinue(u)
    PROVE  /\ mReleased => mReleased' = TRUE
           /\ ~mReleased /\ mReleased' => Leaving(u)'
           /\ Leaving(u)' => Leaving(u) \/ mReleased' = TRUE
           /\ Leaving(u) /\ looper = "loop" => Leaving(u)' \/ Has(queue', "release")
           /\ \A v \in Users : v # u => op'[v] = op[v] /\ call'[v] = call[v]
           /\ op'[u] = "sendRelease" => call'[u] = "release"
  <1>0. QueueTypeOK /\ UserTypeOK /\ mReleased \in BOOLEAN
    BY DEF TypeOK, FlagTypeOK
  <1>1. CASE UserCall(u)
    BY <1>0, <1>1 DEF UserCall, Request, StopRecording, StopPreview, Close,
       Release, Begin, Enter, Leaving, UserTypeOK
  <1>2. CASE UserContinue(u)
    <2>1. mReleased' = mReleased
      BY <1>2 DEF UserContinue, IsOpened, RemoveStarts, SendCaptureStop,
         IsPreviewing, SendStopAndWait, Woken, SendClose, SendRelease
    <2>2. PICK pc : UserGoto(u, pc)
      BY <1>2 DEF UserContinue, IsOpened, RemoveStarts, SendCaptureStop,
         IsPreviewing, SendStopAndWait, Woken, SendClose, SendRelease
    <2>3. /\ op'[u] = pc
          /\ call'[u] = IF pc = "idle" THEN "none" ELSE call[u]
          /\ \A v \in Users : v # u => op'[v] = op[v] /\ call'[v] = call[v]
      BY <1>0, <2>2 DEF UserGoto, Enter, UserTypeOK
    <2>4. pc = "sendRelease" => call[u] = "release"
      BY <1>0, <1>2, <2>3 DEF UserContinue, IsOpened, RemoveStarts, SendCaptureStop,
         IsPreviewing, SendStopAndWait, Woken, SendClose, SendRelease,
         UserGoto, Enter, AfterClose, AfterStop, UserTypeOK
    <2>5. op[u] # "idle" /\ (pc = "idle" => call[u] # "release")
      BY <1>0, <1>2, <2>3 DEF UserContinue, IsOpened, RemoveStarts, SendCaptureStop,
         IsPreviewing, SendStopAndWait, Woken, SendClose, SendRelease,
         UserGoto, Enter, AfterClose, AfterStop, UserTypeOK
    <2>6. op[u] # "released"
      BY <1>2 DEF UserContinue, IsOpened, RemoveStarts, SendCaptureStop,
         IsPreviewing, SendStopAndWait, Woken, SendClose, SendRelease
    <2>7. pc = "released" /\ looper = "loop" => Has(queue', "release")
      <3>1. CASE SendRelease(u)
        BY <1>0, <3>1, QueueHas DEF SendRelease, Send, Messages
      <3>2. CASE ~SendRelease(u)
        BY <1>0, <1>2, <2>3, <3>2 DEF UserContinue, IsOpened, RemoveStarts,
           SendCaptureStop, IsPreviewing, SendStopAndWait, Woken, SendClose,
           UserGoto, Enter, AfterClose, AfterStop, UserTypeOK
      <3> QED BY <3>1, <3>2
    <2> QED BY <1>0, <2>1, <2>3, <2>4, <2>5, <2>6, <2>7 DEF Leaving
  <1> QED BY <1>1, <1>2

\* A step of a user keeps both.
LEMMA UserReleases ==
    ASSUME TypeOK, Refused, ReleaseServed, ~elsewhere, NEW u \in Users,
           UserCall(u) \/ UserContinue(u)
    PROVE  Refused' /\ ReleaseServed'
  <1>0. mReleased \in BOOLEAN
    BY DEF TypeOK, FlagTypeOK
  <1>1. \A v \in Users : v # u => (Leaving(v)' <=> Leaving(v))
    BY UserLeaves DEF Leaving
  <1>2. Refused'
    <2>1. Has(queue', "release") \/ (\E v \in Users : Leaving(v)') => mReleased' = TRUE
      BY <1>0, <1>1, UserSends, UserLeaves DEF Refused
    <2>2. \A v \in Users : op'[v] = "sendRelease" => call'[v] = "release"
      BY UserLeaves DEF Refused
    <2> QED BY <2>1, <2>2, UserSends DEF Refused, Releasing
  <1>3. ASSUME mReleased' = TRUE, looper' = "loop" PROVE ReleaseServed'
    <2>1. looper = "loop"
      BY <1>3, UserSends
    <2>2. CASE mReleased = FALSE
      BY <2>2, <1>3, UserLeaves DEF ReleaseServed
    <2>3. CASE mReleased = TRUE
      <3>1. CASE \E v \in Users : Leaving(v)
        BY <1>1, <2>1, <3>1, UserLeaves DEF ReleaseServed
      <3>2. CASE Has(queue, "release")
        BY <3>2, UserSends DEF ReleaseServed
      <3>3. CASE NoneStarts /\ (\/ Releasing
                                \/ Has(queue, "mediaUpdate")
                                \/ \E r \in Recordings : Reported(r)
                                \/ RecordingForgotten)
        <4>1. NoneStarts'
          BY <2>3, <3>3, UserSends DEF NoneStarts
        <4>2. /\ Releasing => Releasing'
              /\ \A r \in Recordings : Reported(r) => Reported(r)'
              /\ RecordingForgotten => RecordingForgotten'
          BY UserSends DEF Releasing, Reported, RecordingForgotten
        <4> QED BY <3>3, <4>1, <4>2, UserSends DEF ReleaseServed
      <3> QED BY <2>1, <2>3, <3>1, <3>2, <3>3 DEF ReleaseServed
    <2> QED BY <1>0, <2>2, <2>3
  <1>4. ReleaseServed'
    BY <1>0, <1>3, UserLeaves DEF ReleaseServed
  <1> QED BY <1>2, <1>4

\* What a step of the camera thread leaves alone unless it takes a message or
\* quits, and how the two messages that release go on.
LEMMA CameraLeaves ==
    ASSUME TypeOK, Refused, CameraThreadStep
    PROVE  /\ UNCHANGED <<mEncoderType, op, call>>
           /\ ~TakeMessage /\ ~Quit => queue' = queue
           /\ ~Quit /\ ~ThreadEnds => UNCHANGED <<looper, mReleased>>
           /\ ~TakeMessage => (camera' \in {"captureStart", "startRecording"}
                                 => camera = "captureStart")
           /\ Releasing' /\ ~TakeMessage => /\ Releasing
                                            /\ camera' \in {"release", "stopMuxer",
                                                 "takeCamera", "destroy", "quit"} \cup {camera}
           /\ Releasing /\ ~Quit => Releasing' \/ ~mReleased
  <1>0. ThreadTypeOK /\ mReleased \in BOOLEAN
    BY DEF TypeOK, FlagTypeOK
  <1>1. CASE TakeMessage
    BY <1>0, <1>1 DEF TakeMessage, Refused, Releasing, Quit, ThreadEnds
  <1>2. CASE HandleUpdateMedia
    BY <1>0, <1>2 DEF HandleUpdateMedia, Step, Goto, Refused, Releasing
  <1>3. CASE StopMuxer
    BY <1>0, <1>3 DEF StopMuxer, Goto, Refused, Releasing
  <1>4. CASE HandleStartRecording
    BY <1>0, <1>4 DEF HandleStartRecording, OnPrepared, Done, Step, Goto, Refused, Releasing
  <1>5. CASE StartRecording
    BY <1>0, <1>5 DEF StartRecording, Done, Step, Goto, Refused, Releasing
  <1>6. CASE Quit
    BY <1>0, <1>6 DEF Quit, Goto, Refused, Releasing
  <1>7. CASE ThreadEnds
    BY <1>0, <1>7 DEF ThreadEnds, Refused, Releasing
  <1>8. CASE HandleStopRecording
    BY <1>0, <1>8 DEF HandleStopRecording, StopCapture, Refused, Releasing
  <1>9. CASE TakeCamera
    BY <1>0, <1>9 DEF TakeCamera, Step, Goto, AfterHandleClose, Refused, Releasing
  <1>10. CASE DestroyCamera
    BY <1>0, <1>10 DEF DestroyCamera, Step, Goto, AfterHandleClose, Refused, Releasing
  <1>11. CASE OpenCamera
    BY <1>0, <1>11 DEF OpenCamera, Done, Step, Goto, Refused, Releasing
  <1>12. CASE HandleStartPreview
    BY <1>0, <1>12 DEF HandleStartPreview, Done, Step, Goto, Refused, Releasing
  <1>13. CASE StartFlag
    BY <1>0, <1>13 DEF StartFlag, Done, Step, Goto, Refused, Releasing
  <1>14. CASE HandleStopPreview
    BY <1>0, <1>14 DEF HandleStopPreview, Done, Step, Goto, StopCapture, Refused, Releasing
  <1>15. CASE StopFlag
    BY <1>0, <1>15 DEF StopFlag, Done, Step, Goto, Refused, Releasing
  <1> QED
    BY <1>1, <1>2, <1>3, <1>4, <1>5, <1>6, <1>7, <1>8, <1>9, <1>10, <1>11, <1>12, <1>13, <1>14, <1>15 DEF CameraThreadStep

\* What it does with the encoders: it asks the one to stop that it took out of
\* mMuxer, and only while it starts a recording, or quits, with another.
LEMMA CameraEncoders ==
    ASSUME TypeOK, CameraThreadStep
    PROVE  \/ UNCHANGED <<encoder, mIsRecording>>
           \/ /\ camera = "stopMuxer" /\ mIsRecording' = mIsRecording
              /\ \A r \in Recordings : encoder'[r] \in {encoder[r], "stopping"}
           \/ camera \in {"captureStart", "startRecording"}
           \/ looper' = "quit"
  BY DEF CameraThreadStep, TakeMessage, HandleUpdateMedia, HandleStopRecording,
     StopMuxer, TakeCamera, DestroyCamera, OpenCamera, HandleStartPreview,
     StartFlag, HandleStopPreview, StopFlag, HandleStartRecording, StartRecording,
     Quit, ThreadEnds, TypeOK, ThreadTypeOK

\* A step of the camera thread keeps what is refused.
LEMMA CameraRefuses ==
    ASSUME TypeOK, Refused, CameraThreadStep
    PROVE  Refused'
  <1>0. QueueTypeOK /\ ThreadTypeOK /\ Ordered(queue) /\ mReleased \in BOOLEAN
    BY DEF TypeOK, FlagTypeOK, Refused
  <1>1. Ordered(queue') /\ (Has(queue', "release") => Has(queue, "release"))
    <2>1. CASE TakeMessage
      BY <1>0, <2>1, QueueOrder, QueueHas DEF TakeMessage
    <2>2. CASE ~TakeMessage
      <3>1. queue' = queue \/ queue' = <<>>
        BY <2>2, CameraLeaves DEF Quit
      <3> QED BY <1>0, <3>1, QueueOrder, QueueHas
    <2> QED BY <2>1, <2>2
  <1>2. mReleased => mReleased' = TRUE
    BY <1>0, CameraLeaves DEF Quit, ThreadEnds
  <1>3. \A u \in Users : Leaving(u)' <=> Leaving(u)
    BY CameraLeaves DEF Leaving
  <1>4. \A u \in Users : op'[u] = "sendRelease" => call'[u] = "release"
    BY CameraLeaves DEF Refused
  <1>5. Releasing' => camera' \in {"mediaUpdate", "release", "stopMuxer",
                                   "takeCamera", "destroy", "quit"}
    <2>1. CASE TakeMessage
      BY <2>1 DEF TakeMessage, Releasing, Refused
    <2> QED BY <2>1, CameraLeaves DEF Refused
  <1>6. mEncoderType' = "buffer" =>
          \A r \in Recordings : encoder'[r] \notin {"stopped", "update"}
    <2>1. \A r \in Recordings :
             encoder'[r] \in {encoder[r], "stopping", "prepared", "recording", "none"}
      BY <1>0 DEF CameraThreadStep, TakeMessage, HandleUpdateMedia,
         HandleStopRecording, StopMuxer, TakeCamera, DestroyCamera, OpenCamera,
         HandleStartPreview, StartFlag, HandleStopPreview, StopFlag,
         HandleStartRecording, StartRecording, Quit, ThreadEnds, ThreadTypeOK
    <2> QED BY <2>1, CameraLeaves DEF Refused
  <1> QED BY <1>1, <1>2, <1>3, <1>4, <1>5, <1>6 DEF Refused

\* And what is left to do: handleRelease does not quit only while a recording
\* ends, and then its encoder will report it, or it is forgotten.
LEMMA CameraReleases ==
    ASSUME TypeOK, Owning, Refused, ReleaseServed, CameraThreadStep,
           ~elsewhere, UNCHANGED elsewhere
    PROVE  ReleaseServed'
  <1>0. QueueTypeOK /\ ThreadTypeOK /\ Ordered(queue) /\ mReleased \in BOOLEAN
    BY DEF TypeOK, FlagTypeOK, Refused
  <1>1. \A u \in Users : Leaving(u)' <=> Leaving(u)
    BY CameraLeaves DEF Leaving
  <1> SUFFICES ASSUME mReleased' = TRUE, looper' = "loop"
               PROVE  ReleaseServed'
    <2>1. mReleased' \in BOOLEAN
      BY CameraTypes DEF TypeOK, FlagTypeOK
    <2> QED BY <2>1 DEF ReleaseServed
  <1>2. mReleased = TRUE /\ looper = "loop" /\ ~ThreadEnds
    <2>1. ~ThreadEnds
      BY DEF ThreadEnds
    <2>2. CASE Quit
      BY <2>1, <2>2, <1>0 DEF Quit
    <2> QED BY <1>0, <2>1, <2>2, CameraLeaves
  <1>3. CASE \E u \in Users : Leaving(u)
    BY <1>1, <1>3 DEF ReleaseServed
  <1>4. CASE TakeMessage /\ Has(queue, "release")
    <2>1. queue # <<>> /\ queue' = Tail(queue)
      BY <1>4 DEF TakeMessage
    <2>2. CASE Head(queue) = "release"
      <3>1. camera' = "release" /\ msg' = "release"
        BY <1>4, <2>2 DEF TakeMessage
      <3>2. ~Has(queue', "captureStart")
        BY <1>0, <2>1, <2>2, QueueOrder
      <3> QED BY <3>1, <3>2 DEF NoneStarts, Releasing, ReleaseServed
    <2>3. CASE Head(queue) # "release"
      <3>1. Has(queue', "release")
        BY <1>0, <1>4, <2>1, <2>3, QueueKeeps
      <3> QED BY <3>1 DEF ReleaseServed
    <2> QED BY <2>2, <2>3
  <1>5. CASE ~TakeMessage /\ Has(queue, "release")
    <2>1. queue' = queue
      BY <1>5, CameraLeaves DEF Quit
    <2> QED BY <1>5, <2>1 DEF ReleaseServed
  <1>6. CASE NoneStarts /\ (\/ Releasing
                            \/ Has(queue, "mediaUpdate")
                            \/ \E r \in Recordings : Reported(r)
                            \/ RecordingForgotten)
    <2>1. NoneStarts'
      <3>1. CASE TakeMessage
        <4>1. queue # <<>> /\ queue' = Tail(queue) /\ camera = "idle"
              /\ camera' \in {"idle", Head(queue)}
          BY <3>1 DEF TakeMessage
        <4>2. ~Has(queue', "captureStart") /\ Head(queue) # "captureStart"
          BY <1>0, <1>6, <4>1, QueueHas DEF NoneStarts
        <4>3. Head(queue) # "startRecording"
          BY <1>0, <4>1, QueueKept DEF Messages
        <4> QED BY <4>1, <4>2, <4>3 DEF NoneStarts
      <3>2. CASE ~TakeMessage
        <4>1. queue' = queue
          BY <3>2, CameraLeaves DEF Quit
        <4> QED BY <1>6, <3>2, <4>1, CameraLeaves DEF NoneStarts
      <3> QED BY <3>1, <3>2
    <2>2. \/ UNCHANGED <<encoder, mIsRecording>>
          \/ /\ mIsRecording' = mIsRecording
             /\ \A r \in Recordings : encoder'[r] \in {encoder[r], "stopping"}
      BY <1>6, CameraEncoders DEF NoneStarts
    <2>3. mEncoderType' = mEncoderType
      BY CameraLeaves
    <2>4. (\E r \in Recordings : Reported(r)) => \E r \in Recordings : Reported(r)'
      BY <2>2, <2>3 DEF Reported, Refused
    <2>5. RecordingForgotten => RecordingForgotten' \/ \E r \in Recordings : Reported(r)'
      <3>1. CASE mEncoderType = "buffer"
        BY <2>2, <2>3, <3>1 DEF RecordingForgotten
      <3>2. CASE mEncoderType # "buffer"
        BY <2>2, <2>3, <3>2 DEF RecordingForgotten, Reported
      <3> QED BY <3>1, <3>2
    <2>6. CASE Quit
      <3>1. mIsRecording /\ camera = "quit" /\ UNCHANGED <<encoder, mIsRecording>>
        BY <1>2, <2>6 DEF Quit
      <3>2. \A r \in Recordings : encoder[r] \notin {"prepared", "recording"}
        BY <3>1, HandlerAssumption DEF Owning, Closing, RecordingOwned
      <3>3. RecordingForgotten' \/ \E r \in Recordings : Reported(r)'
        BY <2>3, <3>1, <3>2 DEF RecordingForgotten, Reported
      <3> QED BY <2>1, <3>3 DEF ReleaseServed
    <2>7. CASE ~Quit
      <3>1. Releasing => Releasing'
        BY <1>0, <1>2, <2>7, CameraLeaves
      <3>2. Has(queue, "mediaUpdate") => Has(queue', "mediaUpdate") \/ Releasing'
        <4>1. CASE TakeMessage
          BY <1>0, <4>1, QueueKeeps DEF TakeMessage, Releasing
        <4>2. CASE ~TakeMessage
          BY <2>7, <4>2, CameraLeaves
        <4> QED BY <4>1, <4>2
      <3> QED BY <1>6, <2>1, <2>4, <2>5, <3>1, <3>2 DEF ReleaseServed
    <2> QED BY <2>6, <2>7
  <1> QED BY <1>2, <1>3, <1>4, <1>5, <1>6 DEF ReleaseServed

\* An encoder thread that reports goes on to do so until the handler is told.
LEMMA EncoderReleases ==
    ASSUME TypeOK, Refused, ReleaseServed, ~elsewhere, NEW r \in Recordings,
           EncoderStep(r)
    PROVE  Refused' /\ ReleaseServed'
  <1>0. QueueTypeOK /\ ThreadTypeOK /\ Ordered(queue) /\ mReleased \in BOOLEAN
    BY DEF TypeOK, FlagTypeOK, Refused
  <1>1. UNCHANGED <<mEncoderType, looper, camera, msg, mReleased, op, call>>
    BY DEF EncoderStep, OnStoppedIgnored, OnStopped, AtPath,
       OnStoppedPost, OnStoppedNoPath, MediaUpdateDue, Encoder
  <1>2. queue' = queue \/ queue' = Append(queue, "mediaUpdate")
    BY DEF EncoderStep, OnStoppedIgnored, OnStopped, AtPath,
       OnStoppedPost, OnStoppedNoPath, MediaUpdateDue, Send
  <1>3. /\ Ordered(queue')
        /\ \A m \in {"release", "captureStart"} : Has(queue', m) <=> Has(queue, m)
        /\ Has(queue, "mediaUpdate") => Has(queue', "mediaUpdate")
    BY <1>0, <1>2, QueueHas, QueueOrder DEF Messages
  <1>4. \A u \in Users : Leaving(u)' <=> Leaving(u)
    BY <1>1 DEF Leaving
  <1>5. \A s \in Recordings : s # r => encoder'[s] = encoder[s]
    BY <1>0 DEF EncoderStep, OnStoppedIgnored, OnStopped, AtPath,
       OnStoppedPost, OnStoppedNoPath, MediaUpdateDue, Encoder, ThreadTypeOK
  <1>6. \/ mEncoderType = "buffer" /\ encoder'[r] = "none" /\ encoder[r] = "stopping"
        \/ mEncoderType # "buffer" /\ encoder[r] = "stopping" /\ encoder'[r] = "stopped"
        \/ encoder[r] = "stopped" /\ (looper = "loop" /\ mReleased => encoder'[r] = "update")
        \/ encoder[r] = "update" /\ (looper = "loop" => Has(queue', "mediaUpdate"))
    BY <1>0, QueueHas DEF EncoderStep, OnStoppedIgnored, OnStopped, AtPath,
       OnStoppedPost, OnStoppedNoPath, MediaUpdateDue, Encoder, Send, Messages, ThreadTypeOK
  <1>7. Refused'
    <2>1. mEncoderType' = "buffer" =>
            \A s \in Recordings : encoder'[s] \notin {"stopped", "update"}
      BY <1>1, <1>5, <1>6 DEF Refused
    <2>2. Has(queue', "release") \/ (\E u \in Users : Leaving(u)') => mReleased'
      BY <1>1, <1>3, <1>4 DEF Refused
    <2>3. Releasing' => camera' \in {"mediaUpdate", "release", "stopMuxer",
                                     "takeCamera", "destroy", "quit"}
      BY <1>1 DEF Refused, Releasing
    <2> QED BY <1>1, <1>3, <2>1, <2>2, <2>3 DEF Refused
  <1>8. ASSUME mReleased, looper = "loop" PROVE ReleaseServed'
    <2>1. CASE \E u \in Users : Leaving(u)
      BY <1>4, <2>1 DEF ReleaseServed
    <2>2. CASE Has(queue, "release")
      BY <1>3, <2>2 DEF ReleaseServed
    <2>3. CASE NoneStarts /\ (\/ Releasing
                              \/ Has(queue, "mediaUpdate")
                              \/ \E s \in Recordings : Reported(s)
                              \/ RecordingForgotten)
      <3>1. NoneStarts' /\ (Releasing => Releasing')
        BY <1>1, <1>3, <2>3 DEF NoneStarts, Releasing
      <3>2. (\E s \in Recordings : Reported(s)) =>
               (\E s \in Recordings : Reported(s)') \/ Has(queue', "mediaUpdate")
        <4>1. \A s \in Recordings : s # r /\ Reported(s) => Reported(s)'
          BY <1>1, <1>5 DEF Reported
        <4>2. Reported(r) => Reported(r)' \/ Has(queue', "mediaUpdate")
          BY <1>1, <1>6, <1>8 DEF Reported
        <4> QED BY <4>1, <4>2
      <3>3. RecordingForgotten =>
               \/ RecordingForgotten'
               \/ \E s \in Recordings : Reported(s)'
               \/ Has(queue', "mediaUpdate")
        <4>1. CASE encoder[r] = "stopping"
          <5>1. mEncoderType = "buffer" => mIsRecording' = mIsRecording
            BY <4>1 DEF EncoderStep, OnStoppedIgnored, OnStopped, AtPath,
               OnStoppedPost, OnStoppedNoPath, MediaUpdateDue, Encoder
          <5> QED BY <1>1, <4>1, <5>1 DEF RecordingForgotten
        <4>2. CASE encoder[r] # "stopping"
          <5>1. mIsRecording' = mIsRecording
            BY <4>2 DEF EncoderStep, OnStoppedIgnored, OnStopped, AtPath,
               OnStoppedPost, OnStoppedNoPath, MediaUpdateDue, Encoder
          <5>2. Reported(r)' \/ Has(queue', "mediaUpdate")
            BY <1>1, <1>6, <1>8, <4>2 DEF Reported
          <5> QED BY <5>2
        <4> QED BY <4>1, <4>2
      <3> QED BY <1>3, <2>3, <3>1, <3>2, <3>3 DEF ReleaseServed
    <2> QED BY <1>8, <2>1, <2>2, <2>3 DEF ReleaseServed
  <1> QED BY <1>1, <1>7, <1>8 DEF ReleaseServed

\* For any users and recordings: after release, until the looper is quit or an
\* encoder's thread runs handleRelease, there is something left that will quit
\* the looper, or a recording was forgotten: the safe part of ReleaseEnds.
THEOREM ReleaseAlwaysServed == Spec => []ReleaseServed
  <1>1. Init => Refused /\ ReleaseServed
    <2> SUFFICES ASSUME Init PROVE Refused /\ ReleaseServed
      OBVIOUS
    <2>1. queue = <<>> /\ ~Has(queue, "release") /\ Ordered(queue)
      BY DEF Init, Has, Ordered
    <2> QED BY <2>1 DEF Init, Refused, ReleaseServed, Leaving, Releasing
  <1>2. Refused /\ ReleaseServed /\ UNCHANGED vars => Refused' /\ ReleaseServed'
    BY DEF vars, Refused, ReleaseServed, Leaving, Releasing, NoneStarts, Reported,
       RecordingForgotten, Has, Ordered
  <1>3. ASSUME TypeOK, Refused, NEW r \in Recordings, OnStoppedReleases(r)
        PROVE  Refused' /\ ReleaseServed'
    <2>1. /\ UNCHANGED <<queue, mEncoderType, camera, msg, mReleased, op, call>>
          /\ elsewhere' = TRUE
      BY <1>3 DEF OnStoppedReleases, AtPath, Encoder
    <2>2. \A s \in Recordings : encoder'[s] \in {encoder[s], "none"}
      BY <1>3 DEF OnStoppedReleases, AtPath, Encoder, TypeOK, ThreadTypeOK
    <2> QED BY <1>3, <2>1, <2>2 DEF Refused, ReleaseServed, Leaving, Releasing
  <1>4. TypeOK /\ Owning /\ Refused /\ ReleaseServed /\ [Next]_vars
          => Refused' /\ ReleaseServed'
    BY <1>2, <1>3, UserReleases, CameraRefuses, CameraReleases, EncoderReleases
       DEF Next, Ongoing
  <1> QED BY TypeCorrect, OwningAlways, <1>1, <1>4, PTL DEF Spec
=============================================================================
