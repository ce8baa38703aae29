------------------------- MODULE UVCPreview_proofs -------------------------
(***************************************************************************)
(* For every number of frames, clients and capture threads and every size  *)
(* of the queue: the preview engine keeps its types, no frame has two      *)
(* owners, and a frame is lost only when the preview has been stopped.     *)
(*                                                                         *)
(* FrameOwnedOnce is not inductive alone: recycle_frame is applied to a    *)
(* local variable, and that the variable then points at a frame is what    *)
(* SlotsMatch adds.                                                        *)
(***************************************************************************)
EXTENDS UVCPreview, FramePool_proofs

Inv == TypeOK /\ FrameOwnedOnce /\ SlotsMatch

\* What a step owes: the invariant, and no lost frame while running.
Good == Inv' /\ (NoLeak \/ ~mIsRunning)

USE PoolAssumption, PreviewAssumption

\* The constructor establishes the invariant.
LEMMA InitInv == Init => Inv
  <1> SUFFICES ASSUME Init PROVE Inv
    OBVIOUS
  <1>1. FrameTypeOK /\ HeldFrames = {} /\ Queued = {}
    BY SlotFacts DEF Init, FrameInit, FrameTypeOK, HeldFrames, Queued
  <1>2. ControlTypeOK
    BY DEF Init, ControlTypeOK, CapStates, PvStates, ApiStates
  <1>3. FrameOwnedOnce
    BY <1>1 DEF Init, FrameInit, FrameOwnedOnce
  <1>4. SlotsMatch
    BY SlotFacts DEF Init, FrameInit, SlotsMatch, CallbackSlots, PreviewSlots,
       CaptureSlots
  <1> QED BY <1>1, <1>2, <1>3, <1>4 DEF Inv, TypeOK

\* Frames untouched.
LEMMA FramesUnchanged ==
    ASSUME Inv, UNCHANGED frameVars
    PROVE  FrameInv' /\ NoLeak
  BY DEF Inv, TypeOK, frameVars, FrameInv, FrameTypeOK, FrameOwnedOnce,
     Queued, HeldFrames, Leaked, NoLeak

\* Slots untouched, and with them what the capture threads hold.
LEMMA CaptureSlotsKept ==
    ASSUME Inv, UNCHANGED <<cap, surf>>,
           \A t \in CaptureThreads :
              /\ held'[capFrame(t)] = held[capFrame(t)]
              /\ held'[capCallback(t)] = held[capCallback(t)]
              /\ held'[capConverted(t)] = held[capConverted(t)]
    PROVE  \A t \in CaptureThreads : CaptureSlots(t)'
  BY DEF Inv, SlotsMatch, CaptureSlots, capFrame, capCallback, capConverted

-----------------------------------------------------------------------------
\* Every step of the stream callback is good.
LEMMA CallbackGood == Inv /\ CallbackStep => Good
  <1> SUFFICES ASSUME Inv, CallbackStep PROVE Good
    OBVIOUS
  <1> USE SlotFacts DEF CallbackStep
  <1>0. FrameInv /\ FrameTypeOK /\ SlotsMatch /\ ControlTypeOK
    BY DEF Inv, TypeOK, FrameInv
  <1>1. CASE CbArrive
    <2>1. FrameInv' /\ NoLeak
      BY <1>1, FramesUnchanged DEF CbArrive
    <2>2. ControlTypeOK'
      BY <1>0, <1>1 DEF CbArrive, ControlTypeOK, flags, winVars, modeVars, capVars, apiVars
    <2>3. SlotsMatch'
      BY <1>0, <1>1 DEF CbArrive, SlotsMatch, CallbackSlots, PreviewSlots,
         CaptureSlots, frameVars, capVars, capFrame, capCallback, capConverted
    <2> QED BY <2>1, <2>2, <2>3 DEF Good, Inv, TypeOK, FrameInv
  <1>2. CASE CbGet
    <2>1. CASE mIsRunning /\ GetFrame(copySlot) /\ cb' = "duplicate" /\ cb = "get" /\ pv' = pv
      <3>1. held[copySlot] = NoFrame
        BY <1>0, <2>1 DEF SlotsMatch, CallbackSlots
      <3>2. /\ FrameInv' /\ NoLeak
            /\ held'[copySlot] # NoFrame
            /\ \A r \in Slots : r # copySlot => held'[r] = held[r]
        BY <1>0, <2>1, <3>1, GetFrameOwned
      <3>3. ControlTypeOK'
        BY <1>0, <2>1 DEF ControlTypeOK, flags, winVars, modeVars, capVars, apiVars
      <3>4. SlotsMatch'
        <4>1. CallbackSlots' /\ PreviewSlots'
          BY <1>0, <2>1, <3>2 DEF SlotsMatch, CallbackSlots, PreviewSlots
        <4>2. \A t \in CaptureThreads : CaptureSlots(t)'
          BY <3>2, CaptureSlotsKept DEF capVars
        <4> QED BY <4>1, <4>2 DEF SlotsMatch
      <3> QED BY <3>2, <3>3, <3>4 DEF Good, Inv, TypeOK, FrameInv
    <2>2. CASE cb = "get" /\ cb' = "idle" /\ UNCHANGED frameVars /\ pv' = pv
      <3>1. FrameInv' /\ NoLeak
        BY <2>2, FramesUnchanged
      <3>2. ControlTypeOK'
        BY <1>0, <2>2 DEF ControlTypeOK, flags, winVars, modeVars, capVars, apiVars
      <3>3. SlotsMatch'
        BY <1>0, <2>2 DEF SlotsMatch, CallbackSlots, PreviewSlots,
           CaptureSlots, frameVars, capVars, capFrame, capCallback, capConverted
      <3> QED BY <3>1, <3>2, <3>3 DEF Good, Inv, TypeOK, FrameInv
    <2> QED BY <1>2, <2>1, <2>2 DEF CbGet
  <1>3. CASE CbDuplicate
    <2>1. FrameInv' /\ NoLeak
      BY <1>3, FramesUnchanged DEF CbDuplicate
    <2>2. ControlTypeOK'
      BY <1>0, <1>3 DEF CbDuplicate, ControlTypeOK, flags, winVars, modeVars, capVars, apiVars
    <2>3. SlotsMatch'
      BY <1>0, <1>3 DEF CbDuplicate, SlotsMatch, CallbackSlots, PreviewSlots,
         CaptureSlots, frameVars, capVars, capFrame, capCallback, capConverted
    <2> QED BY <2>1, <2>2, <2>3 DEF Good, Inv, TypeOK, FrameInv
  <1>4. CASE AddPreviewFrame
    <2> USE <1>4 DEF AddPreviewFrame
    <2>1. held[copySlot] # NoFrame
      BY <1>0 DEF SlotsMatch, CallbackSlots
    <2>2. ControlTypeOK'
      BY <1>0 DEF ControlTypeOK, PvStates, flags, winVars, modeVars, capVars, apiVars
    <2>3. CASE mIsRunning /\ Len(previewFrames) < MAX_FRAME
      <3>1. FrameInv' /\ NoLeak
        BY <1>0, <2>1, <2>3, AppendOwned
      <3>2. CallbackSlots' /\ PreviewSlots'
        BY <1>0, <2>3 DEF SlotsMatch, CallbackSlots, PreviewSlots, FrameTypeOK
      <3>3. \A t \in CaptureThreads : CaptureSlots(t)'
        BY <1>0, <2>3, CaptureSlotsKept DEF capVars, FrameTypeOK
      <3> QED BY <2>2, <3>1, <3>2, <3>3 DEF SlotsMatch, Good, Inv, TypeOK, FrameInv
    <2>4. CASE ~(mIsRunning /\ Len(previewFrames) < MAX_FRAME)
      <3>1. FrameInv' /\ NoLeak
        BY <2>4, FramesUnchanged DEF frameVars
      <3>2. SlotsMatch'
        BY <1>0, <2>4 DEF SlotsMatch, CallbackSlots, PreviewSlots,
           CaptureSlots, capVars, capFrame, capCallback, capConverted
      <3> QED BY <2>2, <3>1, <3>2 DEF Good, Inv, TypeOK, FrameInv
    <2> QED BY <2>3, <2>4
  <1>5. CASE CbRecycle
    <2> USE <1>5 DEF CbRecycle
    <2>1. FrameInv' /\ NoLeak
      BY <1>0, RecycleFrameOwned DEF SlotsMatch, CallbackSlots
    <2>2. ControlTypeOK'
      BY <1>0 DEF ControlTypeOK, flags, winVars, modeVars, capVars, apiVars
    <2>3. CallbackSlots' /\ PreviewSlots'
      BY <1>0 DEF SlotsMatch, CallbackSlots, PreviewSlots, FrameTypeOK, RecycleFrame
    <2>4. \A t \in CaptureThreads : CaptureSlots(t)'
      BY <1>0, CaptureSlotsKept DEF capVars, FrameTypeOK, RecycleFrame
    <2> QED BY <2>1, <2>2, <2>3, <2>4 DEF SlotsMatch, Good, Inv, TypeOK, FrameInv
  <1> QED BY <1>1, <1>2, <1>3, <1>4, <1>5

-----------------------------------------------------------------------------
\* A step of the preview thread leaves the other threads' variables alone.
LEMMA OtherSlotsKept ==
    ASSUME Inv, UNCHANGED <<cb, cap, surf>>,
           \A s \in Slots \ {mjpegSlot, frameSlot, convertedSlot, captureQueu} :
              held'[s] = held[s]
    PROVE  CallbackSlots' /\ \A t \in CaptureThreads : CaptureSlots(t)'
  <1> USE SlotFacts DEF Inv, SlotsMatch
  <1>1. CallbackSlots'
    BY DEF CallbackSlots
  <1>2. ASSUME NEW t \in CaptureThreads  PROVE CaptureSlots(t)'
    <2>1. /\ held'[capFrame(t)] = held[capFrame(t)]
          /\ held'[capCallback(t)] = held[capCallback(t)]
          /\ held'[capConverted(t)] = held[capConverted(t)]
      OBVIOUS
    <2> QED BY <2>1 DEF CaptureSlots, capFrame, capCallback, capConverted
  <1> QED BY <1>1, <1>2

\* The types of what the preview thread writes besides the frames.
LEMMA PreviewControl == Inv /\ PreviewThreadStep => ControlTypeOK'
  <1> SUFFICES ASSUME Inv, PreviewThreadStep PROVE ControlTypeOK'
    OBVIOUS
  <1> USE DEF Inv, TypeOK, ControlTypeOK, PreviewThreadStep, PvStates, CapStates,
          PvOnly, PvFrames, flags, winVars, apiVars
  <1>1. CASE PvPrepare
    BY <1>1 DEF PvPrepare
  <1>2. CASE PvStartStreaming \/ PvStopStreaming
    <2>1. streaming' \in BOOLEAN
      BY <1>2 DEF PvStartStreaming, PvStopStreaming
    <2>2. pv' \in PvStates
      BY <1>2 DEF PvStartStreaming, PvStopStreaming
    <2>3. UNCHANGED <<frameMode, capture_thread, capture_sync, cap>>
      BY <1>2 DEF PvStartStreaming, PvStopStreaming
    <2> QED BY <2>1, <2>2, <2>3
  <1>8. CASE PvClear \/ PvLoop
    BY <1>8 DEF PvClear, PvLoop
  <1>3. CASE PvCreateCapture
    BY <1>3 DEF PvCreateCapture
  <1>4. CASE WaitPreviewFrame \/ PvWoken
    BY <1>4 DEF WaitPreviewFrame, PvWoken, TakePreviewFrame
  <1>5. CASE PvGetYuyv \/ PvDecode \/ PvRecycleBroken \/ PvDraw \/ PvDrawn
    BY <1>5 DEF PvGetYuyv, PvDecode, PvRecycleBroken, PvDraw, PvDrawn
  <1>6. CASE AddCaptureFrame
    BY <1>6 DEF AddCaptureFrame
  <1>7. CASE PvFinish
    BY <1>7 DEF PvFinish, SignalCapture, Signalled
  <1> HIDE DEF Inv, TypeOK, ControlTypeOK
  <1> QED BY <1>1, <1>2, <1>3, <1>4, <1>5, <1>6, <1>7, <1>8
     DEF PreviewThreadStep

\* The end of waitPreviewFrame.
LEMMA TakePreviewFrameGood ==
    ASSUME Inv, PreviewThreadStep, pv \in {"wait", "woken"}, TakePreviewFrame
    PROVE  Good
  <1> USE SlotFacts DEF PreviewThreadStep, TakePreviewFrame
  <1>0. /\ FrameInv /\ FrameTypeOK /\ SlotsMatch /\ ControlTypeOK'
    BY PreviewControl DEF Inv, TypeOK, FrameInv
  <1>1. CASE mIsRunning /\ previewFrames # <<>>
    <2> DEFINE s == IF frameMode = "MJPEG" THEN mjpegSlot ELSE frameSlot
    <2>1. s \in Slots /\ held[s] = NoFrame
      BY <1>0 DEF SlotsMatch, PreviewSlots
    <2>2. /\ previewFrames' = Tail(previewFrames)
          /\ held' = [held EXCEPT ![s] = Head(previewFrames)]
          /\ UNCHANGED <<live, pool>>
      BY <1>1
    <2>3. FrameInv' /\ NoLeak /\ held'[s] # NoFrame
      <3> HIDE DEF s
      <3> QED BY <1>0, <1>1, <2>1, <2>2, TakeOwned
    <2>4. CallbackSlots' /\ \A t \in CaptureThreads : CaptureSlots(t)'
      BY <1>0, <1>1, OtherSlotsKept DEF PvFrames, FrameTypeOK
    <2>5. PreviewSlots'
      BY <1>0, <1>1, <2>3 DEF SlotsMatch, PreviewSlots, PvFrames, FrameTypeOK
    <2> QED BY <1>0, <2>3, <2>4, <2>5 DEF Good, Inv, TypeOK, FrameInv, SlotsMatch
  <1>2. CASE ~(mIsRunning /\ previewFrames # <<>>)
    <2>1. UNCHANGED frameVars /\ pv' = "loop" /\ UNCHANGED <<cb, cap, surf>>
      BY <1>2 DEF PvOnly
    <2>2. FrameInv' /\ NoLeak
      BY <2>1, FramesUnchanged
    <2>3. SlotsMatch'
      BY <1>0, <2>1, OtherSlotsKept DEF SlotsMatch, PreviewSlots, frameVars
    <2> QED BY <1>0, <2>2, <2>3 DEF Good, Inv, TypeOK, FrameInv
  <1> QED BY <1>1, <1>2

\* Every step of the preview thread is good.
LEMMA PreviewGood == Inv /\ PreviewThreadStep => Good
  <1> SUFFICES ASSUME Inv, PreviewThreadStep PROVE Good
    OBVIOUS
  <1> USE SlotFacts
  <1>0. FrameInv /\ FrameTypeOK /\ SlotsMatch /\ ControlTypeOK' /\ UNCHANGED <<cb, surf>>
    BY PreviewControl DEF Inv, TypeOK, FrameInv, PreviewThreadStep
  <1>1. ASSUME FrameInv', NoLeak \/ ~mIsRunning, PreviewSlots', UNCHANGED cap,
               \A s \in Slots \ {mjpegSlot, frameSlot, convertedSlot, captureQueu} :
                  held'[s] = held[s]
        PROVE  Good
    BY <1>0, <1>1, OtherSlotsKept DEF Good, Inv, TypeOK, FrameInv, SlotsMatch
  <1>2. ASSUME UNCHANGED frameVars, UNCHANGED cap, PreviewSlots'  PROVE Good
    BY <1>1, <1>2, FramesUnchanged DEF frameVars
  <1>3. CASE PvPrepare
    BY <1>0, <1>2, <1>3 DEF PvPrepare, SlotsMatch, PreviewSlots, frameVars
  <1>4. CASE PvStartStreaming
    BY <1>0, <1>2, <1>4 DEF PvStartStreaming, SlotsMatch, PreviewSlots, frameVars
  <1>5. CASE PvClear
    <2>1. FrameInv' /\ NoLeak
      BY <1>0, <1>5, ClearPreviewFrameOwned DEF PvClear
    <2>2. pv = "clear" /\ pv' = "create" /\ held' = held /\ UNCHANGED cap
      BY <1>5 DEF PvClear, PvFrames, ClearPreviewFrame
    <2> QED BY <1>0, <1>1, <2>1, <2>2 DEF SlotsMatch, PreviewSlots
  <1>6. CASE PvCreateCapture
    <2>1. FrameInv' /\ NoLeak
      BY <1>6, FramesUnchanged DEF PvCreateCapture
    <2>2. CallbackSlots' /\ PreviewSlots'
      BY <1>0, <1>6 DEF PvCreateCapture, SlotsMatch, CallbackSlots, PreviewSlots, frameVars
    <2>3. ASSUME NEW t \in CaptureThreads  PROVE CaptureSlots(t)'
      <3>1. cap \in [CaptureThreads -> CapStates]
        BY DEF Inv, TypeOK, ControlTypeOK
      <3>2. UNCHANGED <<held, surf>>
        BY <1>0, <1>6 DEF PvCreateCapture, frameVars
      <3>3. cap'[t] = cap[t] \/ (cap[t] \in {"none", "exited"} /\ cap'[t] = "begin")
        BY <1>6, <3>1 DEF PvCreateCapture
      <3>4. CaptureSlots(t)
        BY <1>0 DEF SlotsMatch
      <3> QED BY <3>2, <3>3, <3>4 DEF CaptureSlots, capFrame, capCallback, capConverted
    <2> QED BY <1>0, <2>1, <2>2, <2>3 DEF Good, Inv, TypeOK, FrameInv, SlotsMatch
  <1>7. CASE PvLoop
    BY <1>0, <1>2, <1>7 DEF PvLoop, PvOnly, SlotsMatch, PreviewSlots, frameVars
  <1>8. CASE WaitPreviewFrame
    <2>1. CASE previewFrames = <<>>
      BY <1>0, <1>2, <1>8, <2>1
      DEF WaitPreviewFrame, PvOnly, SlotsMatch, PreviewSlots, frameVars
    <2>2. CASE previewFrames # <<>>
      BY <1>8, <2>2, TakePreviewFrameGood DEF WaitPreviewFrame
    <2> QED BY <2>1, <2>2
  <1>9. CASE PvWoken
    BY <1>9, TakePreviewFrameGood DEF PvWoken
  <1>10. CASE PvGetYuyv
    <2>1. pv = "getYuyv" /\ pv' = "decode" /\ GetFrame(frameSlot) /\ UNCHANGED cap
      BY <1>10 DEF PvGetYuyv, PvFrames
    <2>2. held[frameSlot] = NoFrame
      BY <1>0, <2>1 DEF SlotsMatch, PreviewSlots
    <2>3. /\ FrameInv' /\ NoLeak /\ held'[frameSlot] # NoFrame
          /\ \A r \in Slots : r # frameSlot => held'[r] = held[r]
      BY <1>0, <2>1, <2>2, GetFrameOwned
    <2> QED BY <1>0, <1>1, <2>1, <2>3 DEF SlotsMatch, PreviewSlots
  <1>11. CASE PvDecode
    <2>1. pv = "decode" /\ pv' \in {"draw", "recycle"} /\ RecycleFrame(mjpegSlot) /\ UNCHANGED cap
      BY <1>11 DEF PvDecode, PvFrames
    <2>2. FrameInv' /\ NoLeak
      BY <1>0, <2>1, RecycleFrameOwned DEF SlotsMatch, PreviewSlots
    <2> QED BY <1>0, <1>1, <2>1, <2>2 DEF SlotsMatch, PreviewSlots, RecycleFrame, FrameTypeOK
  <1>12. CASE PvRecycleBroken
    <2>1. pv = "recycle" /\ pv' = "loop" /\ RecycleFrame(frameSlot) /\ UNCHANGED cap
      BY <1>12 DEF PvRecycleBroken, PvFrames
    <2>2. FrameInv' /\ NoLeak
      BY <1>0, <2>1, RecycleFrameOwned DEF SlotsMatch, PreviewSlots
    <2> QED BY <1>0, <1>1, <2>1, <2>2 DEF SlotsMatch, PreviewSlots, RecycleFrame, FrameTypeOK
  <1>13. CASE PvDraw
    <2>1. CASE pv = "draw" /\ pv' = "drawn" /\ GetFrame(convertedSlot) /\ UNCHANGED cap
      <3>1. held[convertedSlot] = NoFrame
        BY <1>0, <2>1 DEF SlotsMatch, PreviewSlots
      <3>2. /\ FrameInv' /\ NoLeak /\ held'[convertedSlot] # NoFrame
            /\ \A r \in Slots : r # convertedSlot => held'[r] = held[r]
        BY <1>0, <2>1, <3>1, GetFrameOwned
      <3> QED BY <1>0, <1>1, <2>1, <3>2 DEF SlotsMatch, PreviewSlots
    <2>2. CASE pv = "draw" /\ PvOnly("addCapture")
      BY <1>0, <1>2, <2>2 DEF PvOnly, SlotsMatch, PreviewSlots, frameVars
    <2> QED BY <1>13, <2>1, <2>2 DEF PvDraw, PvFrames
  <1>14. CASE PvDrawn
    <2>1. pv = "drawn" /\ pv' = "addCapture" /\ RecycleFrame(convertedSlot) /\ UNCHANGED cap
      BY <1>14 DEF PvDrawn, PvFrames
    <2>2. FrameInv' /\ NoLeak
      BY <1>0, <2>1, RecycleFrameOwned DEF SlotsMatch, PreviewSlots
    <2> QED BY <1>0, <1>1, <2>1, <2>2 DEF SlotsMatch, PreviewSlots, RecycleFrame, FrameTypeOK
  <1>15. CASE AddCaptureFrame
    <2>1. /\ pv = "addCapture" /\ pv' = "loop" /\ UNCHANGED <<cap, previewFrames>>
          /\ held[frameSlot] # NoFrame
      BY <1>0, <1>15 DEF AddCaptureFrame, SlotsMatch, PreviewSlots
    <2>2. CASE mIsRunning /\ held[captureQueu] = NoFrame
      <3>1. MoveFrame(frameSlot, captureQueu) /\ UNCHANGED <<live, pool>>
        BY <1>15, <2>2 DEF AddCaptureFrame
      <3>2. FrameInv' /\ NoLeak
        BY <1>0, <2>1, <2>2, <3>1, MoveFrameOwned
      <3> QED BY <1>0, <1>1, <2>1, <3>1, <3>2
              DEF SlotsMatch, PreviewSlots, MoveFrame, FrameTypeOK
    <2>3. CASE mIsRunning /\ held[captureQueu] # NoFrame
      <3>1. MoveFrame(frameSlot, captureQueu) /\ PutBack(held[captureQueu])
        BY <1>15, <2>3 DEF AddCaptureFrame
      <3>2. FrameInv' /\ NoLeak
        BY <1>0, <2>1, <2>3, <3>1, ReplaceOwned
      <3> QED BY <1>0, <1>1, <2>1, <3>1, <3>2
              DEF SlotsMatch, PreviewSlots, MoveFrame, FrameTypeOK
    <2>4. CASE ~mIsRunning
      <3>1. held' = [held EXCEPT ![frameSlot] = NoFrame] /\ UNCHANGED <<live, pool>>
        BY <1>15, <2>4 DEF AddCaptureFrame
      <3>2. FrameInv'
        BY <1>0, <2>1, <3>1
        DEF FrameInv, FrameTypeOK, FrameOwnedOnce, Queued, HeldFrames
      <3> QED BY <1>0, <1>1, <2>1, <2>4, <3>1, <3>2
              DEF SlotsMatch, PreviewSlots, FrameTypeOK
    <2> QED BY <2>2, <2>3, <2>4
  <1>16. CASE PvFinish
    BY <1>0, <1>2, <1>16 DEF PvFinish, SlotsMatch, PreviewSlots, frameVars
  <1>17. CASE PvStopStreaming
    BY <1>0, <1>2, <1>17 DEF PvStopStreaming, SlotsMatch, PreviewSlots, frameVars
  <1> QED BY <1>3, <1>4, <1>5, <1>6, <1>7, <1>8, <1>9, <1>10, <1>11, <1>12,
             <1>13, <1>14, <1>15, <1>16, <1>17 DEF PreviewThreadStep

-----------------------------------------------------------------------------
\* The types of what a capture thread writes besides the frames.
LEMMA CaptureControl ==
    ASSUME Inv, NEW t \in CaptureThreads, CaptureThreadStep(t)
    PROVE  ControlTypeOK'
  <1> USE DEF Inv, TypeOK, ControlTypeOK, CaptureThreadStep, CapStates,
          CapOnly, CapFrames, modeVars, apiVars
  <1>1. CASE CapBegin(t)
    BY <1>1 DEF CapBegin
  <1>11. CASE CapLoop(t)
    BY <1>11 DEF CapLoop
  <1>2. CASE CapSelect(t)
    <2>1. (mCaptureWindow # Null) \in BOOLEAN
      OBVIOUS
    <2>2. surf' \in [CaptureThreads -> BOOLEAN]
      BY <1>2, <2>1 DEF CapSelect
    <2> QED BY <1>2, <2>2 DEF CapSelect
  <1>12. CASE CapCheck(t)
    BY <1>12 DEF CapCheck
  <1>3. CASE WaitCaptureFrame(t)
    <2>1. CASE held[captureQueu] = NoFrame
      BY <1>3, <2>1 DEF WaitCaptureFrame
    <2>2. CASE held[captureQueu] # NoFrame
      BY <1>3, <2>2 DEF WaitCaptureFrame, TakeCaptureFrame
    <2> QED BY <2>1, <2>2
  <1>4. CASE CapWoken(t)
    BY <1>4 DEF CapWoken, TakeCaptureFrame
  <1>5. CASE CapCopy(t) \/ CapCopied(t)
    BY <1>5 DEF CapCopy, CapCopied
  <1>9. CASE CapConvert(t)
    BY <1>9 DEF CapConvert
  <1>6. CASE CapCallback(t) \/ CapConverted(t)
    BY <1>6 DEF CapCallback, CapConverted
  <1>10. CASE CapRecycle(t) \/ CapEndSurface(t)
    BY <1>10 DEF CapRecycle, CapEndSurface
  <1>7. CASE CapCall(t) \/ CapReturn(t)
    BY <1>7 DEF CapCall, CapReturn
  <1>8. CASE CapRelease(t) \/ CapForget(t) \/ CapBroadcast(t)
    BY <1>8 DEF CapRelease, CapForget, CapBroadcast
  <1> HIDE DEF Inv, TypeOK, ControlTypeOK
  <1> QED BY <1>1, <1>2, <1>3, <1>4, <1>5, <1>6, <1>7, <1>8, <1>9,
             <1>10, <1>11, <1>12 DEF CaptureThreadStep

\* A step of a capture thread leaves the other threads' variables alone.
LEMMA CaptureElsewhereKept ==
    ASSUME Inv, NEW t \in CaptureThreads, UNCHANGED <<cb, pv>>,
           \A u \in CaptureThreads \ {t} : cap'[u] = cap[u] /\ surf'[u] = surf[u],
           \A s \in Slots \ {captureQueu, capFrame(t), capCallback(t), capConverted(t)} :
              held'[s] = held[s]
    PROVE  CallbackSlots' /\ PreviewSlots' /\ \A u \in CaptureThreads \ {t} : CaptureSlots(u)'
  <1> USE SlotFacts DEF Inv, SlotsMatch
  <1>1. CallbackSlots' /\ PreviewSlots'
    BY DEF CallbackSlots, PreviewSlots
  <1>2. ASSUME NEW u \in CaptureThreads \ {t}  PROVE CaptureSlots(u)'
    <2>1. /\ held'[capFrame(u)] = held[capFrame(u)]
          /\ held'[capCallback(u)] = held[capCallback(u)]
          /\ held'[capConverted(u)] = held[capConverted(u)]
      OBVIOUS
    <2>2. CaptureSlots(u) /\ cap'[u] = cap[u] /\ surf'[u] = surf[u]
      OBVIOUS
    <2> QED BY <2>1, <2>2 DEF CaptureSlots, capFrame, capCallback, capConverted
  <1> QED BY <1>1, <1>2

\* The local variables of capture thread t in terms of its own state.
LEMMA CaptureSlotsNow ==
    ASSUME Inv, NEW t \in CaptureThreads
    PROVE  /\ CaptureSlots(t) /\ cap \in [CaptureThreads -> CapStates]
           /\ surf \in [CaptureThreads -> BOOLEAN] /\ FrameTypeOK /\ FrameInv
  BY DEF Inv, SlotsMatch, TypeOK, ControlTypeOK, FrameInv

\* What a step of capture thread t has to show.
LEMMA CaptureStepGood ==
    ASSUME Inv, NEW t \in CaptureThreads, CaptureThreadStep(t),
           FrameInv', NoLeak, CaptureSlots(t)',
           \A u \in CaptureThreads \ {t} : cap'[u] = cap[u] /\ surf'[u] = surf[u],
           \A s \in Slots \ {captureQueu, capFrame(t), capCallback(t), capConverted(t)} :
              held'[s] = held[s]
    PROVE  Good
  <1>1. UNCHANGED <<cb, pv>> /\ ControlTypeOK'
    BY CaptureControl DEF CaptureThreadStep
  <1>2. CallbackSlots' /\ PreviewSlots' /\ \A u \in CaptureThreads \ {t} : CaptureSlots(u)'
    BY <1>1, CaptureElsewhereKept
  <1>3. SlotsMatch'
    BY <1>2 DEF SlotsMatch
  <1> QED BY <1>1, <1>3 DEF Good, Inv, TypeOK, FrameInv

\* The end of waitCaptureFrame.
LEMMA TakeCaptureFrameGood ==
    ASSUME Inv, NEW t \in CaptureThreads, CaptureThreadStep(t),
           cap[t] \in {"wait", "waiting"}, TakeCaptureFrame(t)
    PROVE  Good
  <1> USE SlotFacts, CaptureSlotsNow
  <1>1. CASE mIsRunning /\ held[captureQueu] # NoFrame
    <2>1. /\ MoveFrame(captureQueu, capFrame(t))
          /\ UNCHANGED <<live, pool, previewFrames, surf>>
          /\ cap' = [cap EXCEPT ![t] = IF surf[t] THEN "convert" ELSE "callback"]
      BY <1>1 DEF TakeCaptureFrame, CapFrames
    <2>2. held[capFrame(t)] = NoFrame
      BY DEF CaptureSlots
    <2>3. FrameInv' /\ NoLeak
      BY <2>1, <2>2, MoveFrameOwned
    <2>4. /\ held'[capFrame(t)] # NoFrame
          /\ \A s \in Slots \ {captureQueu, capFrame(t)} : held'[s] = held[s]
      BY <1>1, <2>1 DEF MoveFrame, FrameTypeOK
    <2>5. CaptureSlots(t)'
      BY <2>1, <2>4 DEF CaptureSlots, capFrame, capCallback, capConverted
    <2> QED BY <2>1, <2>3, <2>4, <2>5, CaptureStepGood
  <1>2. CASE ~(mIsRunning /\ held[captureQueu] # NoFrame)
    <2>1. UNCHANGED <<frameVars, surf>> /\ cap' = [cap EXCEPT ![t] = "check"]
      BY <1>2 DEF TakeCaptureFrame, CapOnly
    <2>2. FrameInv' /\ NoLeak
      BY <2>1, FramesUnchanged
    <2>3. CaptureSlots(t)'
      BY <2>1 DEF CaptureSlots, frameVars, capFrame, capCallback, capConverted
    <2> QED BY <2>1, <2>2, <2>3, CaptureStepGood DEF frameVars
  <1> QED BY <1>1, <1>2

\* Every step of a capture thread is good.
LEMMA CaptureGood ==
    ASSUME Inv, NEW t \in CaptureThreads, CaptureThreadStep(t)
    PROVE  Good
  <1> USE SlotFacts, CaptureSlotsNow
  <1>1. ASSUME UNCHANGED frameVars, CaptureSlots(t)',
               \A u \in CaptureThreads \ {t} : cap'[u] = cap[u] /\ surf'[u] = surf[u]
        PROVE  Good
    BY <1>1, FramesUnchanged, CaptureStepGood DEF frameVars
  <1>2. ASSUME NEW s \in {capFrame(t), capCallback(t), capConverted(t)},
               RecycleFrame(s), held[s] # NoFrame, UNCHANGED surf,
               \A u \in CaptureThreads \ {t} : cap'[u] = cap[u], CaptureSlots(t)'
        PROVE  Good
    <2>1. s \in Slots /\ FrameInv' /\ NoLeak
      BY <1>2, RecycleFrameOwned
    <2>2. \A r \in Slots : r # s => held'[r] = held[r]
      BY <1>2 DEF RecycleFrame, FrameTypeOK
    <2> QED BY <1>2, <2>1, <2>2, CaptureStepGood
  <1>3. ASSUME NEW s \in {capFrame(t), capCallback(t), capConverted(t)},
               RecycleFrame(s)
        PROVE  held' = [held EXCEPT ![s] = NoFrame]
    BY <1>3 DEF RecycleFrame
  <1>4. ASSUME NEW s \in {capCallback(t), capConverted(t)},
               GetFrame(s), held[s] = NoFrame
        PROVE  /\ FrameInv' /\ NoLeak /\ held'[s] # NoFrame
               /\ \A r \in Slots : r # s => held'[r] = held[r]
    BY <1>4, GetFrameOwned
  <1>5. CASE CapBegin(t)
    <2>1. /\ cap[t] = "begin" /\ ClearCaptureFrame
          /\ cap' = [cap EXCEPT ![t] = "loop"] /\ UNCHANGED surf
      BY <1>5 DEF CapBegin, CapFrames
    <2>2. FrameInv' /\ NoLeak
      BY <2>1, ClearCaptureFrameOwned
    <2>3. \A s \in Slots \ {captureQueu} : held'[s] = held[s]
      BY <2>1 DEF ClearCaptureFrame, RecycleFrame, frameVars, FrameTypeOK
    <2>4. CaptureSlots(t)'
      BY <2>1, <2>3 DEF CaptureSlots, capFrame, capCallback, capConverted
    <2> QED BY <2>1, <2>2, <2>3, <2>4, CaptureStepGood
  <1>6. CASE CapLoop(t)
    BY <1>1, <1>6 DEF CapLoop, CaptureSlots, frameVars, capFrame, capCallback, capConverted
  <1>7. CASE CapSelect(t)
    BY <1>1, <1>7 DEF CapSelect, CaptureSlots, frameVars, capFrame, capCallback, capConverted
  <1>8. CASE CapCheck(t)
    BY <1>1, <1>8 DEF CapCheck, CapOnly, CaptureSlots, frameVars, capFrame, capCallback,
       capConverted
  <1>9. CASE WaitCaptureFrame(t)
    <2>1. CASE held[captureQueu] = NoFrame
      BY <1>1, <1>9, <2>1 DEF WaitCaptureFrame, CaptureSlots, frameVars, capFrame,
         capCallback, capConverted
    <2>2. CASE held[captureQueu] # NoFrame
      BY <1>9, <2>2, TakeCaptureFrameGood DEF WaitCaptureFrame
    <2> QED BY <2>1, <2>2
  <1>10. CASE CapWoken(t)
    BY <1>10, TakeCaptureFrameGood DEF CapWoken
  <1>11. CASE CapConvert(t)
    <2>1. CASE /\ cap[t] = "convert" /\ cap' = [cap EXCEPT ![t] = "copy"] /\ UNCHANGED surf
               /\ held[capConverted(t)] = NoFrame /\ GetFrame(capConverted(t))
      <3>1. /\ FrameInv' /\ NoLeak /\ held'[capConverted(t)] # NoFrame
            /\ \A r \in Slots : r # capConverted(t) => held'[r] = held[r]
        BY <1>4, <2>1
      <3>2. CaptureSlots(t)'
        BY <2>1, <3>1 DEF CaptureSlots, capFrame, capCallback, capConverted
      <3> QED BY <2>1, <3>1, <3>2, CaptureStepGood
    <2>2. CASE cap[t] = "convert" /\ (CapOnly(t, "copy") \/ CapOnly(t, "callback"))
      BY <1>1, <2>2 DEF CapOnly, CaptureSlots, frameVars, capFrame, capCallback, capConverted
    <2> QED BY <1>11, <2>1, <2>2 DEF CapConvert, CapFrames
  <1>12. CASE CapCopy(t)
    BY <1>1, <1>12 DEF CapCopy, CapOnly, CaptureSlots, frameVars, capFrame, capCallback,
       capConverted
  <1>13. CASE CapCopied(t)
    BY <1>1, <1>13 DEF CapCopied, CaptureSlots, frameVars, capFrame, capCallback, capConverted
  <1>14. CASE CapCallback(t)
    <2>1. CASE CapOnly(t, "recycle")
      BY <1>1, <1>14, <2>1 DEF CapCallback, CapOnly, CaptureSlots, frameVars, capFrame,
         capCallback, capConverted
    <2>2. CASE /\ MoveFrame(capFrame(t), capCallback(t))
               /\ UNCHANGED <<live, pool, previewFrames>> /\ CapFrames(t, "call")
      <3>1. /\ cap[t] = "callback" /\ held[capCallback(t)] = NoFrame
            /\ held[capFrame(t)] # NoFrame
        BY <1>14 DEF CapCallback, CaptureSlots
      <3>2. FrameInv' /\ NoLeak
        BY <2>2, <3>1, MoveFrameOwned
      <3>3. /\ held'[capCallback(t)] # NoFrame /\ held'[capFrame(t)] = NoFrame
            /\ \A r \in Slots \ {capFrame(t), capCallback(t)} : held'[r] = held[r]
        BY <2>2, <3>1 DEF MoveFrame, FrameTypeOK
      <3>4. CaptureSlots(t)'
        BY <2>2, <3>1, <3>3 DEF CapFrames, CaptureSlots, capFrame, capCallback, capConverted
      <3> QED BY <2>2, <3>2, <3>3, <3>4, CaptureStepGood DEF CapFrames
    <2>3. CASE GetFrame(capCallback(t)) /\ CapFrames(t, "converted")
      <3>1. cap[t] = "callback" /\ held[capCallback(t)] = NoFrame
        BY <1>14 DEF CapCallback, CaptureSlots
      <3>2. /\ FrameInv' /\ NoLeak /\ held'[capCallback(t)] # NoFrame
            /\ \A r \in Slots : r # capCallback(t) => held'[r] = held[r]
        BY <1>4, <2>3, <3>1
      <3>3. CaptureSlots(t)'
        BY <2>3, <3>1, <3>2 DEF CapFrames, CaptureSlots, capFrame, capCallback, capConverted
      <3> QED BY <2>3, <3>2, <3>3, CaptureStepGood DEF CapFrames
    <2> QED BY <1>14, <2>1, <2>2, <2>3 DEF CapCallback
  <1>15. CASE CapConverted(t)
    <2>1. /\ cap[t] = "converted" /\ RecycleFrame(capFrame(t)) /\ UNCHANGED surf
          /\ \/ cap' = [cap EXCEPT ![t] = "call"]
             \/ cap' = [cap EXCEPT ![t] = "recycleCallback"]
      BY <1>15 DEF CapConverted, CapFrames
    <2>2. CaptureSlots(t)'
      BY <1>3, <2>1 DEF CaptureSlots, FrameTypeOK, capFrame, capCallback, capConverted
    <2>3. held[capFrame(t)] # NoFrame
      BY <2>1 DEF CaptureSlots
    <2> QED BY <1>2, <2>1, <2>2, <2>3
  <1>16. CASE CapCall(t)
    BY <1>1, <1>16 DEF CapCall, CaptureSlots, frameVars, capFrame, capCallback, capConverted
  <1>17. CASE CapReturn(t)
    <2>1. /\ cap[t] = "inCallback" /\ RecycleFrame(capCallback(t)) /\ UNCHANGED surf
          /\ cap' = [cap EXCEPT ![t] = "check"]
      BY <1>17 DEF CapReturn
    <2>2. CaptureSlots(t)'
      BY <1>3, <2>1 DEF CaptureSlots, FrameTypeOK, capFrame, capCallback, capConverted
    <2>3. held[capCallback(t)] # NoFrame
      BY <2>1 DEF CaptureSlots
    <2> QED BY <1>2, <2>1, <2>2, <2>3
  <1>18. CASE CapRecycle(t)
    <2>1. PICK s \in {capFrame(t), capCallback(t)} :
             /\ RecycleFrame(s)
             /\ cap[t] = IF s = capFrame(t) THEN "recycle" ELSE "recycleCallback"
      BY <1>18 DEF CapRecycle
    <2>2. UNCHANGED surf /\ cap' = [cap EXCEPT ![t] = "check"]
      BY <1>18 DEF CapRecycle, CapFrames
    <2>3. held[s] # NoFrame
      BY <2>1 DEF CaptureSlots
    <2>4. CaptureSlots(t)'
      BY <1>3, <2>1, <2>2 DEF CaptureSlots, FrameTypeOK, capFrame, capCallback, capConverted
    <2> QED BY <1>2, <2>1, <2>2, <2>3, <2>4
  <1>19. CASE CapEndSurface(t)
    <2>1. cap[t] = "endSurface" /\ cap' = [cap EXCEPT ![t] = "release"] /\ UNCHANGED surf
      BY <1>19 DEF CapEndSurface, CapFrames
    <2>2. CASE held[capConverted(t)] = NoFrame
      BY <1>1, <1>19, <2>1, <2>2 DEF CapEndSurface, CaptureSlots, frameVars, capFrame,
         capCallback, capConverted
    <2>3. CASE held[capConverted(t)] # NoFrame
      <3>1. RecycleFrame(capConverted(t))
        BY <1>19, <2>3 DEF CapEndSurface
      <3>2. CaptureSlots(t)'
        BY <1>3, <2>1, <3>1 DEF CaptureSlots, FrameTypeOK, capFrame, capCallback, capConverted
      <3> QED BY <1>2, <2>1, <2>3, <3>1, <3>2
    <2> QED BY <2>2, <2>3
  <1>20. CASE CapRelease(t)
    BY <1>1, <1>20 DEF CapRelease, CaptureSlots, frameVars, capFrame, capCallback, capConverted
  <1>21. CASE CapForget(t)
    BY <1>1, <1>21 DEF CapForget, CaptureSlots, frameVars, capFrame, capCallback, capConverted
  <1>22. CASE CapBroadcast(t)
    BY <1>1, <1>22 DEF CapBroadcast, CaptureSlots, frameVars, capFrame, capCallback,
       capConverted
  <1> QED BY <1>5, <1>6, <1>7, <1>8, <1>9, <1>10, <1>11, <1>12, <1>13, <1>14, <1>15,
             <1>16, <1>17, <1>18, <1>19, <1>20, <1>21, <1>22 DEF CaptureThreadStep

-----------------------------------------------------------------------------
\* The types of what an operation writes besides the frames.
LEMMA ClientControl ==
    ASSUME Inv, NEW c \in Clients, ClientCall(c) \/ ClientContinue(c)
    PROVE  ControlTypeOK' /\ UNCHANGED <<cb, surf>>
  <1> USE DEF Inv, TypeOK, ControlTypeOK, ApiStates, Synchronized, ApiKeeps,
          ApiGoto, winVars, flags, apiVars
  <1>1. ApiKeeps
    BY DEF ClientCall, ClientContinue
  <1>2. CASE SetPreviewSize(c) \/ SetPreviewDisplay(c)
    BY <1>1, <1>2 DEF SetPreviewSize, SetPreviewDisplay
  <1>3. CASE StartPreview(c) \/ StopPreview(c)
    BY <1>1, <1>3 DEF StartPreview, StopPreview
  <1>4. ASSUME NEW obj \in Callbacks \cup {Null}, SetFrameCallback(c, obj)
        PROVE  ControlTypeOK'
    BY <1>1, <1>4 DEF SetFrameCallback
  <1>5. ASSUME NEW w \in Surfaces \cup {Null}, SetCaptureDisplay(c, w)
        PROVE  ControlTypeOK'
    BY <1>1, <1>5 DEF SetCaptureDisplay, ReplaceWindow
  <1>6. CASE StartCreate(c)
    BY <1>1, <1>6 DEF StartCreate, PvStates
  <1>7. CASE StartFailed(c)
    BY <1>1, <1>7 DEF StartFailed, PvStates
  <1>15. CASE JoinPreview(c)
    BY <1>1, <1>15 DEF JoinPreview, PvStates
  <1>8. CASE StopSignal(c)
    BY <1>1, <1>8 DEF StopSignal, SignalCapture, Signalled, PvStates
  <1>9. CASE JoinCapture(c)
    BY <1>1, <1>9 DEF JoinCapture, CapStates
  <1>10. CASE StopClear(c)
    BY <1>1, <1>10 DEF StopClear
  <1>11. CASE StopRelease(c)
    <2>1. api' \in [Clients -> ApiStates] /\ UNCHANGED arg
      BY <1>11 DEF StopRelease
    <2>2. /\ mPreviewWindow' \in BOOLEAN /\ mCaptureWindow' \in Surfaces \cup {Null}
          /\ liveWindows' \subseteq Surfaces
      BY <1>11 DEF StopRelease
    <2>3. \A d \in Clients : api'[d] = api[d] \/ api'[d] \in Synchronized \cup {"idle"}
      BY <1>11 DEF StopRelease
    <2> QED BY <1>1, <1>11, <2>1, <2>2, <2>3 DEF StopRelease
  <1>12. CASE SetFrameCallbackWait(c) \/ SetCaptureDisplayWait(c)
    BY <1>1, <1>12 DEF SetFrameCallbackWait, SetCaptureDisplayWait, WaitCapturing, Signalled
  <1>13. CASE SetFrameCallbackEnd(c)
    BY <1>1, <1>13 DEF SetFrameCallbackEnd
  <1>14. CASE SetCaptureDisplayEnd(c)
    BY <1>1, <1>14 DEF SetCaptureDisplayEnd, ReplaceWindow
  <1> HIDE DEF Inv, TypeOK, ControlTypeOK
  <1> QED BY <1>1, <1>2, <1>3, <1>4, <1>5, <1>6, <1>7, <1>8, <1>9, <1>10, <1>11,
             <1>12, <1>13, <1>14, <1>15 DEF ClientCall, ClientContinue, Call, Continue

\* Every step of an operation is good.
LEMMA ClientGood ==
    ASSUME Inv, OnePreviewThread, NEW c \in Clients, ClientCall(c) \/ ClientContinue(c)
    PROVE  Good
  <1> USE SlotFacts
  <1>0. /\ FrameInv /\ FrameTypeOK /\ SlotsMatch /\ ControlTypeOK'
        /\ UNCHANGED <<cb, surf>> /\ cap \in [CaptureThreads -> CapStates]
    BY ClientControl DEF Inv, TypeOK, FrameInv, ControlTypeOK
  <1>1. ASSUME FrameInv', NoLeak, \A s \in Slots \ {captureQueu} : held'[s] = held[s],
               UNCHANGED <<pv, cap>>
        PROVE  Good
    BY <1>0, <1>1, OtherSlotsKept DEF Good, Inv, TypeOK, FrameInv, SlotsMatch, PreviewSlots
  <1>2. ASSUME UNCHANGED frameVars, PreviewSlots',
               \A t \in CaptureThreads :
                  cap'[t] = cap[t] \/ (cap[t] \in {"none", "exited"} /\ cap'[t] = "none")
        PROVE  Good
    <2>1. FrameInv' /\ NoLeak /\ held' = held
      BY <1>2, FramesUnchanged DEF frameVars
    <2>2. CallbackSlots'
      BY <1>0, <2>1 DEF SlotsMatch, CallbackSlots
    <2>3. ASSUME NEW t \in CaptureThreads  PROVE CaptureSlots(t)'
      <3>1. CaptureSlots(t)
        BY <1>0 DEF SlotsMatch
      <3> QED BY <1>0, <1>2, <2>1, <3>1 DEF CaptureSlots, capFrame, capCallback, capConverted
    <2> QED BY <1>0, <1>2, <2>1, <2>2, <2>3 DEF Good, Inv, TypeOK, FrameInv, SlotsMatch
  <1>3. ASSUME UNCHANGED <<frameVars, cap>>, PreviewSlots'  PROVE Good
    BY <1>2, <1>3
  <1>4. ASSUME UNCHANGED <<frameVars, cap, pv>>  PROVE Good
    BY <1>0, <1>3, <1>4 DEF frameVars, SlotsMatch, PreviewSlots
  <1>5. ASSUME Call(c)  PROVE Good
    BY <1>4, <1>5 DEF Call, SetPreviewSize, SetPreviewDisplay, StartPreview, StopPreview,
       SetFrameCallback, SetCaptureDisplay
  <1>6. CASE StartCreate(c)
    <2>1. pv' = pv \/ pv' = "prepare"
      BY <1>6 DEF StartCreate
    <2>2. CASE pv' = pv
      BY <1>4, <1>6, <2>2 DEF StartCreate
    <2>3. CASE pv' = "prepare"
      <3>1. pv = "none"
        BY <1>6 DEF StartCreate, OnePreviewThread
      <3> QED BY <1>0, <1>3, <1>6, <2>3, <3>1 DEF StartCreate, frameVars, SlotsMatch, PreviewSlots
    <2> QED BY <2>1, <2>2, <2>3
  <1>7. CASE StartFailed(c) \/ StopSignal(c)
    BY <1>0, <1>3, <1>7 DEF StartFailed, StopSignal, frameVars, SlotsMatch, PreviewSlots
  <1>8. CASE JoinCapture(c)
    <2>1. UNCHANGED <<frameVars, pv>>
      BY <1>8 DEF JoinCapture
    <2>2. \A t \in CaptureThreads :
             cap'[t] = cap[t] \/ (cap[t] \in {"none", "exited"} /\ cap'[t] = "none")
      BY <1>8 DEF JoinCapture
    <2> QED BY <1>0, <1>2, <2>1, <2>2 DEF frameVars, SlotsMatch, PreviewSlots
  <1>9. CASE JoinPreview(c)
    BY <1>0, <1>3, <1>9 DEF JoinPreview, frameVars, SlotsMatch, PreviewSlots
  <1>10. CASE StopClear(c)
    <2>1. UNCHANGED <<pv, cap>> /\ (ClearPreviewFrame \/ ClearCaptureFrame)
      BY <1>10 DEF StopClear
    <2>2. FrameInv' /\ NoLeak
      BY <1>0, <2>1, ClearPreviewFrameOwned, ClearCaptureFrameOwned
    <2>3. \A s \in Slots \ {captureQueu} : held'[s] = held[s]
      BY <1>0, <2>1 DEF ClearPreviewFrame, ClearCaptureFrame, RecycleFrame, frameVars,
         FrameTypeOK
    <2> QED BY <1>1, <2>1, <2>2, <2>3
  <1>11. CASE StopRelease(c)
    BY <1>4, <1>11 DEF StopRelease
  <1>12. CASE SetFrameCallbackWait(c) \/ SetCaptureDisplayWait(c)
    BY <1>4, <1>12 DEF SetFrameCallbackWait, SetCaptureDisplayWait, WaitCapturing
  <1>13. CASE SetFrameCallbackEnd(c) \/ SetCaptureDisplayEnd(c)
    BY <1>4, <1>13 DEF SetFrameCallbackEnd, SetCaptureDisplayEnd
  <1> QED BY <1>5, <1>6, <1>7, <1>8, <1>9, <1>10, <1>11, <1>12, <1>13
          DEF ClientCall, ClientContinue, Continue

\* A spurious wake-up touches no frame.
LEMMA SpuriousGood == Inv /\ SpuriousWakeup => Good
  <1> SUFFICES ASSUME Inv, SpuriousWakeup PROVE Good
    OBVIOUS
  <1>1. /\ UNCHANGED <<frameVars, cb, cap, surf>>
        /\ pv' = pv \/ (pv = "waiting" /\ pv' = "woken")
    BY DEF SpuriousWakeup, capVars
  <1>2. FrameInv' /\ NoLeak
    BY <1>1, FramesUnchanged
  <1>3. ControlTypeOK'
    BY DEF Inv, TypeOK, ControlTypeOK, PvStates, SpuriousWakeup, flags, winVars, modeVars,
       capVars, apiVars
  <1>4. CallbackSlots' /\ \A t \in CaptureThreads : CaptureSlots(t)'
    BY <1>1, OtherSlotsKept DEF frameVars
  <1>5. PreviewSlots'
    BY <1>1 DEF Inv, SlotsMatch, PreviewSlots, frameVars
  <1> QED BY <1>2, <1>3, <1>4, <1>5 DEF Good, Inv, TypeOK, FrameInv, SlotsMatch

-----------------------------------------------------------------------------
\* A preview thread lives from a start to the join of the next stop: that is
\* what makes OnePreviewThread inductive.
PreviewLives ==
    \/ mIsRunning /\ \A c \in Clients : api[c] \notin Synchronized
    \/ ~mIsRunning /\ \E c \in Clients : api[c] \in {"signal", "joinCapture", "joinPreview"}
Lifecycle ==
    /\ \A c, d \in Clients : api[c] \in Synchronized /\ api[d] \in Synchronized => c = d
    /\ \A c \in Clients : api[c] \in {"create", "startFailed"} => mIsRunning
    /\ pv # "none" => PreviewLives

IInv == Inv /\ Lifecycle

\* What Lifecycle says of the thread between its creation and its end is more
\* than OnePreviewThread.
LEMMA LifecycleOnePreview == Lifecycle => OnePreviewThread
  BY DEF Lifecycle, PreviewLives, OnePreviewThread, Synchronized

\* The threads of the engine do not touch what Lifecycle speaks of.
LEMMA ThreadLifecycle ==
    ASSUME Lifecycle, UNCHANGED <<api, mIsRunning>>, pv' # "none" => pv # "none"
    PROVE  Lifecycle'
  BY DEF Lifecycle, PreviewLives

\* Each operation keeps Lifecycle.
LEMMA ClientLifecycle ==
    ASSUME Inv, Lifecycle, NEW c \in Clients, ClientCall(c) \/ ClientContinue(c)
    PROVE  Lifecycle'
  <1> USE DEF Synchronized, ApiGoto
  <1>0. api \in [Clients -> ApiStates] /\ pv \in PvStates
    BY DEF Inv, TypeOK, ControlTypeOK
  <1>1. ASSUME UNCHANGED <<pv, mIsRunning>>, NEW s,
               api' = api \/ (api' = [api EXCEPT ![c] = s] /\ {s, api[c]} \cap Synchronized = {})
        PROVE  Lifecycle'
    BY <1>0, <1>1 DEF Lifecycle, PreviewLives
  <1>2. CASE SetPreviewSize(c) \/ SetPreviewDisplay(c)
    BY <1>1, <1>2 DEF SetPreviewSize, SetPreviewDisplay, apiVars, flags
  <1>3. ASSUME NEW obj \in Callbacks \cup {Null}, SetFrameCallback(c, obj)
        PROVE  Lifecycle'
    BY <1>1, <1>3 DEF SetFrameCallback, apiVars
  <1>4. ASSUME NEW w \in Surfaces \cup {Null}, SetCaptureDisplay(c, w)
        PROVE  Lifecycle'
    BY <1>1, <1>4 DEF SetCaptureDisplay, apiVars
  <1>5. CASE \/ SetFrameCallbackWait(c) \/ SetCaptureDisplayWait(c)
             \/ SetFrameCallbackEnd(c) \/ SetCaptureDisplayEnd(c)
    BY <1>1, <1>5 DEF SetFrameCallbackWait, SetCaptureDisplayWait, WaitCapturing,
       SetFrameCallbackEnd, SetCaptureDisplayEnd, flags
  <1>6. CASE StartPreview(c)
    BY <1>0, <1>6 DEF StartPreview, EnterMonitor, Lifecycle, PreviewLives
  <1>7. CASE StartCreate(c)
    BY <1>0, <1>7 DEF StartCreate, Lifecycle, PreviewLives, flags
  <1>8. CASE StartFailed(c)
    BY <1>0, <1>8 DEF StartFailed, Lifecycle, PreviewLives
  <1>9. CASE StopPreview(c)
    BY <1>0, <1>9 DEF StopPreview, EnterMonitor, Lifecycle, PreviewLives
  <1>10. CASE StopSignal(c) \/ JoinCapture(c)
    BY <1>0, <1>10 DEF StopSignal, JoinCapture, Lifecycle, PreviewLives, flags
  <1>11. CASE JoinPreview(c)
    BY <1>0, <1>11 DEF JoinPreview, Lifecycle, PreviewLives, flags
  <1>12. CASE StopClear(c) \/ StopRelease(c)
    BY <1>0, <1>12 DEF StopClear, StopRelease, Lifecycle, PreviewLives, flags
  <1> QED BY <1>2, <1>3, <1>4, <1>5, <1>6, <1>7, <1>8, <1>9, <1>10, <1>11, <1>12
          DEF ClientCall, ClientContinue, Call, Continue

-----------------------------------------------------------------------------
\* Every step of the engine keeps the invariant and, while the preview runs,
\* loses no frame.
LEMMA StepGood == IInv /\ [Next]_vars => IInv' /\ (NoLeak \/ ~mIsRunning)
  <1> SUFFICES ASSUME Inv, Lifecycle, [Next]_vars PROVE Good /\ Lifecycle'
    BY DEF Good, IInv
  <1>1. CASE UNCHANGED vars
    <2>1. FrameInv' /\ NoLeak
      BY <1>1, FramesUnchanged DEF vars
    <2>2. ControlTypeOK'
      BY <1>1 DEF vars, Inv, TypeOK, ControlTypeOK, flags, winVars, modeVars, capVars, apiVars
    <2>3. CallbackSlots' /\ \A t \in CaptureThreads : CaptureSlots(t)'
      BY <1>1, OtherSlotsKept DEF vars, frameVars, capVars
    <2>4. PreviewSlots'
      BY <1>1 DEF vars, Inv, SlotsMatch, PreviewSlots, frameVars
    <2>5. Lifecycle'
      BY <1>1, ThreadLifecycle DEF vars, flags, apiVars
    <2> QED BY <2>1, <2>2, <2>3, <2>4, <2>5 DEF Good, Inv, TypeOK, FrameInv, SlotsMatch
  <1>2. CASE CallbackStep
    <2>1. Lifecycle'
      BY <1>2, ThreadLifecycle DEF CallbackStep, CbArrive, CbGet, CbDuplicate,
         AddPreviewFrame, CbRecycle, flags, apiVars
    <2> QED BY <1>2, <2>1, CallbackGood
  <1>3. CASE PreviewThreadStep
    <2>1. pv # "none" /\ UNCHANGED <<api, mIsRunning>>
      BY <1>3 DEF PreviewThreadStep, PvPrepare, PvStartStreaming, PvClear,
         PvCreateCapture, PvLoop, WaitPreviewFrame, PvWoken, PvGetYuyv, PvDecode,
         PvRecycleBroken, PvDraw, PvDrawn, AddCaptureFrame, PvFinish, PvStopStreaming,
         flags, apiVars
    <2>2. Lifecycle'
      BY <2>1, ThreadLifecycle
    <2> QED BY <1>3, <2>2, PreviewGood
  <1>4. ASSUME NEW t \in CaptureThreads, CaptureThreadStep(t)  PROVE Good /\ Lifecycle'
    <2>1. Lifecycle'
      BY <1>4, ThreadLifecycle DEF CaptureThreadStep, apiVars
    <2> QED BY <1>4, <2>1, CaptureGood
  <1>5. ASSUME NEW c \in Clients, ClientCall(c) \/ ClientContinue(c)
        PROVE  Good /\ Lifecycle'
    BY <1>5, ClientLifecycle, LifecycleOnePreview, ClientGood
  <1>6. CASE SpuriousWakeup
    <2>1. Lifecycle'
      BY <1>6, ThreadLifecycle DEF SpuriousWakeup, flags, apiVars
    <2> QED BY <1>6, <2>1, SpuriousGood
  <1> QED BY <1>1, <1>2, <1>3, <1>4, <1>5, <1>6 DEF Next

\* The invariant of the whole engine.
LEMMA Invariance == Spec => []IInv
  <1>1. Init => IInv
    BY InitInv DEF IInv, Init, Lifecycle, Synchronized
  <1>2. IInv /\ [Next]_vars => IInv'
    BY StepGood
  <1> QED BY <1>1, <1>2, PTL DEF Spec

\* Every variable of the preview engine has its type.
THEOREM TypeCorrect == Spec => []TypeOK
  <1>1. IInv => TypeOK
    BY DEF IInv, Inv
  <1> QED BY Invariance, <1>1, PTL

\* No frame is owned twice, and none is used after it was freed: get_frame,
\* recycle_frame, the queue, the capture slot and the local variables of all
\* the threads share the frames out without overlap.
THEOREM OwnedOnce == Spec => []FrameOwnedOnce
  <1>1. IInv => FrameOwnedOnce
    BY DEF IInv, Inv
  <1> QED BY Invariance, <1>1, PTL

\* Each local variable points at a frame exactly between get and recycle.
THEOREM SlotsMatchTheStates == Spec => []SlotsMatch
  <1>1. IInv => SlotsMatch
    BY DEF IInv, Inv
  <1> QED BY Invariance, <1>1, PTL

\* Two starts never overlap: there is one preview thread at most.
THEOREM OnePreviewThreadAlways == Spec => []OnePreviewThread
  <1>1. IInv => OnePreviewThread
    BY LifecycleOnePreview DEF IInv
  <1> QED BY Invariance, <1>1, PTL

\* While the preview runs no frame is ever lost.
THEOREM NoLeakWhileRunning == Spec => LeakOnlyWhenStopped
  <1>1. IInv /\ [Next]_vars => [Leaked' \subseteq Leaked \/ ~mIsRunning]_vars
    BY StepGood DEF NoLeak
  <1> QED BY Invariance, <1>1, PTL DEF Spec, LeakOnlyWhenStopped

-----------------------------------------------------------------------------
(***************************************************************************)
(* No thread of the preview engine sleeps while a frame waits for it, and  *)
(* a preview that was stopped has nothing left.                            *)
(*                                                                         *)
(* The queue and the slot are filled only by the stream callback and the   *)
(* preview thread; what makes StoppedIsClean inductive is which states of  *)
(* the preview thread the stream lives in, and which of the steps of       *)
(* stopPreview are still to come when the thread has been joined.          *)
(***************************************************************************)
\* The two halves of NoMissedFrame.
QueueSeen == pv = "waiting" => previewFrames = <<>>
SlotSeen ==
    \A t \in CaptureThreads :
       cap[t] = "waiting" /\ t \in capture_sync => held[captureQueu] = NoFrame

\* The stream lives in the preview thread, the callback in the stream.
StreamLives ==
    /\ streaming => pv \notin {"none", "prepare", "start", "exited"}
    /\ cb # "idle" => streaming

\* After the join stopPreview still has to empty the queue, then the slot.
Cleared ==
    pv = "none" =>
       /\ previewFrames = <<>> \/ \E c \in Clients : api[c] = "clearPreview"
       /\ \/ held[captureQueu] = NoFrame
          \/ \E c \in Clients : api[c] \in {"clearPreview", "clearCapture"}

Still == QueueSeen /\ SlotSeen /\ StreamLives /\ Cleared

\* A frame got into, or put back from, another variable than the slot.
LEMMA SlotKept ==
    ASSUME Inv, NEW s \in Slots, s # captureQueu, GetFrame(s) \/ RecycleFrame(s)
    PROVE  held'[captureQueu] = held[captureQueu] /\ UNCHANGED previewFrames
  BY SlotFacts DEF Inv, TypeOK, FrameTypeOK, GetFrame, RecycleFrame

-----------------------------------------------------------------------------
\* A step of the stream callback: it wakes the preview thread when it queues.
LEMMA CallbackStill == Inv /\ Still /\ CallbackStep => Still'
  <1> SUFFICES ASSUME Inv, Still, CallbackStep PROVE Still'
    OBVIOUS
  <1> USE SlotFacts DEF CallbackStep
  <1>0. cb \in {"idle", "get", "duplicate", "add", "recycle"} /\ pv \in PvStates
    BY DEF Inv, TypeOK, ControlTypeOK
  <1>1. UNCHANGED <<streaming, cap, capture_sync, api>>
    BY DEF capVars, apiVars
  <1>2. held'[captureQueu] = held[captureQueu]
    BY SlotKept DEF CbArrive, CbGet, CbDuplicate, AddPreviewFrame, CbRecycle, frameVars,
       Inv, TypeOK, FrameTypeOK
  <1>3. streaming
    BY <1>0 DEF Still, StreamLives, CbArrive, CbGet, CbDuplicate, AddPreviewFrame, CbRecycle
  <1>4. pv \notin {"none", "prepare", "start", "exited"}
    BY <1>3 DEF Still, StreamLives
  <1>5. pv' \notin {"none", "prepare", "start", "exited"}
    BY <1>4 DEF CbArrive, CbGet, CbDuplicate, AddPreviewFrame, CbRecycle
  <1>6. QueueSeen'
    BY SlotKept DEF Still, QueueSeen, CbArrive, CbGet, CbDuplicate, AddPreviewFrame, CbRecycle,
       frameVars
  <1>7. SlotSeen'
    BY <1>1, <1>2 DEF Still, SlotSeen
  <1>8. StreamLives'
    BY <1>1, <1>3, <1>5 DEF StreamLives
  <1>9. Cleared'
    BY <1>5 DEF Cleared
  <1> QED BY <1>6, <1>7, <1>8, <1>9 DEF Still

-----------------------------------------------------------------------------
\* A step of the preview thread: it waits only for an empty queue, and wakes
\* every capture thread when it fills the slot.
LEMMA PreviewStill == Inv /\ Still /\ PreviewThreadStep => Still'
  <1> SUFFICES ASSUME Inv, Still, PreviewThreadStep PROVE Still'
    OBVIOUS
  <1> USE SlotFacts DEF PreviewThreadStep
  <1>0. pv \in PvStates /\ held \in [Slots -> Frames \cup {NoFrame}] /\ cap \in [CaptureThreads -> CapStates]
    BY DEF Inv, TypeOK, ControlTypeOK, FrameTypeOK
  <1>1. pv # "none" /\ pv' # "none" /\ UNCHANGED cb
    BY DEF PvPrepare, PvStartStreaming, PvClear, PvCreateCapture, PvLoop, WaitPreviewFrame,
       PvWoken, PvGetYuyv, PvDecode, PvRecycleBroken, PvDraw, PvDrawn, AddCaptureFrame,
       PvFinish, PvStopStreaming, PvOnly, PvFrames, TakePreviewFrame
  <1>2. QueueSeen'
    BY DEF QueueSeen, PvPrepare, PvStartStreaming, PvClear, PvCreateCapture, PvLoop,
       WaitPreviewFrame, PvWoken, PvGetYuyv, PvDecode, PvRecycleBroken, PvDraw, PvDrawn,
       AddCaptureFrame, PvFinish, PvStopStreaming, PvOnly, PvFrames, TakePreviewFrame, frameVars
  <1>3. StreamLives'
    BY <1>0 DEF Still, StreamLives, PvPrepare, PvStartStreaming, PvClear, PvCreateCapture, PvLoop,
       WaitPreviewFrame, PvWoken, PvGetYuyv, PvDecode, PvRecycleBroken, PvDraw, PvDrawn,
       AddCaptureFrame, PvFinish, PvStopStreaming, PvOnly, PvFrames, TakePreviewFrame
  <1>4. SlotSeen'
    <2>1. CASE AddCaptureFrame
      BY <1>0, <2>1 DEF AddCaptureFrame, Still, SlotSeen, MoveFrame
    <2>2. CASE PvFinish
      BY <2>2 DEF PvFinish, SignalCapture, Signalled, Still, SlotSeen, frameVars
    <2>3. CASE PvCreateCapture
      BY <1>0, <2>3 DEF PvCreateCapture, Still, SlotSeen, frameVars
    <2>4. CASE PvClear
      BY <2>4 DEF PvClear, PvFrames, ClearPreviewFrame, Still, SlotSeen
    <2>5. CASE PvGetYuyv \/ PvDecode \/ PvRecycleBroken \/ PvDraw \/ PvDrawn
      BY <2>5, SlotKept DEF PvGetYuyv, PvDecode, PvRecycleBroken, PvDraw, PvDrawn, PvFrames,
         PvOnly, Still, SlotSeen, frameVars
    <2>6. CASE WaitPreviewFrame \/ PvWoken
      BY <1>0, <2>6 DEF WaitPreviewFrame, PvWoken, TakePreviewFrame, PvOnly, PvFrames, Still,
         SlotSeen, frameVars
    <2>7. CASE PvPrepare \/ PvStartStreaming \/ PvLoop \/ PvStopStreaming
      BY <2>7 DEF PvPrepare, PvStartStreaming, PvLoop, PvStopStreaming, PvOnly, Still, SlotSeen,
         frameVars
    <2> QED BY <2>1, <2>2, <2>3, <2>4, <2>5, <2>6, <2>7
  <1>5. Cleared'
    BY <1>1 DEF Cleared
  <1> QED BY <1>2, <1>3, <1>4, <1>5 DEF Still

-----------------------------------------------------------------------------
\* Of a capture thread: the slot is only emptied, and a thread goes to sleep
\* only when it is empty.
CaptureCalm(t) ==
    /\ held'[captureQueu] \in {held[captureQueu], NoFrame}
    /\ UNCHANGED previewFrames
    /\ \A u \in CaptureThreads :
          cap'[u] = "waiting" /\ u \in capture_sync'
            => (cap[u] = "waiting" /\ u \in capture_sync) \/ held'[captureQueu] = NoFrame

\* Every step of a capture thread is of that kind.
LEMMA CaptureIsCalm ==
    ASSUME Inv, NEW t \in CaptureThreads, CaptureThreadStep(t)
    PROVE  CaptureCalm(t)
  <1> USE SlotFacts DEF CaptureThreadStep, CaptureCalm
  <1>0. /\ held \in [Slots -> Frames \cup {NoFrame}]
        /\ cap \in [CaptureThreads -> CapStates]
    BY DEF Inv, TypeOK, ControlTypeOK, FrameTypeOK
  <1>1. CASE CapBegin(t)
    BY <1>0, <1>1 DEF CapBegin, CapFrames, ClearCaptureFrame, RecycleFrame, frameVars
  <1>2. CASE \/ CapLoop(t) \/ CapSelect(t) \/ CapCheck(t) \/ CapCopy(t) \/ CapCopied(t)
             \/ CapCall(t) \/ CapRelease(t) \/ CapForget(t) \/ CapBroadcast(t)
    BY <1>0, <1>2 DEF CapLoop, CapSelect, CapCheck, CapCopy, CapCopied, CapCall, CapRelease,
       CapForget, CapBroadcast, CapOnly, frameVars
  <1>3. ASSUME TakeCaptureFrame(t) PROVE CaptureCalm(t)
    BY <1>0, <1>3 DEF TakeCaptureFrame, MoveFrame, CapFrames, CapOnly, frameVars
  <1>4. CASE WaitCaptureFrame(t) \/ CapWoken(t)
    BY <1>0, <1>3, <1>4 DEF WaitCaptureFrame, CapWoken, frameVars
  <1>5. CASE CapConvert(t)
    BY <1>0, <1>5, SlotKept DEF CapConvert, CapFrames, CapOnly, frameVars
  <1>6. CASE CapCallback(t)
    BY <1>0, <1>6, SlotKept DEF CapCallback, CapFrames, CapOnly, MoveFrame, frameVars
  <1>7. CASE CapConverted(t) \/ CapReturn(t) \/ CapRecycle(t)
    BY <1>0, <1>7, SlotKept DEF CapConverted, CapReturn, CapRecycle, CapFrames
  <1>8. CASE CapEndSurface(t)
    BY <1>0, <1>8, SlotKept DEF CapEndSurface, CapFrames, frameVars
  <1> QED BY <1>1, <1>2, <1>4, <1>5, <1>6, <1>7, <1>8

\* So a capture thread keeps the invariant.
LEMMA CaptureStill ==
    ASSUME Inv, Still, NEW t \in CaptureThreads, CaptureThreadStep(t)
    PROVE  Still'
  <1>1. CaptureCalm(t)
    BY CaptureIsCalm
  <1>2. UNCHANGED <<pv, cb, streaming, api>>
    BY DEF CaptureThreadStep, apiVars
  <1> QED BY <1>1, <1>2 DEF Still, QueueSeen, SlotSeen, StreamLives, Cleared, CaptureCalm

-----------------------------------------------------------------------------
\* The operations: those that do not touch the frames ...
LEMMA ClientStill ==
    ASSUME Inv, Still, Lifecycle, NEW c \in Clients, ClientCall(c) \/ ClientContinue(c)
    PROVE  Still'
  <1> USE DEF ClientCall, ClientContinue, ApiKeeps, ApiGoto
  <1>0. /\ api \in [Clients -> ApiStates] /\ cap \in [CaptureThreads -> CapStates]
        /\ pv \in PvStates /\ held \in [Slots -> Frames \cup {NoFrame}]
        /\ Clients \cap CaptureThreads = {}
    BY PreviewAssumption DEF Inv, TypeOK, ControlTypeOK, FrameTypeOK
  <1>1. ASSUME UNCHANGED <<frameVars, cb, streaming>>, NEW s,
               pv' = pv \/ (pv = "waiting" /\ pv' = "woken"),
               \A t \in CaptureThreads : cap'[t] = "waiting" /\ t \in capture_sync'
                                           => cap[t] = "waiting" /\ t \in capture_sync,
               \/ api' = api
               \/ api' = [api EXCEPT ![c] = s] /\ api[c] \notin {"clearPreview", "clearCapture"}
        PROVE  Still'
    <2>1. QueueSeen' /\ SlotSeen' /\ StreamLives'
      BY <1>1 DEF Still, QueueSeen, SlotSeen, StreamLives, frameVars
    <2>2. Cleared'
      BY <1>0, <1>1 DEF Still, Cleared, frameVars
    <2> QED BY <2>1, <2>2 DEF Still
  <1>2. CASE SetPreviewSize(c) \/ SetPreviewDisplay(c) \/ StartPreview(c) \/ StartFailed(c)
             \/ StopPreview(c)
    BY <1>1, <1>2 DEF SetPreviewSize, SetPreviewDisplay, StartPreview, StartFailed, StopPreview,
       EnterMonitor, Synchronized, apiVars
  <1>3. ASSUME NEW obj \in Callbacks \cup {Null}, SetFrameCallback(c, obj) PROVE Still'
    BY <1>1, <1>3 DEF SetFrameCallback, apiVars
  <1>4. ASSUME NEW w \in Surfaces \cup {Null}, SetCaptureDisplay(c, w) PROVE Still'
    BY <1>1, <1>4 DEF SetCaptureDisplay, apiVars
  <1>5. CASE SetFrameCallbackEnd(c) \/ SetCaptureDisplayEnd(c)
    BY <1>1, <1>5 DEF SetFrameCallbackEnd, SetCaptureDisplayEnd
  <1>6. CASE SetFrameCallbackWait(c) \/ SetCaptureDisplayWait(c)
    BY <1>0, <1>1, <1>6 DEF SetFrameCallbackWait, SetCaptureDisplayWait, WaitCapturing, Signalled
  <1>7. CASE StopSignal(c)
    BY <1>0, <1>1, <1>7 DEF StopSignal, SignalCapture, Signalled
  <1>8. CASE JoinCapture(c)
    BY <1>0, <1>1, <1>8 DEF JoinCapture
  <1>9. CASE StartCreate(c)
    <2>1. pv' = pv \/ (pv' = "prepare" /\ pv = "none")
      BY <1>9, LifecycleOnePreview DEF StartCreate, OnePreviewThread
    <2>2. QueueSeen' /\ SlotSeen' /\ StreamLives'
      BY <1>9, <2>1 DEF StartCreate, Still, QueueSeen, SlotSeen, StreamLives, frameVars
    <2>3. Cleared'
      BY <1>0, <1>9 DEF StartCreate, Still, Cleared, frameVars
    <2> QED BY <2>2, <2>3 DEF Still
  \* ... and the end of stopPreview.
  <1>10. CASE JoinPreview(c)
    <2>1. QueueSeen' /\ SlotSeen' /\ StreamLives'
      BY <1>10 DEF JoinPreview, Still, QueueSeen, SlotSeen, StreamLives, frameVars
    <2>2. Cleared'
      BY <1>0, <1>10 DEF JoinPreview, Cleared
    <2> QED BY <2>1, <2>2 DEF Still
  <1>11. CASE StopClear(c)
    <2>1. held'[captureQueu] \in {held[captureQueu], NoFrame}
      BY <1>0, <1>11, SlotFacts DEF StopClear, ClearPreviewFrame, ClearCaptureFrame, RecycleFrame,
         frameVars
    <2>2. previewFrames' \in {previewFrames, <<>>}
      BY <1>11 DEF StopClear, ClearPreviewFrame, ClearCaptureFrame, RecycleFrame, frameVars
    <2>3. QueueSeen' /\ SlotSeen' /\ StreamLives'
      BY <1>11, <2>1, <2>2 DEF StopClear, Still, QueueSeen, SlotSeen, StreamLives
    <2>4. CASE api[c] = "clearPreview"
      <3>1. previewFrames' = <<>> /\ UNCHANGED <<held, pv>> /\ api'[c] = "clearCapture"
        BY <1>0, <1>11, <2>4 DEF StopClear, ClearPreviewFrame
      <3> QED BY <2>3, <3>1 DEF Still, Cleared
    <2>5. CASE api[c] = "clearCapture"
      <3>1. held'[captureQueu] = NoFrame /\ UNCHANGED <<previewFrames, pv>>
        BY <1>0, <1>11, <2>5, SlotFacts DEF StopClear, ClearCaptureFrame, RecycleFrame, frameVars
      <3> QED BY <1>0, <1>11, <2>3, <2>5, <3>1 DEF StopClear, Still, Cleared
    <2> QED BY <1>11, <2>3, <2>4, <2>5 DEF StopClear
  <1>12. CASE StopRelease(c)
    BY <1>0, <1>1, <1>12 DEF StopRelease
  <1> QED BY <1>2, <1>3, <1>4, <1>5, <1>6, <1>7, <1>8, <1>9, <1>10, <1>11, <1>12
          DEF Call, Continue

-----------------------------------------------------------------------------
\* The invariant holds always.
LEMMA StillAlways == Spec => [](IInv /\ Still)
  <1>1. Init => Still
    BY SlotFacts DEF Init, FrameInit, Still, QueueSeen, SlotSeen, StreamLives, Cleared
  <1>2. IInv /\ Still /\ [Next]_vars => Still'
    <2> SUFFICES ASSUME Inv, Lifecycle, Still, [Next]_vars PROVE Still'
      BY DEF IInv
    <2>1. CASE UNCHANGED vars
      BY <2>1 DEF vars, frameVars, capVars, apiVars, Still, QueueSeen, SlotSeen, StreamLives, Cleared
    <2>2. CASE SpuriousWakeup
      <3>1. QueueSeen' /\ SlotSeen' /\ StreamLives'
        BY <2>2 DEF SpuriousWakeup, Still, QueueSeen, SlotSeen, StreamLives, frameVars, capVars
      <3>2. Cleared'
        BY <2>2 DEF SpuriousWakeup, Still, Cleared, frameVars, apiVars
      <3> QED BY <3>1, <3>2 DEF Still
    <2> QED BY <2>1, <2>2, CallbackStill, PreviewStill, CaptureStill, ClientStill DEF Next
  <1> QED BY <1>1, <1>2, Invariance, PTL DEF Spec

\* No thread sleeps on work: the preview thread does not wait while a frame is
\* queued, nor a capture thread, unsignalled, while the slot is full.
THEOREM NoFrameMissed == Spec => []NoMissedFrame
  <1>1. Still => NoMissedFrame
    BY DEF Still, QueueSeen, SlotSeen, NoMissedFrame
  <1> QED BY <1>1, StillAlways, PTL

\* When stopPreview is over nothing is queued or kept, and libuvc is silent.
THEOREM StoppedClean == Spec => []StoppedIsClean
  <1>1. Still => StoppedIsClean
    BY DEF Still, StreamLives, Cleared, StoppedIsClean, Synchronized
  <1> QED BY <1>1, StillAlways, PTL
=============================================================================
