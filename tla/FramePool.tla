------------------------------ MODULE FramePool ------------------------------
(***************************************************************************)
(* The frame pool of UVCPreview (UVCPreview.cpp, get_frame, recycle_frame  *)
(* and ObjectArray) and who holds which uvc_frame_t.                       *)
(*                                                                         *)
(* A frame is a member of Frames: the heap can hand out as many frames as  *)
(* the set has members, and uvc_allocate_frame returns NULL when all of    *)
(* them are live.  Which of the pooled frames get_frame takes is not told  *)
(* apart, so the pool is a set.  Every local variable and field that may   *)
(* point at a frame is a slot; previewFrames is the queue that the stream  *)
(* callback feeds and the preview thread empties.                          *)
(***************************************************************************)
EXTENDS Integers, Sequences, FiniteSets

CONSTANTS Frames,          \* the frames the heap can hold
          NoFrame,         \* the NULL frame pointer
          CaptureThreads,  \* the capture threads that may be alive together
          MAX_FRAME        \* the bound of previewFrames (4 in the code)

ASSUME PoolAssumption ==
    /\ NoFrame \notin Frames
    /\ CaptureThreads \cap {"callback", "preview", "this"} = {}
    /\ MAX_FRAME \in Nat \ {0}

VARIABLES live,            \* the frames allocated and not yet freed
          pool,            \* mFramePool
          previewFrames,   \* the queue of frames to draw
          held             \* what each slot points at

frameVars == <<live, pool, previewFrames, held>>

FRAME_POOL_SZ == MAX_FRAME + 2

\* The single-frame variables of the code.
copySlot      == <<"callback", "copy">>         \* uvc_preview_frame_callback
mjpegSlot     == <<"preview", "frame_mjpeg">>   \* do_preview
frameSlot     == <<"preview", "frame">>         \* do_preview
convertedSlot == <<"preview", "converted">>     \* draw_preview_one
captureQueu   == <<"this", "captureQueu">>      \* the field, latest frame only
capFrame(t)     == <<t, "frame">>               \* do_capture_surface / _callback
capCallback(t)  == <<t, "callback_frame">>      \* do_capture_callback
capConverted(t) == <<t, "converted">>           \* do_capture_surface

Slots ==
    {copySlot, mjpegSlot, frameSlot, convertedSlot, captureQueu}
      \cup (CaptureThreads \X {"frame", "callback_frame", "converted"})

Queued == {previewFrames[i] : i \in DOMAIN previewFrames}
HeldFrames == {held[s] : s \in Slots} \ {NoFrame}

\* Allocated frames that nothing points at any more.
Leaked == live \ (pool \cup Queued \cup HeldFrames)

FrameInit ==
    /\ live = {}
    /\ pool = {}
    /\ previewFrames = <<>>
    /\ held \in [Slots -> {NoFrame}]

-----------------------------------------------------------------------------
\* get_frame: a pooled frame if there is one, a new one otherwise.
GetFrame(s) ==
    /\ \/ \E f \in pool :
             /\ pool' = pool \ {f}
             /\ held' = [held EXCEPT ![s] = f]
             /\ UNCHANGED live
       \/ /\ pool = {}
          /\ \E f \in Frames \ live :
                /\ live' = live \cup {f}
                /\ held' = [held EXCEPT ![s] = f]
          /\ UNCHANGED pool
    /\ UNCHANGED previewFrames

\* get_frame returns NULL: nothing pooled and the allocation fails.
GetFrameFails == pool = {} /\ Frames \subseteq live

\* The pool keeps the frame unless it is full, in which case it is freed.
PutBack(f) ==
    IF Cardinality(pool) < FRAME_POOL_SZ
       THEN pool' = pool \cup {f} /\ UNCHANGED live
       ELSE live' = live \ {f} /\ UNCHANGED pool

\* recycle_frame of the frame in slot s, whose variable is dead afterwards.
RecycleFrame(s) ==
    /\ PutBack(held[s])
    /\ held' = [held EXCEPT ![s] = NoFrame]
    /\ UNCHANGED previewFrames

\* clearPreviewFrame recycles the queued frames in order, so the first ones
\* fill the pool and the others are freed.
ClearPreviewFrame ==
    LET room == FRAME_POOL_SZ - Cardinality(pool)
        kept == {previewFrames[i] : i \in {j \in DOMAIN previewFrames : j <= room}}
    IN  /\ pool' = pool \cup kept
        /\ live' = live \ (Queued \ kept)
        /\ previewFrames' = <<>>
        /\ UNCHANGED held

\* clearCaptureFrame.
ClearCaptureFrame ==
    IF held[captureQueu] = NoFrame
       THEN UNCHANGED frameVars
       ELSE RecycleFrame(captureQueu)

\* Handing a frame from one variable to another.
MoveFrame(from, to) ==
    held' = [held EXCEPT ![from] = NoFrame, ![to] = held[from]]

-----------------------------------------------------------------------------
(* Properties *)

FrameTypeOK ==
    /\ live \subseteq Frames
    /\ pool \subseteq Frames
    /\ previewFrames \in Seq(Frames)
    /\ held \in [Slots -> Frames \cup {NoFrame}]

\* No frame is reachable twice: what one thread converts, draws or hands to
\* Java is not in the pool, the queue, the slot or another thread's hands,
\* whatever the order of get_frame, recycle_frame, put and remove, and no
\* freed frame is reachable at all.
FrameOwnedOnce ==
    /\ pool \cup Queued \cup HeldFrames \subseteq live
    /\ pool \cap Queued = {}
    /\ \A i, j \in DOMAIN previewFrames :
          i # j => previewFrames[i] # previewFrames[j]
    /\ \A s \in Slots : held[s] # NoFrame => held[s] \notin pool \cup Queued
    /\ \A r, s \in Slots : r # s /\ held[r] # NoFrame => held[r] # held[s]

=============================================================================
