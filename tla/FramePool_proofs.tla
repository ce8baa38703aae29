-------------------------- MODULE FramePool_proofs --------------------------
(***************************************************************************)
(* Each operation on the frames preserves their types and their single     *)
(* ownership, whatever the number of frames, threads and queue places.     *)
(***************************************************************************)
EXTENDS FramePool, SequenceTheorems, TLAPS

\* What every lemma takes and gives.
FrameInv == FrameTypeOK /\ FrameOwnedOnce

\* A step after which no further frame is lost.
NoLeak == Leaked' \subseteq Leaked

\* FRAME_POOL_SZ and the slots: the slots of different variables differ, and
\* those of a capture thread are its own.
LEMMA SlotFacts ==
    /\ {copySlot, mjpegSlot, frameSlot, convertedSlot, captureQueu} \subseteq Slots
    /\ \A t \in CaptureThreads :
          {capFrame(t), capCallback(t), capConverted(t)} \subseteq Slots
    /\ copySlot \notin {mjpegSlot, frameSlot, convertedSlot, captureQueu}
    /\ mjpegSlot \notin {frameSlot, convertedSlot, captureQueu}
    /\ frameSlot \notin {convertedSlot, captureQueu}
    /\ convertedSlot # captureQueu
    /\ \A t \in CaptureThreads :
          /\ capFrame(t) \notin {copySlot, mjpegSlot, frameSlot, convertedSlot, captureQueu}
          /\ capCallback(t) \notin {copySlot, mjpegSlot, frameSlot, convertedSlot, captureQueu}
          /\ capConverted(t) \notin {copySlot, mjpegSlot, frameSlot, convertedSlot, captureQueu}
    /\ \A t, u \in CaptureThreads :
          /\ capFrame(t) # capCallback(u) /\ capFrame(t) # capConverted(u)
          /\ capCallback(t) # capConverted(u)
          /\ t # u => /\ capFrame(t) # capFrame(u)
                      /\ capCallback(t) # capCallback(u)
                      /\ capConverted(t) # capConverted(u)
  BY PoolAssumption DEF Slots, copySlot, mjpegSlot, frameSlot, convertedSlot,
     captureQueu, capFrame, capCallback, capConverted

\* get_frame gives the slot a frame that nobody else owns.
LEMMA GetFrameOwned ==
    ASSUME FrameInv, NEW s \in Slots, GetFrame(s)
    PROVE  /\ FrameInv' /\ (held[s] = NoFrame => NoLeak)
           /\ held'[s] # NoFrame
           /\ \A r \in Slots : r # s => held'[r] = held[r]
  <1> USE PoolAssumption DEF FrameInv, FrameTypeOK
  <1>1. PICK f \in Frames :
            /\ held' = [held EXCEPT ![s] = f]
            /\ pool \subseteq pool' \cup {f} /\ live' \subseteq live \cup {f}
            /\ f \notin Queued
            /\ \A r \in Slots : held[r] # f
            /\ f \notin pool' /\ f \in live'
            /\ pool' \subseteq pool /\ live \subseteq live' /\ live' \subseteq Frames
    BY DEF GetFrame, FrameOwnedOnce, HeldFrames
  <1>2. previewFrames' = previewFrames /\ Queued' = Queued
    BY DEF GetFrame, Queued
  <1>3. FrameTypeOK'
    BY <1>1, <1>2
  <1>4. HeldFrames' \subseteq HeldFrames \cup {f}
    BY <1>1 DEF HeldFrames
  <1>5. FrameOwnedOnce'
    BY <1>1, <1>2, <1>4 DEF FrameOwnedOnce
  <1>6. ASSUME held[s] = NoFrame  PROVE NoLeak
    <2>1. HeldFrames' = HeldFrames \cup {f}
      BY <1>1, <1>6 DEF HeldFrames
    <2> QED BY <1>1, <1>2, <2>1 DEF Leaked, NoLeak
  <1> QED BY <1>1, <1>3, <1>5, <1>6

\* recycle_frame takes the frame out of the slot into the pool or the heap.
LEMMA RecycleFrameOwned ==
    ASSUME FrameInv, NEW s \in Slots, held[s] # NoFrame, RecycleFrame(s)
    PROVE  FrameInv' /\ NoLeak
  <1> USE PoolAssumption DEF FrameInv, FrameTypeOK
  <1>1. held[s] \in Frames /\ held[s] \in live /\ held[s] \notin pool \cup Queued
    BY DEF FrameOwnedOnce, HeldFrames
  <1>2. held' = [held EXCEPT ![s] = NoFrame] /\ previewFrames' = previewFrames
    BY DEF RecycleFrame
  <1>3. Queued' = Queued /\ HeldFrames' = HeldFrames \ {held[s]}
    BY <1>1, <1>2 DEF Queued, HeldFrames, FrameOwnedOnce
  <1>4. \/ pool' = pool \cup {held[s]} /\ live' = live
        \/ pool' = pool /\ live' = live \ {held[s]}
    BY DEF RecycleFrame, PutBack
  <1>5. FrameTypeOK'
    BY <1>1, <1>2, <1>4
  <1>6. FrameOwnedOnce'
    BY <1>1, <1>2, <1>3, <1>4 DEF FrameOwnedOnce
  <1>7. NoLeak
    BY <1>3, <1>4 DEF Leaked, NoLeak
  <1> QED BY <1>5, <1>6, <1>7

\* clearPreviewFrame distributes the queued frames over pool and heap.
LEMMA ClearPreviewFrameOwned ==
    ASSUME FrameInv, ClearPreviewFrame
    PROVE  FrameInv' /\ NoLeak
  <1> USE DEF FrameInv, FrameTypeOK
  <1>1. PICK kept \in SUBSET Queued :
            /\ pool' = pool \cup kept
            /\ live' = live \ (Queued \ kept)
            /\ previewFrames' = <<>> /\ held' = held
    <2> DEFINE room == FRAME_POOL_SZ - Cardinality(pool)
               kept == {previewFrames[i] : i \in {j \in DOMAIN previewFrames : j <= room}}
    <2>1. kept \subseteq Queued
      BY DEF Queued
    <2> QED BY <2>1 DEF ClearPreviewFrame
  <1>2. Queued \subseteq Frames
    BY DEF Queued
  <1>3. Queued' = {} /\ HeldFrames' = HeldFrames
    BY <1>1 DEF Queued, HeldFrames
  <1>4. HeldFrames \cap Queued = {}
    BY DEF HeldFrames, FrameOwnedOnce
  <1>5. FrameTypeOK'
    BY <1>1, <1>2
  <1>6. FrameOwnedOnce'
    BY <1>1, <1>2, <1>3, <1>4 DEF FrameOwnedOnce
  <1>7. NoLeak
    BY <1>1, <1>3 DEF Leaked, NoLeak
  <1> QED BY <1>5, <1>6, <1>7

\* clearCaptureFrame empties the capture slot.
LEMMA ClearCaptureFrameOwned ==
    ASSUME FrameInv, ClearCaptureFrame
    PROVE  FrameInv' /\ NoLeak
  <1>1. CASE held[captureQueu] = NoFrame
    BY <1>1 DEF ClearCaptureFrame, frameVars, FrameInv, FrameTypeOK,
       FrameOwnedOnce, Queued, HeldFrames, Leaked, NoLeak
  <1>2. CASE held[captureQueu] # NoFrame
    BY <1>2, SlotFacts, RecycleFrameOwned DEF ClearCaptureFrame
  <1> QED BY <1>1, <1>2

\* Handing a frame from one variable to an empty or dead one.
LEMMA MoveFrameOwned ==
    ASSUME FrameInv, NEW from \in Slots, NEW to \in Slots, from # to,
           MoveFrame(from, to), UNCHANGED <<live, pool, previewFrames>>
    PROVE  FrameInv' /\ (held[to] = NoFrame => NoLeak)
  <1> USE PoolAssumption DEF FrameInv, FrameTypeOK
  <1>1. held' = [held EXCEPT ![from] = NoFrame, ![to] = held[from]]
    BY DEF MoveFrame
  <1>2. HeldFrames' \subseteq HeldFrames /\ Queued' = Queued
    BY <1>1 DEF HeldFrames, Queued
  <1>3. FrameTypeOK'
    BY <1>1
  <1>4. FrameOwnedOnce'
    BY <1>1, <1>2 DEF FrameOwnedOnce
  <1>5. ASSUME held[to] = NoFrame  PROVE NoLeak
    <2>1. ASSUME NEW r \in Slots, held[r] # NoFrame  PROVE held[r] \in HeldFrames'
      <3>1. CASE r = from
        BY <1>1, <2>1, <3>1 DEF HeldFrames
      <3>2. CASE r # from
        BY <1>1, <1>5, <2>1, <3>2 DEF HeldFrames
      <3> QED BY <3>1, <3>2
    <2>2. HeldFrames \subseteq HeldFrames'
      BY <2>1 DEF HeldFrames
    <2> QED BY <1>2, <2>2 DEF Leaked, NoLeak
  <1> QED BY <1>3, <1>4, <1>5

\* addCaptureFrame replaces the frame in the capture slot.
LEMMA ReplaceOwned ==
    ASSUME FrameInv, NEW from \in Slots, NEW to \in Slots, from # to,
           held[to] # NoFrame, PutBack(held[to]), MoveFrame(from, to),
           UNCHANGED previewFrames
    PROVE  FrameInv' /\ NoLeak
  <1> USE PoolAssumption DEF FrameInv, FrameTypeOK
  <1> DEFINE old == held[to]
  <1>1. held' = [held EXCEPT ![from] = NoFrame, ![to] = held[from]]
    BY DEF MoveFrame
  <1>2. old \in Frames /\ old \in live /\ old \notin pool \cup Queued
    BY DEF FrameOwnedOnce, HeldFrames
  <1>3. \/ pool' = pool \cup {old} /\ live' = live
        \/ pool' = pool /\ live' = live \ {old}
    BY DEF PutBack
  <1>4. HeldFrames' \subseteq HeldFrames \ {old} /\ Queued' = Queued
    BY <1>1, <1>2 DEF HeldFrames, Queued, FrameOwnedOnce
  <1>5. FrameTypeOK'
    BY <1>1, <1>2, <1>3
  <1>6. FrameOwnedOnce'
    BY <1>1, <1>2, <1>3, <1>4 DEF FrameOwnedOnce
  <1>7. ASSUME NEW r \in Slots, held[r] # NoFrame, held[r] # old
        PROVE  held[r] \in HeldFrames'
    <2>1. CASE r = from
      BY <1>1, <1>7, <2>1 DEF HeldFrames
    <2>2. CASE r # from
      BY <1>1, <1>7, <2>2 DEF HeldFrames
    <2> QED BY <2>1, <2>2
  <1>8. HeldFrames \ {old} \subseteq HeldFrames'
    BY <1>7 DEF HeldFrames
  <1>9. NoLeak
    BY <1>3, <1>4, <1>8 DEF Leaked, NoLeak
  <1> QED BY <1>5, <1>6, <1>9

\* addPreviewFrame appends the frame of a slot to the queue.
LEMMA AppendOwned ==
    ASSUME FrameInv, NEW s \in Slots, held[s] # NoFrame,
           previewFrames' = Append(previewFrames, held[s]),
           held' = [held EXCEPT ![s] = NoFrame], UNCHANGED <<live, pool>>
    PROVE  FrameInv' /\ NoLeak
  <1> USE PoolAssumption DEF FrameInv, FrameTypeOK
  <1>1. held[s] \in Frames /\ held[s] \in live /\ held[s] \notin pool \cup Queued
    BY DEF FrameOwnedOnce, HeldFrames
  <1>2. FrameTypeOK'
    BY <1>1
  <1>3. Queued' = Queued \cup {held[s]}
    BY <1>1 DEF Queued
  <1>4. HeldFrames' = HeldFrames \ {held[s]}
    BY <1>1 DEF HeldFrames, FrameOwnedOnce
  <1>5. \A i, j \in DOMAIN previewFrames' :
            i # j => previewFrames'[i] # previewFrames'[j]
    BY <1>1 DEF FrameOwnedOnce, Queued
  <1>6. FrameOwnedOnce'
    BY <1>1, <1>3, <1>4, <1>5 DEF FrameOwnedOnce
  <1>7. NoLeak
    BY <1>3, <1>4 DEF Leaked, NoLeak
  <1> QED BY <1>2, <1>6, <1>7

\* waitPreviewFrame takes the first frame of the queue into a slot.
LEMMA TakeOwned ==
    ASSUME FrameInv, NEW s \in Slots, previewFrames # <<>>,
           previewFrames' = Tail(previewFrames),
           held' = [held EXCEPT ![s] = Head(previewFrames)],
           UNCHANGED <<live, pool>>
    PROVE  FrameInv' /\ held'[s] # NoFrame /\ (held[s] = NoFrame => NoLeak)
  <1> USE PoolAssumption DEF FrameInv, FrameTypeOK
  <1> DEFINE f == Head(previewFrames)
  <1>1. f \in Frames /\ f \in Queued /\ f \in live /\ f \notin pool
    BY DEF Queued, FrameOwnedOnce
  <1>2. FrameTypeOK'
    BY <1>1
  <1>3. Queued' = Queued \ {f}
    <2> DEFINE n == Len(previewFrames)
    <2>1. /\ n \in Nat \ {0} /\ DOMAIN previewFrames = 1..n
          /\ f = previewFrames[1] /\ DOMAIN previewFrames' = 1..(n - 1)
          /\ \A i \in 1..(n - 1) : previewFrames'[i] = previewFrames[i + 1]
      OBVIOUS
    <2>2. \A i, j \in 1..n : i # j => previewFrames[i] # previewFrames[j]
      BY <2>1 DEF FrameOwnedOnce
    <2>3. Queued = {previewFrames[i] : i \in 1..n}
      BY <2>1 DEF Queued
    <2>4. Queued' = {previewFrames[i + 1] : i \in 1..(n - 1)}
      <3> DEFINE m == n - 1  q == previewFrames'
      <3>1. DOMAIN q = 1..m /\ \A i \in 1..m : q[i] = previewFrames[i + 1]
        BY <2>1
      <3>2. Queued' = {q[i] : i \in DOMAIN q}
        BY DEF Queued
      <3> HIDE DEF m, q
      <3>3. {q[i] : i \in DOMAIN q} = {previewFrames[i + 1] : i \in 1..m}
        BY <3>1
      <3> QED BY <3>2, <3>3 DEF m
    <2>5. ASSUME NEW x \in Queued, x # f  PROVE x \in Queued'
      <3>1. PICK i \in 1..n : x = previewFrames[i]
        BY <2>3
      <3>2. i # 1 /\ i - 1 \in 1..(n - 1) /\ x = previewFrames[(i - 1) + 1]
        BY <2>1, <2>5, <3>1
      <3> HIDE DEF n
      <3> QED BY <2>4, <3>2
    <2>6. Queued' \subseteq Queued \ {f}
      BY <2>1, <2>2, <2>3, <2>4
    <2> QED BY <2>5, <2>6
  <1>4. HeldFrames' \subseteq HeldFrames \cup {f} /\ \A r \in Slots : held[r] # f
    BY <1>1 DEF HeldFrames, FrameOwnedOnce
  <1>5. \A i, j \in DOMAIN previewFrames' :
            i # j => previewFrames'[i] # previewFrames'[j]
    BY DEF FrameOwnedOnce
  <1>6. FrameOwnedOnce'
    BY <1>1, <1>3, <1>4, <1>5 DEF FrameOwnedOnce
  <1>7. ASSUME held[s] = NoFrame  PROVE NoLeak
    <2>1. HeldFrames' = HeldFrames \cup {f}
      BY <1>1, <1>7 DEF HeldFrames
    <2> QED BY <1>3, <2>1 DEF Leaked, NoLeak
  <1> QED BY <1>1, <1>2, <1>6, <1>7

=============================================================================
