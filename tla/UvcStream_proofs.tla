-------------------------- MODULE UvcStream_proofs --------------------------
(***************************************************************************)
(* For any number of transfers and frames: the stream handle keeps its     *)
(* types, a stop that gets to its join has waited for the last transfer,   *)
(* the handle is freed only when nothing uses it any more (unless the      *)
(* camera is unplugged, a start fails or a poller is caught, the cases in  *)
(* which the code goes wrong), whoever sleeps on a condition has a thread  *)
(* to wake it (or a transfer that was never resubmitted), and the stream   *)
(* implements the mailbox FrameFeed.                                       *)
(***************************************************************************)
EXTENDS UvcStream, TLAPS

USE DEF linkVars, holdVars, frameVars, readerVars

AllBack == \A t \in Transfers : transfers[t] = "null"

\* A transfer whose callback runs is held by the event thread; a stop joins
\* the caller only after the last transfer has come back; a stream has a
\* caller or pollers, not both.
Drained ==
    /\ event # "idle" => transfers[transfer] = "held"
    /\ op = "join" => AllBack
    /\ caller # "none" => poll = "idle"

Inv == TypeOK /\ Drained

\* The set of pending transfers is empty when every transfer is back.
LEMMA PendingEmpty == Pending = {} <=> AllBack
  BY DEF Pending, AllBack

\* The bound on the frames is a number.
LEMMA BoundNat == MAX_SEQ \in Nat
  BY StreamAssumption

-----------------------------------------------------------------------------
\* The initial states satisfy the invariant.
LEMMA InitInv == Init => Inv
  <1> SUFFICES ASSUME Init PROVE Inv
    OBVIOUS
  <1>1. CountersTypeOK
    BY StreamAssumption DEF Init, CountersTypeOK, NoData
  <1>2. ControlTypeOK
    BY DEF Init, ControlTypeOK
  <1>3. Drained
    BY DEF Init, Drained, AllBack
  <1> QED BY <1>1, <1>2, <1>3 DEF Inv, TypeOK

\* Every step of the client keeps it.
LEMMA ClientInv == Inv /\ ClientStep => Inv'
  <1> SUFFICES ASSUME Inv, ClientStep PROVE Inv'
    OBVIOUS
  <1> USE DEF Inv, TypeOK
  <1>1. CASE StartStreaming
    <2>1. CountersTypeOK'
      BY <1>1, BoundNat DEF StartStreaming, OpenCtrl, StartBandwidth, Quiet,
         NoData, CountersTypeOK
    <2>2. ControlTypeOK'
      BY <1>1, PendingEmpty DEF StartStreaming, OpenCtrl, StartBandwidth,
         Quiet, NoData, ControlTypeOK
    <2>3. Drained'
      BY <1>1, PendingEmpty DEF StartStreaming, OpenCtrl, StartBandwidth,
         Quiet, NoData, ControlTypeOK, Drained, AllBack
    <2> QED BY <2>1, <2>2, <2>3
  <1>2. CASE Submit
    <2>1. CountersTypeOK'
      BY <1>2 DEF Submit, CountersTypeOK
    <2>2. ControlTypeOK'
      BY <1>2 DEF Submit, ControlTypeOK
    <2>3. Drained'
      BY <1>2 DEF Submit, ControlTypeOK, Drained, AllBack
    <2> QED BY <2>1, <2>2, <2>3
  <1>3. CASE Started
    <2>1. CountersTypeOK'
      BY <1>3 DEF Started, CountersTypeOK
    <2>2. ControlTypeOK'
      BY <1>3 DEF Started, ControlTypeOK
    <2>3. Drained'
      BY <1>3 DEF Started, ControlTypeOK, Drained, AllBack
    <2> QED BY <2>1, <2>2, <2>3
  <1>4. CASE StartFailed
    <2>1. CountersTypeOK'
      BY <1>4 DEF StartFailed, CountersTypeOK
    <2>2. ControlTypeOK'
      BY <1>4 DEF StartFailed, ControlTypeOK
    <2>3. Drained'
      BY <1>4 DEF StartFailed, ControlTypeOK, Drained, AllBack
    <2> QED BY <2>1, <2>2, <2>3
  <1>5. CASE StopStreaming
    <2>1. CountersTypeOK'
      BY <1>5 DEF StopStreaming, CountersTypeOK
    <2>2. ControlTypeOK'
      BY <1>5 DEF StopStreaming, ControlTypeOK
    <2>3. Drained'
      BY <1>5 DEF StopStreaming, ControlTypeOK, Drained, AllBack
    <2> QED BY <2>1, <2>2, <2>3
  <1>6. CASE CloseTest
    <2>1. CountersTypeOK'
      BY <1>6 DEF CloseTest, CountersTypeOK
    <2>2. ControlTypeOK'
      BY <1>6 DEF CloseTest, ControlTypeOK
    <2>3. Drained'
      BY <1>6 DEF CloseTest, ControlTypeOK, Drained, AllBack
    <2> QED BY <2>1, <2>2, <2>3
  <1>7. CASE StopFlag
    <2>1. CountersTypeOK'
      BY <1>7 DEF StopFlag, CountersTypeOK
    <2>2. ControlTypeOK'
      BY <1>7 DEF StopFlag, ControlTypeOK
    <2>3. Drained'
      BY <1>7 DEF StopFlag, ControlTypeOK, Drained, AllBack
    <2> QED BY <2>1, <2>2, <2>3
  <1>8. CASE StopCancel
    <2>1. CountersTypeOK'
      BY <1>8 DEF StopCancel, AwaitTransfers, CountersTypeOK
    <2>2. waiting' \subseteq {"client", "caller", "poller"}
      BY <1>8, PendingEmpty DEF StopCancel, AwaitTransfers, ControlTypeOK
    <2>3. /\ op' \in {"idle", "submit", "failed", "close", "stop", "cancel",
                     "wait", "join", "free"}
          /\ caller' \in {"none", "test", "taken", "callback", "ended"}
          /\ poll' \in {"idle", "entered", "waiting", "filled", "using"}
      BY <1>8, PendingEmpty DEF StopCancel, AwaitTransfers, ControlTypeOK
    <2>4. UNCHANGED <<open, running, gone, bfh_err, hold_bfh_err, transfers,
                      transfer, event>> /\ cancelled' \subseteq Transfers
      BY <1>8, PendingEmpty DEF StopCancel, AwaitTransfers, ControlTypeOK
    <2>5. ControlTypeOK'
      BY <2>2, <2>3, <2>4 DEF ControlTypeOK
    <2>6. Drained'
      BY <1>8, PendingEmpty DEF StopCancel, AwaitTransfers, ControlTypeOK,
         Drained, AllBack
    <2> QED BY <2>1, <2>5, <2>6
  <1>9. CASE StopWoken
    <2>1. CountersTypeOK'
      BY <1>9 DEF StopWoken, AwaitTransfers, CountersTypeOK
    <2>2. waiting' \subseteq {"client", "caller", "poller"}
      BY <1>9, PendingEmpty DEF StopWoken, AwaitTransfers, ControlTypeOK
    <2>3. /\ op' \in {"idle", "submit", "failed", "close", "stop", "cancel",
                     "wait", "join", "free"}
          /\ caller' \in {"none", "test", "taken", "callback", "ended"}
          /\ poll' \in {"idle", "entered", "waiting", "filled", "using"}
      BY <1>9, PendingEmpty DEF StopWoken, AwaitTransfers, ControlTypeOK
    <2>4. UNCHANGED <<open, running, gone, bfh_err, hold_bfh_err, transfers,
                      transfer, event>> /\ cancelled' \subseteq Transfers
      BY <1>9, PendingEmpty DEF StopWoken, AwaitTransfers, ControlTypeOK
    <2>5. ControlTypeOK'
      BY <2>2, <2>3, <2>4 DEF ControlTypeOK
    <2>6. Drained'
      BY <1>9, PendingEmpty DEF StopWoken, AwaitTransfers, ControlTypeOK,
         Drained, AllBack
    <2> QED BY <2>1, <2>5, <2>6
  <1>10. CASE StopJoin
    <2>1. CountersTypeOK'
      BY <1>10 DEF StopJoin, CountersTypeOK
    <2>2. ControlTypeOK'
      BY <1>10 DEF StopJoin, ControlTypeOK
    <2>3. Drained'
      BY <1>10 DEF StopJoin, ControlTypeOK, Drained, AllBack
    <2> QED BY <2>1, <2>2, <2>3
  <1>11. CASE Free
    <2>1. CountersTypeOK'
      BY <1>11 DEF Free, CountersTypeOK
    <2>2. ControlTypeOK'
      BY <1>11 DEF Free, ControlTypeOK
    <2>3. Drained'
      BY <1>11 DEF Free, ControlTypeOK, Drained, AllBack
    <2> QED BY <2>1, <2>2, <2>3
  <1> QED BY <1>1, <1>2, <1>3, <1>4, <1>5, <1>6, <1>7, <1>8, <1>9, <1>10, <1>11
       DEF ClientStep

\* While the client joins, no transfer is left for the event thread.
LEMMA EventInv == Inv /\ EventThreadStep => Inv'
  <1> SUFFICES ASSUME Inv, EventThreadStep PROVE Inv'
    OBVIOUS
  <1> USE DEF Inv, TypeOK
  <1>1. ASSUME NEW t \in Transfers, CompleteData(t) PROVE Inv'
    <2>1. CountersTypeOK'
      BY <1>1 DEF CompleteData, Completed, EventOnly, CountersTypeOK
    <2>2. ControlTypeOK'
      BY <1>1 DEF CompleteData, Completed, EventOnly, ControlTypeOK
    <2>3. Drained'
      BY <1>1 DEF CompleteData, Completed, EventOnly, ControlTypeOK, Drained,
         AllBack
    <2> QED BY <2>1, <2>2, <2>3
  <1>2. ASSUME NEW t \in Transfers, CompleteRetry(t) PROVE Inv'
    <2>1. CountersTypeOK'
      BY <1>2 DEF CompleteRetry, Completed, EventOnly, CountersTypeOK
    <2>2. ControlTypeOK'
      BY <1>2 DEF CompleteRetry, Completed, EventOnly, ControlTypeOK
    <2>3. Drained'
      BY <1>2 DEF CompleteRetry, Completed, EventOnly, ControlTypeOK, Drained,
         AllBack
    <2> QED BY <2>1, <2>2, <2>3
  <1>3. ASSUME NEW t \in Transfers, CompleteStopped(t) PROVE Inv'
    <2>1. CountersTypeOK'
      BY <1>3 DEF CompleteStopped, Completed, EventOnly, CountersTypeOK
    <2>2. ControlTypeOK'
      BY <1>3 DEF CompleteStopped, Completed, EventOnly, ControlTypeOK
    <2>3. Drained'
      BY <1>3 DEF CompleteStopped, Completed, EventOnly, ControlTypeOK,
         Drained, AllBack
    <2> QED BY <2>1, <2>2, <2>3
  <1>4. ASSUME NEW t \in Transfers, CompleteNoDevice(t) PROVE Inv'
    <2>1. CountersTypeOK'
      BY <1>4 DEF CompleteNoDevice, Completed, EventOnly, CountersTypeOK
    <2>2. ControlTypeOK'
      BY <1>4 DEF CompleteNoDevice, Completed, EventOnly, ControlTypeOK
    <2>3. Drained'
      BY <1>4 DEF CompleteNoDevice, Completed, EventOnly, ControlTypeOK,
         Drained, AllBack
    <2> QED BY <2>1, <2>2, <2>3
  <1>5. CASE MarkBroken
    <2>1. CountersTypeOK'
      BY <1>5 DEF MarkBroken, EventOnly, CountersTypeOK
    <2>2. ControlTypeOK'
      BY <1>5 DEF MarkBroken, EventOnly, ControlTypeOK
    <2>3. Drained'
      BY <1>5 DEF MarkBroken, EventOnly, ControlTypeOK, Drained, AllBack
    <2> QED BY <2>1, <2>2, <2>3
  <1>6. CASE SwapBuffers
    <2>1. CountersTypeOK'
      BY <1>6, BoundNat DEF SwapBuffers, EventOnly, CountersTypeOK
    <2>2. ControlTypeOK'
      BY <1>6 DEF SwapBuffers, EventOnly, ControlTypeOK
    <2>3. Drained'
      BY <1>6 DEF SwapBuffers, EventOnly, ControlTypeOK, Drained, AllBack
    <2> QED BY <2>1, <2>2, <2>3
  <1>7. CASE Processed
    <2>1. CountersTypeOK'
      BY <1>7 DEF Processed, EventOnly, CountersTypeOK
    <2>2. ControlTypeOK'
      BY <1>7 DEF Processed, EventOnly, ControlTypeOK
    <2>3. Drained'
      BY <1>7 DEF Processed, EventOnly, ControlTypeOK, Drained, AllBack
    <2> QED BY <2>1, <2>2, <2>3
  <1>8. CASE Decide
    <2>1. CountersTypeOK'
      BY <1>8 DEF Decide, EventOnly, CountersTypeOK
    <2>2. ControlTypeOK'
      BY <1>8 DEF Decide, EventOnly, ControlTypeOK
    <2>3. Drained'
      BY <1>8 DEF Decide, EventOnly, ControlTypeOK, Drained, AllBack
    <2> QED BY <2>1, <2>2, <2>3
  <1>9. CASE Resubmit
    <2>1. CountersTypeOK'
      BY <1>9 DEF Resubmit, EventOnly, CountersTypeOK
    <2>2. ControlTypeOK'
      BY <1>9 DEF Resubmit, EventOnly, ControlTypeOK
    <2>3. Drained'
      BY <1>9 DEF Resubmit, EventOnly, ControlTypeOK, Drained, AllBack
    <2> QED BY <2>1, <2>2, <2>3
  <1>10. CASE DeleteTransfer
    <2>1. CountersTypeOK'
      BY <1>10 DEF DeleteTransfer, EventOnly, CountersTypeOK
    <2>2. ControlTypeOK'
      BY <1>10 DEF DeleteTransfer, EventOnly, ControlTypeOK
    <2>3. Drained'
      BY <1>10 DEF DeleteTransfer, EventOnly, ControlTypeOK, Drained, AllBack
    <2> QED BY <2>1, <2>2, <2>3
  <1> QED BY <1>1, <1>2, <1>3, <1>4, <1>5, <1>6, <1>7, <1>8, <1>9, <1>10
       DEF EventThreadStep

\* Every step of a listener, and of the environment, keeps it.
LEMMA ListenerInv == Inv /\ (CallerStep \/ PollerStep \/ SpuriousWakeup \/ Unplug) => Inv'
  <1> SUFFICES ASSUME Inv, CallerStep \/ PollerStep \/ SpuriousWakeup \/ Unplug
       PROVE Inv'
    OBVIOUS
  <1> USE DEF Inv, TypeOK
  <1>1. CASE CallerTest
    <2>1. CountersTypeOK'
      BY <1>1 DEF CallerTest, ReaderOnly, CountersTypeOK
    <2>2. waiting' \subseteq {"client", "caller", "poller"}
      BY <1>1 DEF CallerTest, ControlTypeOK
    <2>3. /\ op' \in {"idle", "submit", "failed", "close", "stop", "cancel",
                     "wait", "join", "free"}
          /\ caller' \in {"none", "test", "taken", "callback", "ended"}
          /\ poll' \in {"idle", "entered", "waiting", "filled", "using"}
      BY <1>1 DEF CallerTest, ReaderOnly, ControlTypeOK
    <2>4. UNCHANGED <<open, running, gone, bfh_err, hold_bfh_err, transfers,
                      transfer, event>> /\ cancelled' \subseteq Transfers
      BY <1>1 DEF CallerTest, ReaderOnly, ControlTypeOK
    <2>5. ControlTypeOK'
      BY <2>2, <2>3, <2>4 DEF ControlTypeOK
    <2>6. Drained'
      BY <1>1 DEF CallerTest, ReaderOnly, ControlTypeOK, Drained, AllBack
    <2> QED BY <2>1, <2>5, <2>6
  <1>2. CASE CallerCall
    <2>1. CountersTypeOK'
      BY <1>2 DEF CallerCall, ReaderOnly, CountersTypeOK
    <2>2. ControlTypeOK'
      BY <1>2 DEF CallerCall, ReaderOnly, ControlTypeOK
    <2>3. Drained'
      BY <1>2 DEF CallerCall, ReaderOnly, ControlTypeOK, Drained, AllBack
    <2> QED BY <2>1, <2>2, <2>3
  <1>3. CASE CallerReturn
    <2>1. CountersTypeOK'
      BY <1>3 DEF CallerReturn, ReaderOnly, CountersTypeOK
    <2>2. ControlTypeOK'
      BY <1>3 DEF CallerReturn, ReaderOnly, ControlTypeOK
    <2>3. Drained'
      BY <1>3 DEF CallerReturn, ReaderOnly, ControlTypeOK, Drained, AllBack
    <2> QED BY <2>1, <2>2, <2>3
  <1>4. CASE PollEnter
    <2>1. CountersTypeOK'
      BY <1>4 DEF PollEnter, ReaderOnly, CountersTypeOK
    <2>2. ControlTypeOK'
      BY <1>4 DEF PollEnter, ReaderOnly, ControlTypeOK
    <2>3. Drained'
      BY <1>4 DEF PollEnter, ReaderOnly, ControlTypeOK, Drained, AllBack
    <2> QED BY <2>1, <2>2, <2>3
  <1>5. CASE PollReturn
    <2>1. CountersTypeOK'
      BY <1>5 DEF PollReturn, ReaderOnly, CountersTypeOK
    <2>2. ControlTypeOK'
      BY <1>5 DEF PollReturn, ReaderOnly, ControlTypeOK
    <2>3. Drained'
      BY <1>5 DEF PollReturn, ReaderOnly, ControlTypeOK, Drained, AllBack
    <2> QED BY <2>1, <2>2, <2>3
  <1>6. CASE PollUsed
    <2>1. CountersTypeOK'
      BY <1>6 DEF PollUsed, ReaderOnly, CountersTypeOK
    <2>2. ControlTypeOK'
      BY <1>6 DEF PollUsed, ReaderOnly, ControlTypeOK
    <2>3. Drained'
      BY <1>6 DEF PollUsed, ReaderOnly, ControlTypeOK, Drained, AllBack
    <2> QED BY <2>1, <2>2, <2>3
  <1>7. CASE PollTest
    <2>1. CountersTypeOK'
      BY <1>7 DEF PollTest, PollTake, ReaderOnly, CountersTypeOK
    <2>2. waiting' \subseteq {"client", "caller", "poller"}
      BY <1>7 DEF PollTest, PollTake, ControlTypeOK
    <2>3. /\ op' \in {"idle", "submit", "failed", "close", "stop", "cancel",
                     "wait", "join", "free"}
          /\ caller' \in {"none", "test", "taken", "callback", "ended"}
          /\ poll' \in {"idle", "entered", "waiting", "filled", "using"}
      BY <1>7 DEF PollTest, PollTake, ReaderOnly, ControlTypeOK
    <2>4. UNCHANGED <<open, running, gone, bfh_err, hold_bfh_err, transfers,
                      transfer, event>> /\ cancelled' \subseteq Transfers
      BY <1>7 DEF PollTest, PollTake, ReaderOnly, ControlTypeOK
    <2>5. ControlTypeOK'
      BY <2>2, <2>3, <2>4 DEF ControlTypeOK
    <2>6. Drained'
      BY <1>7 DEF PollTest, PollTake, ReaderOnly, ControlTypeOK, Drained,
         AllBack
    <2> QED BY <2>1, <2>5, <2>6
  <1>8. CASE PollWoken
    <2>1. CountersTypeOK'
      BY <1>8 DEF PollWoken, PollTake, ReaderOnly, CountersTypeOK
    <2>2. waiting' \subseteq {"client", "caller", "poller"}
      BY <1>8 DEF PollWoken, PollTake, ControlTypeOK
    <2>3. /\ op' \in {"idle", "submit", "failed", "close", "stop", "cancel",
                     "wait", "join", "free"}
          /\ caller' \in {"none", "test", "taken", "callback", "ended"}
          /\ poll' \in {"idle", "entered", "waiting", "filled", "using"}
      BY <1>8 DEF PollWoken, PollTake, ReaderOnly, ControlTypeOK
    <2>4. UNCHANGED <<open, running, gone, bfh_err, hold_bfh_err, transfers,
                      transfer, event>> /\ cancelled' \subseteq Transfers
      BY <1>8 DEF PollWoken, PollTake, ReaderOnly, ControlTypeOK
    <2>5. ControlTypeOK'
      BY <2>2, <2>3, <2>4 DEF ControlTypeOK
    <2>6. Drained'
      BY <1>8 DEF PollWoken, PollTake, ReaderOnly, ControlTypeOK, Drained,
         AllBack
    <2> QED BY <2>1, <2>5, <2>6
  <1>9. CASE SpuriousWakeup
    <2>1. CountersTypeOK'
      BY <1>9 DEF SpuriousWakeup, ReaderOnly, CountersTypeOK
    <2>2. ControlTypeOK'
      BY <1>9 DEF SpuriousWakeup, ReaderOnly, ControlTypeOK
    <2>3. Drained'
      BY <1>9 DEF SpuriousWakeup, ReaderOnly, ControlTypeOK, Drained, AllBack
    <2> QED BY <2>1, <2>2, <2>3
  <1>10. CASE Unplug
    <2>1. CountersTypeOK'
      BY <1>10 DEF Unplug, CountersTypeOK
    <2>2. ControlTypeOK'
      BY <1>10 DEF Unplug, ControlTypeOK
    <2>3. Drained'
      BY <1>10 DEF Unplug, ControlTypeOK, Drained, AllBack
    <2> QED BY <2>1, <2>2, <2>3
  <1> QED BY <1>1, <1>2, <1>3, <1>4, <1>5, <1>6, <1>7, <1>8, <1>9, <1>10
       DEF CallerStep, PollerStep

\* The invariant of the stream handle.
LEMMA Invariance == Spec => []Inv
  <1>1. Inv /\ UNCHANGED vars => Inv'
    BY DEF Inv, TypeOK, CountersTypeOK, ControlTypeOK, Drained, AllBack, vars
  <1>2. Inv /\ [Next]_vars => Inv'
    BY <1>1, ClientInv, EventInv, ListenerInv DEF Next
  <1> QED BY InitInv, <1>2, PTL DEF Spec

\* Every variable of the stream handle has its type.
THEOREM TypeCorrect == Spec => []TypeOK
  <1>1. Inv => TypeOK
    BY DEF Inv
  <1> QED BY Invariance, <1>1, PTL

\* When uvc_stream_stop goes to join the caller thread, libusb has given
\* every transfer back and the event thread is out of the stream callback.
THEOREM StopDrains == Spec => []StoppedIsDrained
  <1>1. Inv => StoppedIsDrained
    BY PendingEmpty DEF Inv, TypeOK, ControlTypeOK, Drained, AllBack,
       StoppedIsDrained
  <1> QED BY Invariance, <1>1, PTL
-----------------------------------------------------------------------------
\* While the camera stays, no start fails and no poller is caught: an open
\* stream runs until it is stopped, so that uvc_stream_close never skips the
\* stop, nor the stop its work, and a handle about to be freed has lost all its
\* users.
Stopped ==
    /\ ~open => op = "idle"
    /\ ~open \/ op # "idle" => poll = "idle"
    /\ ~gone =>
         /\ op # "failed"
         /\ open /\ op \in {"idle", "submit", "close", "stop"} => running
         /\ op = "free" \/ ~open => AllBack /\ caller \in {"none", "ended"}

\* Every step of the client keeps that.
LEMMA ClientStopped ==
    ASSUME "submit" \notin Faults, "caught" \notin Faults,
           Inv, Stopped, ClientStep
    PROVE  Stopped'
  <1> USE DEF Stopped, AllBack
  <1>0. ControlTypeOK /\ Drained
    BY DEF Inv, TypeOK
  <1>1. CASE StartStreaming
    BY <1>0, <1>1 DEF StartStreaming, ControlTypeOK, Drained, OpenCtrl,
       StartBandwidth, Quiet
  <1>2. CASE Submit
    BY <1>0, <1>2 DEF Submit, ControlTypeOK, Drained
  <1>3. CASE Started
    BY <1>0, <1>3 DEF Started, ControlTypeOK, Drained
  <1>4. CASE StartFailed
    BY <1>0, <1>4 DEF StartFailed, ControlTypeOK, Drained
  <1>5. CASE StopStreaming
    BY <1>0, <1>5 DEF StopStreaming, ControlTypeOK, Drained
  <1>6. CASE CloseTest
    BY <1>0, <1>6 DEF CloseTest, ControlTypeOK, Drained
  <1>7. CASE StopFlag
    BY <1>0, <1>7 DEF StopFlag, ControlTypeOK, Drained
  <1>8. CASE StopCancel
    BY <1>0, <1>8 DEF StopCancel, ControlTypeOK, Drained, AwaitTransfers
  <1>9. CASE StopWoken
    BY <1>0, <1>9 DEF StopWoken, ControlTypeOK, Drained, AwaitTransfers
  <1>10. CASE StopJoin
    BY <1>0, <1>10 DEF StopJoin, ControlTypeOK, Drained
  <1>11. CASE Free
    BY <1>0, <1>11 DEF Free, ControlTypeOK, Drained
  <1> QED BY <1>1, <1>2, <1>3, <1>4, <1>5, <1>6, <1>7, <1>8, <1>9, <1>10, <1>11
       DEF ClientStep

\* Every other step keeps it, while the camera stays.
LEMMA OthersStopped ==
    ASSUME "caught" \notin Faults, Inv, Stopped,
           EventThreadStep \/ CallerStep \/ PollerStep
             \/ (open /\ SpuriousWakeup) \/ Unplug
    PROVE  Stopped'
  <1> USE DEF Stopped, AllBack
  <1>0. ControlTypeOK /\ Drained
    BY DEF Inv, TypeOK
  <1>1. ASSUME NEW t \in Transfers, open, CompleteData(t) PROVE Stopped'
    BY <1>0, <1>1 DEF CompleteData, Completed, EventOnly, ControlTypeOK, Drained
  <1>2. ASSUME NEW t \in Transfers, open, CompleteRetry(t) PROVE Stopped'
    BY <1>0, <1>2 DEF CompleteRetry, Completed, EventOnly, ControlTypeOK,
       Drained
  <1>3. ASSUME NEW t \in Transfers, open, CompleteStopped(t) PROVE Stopped'
    BY <1>0, <1>3 DEF CompleteStopped, Completed, EventOnly, ControlTypeOK,
       Drained
  <1>4. ASSUME NEW t \in Transfers, open, CompleteNoDevice(t) PROVE Stopped'
    BY <1>0, <1>4 DEF CompleteNoDevice, Completed, EventOnly, ControlTypeOK,
       Drained
  <1>5. CASE open /\ MarkBroken
    BY <1>0, <1>5 DEF MarkBroken, EventOnly, ControlTypeOK, Drained
  <1>6. CASE open /\ SwapBuffers
    BY <1>0, <1>6 DEF SwapBuffers, EventOnly, ControlTypeOK, Drained
  <1>7. CASE open /\ Processed
    BY <1>0, <1>7 DEF Processed, EventOnly, ControlTypeOK, Drained
  <1>8. CASE open /\ Decide
    BY <1>0, <1>8 DEF Decide, EventOnly, ControlTypeOK, Drained
  <1>9. CASE open /\ Resubmit
    BY <1>0, <1>9 DEF Resubmit, EventOnly, ControlTypeOK, Drained
  <1>10. CASE open /\ DeleteTransfer
    BY <1>0, <1>10 DEF DeleteTransfer, EventOnly, ControlTypeOK, Drained
  <1>11. CASE open /\ CallerTest
    BY <1>0, <1>11 DEF CallerTest, ReaderOnly, ControlTypeOK, Drained
  <1>12. CASE open /\ CallerCall
    BY <1>0, <1>12 DEF CallerCall, ReaderOnly, ControlTypeOK, Drained
  <1>13. CASE open /\ CallerReturn
    BY <1>0, <1>13 DEF CallerReturn, ReaderOnly, ControlTypeOK, Drained
  <1>14. CASE open /\ PollEnter
    BY <1>0, <1>14 DEF PollEnter, ReaderOnly, ControlTypeOK, Drained
  <1>15. CASE open /\ PollTest
    BY <1>0, <1>15 DEF PollTest, PollTake, ReaderOnly, ControlTypeOK, Drained
  <1>16. CASE open /\ PollWoken
    BY <1>0, <1>16 DEF PollWoken, PollTake, ReaderOnly, ControlTypeOK, Drained
  <1>17. CASE open /\ PollReturn
    BY <1>0, <1>17 DEF PollReturn, ReaderOnly, ControlTypeOK, Drained
  <1>18. CASE open /\ PollUsed
    BY <1>0, <1>18 DEF PollUsed, ReaderOnly, ControlTypeOK, Drained
  <1>19. CASE open /\ SpuriousWakeup
    BY <1>0, <1>19 DEF SpuriousWakeup, ReaderOnly, ControlTypeOK, Drained
  <1>20. CASE Unplug
    BY <1>20 DEF Unplug
  <1> QED BY <1>1, <1>2, <1>3, <1>4, <1>5, <1>6, <1>7, <1>8, <1>9, <1>10,
       <1>11, <1>12, <1>13, <1>14, <1>15, <1>16, <1>17, <1>18, <1>19, <1>20
     DEF EventThreadStep, CallerStep, PollerStep

\* When no start fails and no poller is caught by the stop, the handle is
\* freed only after libusb has given back every transfer, the caller has ended
\* and no poller is inside; or after the camera was unplugged.
THEOREM FreedQuietly ==
    ASSUME "submit" \notin Faults, "caught" \notin Faults
    PROVE  Spec => []FreedIsQuiet
  <1>1. Init => Stopped
    BY DEF Init, Stopped, AllBack
  <1>2. Inv /\ Stopped /\ UNCHANGED vars => Stopped'
    BY DEF Stopped, AllBack, vars
  <1>3. Inv /\ Stopped /\ [Next]_vars => Stopped'
    BY <1>2, ClientStopped, OthersStopped DEF Next
  <1>4. Stopped => FreedIsQuiet
    BY PendingEmpty DEF Stopped, FreedIsQuiet, Quiet
  <1> QED BY Invariance, <1>1, <1>3, <1>4, PTL DEF Spec

-----------------------------------------------------------------------------
(* Who waits at cb_cond                                                     *)

\* The client waits only while a transfer is out; the caller waits only while it
\* has seen the newest frame, and when the stream is over somebody is about to
\* tell it; the transfers of a stream that can be stopped were all submitted.
Waits ==
    /\ op # "idle" => open
    /\ op \in {"cancel", "wait", "join"} => ~running
    /\ open /\ (\E t \in Transfers : transfers[t] = "alloc") =>
          op \in {"submit", "failed"} \/ (op \in {"close", "free"} /\ ~running)
    /\ \A t \in Transfers : transfers[t] = "held" => t = transfer /\ event # "idle"
    /\ "client" \in waiting => op = "wait" /\ ~AllBack
    /\ "caller" \in waiting =>
          /\ caller = "test"
          /\ running => last_seq = hold_seq
          /\ \/ running \/ event = "delete" \/ ~open
             \/ op \in {"cancel", "wait", "close", "free"}

\* A stop does not go to join a caller that sleeps, and wakes whoever sleeps when
\* there is nothing left to wait for.
LEMMA ClientWaits == Inv /\ Waits /\ ClientStep => Waits'
  <1> SUFFICES ASSUME Inv, Waits, ClientStep PROVE Waits'
    OBVIOUS
  <1> USE DEF Waits, AllBack
  <1>0. ControlTypeOK /\ Drained
    BY DEF Inv, TypeOK
  <1> USE DEF ControlTypeOK, Drained
  <1>1. CASE StartStreaming
    BY <1>0, <1>1 DEF StartStreaming, OpenCtrl, StartBandwidth, Quiet, Pending
  <1>2. CASE Submit
    BY <1>0, <1>2 DEF Submit
  <1>3. CASE Started
    BY <1>0, <1>3 DEF Started
  <1>4. CASE StartFailed
    BY <1>0, <1>4 DEF StartFailed
  <1>5. CASE StopStreaming
    BY <1>0, <1>5 DEF StopStreaming
  <1>6. CASE CloseTest
    BY <1>0, <1>6 DEF CloseTest
  <1>7. CASE StopFlag
    BY <1>0, <1>7 DEF StopFlag
  <1>8. CASE StopCancel
    BY <1>0, <1>8 DEF StopCancel, AwaitTransfers, Pending
  <1>9. CASE StopWoken
    BY <1>0, <1>9 DEF StopWoken, AwaitTransfers, Pending
  <1>10. CASE StopJoin
    BY <1>0, <1>10 DEF StopJoin
  <1>11. CASE Free
    BY <1>0, <1>11 DEF Free
  <1> QED BY <1>1, <1>2, <1>3, <1>4, <1>5, <1>6, <1>7, <1>8, <1>9, <1>10, <1>11
       DEF ClientStep

\* Whoever changes what the others wait for wakes them.
LEMMA OthersWait ==
    ASSUME Inv, Waits,
           EventThreadStep \/ CallerStep \/ PollerStep
             \/ (open /\ SpuriousWakeup) \/ Unplug
    PROVE  Waits'
  <1> USE DEF Waits, AllBack
  <1>0. ControlTypeOK /\ Drained
    BY DEF Inv, TypeOK
  <1> USE DEF ControlTypeOK, Drained
  <1>1. ASSUME NEW t \in Transfers, open, CompleteData(t) PROVE Waits'
    BY <1>0, <1>1 DEF CompleteData, Completed, EventOnly
  <1>2. ASSUME NEW t \in Transfers, open, CompleteRetry(t) PROVE Waits'
    BY <1>0, <1>2 DEF CompleteRetry, Completed, EventOnly
  <1>3. ASSUME NEW t \in Transfers, open, CompleteStopped(t) PROVE Waits'
    BY <1>0, <1>3 DEF CompleteStopped, Completed, EventOnly
  <1>4. ASSUME NEW t \in Transfers, open, CompleteNoDevice(t) PROVE Waits'
    BY <1>0, <1>4 DEF CompleteNoDevice, Completed, EventOnly
  <1>5. CASE open /\ MarkBroken
    BY <1>0, <1>5 DEF MarkBroken, EventOnly
  <1>6. CASE open /\ SwapBuffers
    BY <1>0, <1>6 DEF SwapBuffers, EventOnly
  <1>7. CASE open /\ Processed
    BY <1>0, <1>7 DEF Processed, EventOnly
  <1>8. CASE open /\ Decide
    BY <1>0, <1>8 DEF Decide, EventOnly
  <1>9. CASE open /\ Resubmit
    BY <1>0, <1>9 DEF Resubmit, EventOnly
  <1>10. CASE open /\ DeleteTransfer
    BY <1>0, <1>10 DEF DeleteTransfer, EventOnly
  <1>11. CASE open /\ CallerTest
    BY <1>0, <1>11 DEF CallerTest, ReaderOnly
  <1>12. CASE open /\ CallerCall
    BY <1>0, <1>12 DEF CallerCall, ReaderOnly
  <1>13. CASE open /\ CallerReturn
    BY <1>0, <1>13 DEF CallerReturn, ReaderOnly
  <1>14. CASE open /\ PollEnter
    BY <1>0, <1>14 DEF PollEnter, ReaderOnly
  <1>15. CASE open /\ PollTest
    BY <1>0, <1>15 DEF PollTest, PollTake, ReaderOnly
  <1>16. CASE open /\ PollWoken
    BY <1>0, <1>16 DEF PollWoken, PollTake, ReaderOnly
  <1>17. CASE open /\ PollReturn
    BY <1>0, <1>17 DEF PollReturn, ReaderOnly
  <1>18. CASE open /\ PollUsed
    BY <1>0, <1>18 DEF PollUsed, ReaderOnly
  <1>19. CASE open /\ SpuriousWakeup
    BY <1>0, <1>19 DEF SpuriousWakeup, ReaderOnly
  <1>20. CASE Unplug
    BY <1>0, <1>20 DEF Unplug
  <1> QED BY <1>1, <1>2, <1>3, <1>4, <1>5, <1>6, <1>7, <1>8, <1>9, <1>10, <1>11,
       <1>12, <1>13, <1>14, <1>15, <1>16, <1>17, <1>18, <1>19, <1>20
     DEF EventThreadStep, CallerStep, PollerStep

\* No wake-up is lost: uvc_stream_stop waits only for a transfer that libusb or
\* the event thread has, or whose resubmission failed; the caller thread sleeps
\* only on a frame it has seen; when the stream is over it sleeps only until the
\* transfer that found the camera gone is deleted, or until the stop or the close
\* that is under way; and nobody joins it asleep.
WaitsServed ==
    /\ "client" \in waiting =>
          \E t \in Transfers :
             \/ transfers[t] \in {"submitted", "lost"}
             \/ transfers[t] = "held" /\ t = transfer /\ event # "idle"
    /\ "caller" \in waiting /\ running => last_seq = hold_seq
    /\ "caller" \in waiting /\ open /\ ~running =>
          event = "delete" \/ op \in {"cancel", "wait", "close", "free"}
    /\ op = "join" => "caller" \notin waiting

\* For any number of transfers, with all the faults: the safe part of StopReturns,
\* CallerEnds and HeldFrameTaken.
THEOREM WaitsAlwaysServed == Spec => []WaitsServed
  <1>1. Init => Waits
    BY DEF Init, Waits
  <1>2. Inv /\ Waits /\ UNCHANGED vars => Waits'
    BY DEF Waits, AllBack, vars
  <1>3. Inv /\ Waits /\ [Next]_vars => Waits'
    BY <1>2, ClientWaits, OthersWait DEF Next
  <1>4. Inv /\ Waits => WaitsServed
    <2> SUFFICES ASSUME Inv, Waits PROVE WaitsServed
      OBVIOUS
    <2>0. ControlTypeOK /\ Drained
      BY DEF Inv, TypeOK
    <2>1. ASSUME "client" \in waiting
          PROVE  \E t \in Transfers :
                    \/ transfers[t] \in {"submitted", "lost"}
                    \/ transfers[t] = "held" /\ t = transfer /\ event # "idle"
      <3>1. PICK t \in Transfers : transfers[t] # "null"
        BY <2>1 DEF Waits, AllBack
      <3>2. transfers[t] # "alloc"
        BY <2>1 DEF Waits
      <3>3. transfers[t] \in {"submitted", "held", "lost"}
        BY <2>0, <3>1, <3>2 DEF ControlTypeOK
      <3> QED BY <3>3 DEF Waits
    <2>2. op = "join" => event = "idle" /\ open /\ ~running
      BY <2>0 DEF Drained, AllBack, ControlTypeOK, Waits
    <2> QED BY <2>1, <2>2 DEF Waits, WaitsServed
  <1> QED BY Invariance, <1>1, <1>3, <1>4, PTL DEF Spec

-----------------------------------------------------------------------------
\* The data of a frame is numbered one above hold_seq; a listener has copied
\* no frame newer than its last sequence number names, a poller that very one;
\* and it owes the user what it copied last, unless the frame it took was broken.
Mailbox ==
    /\ holdbuf = seq /\ hold_seq = IF seq = 0 THEN 0 ELSE seq - 1
    /\ last_seq <= hold_seq /\ last_polled_seq <= hold_seq
    /\ caller # "none" => frame <= IF last_seq = 0 THEN 0 ELSE last_seq + 1
    /\ caller = "none" =>
         frame = IF last_polled_seq = 0 THEN 0 ELSE last_polled_seq + 1
    /\ delivered <= frame
    /\ caller = "none" =>
         IF poll = "filled" THEN delivered < frame ELSE delivered = frame

\* What a step owes to the mailbox: the invariant and a step of FrameFeed.
Feeds == Mailbox' /\ [Feed!FeedNext]_(Feed!feedVars)

\* Steps that touch neither frames nor listeners say nothing to the mailbox.
LEMMA FeedStutters ==
    ASSUME Mailbox, UNCHANGED <<seq, hold_seq, hold_bfh_err, holdbuf, caller,
       poll, readerVars>>
    PROVE  Feeds
  BY DEF Mailbox, Feeds, Feed!feedVars

\* A step of the client opens a new mailbox or leaves the mailbox alone.
LEMMA ClientFeeds ==
    ASSUME Inv, Mailbox, ClientStep
    PROVE  Feeds
  <1>1. CASE StartStreaming
    <2>1. ControlTypeOK /\ Drained
      BY DEF Inv, TypeOK
    <2>2. Feed!Open
      BY <1>1, <2>1 DEF StartStreaming, OpenCtrl, StartBandwidth, Quiet, NoData,
         Feed!Open, Feed!FeedInit
    <2>3. /\ seq' = 0 /\ hold_seq' = 0 /\ holdbuf' = 0 /\ last_seq' = 0
          /\ last_polled_seq' = 0 /\ frame' = 0 /\ delivered' = 0
          /\ caller' \in {"test", "none"} /\ poll' = "idle"
      BY <1>1 DEF StartStreaming, OpenCtrl, StartBandwidth, NoData, Quiet
    <2>4. Mailbox'
      BY <2>3 DEF Mailbox
    <2> QED BY <2>2, <2>4 DEF Feeds, Feed!FeedNext
  <1>2. CASE Submit \/ Started \/ StartFailed \/ StopStreaming \/ CloseTest
               \/ StopFlag \/ StopCancel \/ StopWoken \/ StopJoin \/ Free
    BY <1>2, FeedStutters DEF Submit, Started, StartFailed, StopStreaming,
       CloseTest, StopFlag, StopCancel, StopWoken, StopJoin, Free
  <1> QED BY <1>1, <1>2 DEF ClientStep

\* The event thread publishes a frame, good or broken, when it swaps the buffers.
LEMMA EventFeeds ==
    ASSUME Inv, Mailbox, EventThreadStep
    PROVE  Feeds
  <1>1. CASE SwapBuffers
    <2>0. CountersTypeOK /\ ControlTypeOK /\ MAX_SEQ \in Nat
      BY BoundNat DEF Inv, TypeOK
    <2>1. /\ seq' = seq + 1 /\ holdbuf' = seq + 1 /\ hold_seq' = seq
          /\ hold_bfh_err' \in BOOLEAN
          /\ UNCHANGED <<caller, poll, last_seq, last_polled_seq, frame,
             delivered>>
      BY <1>1, <2>0 DEF SwapBuffers, EventOnly, ControlTypeOK
    <2>2. Feed!Publish
      BY <2>1 DEF Feed!Publish
    <2>3. Mailbox'
      BY <2>0, <2>1 DEF CountersTypeOK, Mailbox
    <2> QED BY <2>2, <2>3 DEF Feeds, Feed!FeedNext
  <1>2. CASE ~SwapBuffers
    <2>1. UNCHANGED <<seq, hold_seq, hold_bfh_err, holdbuf, caller, poll,
             readerVars>>
      BY <1>2 DEF EventThreadStep, CompleteData, CompleteRetry, CompleteStopped,
         CompleteNoDevice, Completed, MarkBroken, Processed, Decide, Resubmit,
         DeleteTransfer, EventOnly
    <2> QED BY <2>1, FeedStutters
  <1> QED BY <1>1, <1>2

\* The caller takes what is newer than its last, and gives it once; it passes
\* over a broken frame, and may then give its last one again.
LEMMA CallerFeeds ==
    ASSUME Inv, Mailbox, CallerStep
    PROVE  Feeds
  <1>0. CountersTypeOK /\ ControlTypeOK /\ Drained
    BY DEF Inv, TypeOK
  <1>1. caller # "none" /\ caller' # "none" /\ poll = "idle" /\ poll' = poll
    BY <1>0 DEF Drained, CallerStep, CallerTest, CallerCall, CallerReturn
  <1>2. UNCHANGED <<seq, hold_seq, hold_bfh_err, holdbuf, last_polled_seq>>
    BY DEF CallerStep, CallerTest, CallerCall, CallerReturn, ReaderOnly
  <1>3. CASE CallerTest /\ caller' = "taken"
    <2>1. /\ last_seq # hold_seq /\ last_seq' = hold_seq
          /\ frame' = IF hold_bfh_err THEN frame ELSE holdbuf
          /\ delivered' = delivered /\ caller = "test"
      BY <1>3 DEF CallerTest
    <2>2. last_seq < hold_seq /\ seq = hold_seq + 1 /\ frame < seq
      BY <1>0, <1>1, <2>1 DEF CountersTypeOK, Mailbox
    <2>3. Mailbox'
      BY <1>0, <1>1, <1>2, <1>3, <2>1, <2>2 DEF Mailbox, CountersTypeOK
    <2>4. CASE hold_bfh_err
      <3>1. CASE delivered = frame
        <4>1. Feed!Pass
          BY <1>1, <1>2, <1>3, <2>1, <2>4, <3>1 DEF Feed!Pass
        <4> QED BY <2>3, <4>1 DEF Feeds, Feed!FeedNext
      <3>2. CASE delivered # frame
        <4>1. UNCHANGED Feed!feedVars
          BY <1>1, <1>2, <1>3, <2>1, <2>4, <3>2 DEF Feed!feedVars
        <4> QED BY <2>3, <4>1 DEF Feeds
      <3> QED BY <3>1, <3>2
    <2>5. CASE ~hold_bfh_err
      <3>1. delivered' # frame'
        BY <1>0, <2>1, <2>2, <2>5 DEF Mailbox, CountersTypeOK
      <3>2. Feed!Take
        BY <1>1, <1>2, <1>3, <2>1, <2>2, <2>5, <3>1 DEF Feed!Take, Mailbox
      <3> QED BY <2>3, <3>2 DEF Feeds, Feed!FeedNext
    <2> QED BY <2>4, <2>5
  <1>4. CASE CallerTest /\ caller' # "taken"
    <2>1. /\ UNCHANGED <<last_seq, frame, delivered>> /\ caller = "test"
          /\ caller' \in {"test", "ended"}
      BY <1>4 DEF CallerTest
    <2>2. Mailbox'
      BY <1>1, <1>2, <2>1 DEF Mailbox
    <2> QED BY <1>1, <1>2, <2>1, <2>2 DEF Feeds, Feed!feedVars
  <1>5. CASE CallerCall /\ ~hold_bfh_err
    <2>1. /\ caller = "taken" /\ caller' = "callback" /\ delivered' = frame
          /\ UNCHANGED <<last_seq, frame>>
      BY <1>5 DEF CallerCall
    <2>2. delivered < frame \/ delivered = frame
      BY <1>0 DEF Mailbox, CountersTypeOK
    <2>3. Feed!Give
      BY <1>1, <1>2, <2>1, <2>2 DEF Feed!Give
    <2>4. Mailbox'
      BY <1>0, <1>1, <1>2, <2>1 DEF Mailbox, CountersTypeOK
    <2> QED BY <2>3, <2>4 DEF Feeds, Feed!FeedNext
  <1>6. CASE CallerCall /\ hold_bfh_err
    <2>1. /\ caller = "taken" /\ caller' = "test"
          /\ UNCHANGED <<last_seq, frame, delivered>>
      BY <1>6 DEF CallerCall
    <2>2. Mailbox'
      BY <1>1, <1>2, <2>1 DEF Mailbox
    <2>3. Feed!Drop \/ UNCHANGED Feed!feedVars
      BY <1>1, <1>2, <2>1 DEF Feed!Drop, Feed!feedVars
    <2> QED BY <2>2, <2>3 DEF Feeds, Feed!FeedNext
  <1>7. CASE CallerReturn
    <2>1. /\ caller = "callback" /\ caller' = "test"
          /\ UNCHANGED <<last_seq, frame, delivered>>
      BY <1>7 DEF CallerReturn
    <2>2. Feed!Finish
      BY <1>1, <1>2, <2>1 DEF Feed!Finish
    <2>3. Mailbox'
      BY <1>1, <1>2, <2>1 DEF Mailbox
    <2> QED BY <2>2, <2>3 DEF Feeds, Feed!FeedNext
  <1> QED BY <1>3, <1>4, <1>5, <1>6, <1>7 DEF CallerStep

\* A poller takes what is newer than its last, and gives it once.
LEMMA PollerFeeds ==
    ASSUME Inv, Mailbox, PollerStep
    PROVE  Feeds
  <1>0. CountersTypeOK /\ ControlTypeOK /\ Drained
    BY DEF Inv, TypeOK
  <1>1. caller = "none" /\ caller' = caller
    BY <1>0 DEF Drained, PollerStep, PollEnter, PollTest,
       PollWoken, PollReturn, PollUsed
  <1>2. UNCHANGED <<seq, hold_seq, hold_bfh_err, holdbuf, last_seq>>
    BY DEF PollerStep, PollEnter, PollTest, PollWoken, PollTake, PollReturn,
       PollUsed, ReaderOnly
  <1>3. CASE (PollTest \/ PollWoken) /\ poll' = "filled"
    <2>1. /\ last_polled_seq < hold_seq /\ last_polled_seq' = hold_seq
          /\ frame' = holdbuf /\ delivered' = delivered
          /\ poll \in {"entered", "waiting"}
      BY <1>3 DEF PollTest, PollWoken, PollTake
    <2>2. seq = hold_seq + 1 /\ frame < seq /\ delivered = frame
      BY <1>0, <1>1, <2>1 DEF CountersTypeOK, Mailbox
    <2>3. Feed!Take
      BY <1>1, <1>2, <1>3, <2>1, <2>2 DEF Feed!Take, Mailbox
    <2>4. Mailbox'
      BY <1>0, <1>1, <1>2, <1>3, <2>1, <2>2 DEF Mailbox, CountersTypeOK
    <2> QED BY <2>3, <2>4 DEF Feeds, Feed!FeedNext
  <1>4. CASE PollEnter \/ ((PollTest \/ PollWoken) /\ poll' # "filled")
    <2>1. /\ UNCHANGED <<last_polled_seq, frame, delivered>>
          /\ poll \in {"idle", "entered", "waiting"}
          /\ poll' \in {"idle", "entered", "waiting"}
      BY <1>4 DEF PollEnter, PollTest, PollWoken, PollTake
    <2>2. Mailbox'
      BY <1>1, <1>2, <2>1 DEF Mailbox
    <2> QED BY <1>1, <1>2, <2>1, <2>2 DEF Feeds, Feed!feedVars
  <1>5. CASE PollReturn
    <2>1. /\ poll = "filled" /\ poll' = "using" /\ delivered' = frame
          /\ UNCHANGED <<last_polled_seq, frame>>
      BY <1>5 DEF PollReturn
    <2>2. Feed!Give
      BY <1>1, <1>2, <2>1 DEF Feed!Give, Mailbox
    <2>3. Mailbox'
      BY <1>0, <1>1, <1>2, <2>1 DEF Mailbox, CountersTypeOK
    <2> QED BY <2>2, <2>3 DEF Feeds, Feed!FeedNext
  <1>6. CASE PollUsed
    <2>1. /\ poll = "using" /\ poll' = "idle"
          /\ UNCHANGED <<last_polled_seq, frame, delivered>>
      BY <1>6 DEF PollUsed
    <2>2. Feed!Finish
      BY <1>1, <1>2, <2>1 DEF Feed!Finish
    <2>3. Mailbox'
      BY <1>1, <1>2, <2>1 DEF Mailbox
    <2> QED BY <2>2, <2>3 DEF Feeds, Feed!FeedNext
  <1> QED BY <1>3, <1>4, <1>5, <1>6 DEF PollerStep

\* The stream is a mailbox of one frame: frames reach the user at most once, in
\* order, and only frames of this stream; after a broken one perhaps the last one
\* again.
THEOREM FeedImplemented == Spec => ImplementsFeed
  <1>1. Init => Mailbox /\ Feed!FeedInit
    BY DEF Init, Mailbox, NoData, Feed!FeedInit
  <1>2. Inv /\ Mailbox /\ [Next]_vars => Feeds
    <2> SUFFICES ASSUME Inv, Mailbox, [Next]_vars PROVE Feeds
      OBVIOUS
    <2>1. CASE UNCHANGED vars
      BY <2>1, FeedStutters DEF vars
    <2>2. CASE SpuriousWakeup \/ Unplug
      BY <2>2, FeedStutters DEF SpuriousWakeup, Unplug, ReaderOnly
    <2>3. CASE Next
      BY <2>2, <2>3, ClientFeeds, EventFeeds, CallerFeeds, PollerFeeds DEF Next
    <2> QED BY <2>1, <2>3
  <1>3. Spec => []Mailbox
    BY Invariance, <1>1, <1>2, PTL DEF Spec, Feeds
  <1>4. Spec => [][Feed!FeedNext]_(Feed!feedVars)
    BY Invariance, <1>2, <1>3, PTL DEF Spec, Feeds
  <1> QED BY <1>1, <1>4, PTL DEF Spec, ImplementsFeed, Feed!FeedSpec
=============================================================================
