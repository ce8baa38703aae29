------------------------------ MODULE UvcStream ------------------------------
(***************************************************************************)
(* libuvc's stream handle (libuvc/src/stream.c): one video stream of a     *)
(* device, the transfers that circulate through libusb, and the threads    *)
(* that meet at cb_mutex and cb_cond:                                      *)
(*                                                                         *)
(*   the client          uvc_start_streaming_bandwidth, uvc_stop_streaming *)
(*   the event thread    libusb's event loop, which runs                   *)
(*                       _uvc_stream_callback, one transfer at a time      *)
(*   the caller          _uvc_user_caller, which calls the user's callback *)
(*   the poller          uvc_stream_get_frame, when there is no callback   *)
(*                                                                         *)
(* Every critical section of cb_mutex is one action: nothing waits inside  *)
(* one but pthread_cond_wait, which ends it.  The field running is read    *)
(* and written without the mutex, so those accesses are steps of their     *)
(* own.  A payload is abstracted to what it does: add data, publish the    *)
(* frame collected so far, or mark it broken.  One handle is open at a     *)
(* time, as in this application; a closed handle is freed memory, and no   *)
(* step is modelled that would use it.                                     *)
(***************************************************************************)
EXTENDS Naturals, FiniteSets

CONSTANTS Transfers,      \* the LIBUVC_NUM_TRANSFER_BUFS transfers
          Faults,         \* the faults of libusb and of the camera that occur
          UserCallbacks,  \* whether uvc_start_streaming is given a callback
          MAX_SEQ         \* bound: the frames published on one handle

AllFaults ==
    {"disconnect",    \* the camera is unplugged
     "submit",        \* libusb_submit_transfer fails in uvc_stream_start
     "resubmit",      \* libusb_submit_transfer fails in the stream callback
     "error",         \* a transfer ends with LIBUSB_TRANSFER_ERROR
     "packet",        \* a packet is bad: UVC_STREAM_ERR for its frame
     "caught"}        \* a poller still polls when the client stops

ASSUME StreamAssumption ==
    /\ IsFiniteSet(Transfers) /\ Transfers # {}
    /\ Faults \subseteq AllFaults
    /\ UserCallbacks # {} /\ UserCallbacks \subseteq BOOLEAN
    /\ MAX_SEQ \in Nat

VARIABLES
    open,             \* the handle exists
    running,          \* strmh->running
    transfers,        \* where each transfer is
    cancelled,        \* the transfers whose cancellation is pending in libusb
    event,            \* what the event thread is doing
    transfer,         \* the transfer whose callback it runs
    waiting,          \* the threads waiting on cb_cond
    op,               \* what the client is doing
    caller,           \* what _uvc_user_caller is doing, "none" when polled
    poll,             \* what uvc_stream_get_frame is doing
    seq,              \* strmh->seq
    bfh_err,          \* strmh->bfh_err
    hold_seq,         \* strmh->hold_seq
    hold_bfh_err,     \* strmh->hold_bfh_err
    holdbuf,          \* whose data strmh->holdbuf has
    last_seq,         \* the caller's last_seq
    last_polled_seq,  \* strmh->last_polled_seq
    frame,            \* whose data strmh->frame has
    delivered,        \* the last frame the user was given
    gone              \* the camera has been unplugged

linkVars   == <<transfers, cancelled, event, transfer>>
holdVars   == <<hold_seq, hold_bfh_err, holdbuf>>
frameVars  == <<seq, bfh_err, holdVars>>
readerVars == <<last_seq, last_polled_seq, frame, delivered>>
vars == <<open, running, linkVars, waiting, op, caller, poll, frameVars,
          readerVars, gone>>

\* Frames are numbered from 1 by content; 0 stands for no data.
NoData == 0

\* The transfers libuvc or libusb still has a use for.
Pending == {t \in Transfers : transfers[t] # "null"}

-----------------------------------------------------------------------------
(* The client *)

Init ==
    /\ open = FALSE /\ running = FALSE /\ gone = FALSE
    /\ transfers = [t \in Transfers |-> "null"] /\ cancelled = {}
    /\ event = "idle" /\ transfer \in Transfers
    /\ waiting = {}
    /\ op = "idle" /\ caller = "none" /\ poll = "idle"
    /\ seq = 0 /\ bfh_err = FALSE
    /\ hold_seq = 0 /\ hold_bfh_err = FALSE /\ holdbuf = NoData
    /\ last_seq = 0 /\ last_polled_seq = 0
    /\ frame = NoData /\ delivered = NoData

\* Nothing is left that would touch the handle after it is freed.
Quiet == Pending = {} /\ caller \in {"none", "ended"} /\ poll = "idle"

\* uvc_stream_open_ctrl: a zeroed handle.
OpenCtrl ==
    /\ open' = TRUE
    /\ hold_seq' = 0 /\ hold_bfh_err' = FALSE /\ holdbuf' = NoData
    /\ last_polled_seq' = 0 /\ frame' = NoData /\ delivered' = NoData

\* uvc_stream_start_bandwidth until its transfers are to be submitted.
StartBandwidth ==
    /\ running' = TRUE
    /\ seq' = 0 /\ bfh_err' = FALSE
    /\ transfers' = [t \in Transfers |-> "alloc"]
    /\ \/ TRUE \in UserCallbacks /\ caller' = "test"
       \/ FALSE \in UserCallbacks /\ caller' = "none"
    /\ last_seq' = 0

\* uvc_start_streaming_bandwidth; when one of the two fails before the
\* transfers are submitted, nothing has begun.
StartStreaming ==
    /\ op = "idle" /\ ~open /\ ~gone /\ Quiet
    /\ OpenCtrl /\ StartBandwidth
    /\ op' = "submit"
    /\ UNCHANGED <<cancelled, event, transfer, waiting, poll, gone>>

\* One turn of the loop that submits the transfers.
Submit ==
    /\ op = "submit"
    /\ \E t \in Transfers :
         /\ transfers[t] = "alloc"
         /\ \/ /\ ~gone
               /\ transfers' = [transfers EXCEPT ![t] = "submitted"]
               /\ op' = op
            \/ /\ gone \/ "submit" \in Faults
               /\ op' = "failed"
               /\ UNCHANGED transfers
    /\ UNCHANGED <<open, running, cancelled, event, transfer, waiting, caller,
                   poll, frameVars, readerVars, gone>>

Started ==
    /\ op = "submit" /\ \A t \in Transfers : transfers[t] # "alloc"
    /\ op' = "idle"
    /\ UNCHANGED <<open, running, linkVars, waiting, caller, poll, frameVars,
                   readerVars, gone>>

\* The fail label, after which uvc_start_streaming_bandwidth closes the handle.
StartFailed ==
    /\ op = "failed"
    /\ running' = FALSE
    /\ op' = "close"
    /\ UNCHANGED <<open, linkVars, waiting, caller, poll, frameVars,
                   readerVars, gone>>

\* uvc_stop_streaming calls uvc_stream_close for the open stream; unless
\* pollers are caught by it, the application has ended them before.
StopStreaming ==
    /\ op = "idle" /\ open
    /\ poll = "idle" \/ "caught" \in Faults
    /\ op' = "close"
    /\ UNCHANGED <<open, running, linkVars, waiting, caller, poll, frameVars,
                   readerVars, gone>>

\* uvc_stream_close stops a stream only if it is running.
CloseTest ==
    /\ op = "close"
    /\ op' = IF running THEN "stop" ELSE "free"
    /\ UNCHANGED <<open, running, linkVars, waiting, caller, poll, frameVars,
                   readerVars, gone>>

\* uvc_stream_stop, outside the mutex: it tests running again, and returns
\* when the stream callback has cleared it meanwhile.
StopFlag ==
    /\ op = "stop"
    /\ op' = IF running THEN "cancel" ELSE "free"
    /\ running' = FALSE
    /\ UNCHANGED <<open, linkVars, waiting, caller, poll, frameVars,
                   readerVars, gone>>

\* The end of the critical section of uvc_stream_stop: it kicks the caller
\* when there is no transfer left, and else waits for the last one.
AwaitTransfers ==
    IF Pending = {} THEN op' = "join" /\ waiting' = {}
                    ELSE op' = "wait" /\ waiting' = waiting \cup {"client"}

\* uvc_stream_stop cancels all transfers; libusb knows those submitted.
StopCancel ==
    /\ op = "cancel"
    /\ cancelled' = {t \in Transfers : transfers[t] = "submitted"}
    /\ AwaitTransfers
    /\ UNCHANGED <<open, running, transfers, event, transfer, caller, poll,
                   frameVars, readerVars, gone>>

\* A bug to be caught: the wait is not repeated.
StopWokenOnce ==
    /\ op = "wait" /\ "client" \notin waiting
    /\ op' = "join" /\ waiting' = {}
    /\ UNCHANGED <<open, running, linkVars, caller, poll, frameVars,
                   readerVars, gone>>

StopWoken ==
    /\ op = "wait" /\ "client" \notin waiting
    /\ AwaitTransfers
    /\ UNCHANGED <<open, running, linkVars, caller, poll, frameVars,
                   readerVars, gone>>

\* A bug to be caught: the caller thread is not joined.
StopDetach ==
    /\ op = "join"
    /\ op' = "free"
    /\ UNCHANGED <<open, running, linkVars, waiting, caller, poll, frameVars,
                   readerVars, gone>>

StopJoin ==
    /\ op = "join" /\ caller \in {"none", "ended"}
    /\ op' = "free"
    /\ UNCHANGED <<open, running, linkVars, waiting, caller, poll, frameVars,
                   readerVars, gone>>

\* The rest of uvc_stream_close.
Free ==
    /\ op = "free"
    /\ open' = FALSE /\ op' = "idle"
    /\ UNCHANGED <<running, linkVars, waiting, caller, poll, frameVars,
                   readerVars, gone>>

ClientStep ==
    \/ StartStreaming \/ Submit \/ Started \/ StartFailed \/ StopStreaming
    \/ CloseTest \/ StopFlag \/ StopCancel \/ StopWoken \/ StopJoin \/ Free

-----------------------------------------------------------------------------
(* The event thread *)

EventOnly(pc, t) ==
    /\ event' = pc /\ transfer' = t
    /\ UNCHANGED <<open, op, caller, poll, readerVars, gone>>

\* libusb completes a transfer and calls _uvc_stream_callback.
Completed(t) ==
    /\ event = "idle" /\ transfers[t] = "submitted"
    /\ transfers' = [transfers EXCEPT ![t] = "held"]
    /\ cancelled' = cancelled \ {t}

\* LIBUSB_TRANSFER_COMPLETED: its payloads are processed.
CompleteData(t) ==
    /\ ~gone /\ Completed(t)
    /\ EventOnly("process", t)
    /\ UNCHANGED <<running, waiting, frameVars>>

\* LIBUSB_TRANSFER_TIMED_OUT, _STALL, _OVERFLOW.
CompleteRetry(t) ==
    /\ ~gone /\ Completed(t)
    /\ EventOnly("decide", t)
    /\ UNCHANGED <<running, waiting, frameVars>>

\* LIBUSB_TRANSFER_CANCELLED, _ERROR: not to be submitted again.
CompleteStopped(t) ==
    /\ t \in cancelled \/ "error" \in Faults
    /\ Completed(t)
    /\ EventOnly("delete", t)
    /\ UNCHANGED <<running, waiting, frameVars>>

\* LIBUSB_TRANSFER_NO_DEVICE.
CompleteNoDevice(t) ==
    /\ gone /\ Completed(t)
    /\ running' = FALSE
    /\ EventOnly("delete", t)
    /\ UNCHANGED <<waiting, frameVars>>

\* A bad packet: the frame collected so far is broken.
MarkBroken ==
    /\ event = "process" /\ "packet" \in Faults
    /\ bfh_err' = TRUE
    /\ EventOnly("process", transfer)
    /\ UNCHANGED <<running, transfers, cancelled, waiting, seq, holdVars>>

\* A bug to be caught: the swap wakes nobody.
SwapBuffersSilently ==
    /\ event = "process" /\ seq < MAX_SEQ
    /\ hold_seq' = seq /\ hold_bfh_err' = bfh_err /\ holdbuf' = seq + 1
    /\ seq' = seq + 1 /\ bfh_err' = FALSE
    /\ EventOnly("process", transfer)
    /\ UNCHANGED <<running, transfers, cancelled, waiting>>

\* _uvc_swap_buffers: what is collected becomes the frame held for listeners.
SwapBuffers ==
    /\ event = "process" /\ seq < MAX_SEQ
    /\ hold_seq' = seq /\ hold_bfh_err' = bfh_err /\ holdbuf' = seq + 1
    /\ waiting' = {}
    /\ seq' = seq + 1 /\ bfh_err' = FALSE
    /\ EventOnly("process", transfer)
    /\ UNCHANGED <<running, transfers, cancelled>>

\* The payloads of the transfer are done.
Processed ==
    /\ event = "process"
    /\ EventOnly("decide", transfer)
    /\ UNCHANGED <<running, transfers, cancelled, waiting, frameVars>>

\* The test of running at the end of the callback.
Decide ==
    /\ event = "decide"
    /\ EventOnly(IF running THEN "submit" ELSE "delete", transfer)
    /\ UNCHANGED <<running, transfers, cancelled, waiting, frameVars>>

\* libusb_submit_transfer, whose result is not looked at.
Resubmit ==
    /\ event = "submit"
    /\ \/ /\ ~gone
          /\ transfers' = [transfers EXCEPT ![transfer] = "submitted"]
       \/ /\ gone \/ "resubmit" \in Faults
          /\ transfers' = [transfers EXCEPT ![transfer] = "lost"]
    /\ EventOnly("idle", transfer)
    /\ UNCHANGED <<running, cancelled, waiting, frameVars>>

\* A bug to be caught: the deletion wakes nobody.
DeleteTransferSilently ==
    /\ event = "delete"
    /\ transfers' = [transfers EXCEPT ![transfer] = "null"]
    /\ EventOnly("idle", transfer)
    /\ UNCHANGED <<running, cancelled, waiting, frameVars>>

\* _uvc_delete_transfer.
DeleteTransfer ==
    /\ event = "delete"
    /\ transfers' = [transfers EXCEPT ![transfer] = "null"]
    /\ waiting' = {}
    /\ EventOnly("idle", transfer)
    /\ UNCHANGED <<running, cancelled, frameVars>>

EventThreadStep ==
    /\ open
    /\ \/ \E t \in Transfers : \/ CompleteData(t) \/ CompleteRetry(t)
                               \/ CompleteStopped(t) \/ CompleteNoDevice(t)
       \/ MarkBroken \/ SwapBuffers \/ Processed
       \/ Decide \/ Resubmit \/ DeleteTransfer

Unplug ==
    /\ "disconnect" \in Faults /\ ~gone
    /\ gone' = TRUE
    /\ UNCHANGED <<open, running, linkVars, waiting, op, caller, poll,
                   frameVars, readerVars>>

-----------------------------------------------------------------------------
(* The listeners *)

ReaderOnly ==
    UNCHANGED <<open, running, linkVars, op, frameVars, gone>>

\* A bug to be caught: the caller takes a frame whenever it is woken.
CallerTestWoken ==
    /\ caller = "test" /\ "caller" \notin waiting
    /\ \/ /\ running /\ holdbuf = NoData
          /\ waiting' = waiting \cup {"caller"}
          /\ UNCHANGED <<caller, last_seq, frame>>
       \/ /\ ~running
          /\ caller' = "ended"
          /\ UNCHANGED <<waiting, last_seq, frame>>
       \/ /\ running /\ holdbuf # NoData
          /\ last_seq' = hold_seq
          /\ frame' = IF hold_bfh_err THEN frame ELSE holdbuf
          /\ caller' = "taken"
          /\ UNCHANGED waiting
    /\ ReaderOnly /\ UNCHANGED <<poll, last_polled_seq, delivered>>

\* _uvc_user_caller in the mutex, on entry and whenever pthread_cond_wait
\* returns.
CallerTest ==
    /\ caller = "test" /\ "caller" \notin waiting
    /\ \/ /\ running /\ last_seq = hold_seq
          /\ waiting' = waiting \cup {"caller"}
          /\ UNCHANGED <<caller, last_seq, frame>>
       \/ /\ ~running
          /\ caller' = "ended"
          /\ UNCHANGED <<waiting, last_seq, frame>>
       \/ /\ running /\ last_seq # hold_seq
          /\ last_seq' = hold_seq
          /\ frame' = IF hold_bfh_err THEN frame ELSE holdbuf
          /\ caller' = "taken"
          /\ UNCHANGED waiting
    /\ ReaderOnly /\ UNCHANGED <<poll, last_polled_seq, delivered>>

\* The second test of hold_bfh_err, after the mutex is released.
CallerCall ==
    /\ caller = "taken"
    /\ IF hold_bfh_err
       THEN caller' = "test" /\ UNCHANGED delivered
       ELSE caller' = "callback" /\ delivered' = frame
    /\ ReaderOnly /\ UNCHANGED <<waiting, poll, last_seq, last_polled_seq, frame>>

\* The user's callback returns.
CallerReturn ==
    /\ caller = "callback"
    /\ caller' = "test"
    /\ ReaderOnly /\ UNCHANGED <<waiting, poll, readerVars>>

\* uvc_stream_get_frame up to pthread_mutex_lock.
PollEnter ==
    /\ poll = "idle" /\ running /\ caller = "none"
    /\ op = "idle" \/ "caught" \in Faults
    /\ poll' = "entered"
    /\ ReaderOnly /\ UNCHANGED <<waiting, caller, readerVars>>

PollTake ==
    /\ last_polled_seq < hold_seq
    /\ last_polled_seq' = hold_seq /\ frame' = holdbuf
    /\ poll' = "filled"
    /\ UNCHANGED waiting

\* The critical section: a frame at once, or wait, or none with timeout -1.
PollTest ==
    /\ poll = "entered"
    /\ \/ PollTake
       \/ /\ last_polled_seq >= hold_seq
          /\ poll' = "waiting" /\ waiting' = waiting \cup {"poller"}
          /\ UNCHANGED <<last_polled_seq, frame>>
       \/ /\ last_polled_seq >= hold_seq
          /\ poll' = "idle"
          /\ UNCHANGED <<waiting, last_polled_seq, frame>>
    /\ ReaderOnly /\ UNCHANGED <<caller, last_seq, delivered>>

\* After the only wait: a frame or none.
PollWoken ==
    /\ poll = "waiting" /\ "poller" \notin waiting
    /\ \/ PollTake
       \/ /\ last_polled_seq >= hold_seq
          /\ poll' = "idle"
          /\ UNCHANGED <<waiting, last_polled_seq, frame>>
    /\ ReaderOnly /\ UNCHANGED <<caller, last_seq, delivered>>

PollReturn ==
    /\ poll = "filled"
    /\ poll' = "using" /\ delivered' = frame
    /\ ReaderOnly
    /\ UNCHANGED <<waiting, caller, last_seq, last_polled_seq, frame>>

PollUsed ==
    /\ poll = "using"
    /\ poll' = "idle"
    /\ ReaderOnly /\ UNCHANGED <<waiting, caller, readerVars>>

\* A spurious wake-up, or the timeout of pthread_cond_timedwait.
SpuriousWakeup ==
    /\ \E w \in waiting : waiting' = waiting \ {w}
    /\ ReaderOnly /\ UNCHANGED <<caller, poll, readerVars>>

CallerStep == open /\ (CallerTest \/ CallerCall \/ CallerReturn)
PollerStep == /\ open
              /\ PollEnter \/ PollTest \/ PollWoken \/ PollReturn \/ PollUsed

-----------------------------------------------------------------------------

Next ==
    \/ ClientStep \/ EventThreadStep \/ CallerStep \/ PollerStep
    \/ open /\ SpuriousWakeup
    \/ Unplug

Spec == Init /\ [][Next]_vars

(***************************************************************************)
(* Fairness: an operation begun goes on, the event thread handles what it  *)
(* has begun, the callback of the user returns, and libusb completes every *)
(* submitted transfer, if only by its timeout (5000 ms).  Nothing makes    *)
(* the client begin an operation, the camera send a frame or a poller      *)
(* poll.                                                                   *)
(***************************************************************************)
FairSpec ==
    /\ Spec
    /\ WF_vars(ClientStep /\ op # "idle")
    /\ \A t \in Transfers :
         WF_vars(open /\ (\/ CompleteData(t) \/ CompleteRetry(t)
                          \/ CompleteStopped(t) \/ CompleteNoDevice(t)))
    /\ WF_vars(open /\ (Processed \/ Decide \/ Resubmit \/ DeleteTransfer))
    /\ WF_vars(CallerStep)

-----------------------------------------------------------------------------
(* Properties *)

ControlTypeOK ==
    /\ open \in BOOLEAN /\ running \in BOOLEAN /\ gone \in BOOLEAN
    /\ bfh_err \in BOOLEAN /\ hold_bfh_err \in BOOLEAN
    /\ transfers \in [Transfers -> {"null", "alloc", "submitted", "held", "lost"}]
    /\ transfer \in Transfers
    /\ cancelled \subseteq Transfers
    /\ waiting \subseteq {"client", "caller", "poller"}
    /\ event \in {"idle", "process", "decide", "submit", "delete"}
    /\ op \in {"idle", "submit", "failed", "close", "stop", "cancel", "wait",
               "join", "free"}
    /\ caller \in {"none", "test", "taken", "callback", "ended"}
    /\ poll \in {"idle", "entered", "waiting", "filled", "using"}

CountersTypeOK ==
    /\ seq \in 0..MAX_SEQ
    /\ hold_seq \in Nat /\ holdbuf \in Nat
    /\ last_seq \in Nat /\ last_polled_seq \in Nat
    /\ frame \in Nat /\ delivered \in Nat

\* Every variable has its type.
TypeOK == ControlTypeOK /\ CountersTypeOK

\* A stop that waits for a transfer whose resubmission failed.
Hung == op = "wait" /\ \E t \in Transfers : transfers[t] = "lost"

\* uvc_stream_close frees the handle only when nobody uses it any more: libusb
\* has given back every transfer that points at it, the caller thread has ended
\* and no poller is inside.  Not so when the camera has been unplugged: close
\* then skips the stop, or the stop returns at once (StartedFreedIsQuiet).
FreedIsQuiet == ~open /\ ~gone => Quiet

\* The same without the exception, for a stream whose transfers were all
\* submitted: the handle is not freed under transfers or the caller thread,
\* whatever happened to the camera.
StartedFreedIsQuiet ==
    ~open /\ (\A t \in Transfers : transfers[t] # "alloc") => Quiet

\* A poller that waits for a frame when the client stops the stream has left
\* the handle before it is freed: the stop cancels the pollers.
PollersCancelled == ~open => poll # "waiting"

\* A stop that gets as far as the join of the caller thread (it returns before
\* when it finds the stream no longer running) has drained the stream: no
\* transfer can come back from libusb, and the event thread is out of it.
StoppedIsDrained == op = "join" => Pending = {} /\ event = "idle"

\* The stream is a mailbox of one frame: every frame is given at most once,
\* in order, and what is given is a frame of this stream (FrameFeed).
Feed == INSTANCE FrameFeed WITH
    newest <- seq, bad <- hold_bfh_err, taken <- frame, given <- delivered,
    passed <- caller = "taken" /\ delivered = frame,
    using <- caller = "callback" \/ poll = "using"

\* Of every frame of a stream at most one copy reaches the user, in order; only
\* when the callback thread passes over a broken frame, its last one again.
ImplementsFeed == Feed!FeedSpec

\* uvc_stop_streaming, and a start that fails, come to an end, unless a
\* transfer was lost when it was submitted again.
StopReturns == op # "idle" ~> (op = "idle" \/ Hung)

\* However the stream ends, by a stop or by the loss of the camera, the
\* caller thread wakes up and ends; unless the stop hangs, or the handle is
\* freed under the thread because the camera was unplugged.
CallerEnds ==
    (open /\ ~running /\ caller # "none")
      ~> (caller = "ended" \/ Hung \/ (~open /\ gone))

\* A frame that is held for the caller and newer than its last is taken,
\* unless the stream ends first.
HeldFrameTaken ==
    (open /\ caller # "none" /\ last_seq # hold_seq)
      ~> (last_seq = hold_seq \/ ~running)
=============================================================================
