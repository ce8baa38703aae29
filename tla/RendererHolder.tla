--------------------------- MODULE RendererHolder ---------------------------
(***************************************************************************)
(* The renderer: RendererHolder with its RendererTask, a MessageTask whose *)
(* worker draws the camera's picture on the surfaces of the clients, and   *)
(* with the thread that takes still pictures.  Callers add and remove      *)
(* surfaces, ask for the master surface, for a frame or a still picture,   *)
(* and release the renderer.                                               *)
(*                                                                         *)
(* The model begins when the constructor is over: the task runs and the    *)
(* capture thread is started.  A step is one critical section or one       *)
(* access to shared state.  The monitor of the clients (mClientSync) is    *)
(* held across steps by addSurface and removeSurface until they wait.      *)
(* Waiting threads wake only when they are notified.                       *)
(***************************************************************************)
EXTENDS MessageTask

CONSTANTS Ids,             \* surface ids
          SurfaceCallers,  \* callers that add and remove surfaces
          FrameCallers,    \* callers of requestFrame
          HolderCallers,   \* callers that take still pictures and release
          MAX_IN_USE       \* bound: frames and calls come only while no more
                           \* Requests are in use, so that Requests suffices

VARIABLES
    mClients,          \* ids of the surfaces that are drawn on
    masterValid,       \* mMasterSurface is there and valid
    isRunning,         \* the holder's flag
    mCaptureFile,      \* is a still picture asked for?
    capture, taken,    \* pc of the capture thread; has it taken the file?
    api, arg,          \* pc and argument of the callers
    late               \* history: isRunning was cleared when the capture thread
                       \* had not yet waited

holderVars  == <<isRunning, mCaptureFile, capture, taken, late>>
callerVars  == <<api, arg>>
vars == <<taskVars, runVars, worker, current, mine, overtaken, mClients, masterValid,
          holderVars, callerVars>>

Init ==
    /\ TaskInit
    /\ mClients = {} /\ masterValid = TRUE
    /\ isRunning = TRUE
    /\ mCaptureFile = FALSE
    /\ capture = "begin" /\ taken = FALSE
    /\ api = [c \in Callers |-> "idle"] /\ arg \in [Callers -> Ids]
    /\ late = FALSE

\* mClientSync is held by a caller that has not yet queued its request.
ClientSyncFree == \A c \in Callers : api[c] \notin {"add", "remove"}

\* notifyAll on mClientSync.
NotifyClients ==
    api' = [c \in Callers |-> IF api[c] \in {"addWait", "removeWait"} THEN "idle" ELSE api[c]]

\* notifyAll on the holder's mSync.
NotifyHolder ==
    /\ api' = [c \in Callers |-> IF api[c] = "stillWait" THEN "idle" ELSE api[c]]
    /\ capture' = IF capture = "waiting" THEN "woken" ELSE capture

-----------------------------------------------------------------------------
(* The worker: MessageTask.run and RendererTask.processRequest *)

WorkerGoto(next) == worker' = next

Test ==
    /\ worker = "test"
    /\ WorkerGoto(IF mIsRunning THEN "take" ELSE "finish")
    /\ UNCHANGED <<taskVars, current, mine, overtaken, mClients, masterValid, runVars,
                   holderVars, callerVars>>

TakeRequest ==
    /\ worker = "take" /\ mRequestQueue # <<>>
    /\ current' = Head(mRequestQueue)
    /\ WorkerGoto("process")
    /\ mRequestQueue' = Tail(mRequestQueue)
    /\ overtaken' = (overtaken \/ \E c \in Callers :
                        api[c] = "removeRequest" /\ mine[c] = Head(mRequestQueue))
    /\ UNCHANGED <<mRequestPool, request, mine, mClients, masterValid,
                   runVars, holderVars, callerVars>>

\* The message the worker works on; the switch of run on -2.
Processing(what) ==
    /\ worker = "process"
    /\ \/ request[current].what = what
       \/ request[current].what = "result" /\ request[current].forResult = what

\* The end of the loop of run on -9.
Quit ==
    /\ Processing("quit")
    /\ current' = None
    /\ WorkerGoto("finish")
    /\ UNCHANGED <<taskVars, mine, overtaken, mClients, masterValid, runVars,
                   holderVars, callerVars>>

\* handleDraw: a surface on which the drawing fails is dropped; without a
\* master surface a request to make one again is queued.
HandleDraw ==
    /\ Processing("draw")
    /\ IF masterValid
          THEN /\ ClientSyncFree
               /\ \E failed \in {{}} \cup {{id} : id \in mClients} :
                     mClients' = mClients \ failed
               /\ UNCHANGED taskVars
          ELSE /\ IF mIsRunning THEN Offer("recreate", None)
                  ELSE UNCHANGED taskVars
               /\ UNCHANGED mClients
    /\ WorkerGoto("recycle")
    /\ UNCHANGED <<current, mine, overtaken, masterValid, runVars, holderVars, callerVars>>

\* Mutant of HandleAddSurface: a surface that cannot be used is not answered.
HandleAddSurfaceSilently ==
    /\ Processing("add") /\ ClientSyncFree
    /\ \E added \in {{}, {request[current].arg}} :
          /\ mClients' = mClients \cup added
          /\ IF added = {} THEN UNCHANGED api ELSE NotifyClients
    /\ WorkerGoto("recycle")
    /\ UNCHANGED <<taskVars, current, mine, overtaken, masterValid, runVars, holderVars, arg>>

\* checkSurface drops the surfaces that their owners destroyed; the new one
\* may be unusable.
HandleAddSurface ==
    /\ Processing("add") /\ ClientSyncFree
    /\ \E gone \in SUBSET mClients, added \in {{}, {request[current].arg}} :
          mClients' = (mClients \ gone) \cup added
    /\ NotifyClients
    /\ WorkerGoto("recycle")
    /\ UNCHANGED <<taskVars, current, mine, overtaken, masterValid, runVars, holderVars, arg>>

\* Mutant of HandleRemoveSurface: it answers before it removes, as one that
\* leaves the removal to checkSurface would.
HandleRemoveSurfaceLate ==
    /\ Processing("remove") /\ ClientSyncFree
    /\ \E gone \in SUBSET mClients : mClients' = mClients \ gone
    /\ NotifyClients
    /\ WorkerGoto("recycle")
    /\ UNCHANGED <<taskVars, current, mine, overtaken, masterValid, runVars, holderVars, arg>>

HandleRemoveSurface ==
    /\ Processing("remove") /\ ClientSyncFree
    /\ \E gone \in SUBSET mClients : mClients' = mClients \ (gone \cup {request[current].arg})
    /\ NotifyClients
    /\ WorkerGoto("recycle")
    /\ UNCHANGED <<taskVars, current, mine, overtaken, masterValid, runVars, holderVars, arg>>

\* handleReCreateMasterSurface; for offerAndWait setResult blanks the Request.
HandleReCreateMasterSurface ==
    /\ Processing("recreate")
    /\ masterValid' = TRUE
    /\ request' = IF request[current].what = "result"
                     THEN [request EXCEPT ![current] = Blank] ELSE request
    /\ WorkerGoto("recycle")
    /\ UNCHANGED <<mRequestPool, mRequestQueue, current, mine, overtaken, mClients,
                   runVars, holderVars, callerVars>>

\* The processed Request is blanked and goes into the pool.
Recycle ==
    /\ worker = "recycle"
    /\ request' = [request EXCEPT ![current] = Blank]
    /\ GiveBack(current)
    /\ current' = None
    /\ WorkerGoto("test")
    /\ UNCHANGED <<mRequestQueue, mine, overtaken, mClients, masterValid, runVars,
                   holderVars, callerVars>>

\* The end of run: first the flags, then onStop, which stops the holder and
\* removes all clients without telling those who wait for one.
Finish ==
    /\ worker = "finish"
    /\ mIsRunning' = FALSE /\ mFinished' = TRUE
    /\ WorkerGoto("stop")
    /\ UNCHANGED <<taskVars, current, mine, overtaken, mClients, masterValid, holderVars, callerVars>>

StopHolder ==
    /\ isRunning' = FALSE
    /\ late' = (late \/ capture \in {"begin", "sync"})
    /\ NotifyHolder

OnStop ==
    /\ worker = "stop"
    /\ StopHolder
    /\ WorkerGoto("removeAll")
    /\ UNCHANGED <<taskVars, runVars, current, mine, overtaken, mClients, masterValid,
                   mCaptureFile, taken, arg>>

HandleRemoveAll ==
    /\ worker = "removeAll" /\ ClientSyncFree
    /\ masterValid' = FALSE
    /\ mClients' = {}
    /\ WorkerGoto("ended")
    /\ UNCHANGED <<taskVars, runVars, current, mine, overtaken, holderVars, callerVars>>

WorkerStep ==
    \/ Test \/ TakeRequest \/ Quit \/ HandleDraw \/ HandleAddSurface \/ HandleRemoveSurface
    \/ HandleReCreateMasterSurface \/ Recycle \/ Finish \/ OnStop \/ HandleRemoveAll

-----------------------------------------------------------------------------
(* The capture thread: mCaptureTask, captureLoop *)

CaptureGoto(next) ==
    /\ capture' = next
    /\ UNCHANGED <<taskVars, runVars, worker, current, mine, overtaken, mClients, masterValid,
                   isRunning, late, arg>>

\* run waits once for the holder to run; the constructor has seen to that.
CaptureBegin ==
    /\ capture = "begin"
    /\ CaptureGoto(IF isRunning THEN "test" ELSE "waiting")
    /\ UNCHANGED <<mCaptureFile, taken, api>>

CaptureTest ==
    /\ capture = "test"
    /\ CaptureGoto(IF isRunning THEN "sync" ELSE "ended")
    /\ UNCHANGED <<mCaptureFile, taken, api>>

TakeFile(next) ==
    /\ taken' = (taken \/ mCaptureFile)
    /\ mCaptureFile' = FALSE
    /\ CaptureGoto(next)
    /\ UNCHANGED api

\* The file is taken in one round and written in the next.
CaptureTake ==
    /\ capture = "sync" /\ ~taken
    /\ TakeFile(IF mCaptureFile THEN "test" ELSE "waiting")

\* Mutant of CaptureWoken: the thread waits on until there is a file.
CaptureWokenForFile == capture = "woken" /\ TakeFile(IF mCaptureFile THEN "test" ELSE "waiting")

CaptureWoken == capture = "woken" /\ TakeFile("test")

\* Mutant of CaptureWrite: those who wait for the picture are not told.
CaptureWriteSilently ==
    /\ capture = "sync" /\ taken
    /\ taken' = FALSE
    /\ UNCHANGED <<mCaptureFile, api>>
    /\ CaptureGoto("test")

\* The picture is written, if the holder still runs, and everyone is told.
CaptureWrite ==
    /\ capture = "sync" /\ taken
    /\ taken' = FALSE
    /\ api' = [c \in Callers |-> IF api[c] = "stillWait" THEN "idle" ELSE api[c]]
    /\ UNCHANGED mCaptureFile
    /\ CaptureGoto("test")

CaptureStep ==
    CaptureBegin \/ CaptureTest \/ CaptureTake \/ CaptureWoken \/ CaptureWrite

-----------------------------------------------------------------------------
(* Frames, and the master surface, which its user may release *)

OnFrameAvailable ==
    /\ masterValid /\ mIsRunning /\ ~mFinished
    /\ InUse <= MAX_IN_USE
    /\ Offer("draw", None)
    /\ UNCHANGED <<runVars, worker, current, mine, overtaken, mClients, masterValid,
                   holderVars, callerVars>>

MasterReleased ==
    /\ masterValid /\ worker # "removeAll"
    /\ masterValid' = FALSE
    /\ UNCHANGED <<taskVars, runVars, worker, current, mine, overtaken, mClients,
                   holderVars, callerVars>>

-----------------------------------------------------------------------------
(* The callers *)

Begin(c, next) ==
    /\ api[c] = "idle"
    /\ api' = [api EXCEPT ![c] = next]
    /\ UNCHANGED arg

BeginWith(c, next, a) ==
    /\ api[c] = "idle"
    /\ api' = [api EXCEPT ![c] = next]
    /\ arg' = [arg EXCEPT ![c] = a]

ApiGoto(c, next) == api' = [api EXCEPT ![c] = next]

\* What no caller writes.
CallerKeeps == UNCHANGED <<worker, current, mClients, masterValid, taken>>

\* addSurface and removeSurface: checkFinished, the test of the client and of
\* isRunning, under mClientSync ...
AddSurface(c, id) ==
    /\ c \in SurfaceCallers /\ ~mFinished /\ ClientSyncFree
    /\ id \notin mClients /\ mIsRunning
    /\ BeginWith(c, "add", id)
    /\ UNCHANGED <<taskVars, runVars, mine, overtaken, isRunning, mCaptureFile, capture, late>>

RemoveSurface(c, id) ==
    /\ c \in SurfaceCallers /\ ClientSyncFree
    /\ id \in mClients /\ mIsRunning
    /\ BeginWith(c, "remove", id)
    /\ UNCHANGED <<taskVars, runVars, mine, overtaken, isRunning, mCaptureFile, capture, late>>

\* ... and the offer, which adding makes unless the task has finished and
\* removing only while it runs; without it both test again.
AddOffer(c) ==
    /\ api[c] = "add"
    /\ IF mFinished THEN ApiGoto(c, "idle") /\ UNCHANGED taskVars
       ELSE Offer("add", arg[c]) /\ ApiGoto(c, "addWait")
    /\ UNCHANGED <<runVars, mine, overtaken, isRunning, mCaptureFile, capture, late, arg>>

RemoveOffer(c) ==
    /\ api[c] = "remove"
    /\ IF mFinished \/ ~mIsRunning THEN ApiGoto(c, "idle") /\ UNCHANGED taskVars
       ELSE Offer("remove", arg[c]) /\ ApiGoto(c, "removeWait")
    /\ UNCHANGED <<runVars, mine, overtaken, isRunning, mCaptureFile, capture, late, arg>>

\* getSurface and reset: checkMasterSurface waits for a new one if it must.
CheckMasterSurface(c) ==
    /\ c \in SurfaceCallers /\ ~mFinished /\ ~masterValid
    /\ Begin(c, "result")
    /\ OfferForResult(c, "recreate")
    /\ UNCHANGED <<runVars, overtaken, isRunning, mCaptureFile, capture, late>>

\* The wait of offerAndWait looks every 100 ms.
Result(c) ==
    /\ api[c] = "result"
    /\ ~mIsRunning \/ request[mine[c]].forResult = "none"
    /\ mine' = [mine EXCEPT ![c] = None]
    /\ ApiGoto(c, "idle")
    /\ UNCHANGED <<taskVars, runVars, overtaken, isRunning, mCaptureFile, capture, late, arg>>

\* requestFrame: removeRequest looks for a draw request ...
RequestFrame(c) ==
    /\ c \in FrameCallers
    /\ Begin(c, "find")
    /\ UNCHANGED <<taskVars, runVars, mine, overtaken, isRunning, mCaptureFile, capture, late>>

FindRequest(c) ==
    /\ api[c] = "find"
    /\ LET draws == {i \in DOMAIN mRequestQueue : request[mRequestQueue[i]].what = "draw"}
       IN  IF draws = {} \/ ~mIsRunning \/ mFinished
              THEN ApiGoto(c, "offerDraw") /\ UNCHANGED mine
              ELSE /\ \E i \in draws : /\ \A j \in draws : i <= j
                                       /\ mine' = [mine EXCEPT ![c] = mRequestQueue[i]]
                   /\ ApiGoto(c, "removeRequest")
    /\ UNCHANGED <<taskVars, runVars, overtaken, isRunning, mCaptureFile, capture, late, arg>>

\* Mutant of RemoveRequest: the Request is pooled and stays in the queue.
RemoveRequestKeeps(c) ==
    /\ api[c] = "removeRequest"
    /\ GiveBack(mine[c])
    /\ mine' = [mine EXCEPT ![c] = None]
    /\ ApiGoto(c, "find")
    /\ UNCHANGED <<request, mRequestQueue, runVars, overtaken, isRunning, mCaptureFile, capture,
                   late, arg>>

\* ... takes out one that equals it, if there still is one, and pools the one
\* it found, which the worker may have taken in between ...
RemoveRequest(c) ==
    /\ api[c] = "removeRequest"
    /\ mRequestQueue' = Removed(mRequestQueue, mine[c])
    /\ GiveBack(mine[c])
    /\ mine' = [mine EXCEPT ![c] = None]
    /\ ApiGoto(c, "find")
    /\ UNCHANGED <<request, runVars, overtaken, isRunning, mCaptureFile, capture, late, arg>>

\* ... and then offers one.
OfferDraw(c) ==
    /\ api[c] = "offerDraw"
    /\ IF mIsRunning /\ ~mFinished THEN Offer("draw", None)
       ELSE UNCHANGED taskVars
    /\ ApiGoto(c, "idle")
    /\ UNCHANGED <<runVars, mine, overtaken, isRunning, mCaptureFile, capture, late, arg>>

\* captureStillAsync and captureStill: the file is left, the threads at the
\* holder's monitor are told, and captureStill waits for the next time.
CaptureStillAsync(c) ==
    /\ c \in HolderCallers /\ api[c] = "idle"
    /\ mCaptureFile' = TRUE
    /\ NotifyHolder
    /\ UNCHANGED <<taskVars, runVars, mine, overtaken, isRunning, late, arg>>

CaptureStill(c) ==
    /\ c \in HolderCallers /\ api[c] = "idle"
    /\ mCaptureFile' = TRUE
    /\ api' = [d \in Callers |-> IF d = c THEN "stillWait"
                                 ELSE IF api[d] = "stillWait" THEN "idle" ELSE api[d]]
    /\ capture' = IF capture = "waiting" THEN "woken" ELSE capture
    /\ UNCHANGED <<taskVars, runVars, mine, overtaken, isRunning, late, arg>>

\* release: mIsRunning is cleared; unless the task has finished the queue is
\* cleared and ended; whoever cleared the flag waits for the end of the task;
\* then the holder is stopped.
Release(c) ==
    /\ c \in HolderCallers
    /\ Begin(c, IF mIsRunning THEN "clear" ELSE "clearOnly")
    /\ mIsRunning' = FALSE
    /\ UNCHANGED <<taskVars, mFinished, mine, overtaken, isRunning, mCaptureFile, capture, late>>

\* Mutant of ReleaseClear: the queue is cleared and the worker is not told.
ReleaseClearOnly(c) ==
    /\ api[c] \in {"clear", "clearOnly"}
    /\ mRequestQueue' = <<>>
    /\ ApiGoto(c, IF mFinished \/ api[c] = "clearOnly" THEN "stopHolder" ELSE "join")
    /\ UNCHANGED <<mRequestPool, request, runVars, mine, overtaken, isRunning, mCaptureFile,
                   capture, late, arg>>

ReleaseClear(c) ==
    /\ api[c] \in {"clear", "clearOnly"}
    /\ IF mFinished THEN UNCHANGED taskVars ELSE OfferQuit
    /\ ApiGoto(c, IF mFinished \/ api[c] = "clearOnly" THEN "stopHolder" ELSE "join")
    /\ UNCHANGED <<runVars, mine, overtaken, isRunning, mCaptureFile, capture, late, arg>>

ReleaseJoin(c) ==
    /\ api[c] = "join" /\ mFinished
    /\ ApiGoto(c, "stopHolder")
    /\ UNCHANGED <<taskVars, runVars, mine, overtaken, isRunning, mCaptureFile, capture, late, arg>>

ReleaseHolder(c) ==
    /\ api[c] = "stopHolder"
    /\ isRunning' = FALSE
    /\ late' = (late \/ capture \in {"begin", "sync"})
    /\ api' = [d \in Callers |-> IF d = c \/ api[d] = "stillWait" THEN "idle" ELSE api[d]]
    /\ capture' = IF capture = "waiting" THEN "woken" ELSE capture
    /\ UNCHANGED <<taskVars, runVars, mine, overtaken, mCaptureFile, arg>>

Call(c) ==
    \/ /\ InUse <= MAX_IN_USE
       /\ \/ \E id \in Ids : AddSurface(c, id) \/ RemoveSurface(c, id)
          \/ CheckMasterSurface(c) \/ RequestFrame(c)
    \/ CaptureStillAsync(c) \/ CaptureStill(c) \/ Release(c)

Continue(c) ==
    \/ AddOffer(c) \/ RemoveOffer(c) \/ Result(c)
    \/ FindRequest(c) \/ RemoveRequest(c) \/ OfferDraw(c)
    \/ ReleaseClear(c) \/ ReleaseJoin(c) \/ ReleaseHolder(c)

-----------------------------------------------------------------------------

\* Nothing is said of a task whose Requests got mixed up: the model ends there.
Next ==
    /\ ~overtaken
    /\ \/ WorkerStep \/ CaptureStep
       \/ OnFrameAvailable \/ MasterReleased
       \/ \E c \in Callers : (Call(c) \/ Continue(c)) /\ CallerKeeps

Spec == Init /\ [][Next]_vars

\* The threads run on, and a caller goes on with a call it has begun.
FairSpec ==
    /\ Spec
    /\ WF_vars(~overtaken /\ WorkerStep) /\ WF_vars(~overtaken /\ CaptureStep)
    /\ \A c \in Callers : WF_vars(~overtaken /\ Continue(c) /\ CallerKeeps)

-----------------------------------------------------------------------------
(* Properties *)

TypeOK ==
    /\ TaskTypeOK
    /\ mClients \subseteq Ids /\ masterValid \in BOOLEAN
    /\ isRunning \in BOOLEAN /\ mCaptureFile \in BOOLEAN /\ taken \in BOOLEAN
    /\ capture \in {"begin", "test", "sync", "waiting", "woken", "ended"}
    /\ api \in [Callers -> {"idle", "add", "addWait", "remove", "removeWait", "result", "find",
                            "removeRequest", "offerDraw", "stillWait", "clear", "clearOnly",
                            "join", "stopHolder"}]
    /\ arg \in [Callers -> Ids]
    /\ late \in BOOLEAN

\* A Request object is in one place at a time, so that no message overwrites
\* another one, unless removeRequest was overtaken by the worker.
RequestOwnedOnce == \A q \in Requests : Places(q) <= 1

\* addSurface and removeSurface return, unless the renderer is released while
\* they wait (their request is thrown away, and nobody tells them) or a
\* Request was overwritten.
SurfaceCallReturns ==
    \A c \in SurfaceCallers :
        api[c] \in {"addWait", "removeWait"} ~> api[c] = "idle" \/ ~mIsRunning \/ overtaken

\* When removeSurface has waited, nothing draws on the surface any more.
RemovedWhenReturned ==
    [][\A c \in Callers :
          api[c] = "removeWait" /\ api'[c] = "idle" => arg[c] \notin mClients']_vars

\* A still picture that is asked for before the holder stops is answered,
\* whatever happens to the renderer in between.
StillReturns ==
    \A c \in HolderCallers : (api[c] = "stillWait" /\ isRunning) ~> api[c] # "stillWait" \/ overtaken

\* release returns, and the task ends with no surface left, unless the quit
\* message was sent in a Request that removeRequest then took out.
ReleaseReturns ==
    /\ \A c \in HolderCallers :
          api[c] \in {"clear", "clearOnly", "join"} ~> api[c] = "idle" \/ overtaken
    /\ ~mIsRunning ~> (worker = "ended" /\ mClients = {}) \/ overtaken

\* The capture thread ends with the holder, unless the end fell between its
\* test and its wait.
CaptureEnds == ~isRunning ~> capture = "ended" \/ late \/ overtaken
=============================================================================
