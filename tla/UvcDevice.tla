------------------------------ MODULE UvcDevice ------------------------------
(***************************************************************************)
(* The native camera object and its libuvc device: UVCCamera::connect and  *)
(* release, uvc_open and uvc_close, the event thread of the libuvc context *)
(* and the status transfer that it handles.                                *)
(*                                                                         *)
(* Two threads run: the caller of the Java methods open, startPreview,     *)
(* close and destroy, which are synchronized, and the event thread, which  *)
(* exists while a device is open.  Every acquisition may fail; a connect   *)
(* that fails gives back what it has.  UvcStream has the details of the    *)
(* stream of a preview, UVCPreview those of stopPreview: here a stream is  *)
(* "running", "stuck" (a transfer is lost: its resubmission failed),       *)
(* "unplugged" (the stream callback found the camera gone), "cancelled"    *)
(* by a stop, or "orphaned": freed under its transfers and its thread.     *)
(***************************************************************************)
EXTENDS Integers

Kinds == {"status", "button"}      \* of callback objects

VARIABLES
    caller, destroying,     \* what the Java caller does; destroy and not only close
    mUsbFs, mFd, fds,       \* name of usbfs is set; descriptor to close; open duplicates
    context, kill,          \* the uvc_context and its kill_handler_thread
    handler,                \* the event thread: its place, and the kind of an event
    mDevice, ref,           \* pointer to the uvc_device is set; its reference count
    devh, mDeviceHandle,    \* the handle that uvc_open made; pointer to it is set
    usbHandle, claimed,     \* what the handle has: libusb handle, control interface,
    xfer, registered,       \* the status transfer, callback objects it knows
    alive, stream,          \* callback objects and preview that exist; the stream
    reopened                \* history: connected again after a device was closed

callVars   == <<caller, destroying>>
fdVars     == <<mUsbFs, mFd, fds>>
threadVars == <<kill, handler>>
deviceVars == <<mDevice, ref>>
handleVars == <<devh, mDeviceHandle, usbHandle, claimed, registered>>
vars == <<callVars, fdVars, context, threadVars, deviceVars, handleVars, xfer, alive, stream,
          reopened>>

At(pc, kind) == [pc |-> pc, kind |-> kind]

Init ==
    /\ caller = "idle" /\ destroying = FALSE
    /\ mUsbFs = FALSE /\ mFd = 0 /\ fds = 0
    /\ context = FALSE /\ kill = FALSE /\ handler = At("none", "none")
    /\ mDevice = FALSE /\ ref = 0
    /\ devh = FALSE /\ mDeviceHandle = FALSE
    /\ usbHandle = FALSE /\ claimed = FALSE /\ xfer = "none" /\ registered = {}
    /\ alive = {} /\ stream = "none" /\ reopened = FALSE

Goto(from, to) == caller = from /\ caller' = to /\ UNCHANGED destroying

\* The event thread holds the lock of libusb's events.
HandlesEvents == handler.pc \in {"events", "process", "call", "resubmit"}

\* There is no stream handle: the last one was closed, or freed in use.
NoStream == stream \in {"none", "orphaned"}

-----------------------------------------------------------------------------
(* UVCCamera::connect and uvc_open *)

\* The name is kept and the descriptor duplicated; the context is made once.
\* A camera that is connected refuses.
Connect ==
    /\ ~mDeviceHandle
    /\ mUsbFs' = TRUE
    /\ \/ /\ Goto("idle", "getDevice")
          /\ context' = TRUE
          /\ fds' = fds + 1
          /\ reopened' = kill
       \/ /\ Goto("idle", "idle") /\ ~context
          /\ UNCHANGED <<context, fds, reopened>>
    /\ UNCHANGED <<mFd, threadVars, deviceVars, handleVars, xfer, alive, stream>>

\* uvc_get_device_with_fd
GetDevice ==
    /\ \/ Goto("getDevice", "openUsb") /\ mDevice' = TRUE /\ ref' = 1 /\ UNCHANGED fds
       \/ Goto("getDevice", "idle") /\ fds' = fds - 1 /\ UNCHANGED deviceVars
    /\ UNCHANGED <<mUsbFs, mFd, context, threadVars, handleVars, xfer, alive, stream, reopened>>

\* libusb_open, a reference for the handle, and the handle itself.
OpenUsb ==
    /\ \/ /\ Goto("openUsb", "claim")
          /\ usbHandle' = TRUE /\ ref' = ref + 1 /\ devh' = TRUE /\ registered' = {}
       \/ /\ Goto("openUsb", "openFailed")
          /\ UNCHANGED <<usbHandle, ref, devh, registered>>
    /\ UNCHANGED <<fdVars, context, threadVars, mDevice, mDeviceHandle, claimed, xfer, alive, stream,
                   reopened>>

\* uvc_get_device_info and uvc_claim_if
Claim ==
    /\ \/ Goto("claim", "submit") /\ claimed' = TRUE
       \/ Goto("claim", "fail") /\ UNCHANGED claimed
    /\ UNCHANGED <<fdVars, context, threadVars, deviceVars, devh, mDeviceHandle, usbHandle,
                   registered, xfer, alive, stream, reopened>>

\* The status transfer, when the camera has an endpoint for it.
Submit ==
    /\ \/ Goto("submit", "start") /\ xfer' \in {"none", "flying"}
       \/ Goto("submit", "fail") /\ xfer' \in {"none", "allocated"}
    /\ UNCHANGED <<fdVars, context, threadVars, deviceVars, handleVars, alive, stream, reopened>>

\* Mutant of StartHandler: the device is already in the list of open devices.
StartHandlerNever ==
    /\ Goto("start", "status")
    /\ mDeviceHandle' = TRUE /\ mFd' = 1
    /\ UNCHANGED <<mUsbFs, fds, context, threadVars, deviceVars, devh, usbHandle, claimed,
                   registered, xfer, alive, stream, reopened>>

\* The first device that is open gets the event thread.  uvc_open is done.
StartHandler ==
    /\ Goto("start", "status")
    /\ handler' = At("loop", "none")
    /\ mDeviceHandle' = TRUE /\ mFd' = 1
    /\ UNCHANGED <<mUsbFs, fds, context, kill, deviceVars, devh, usbHandle, claimed, registered,
                   xfer, alive, stream, reopened>>

\* The constructors of the callback objects register them, under the mutex of
\* the handle that the event thread holds while it calls one.
Construct(kind, next) ==
    /\ Goto(kind, next)
    /\ handler.pc # "call"
    /\ alive' = alive \cup {kind}
    /\ registered' = registered \cup {kind}
    /\ UNCHANGED <<fdVars, context, threadVars, deviceVars, devh, mDeviceHandle, usbHandle, claimed,
                   xfer, stream, reopened>>

ConstructPreview ==
    /\ Goto("preview", "idle")
    /\ alive' = alive \cup {"preview"}
    /\ UNCHANGED <<fdVars, context, threadVars, deviceVars, handleVars, xfer, stream, reopened>>

\* Mutant of Fail: the reference of the handle is kept.
FailKeepsReference ==
    /\ Goto("fail", "openFailed")
    /\ claimed' = FALSE /\ usbHandle' = FALSE /\ devh' = FALSE /\ xfer' = "none"
    /\ UNCHANGED <<fdVars, context, threadVars, deviceVars, mDeviceHandle, registered, alive, stream,
                   reopened>>

\* fail: the handle is taken down again.
Fail ==
    /\ Goto("fail", "openFailed")
    /\ claimed' = FALSE /\ usbHandle' = FALSE /\ devh' = FALSE /\ xfer' = "none"
    /\ ref' = ref - 1
    /\ UNCHANGED <<fdVars, context, threadVars, mDevice, mDeviceHandle, registered, alive, stream,
                   reopened>>

\* Mutant of OpenFailed: the device is released once more.
OpenFailedTwice ==
    /\ Goto("openFailed", "idle")
    /\ ref' = ref - 2 /\ mDevice' = FALSE
    /\ fds' = fds - 1
    /\ UNCHANGED <<mUsbFs, mFd, context, threadVars, handleVars, xfer, alive, stream, reopened>>

\* connect gives the device and its descriptor back; mUsbFs stays set.
OpenFailed ==
    /\ Goto("openFailed", "idle")
    /\ ref' = ref - 1 /\ mDevice' = FALSE
    /\ fds' = fds - 1
    /\ UNCHANGED <<mUsbFs, mFd, context, threadVars, handleVars, xfer, alive, stream, reopened>>

StartPreview ==
    /\ Goto("idle", "idle")
    /\ mDeviceHandle /\ NoStream
    /\ stream' = "running"
    /\ UNCHANGED <<fdVars, context, threadVars, deviceVars, handleVars, xfer, alive, reopened>>

ConnectStep ==
    \/ GetDevice \/ OpenUsb \/ Claim \/ Submit \/ StartHandler
    \/ Construct("status", "button") \/ Construct("button", "preview") \/ ConstructPreview
    \/ Fail \/ OpenFailed

-----------------------------------------------------------------------------
(* UVCCamera::release and uvc_close *)

\* close, or destroy, which closes first.
Release(destroy) ==
    /\ caller = "idle" /\ caller' = "stop" /\ destroying' = destroy
    /\ UNCHANGED <<fdVars, context, threadVars, deviceVars, handleVars, xfer, alive, stream,
                   reopened>>

\* stopPreview cancels the transfers of the stream; when the stream callback has
\* found the camera gone, it only frees the stream handle, which the transfers
\* and the callback thread may still use ...
Stop ==
    /\ Goto("stop", "stopping")
    /\ CASE stream = "running"   -> stream' = "cancelled"
         [] stream = "unplugged" -> stream' \in {"none", "orphaned"}
         [] OTHER                -> stream' = stream
    /\ UNCHANGED <<fdVars, context, threadVars, deviceVars, handleVars, xfer, alive, reopened>>

\* ... or does not return: the preview thread that it joins has missed its signal.
StopHangs ==
    /\ Goto("stop", "hung") /\ ~NoStream
    /\ UNCHANGED <<fdVars, context, threadVars, deviceVars, handleVars, xfer, alive, stream,
                   reopened>>

\* Mutant of Stopped: what is cancelled is not waited for.
StoppedAtOnce ==
    /\ Goto("stopping", IF mDeviceHandle THEN "deleteStatus" ELSE "unref")
    /\ UNCHANGED <<fdVars, context, threadVars, deviceVars, handleVars, xfer, alive, stream,
                   reopened>>

\* ... and waits until the event thread has given them back.
Stopped ==
    /\ NoStream
    /\ Goto("stopping", IF mDeviceHandle THEN "deleteStatus" ELSE "unref")
    /\ UNCHANGED <<fdVars, context, threadVars, deviceVars, handleVars, xfer, alive, stream,
                   reopened>>

\* The callback objects go first, still registered with the handle.
Delete(from, object, next) ==
    /\ Goto(from, next)
    /\ alive' = alive \ {object}
    /\ UNCHANGED <<fdVars, context, threadVars, deviceVars, handleVars, xfer, stream, reopened>>

\* uvc_close: uvc_release_if, ...
ReleaseInterface ==
    /\ Goto("releaseIf", "kill")
    /\ claimed' = FALSE
    /\ UNCHANGED <<fdVars, context, threadVars, deviceVars, devh, mDeviceHandle, usbHandle,
                   registered, xfer, alive, stream, reopened>>

\* Mutant of Kill: the event thread is not told.
KillNobody ==
    /\ Goto("kill", "closeUsb")
    /\ UNCHANGED <<fdVars, context, kill, handler, deviceVars, handleVars, xfer, alive, stream,
                   reopened>>

\* ... the event thread of the last device is told to end, ...
Kill ==
    /\ Goto("kill", "closeUsb")
    /\ kill' = TRUE
    /\ UNCHANGED <<fdVars, context, handler, deviceVars, handleVars, xfer, alive, stream, reopened>>

\* ... libusb_close interrupts it and drops the transfers under its lock, ...
CloseUsb ==
    /\ Goto("closeUsb", "join")
    /\ ~HandlesEvents
    /\ usbHandle' = FALSE
    /\ xfer' = IF xfer \in {"flying", "done"} THEN "allocated" ELSE xfer
    /\ UNCHANGED <<fdVars, context, threadVars, deviceVars, devh, mDeviceHandle, claimed, registered,
                   alive, stream, reopened>>

\* ... it is joined, and the handle freed.
Free ==
    /\ Goto("join", "unref")
    /\ handler.pc = "ended"
    /\ ref' = ref - 1
    /\ devh' = FALSE /\ mDeviceHandle' = FALSE /\ registered' = {} /\ xfer' = "none"
    /\ UNCHANGED <<fdVars, context, threadVars, mDevice, usbHandle, claimed, alive, stream, reopened>>

UnrefDevice ==
    /\ Goto("unref", "closeFd")
    /\ ref' = IF mDevice THEN ref - 1 ELSE ref
    /\ mDevice' = FALSE
    /\ UNCHANGED <<fdVars, context, threadVars, handleVars, xfer, alive, stream, reopened>>

\* The descriptor is closed if mUsbFs is set.  After a connect that failed it
\* is, and mFd is 0.  The destructor releases again, with nothing left to do.
CloseFd ==
    /\ Goto("closeFd", IF destroying THEN "exit" ELSE "idle")
    /\ fds' = IF mUsbFs /\ mFd = 1 THEN fds - 1 ELSE fds
    /\ mFd' = IF mUsbFs THEN 0 ELSE mFd
    /\ mUsbFs' = FALSE
    /\ UNCHANGED <<context, threadVars, deviceVars, handleVars, xfer, alive, stream, reopened>>

\* uvc_exit, when there is a context.
Exit ==
    /\ Goto("exit", "destroyed")
    /\ context' = FALSE
    /\ UNCHANGED <<fdVars, threadVars, deviceVars, handleVars, xfer, alive, stream, reopened>>

ReleaseStep ==
    \/ Stop \/ StopHangs \/ Stopped
    \/ Delete("deleteStatus", "status", "deleteButton")
    \/ Delete("deleteButton", "button", "deletePreview")
    \/ Delete("deletePreview", "preview", "releaseIf")
    \/ ReleaseInterface \/ Kill \/ CloseUsb \/ Free \/ UnrefDevice \/ CloseFd \/ Exit

-----------------------------------------------------------------------------
(* The event thread, and the camera *)

HandlerAt(from, to) ==
    /\ handler.pc = from /\ handler' = At(to, "none")
    /\ UNCHANGED <<callVars, fdVars, context, kill, deviceVars, handleVars, alive, reopened>>

\* _uvc_handle_events looks at the flag, ...
HandlerTests ==
    /\ HandlerAt("loop", IF kill THEN "ended" ELSE "tested")
    /\ UNCHANGED <<xfer, stream>>

\* ... then waits for events, be it after libusb_close; it does not get the lock
\* while libusb_close waits for it.
HandlerEnters ==
    /\ caller # "closeUsb" /\ HandlerAt("tested", "events")
    /\ UNCHANGED <<xfer, stream>>

\* An interrupt by libusb_close, or its timeout of a minute.
HandlerWakes == HandlerAt("events", "loop") /\ UNCHANGED <<xfer, stream>>

\* The transfers that were cancelled come back, all but one that was submitted
\* again in vain.
HandlerStream ==
    /\ HandlerAt("events", "loop")
    /\ stream = "cancelled" /\ stream' \in {"none", "stuck"}
    /\ UNCHANGED xfer

\* A resubmission fails, or the stream callback finds the camera gone before
\* anybody has begun to wait for the transfers.
HandlerStreamFails ==
    /\ HandlerAt("events", "loop")
    /\ \/ stream = "running" /\ stream' = "stuck"
       \/ /\ stream \in {"running", "stuck"} /\ caller # "stopping"
          /\ stream' = "unplugged"
    /\ UNCHANGED xfer

\* The camera sends a status, or the transfer ends with an error.
CameraSends ==
    /\ xfer = "flying" /\ xfer' = "done"
    /\ UNCHANGED <<callVars, fdVars, context, threadVars, deviceVars, handleVars, alive, stream,
                   reopened>>

\* _uvc_status_callback: after an error the transfer is not submitted again;
\* else it says which kind of callback is to be called.
HandlerStatus ==
    /\ xfer = "done" /\ xfer' = "allocated"
    /\ \/ HandlerAt("events", "loop")
       \/ \E kind \in Kinds :
             /\ handler.pc = "events" /\ handler' = At("process", kind)
             /\ UNCHANGED <<callVars, fdVars, context, kill, deviceVars, handleVars, alive, reopened>>
    /\ UNCHANGED stream

\* Whoever is registered is called under the mutex of the handle.
HandlerCalls ==
    /\ handler.pc = "process"
    /\ handler' = At(IF handler.kind \in registered THEN "call" ELSE "resubmit", handler.kind)
    /\ UNCHANGED <<callVars, fdVars, context, kill, deviceVars, handleVars, xfer, alive, stream,
                   reopened>>

HandlerCalled ==
    /\ handler.pc = "call" /\ handler' = At("resubmit", handler.kind)
    /\ UNCHANGED <<callVars, fdVars, context, kill, deviceVars, handleVars, xfer, alive, stream,
                   reopened>>

\* The transfer is submitted again, which may fail unnoticed.
HandlerResubmits ==
    /\ HandlerAt("resubmit", "loop")
    /\ xfer' \in {"flying", "allocated"}
    /\ UNCHANGED stream

HandlerStep ==
    \/ HandlerTests \/ HandlerEnters \/ HandlerWakes \/ HandlerStream \/ HandlerStreamFails
    \/ HandlerStatus \/ HandlerCalls \/ HandlerCalled \/ HandlerResubmits

-----------------------------------------------------------------------------

CallerStep == ConnectStep \/ ReleaseStep

Next ==
    \/ Connect \/ StartPreview \/ (\E destroy \in BOOLEAN : Release(destroy))
    \/ CallerStep \/ HandlerStep \/ CameraSends

Spec == Init /\ [][Next]_vars

\* Calls that have begun and the event thread go on, and an event that has
\* come is handled before the thread only wakes up.
FairSpec ==
    /\ Spec
    /\ WF_vars(CallerStep) /\ WF_vars(HandlerStep)
    /\ SF_vars(HandlerStream) /\ SF_vars(HandlerStatus)
-----------------------------------------------------------------------------
(* Properties *)

Connecting == {"getDevice", "openUsb", "claim", "submit", "start", "status", "button", "preview",
               "fail", "openFailed"}
Releasing  == {"stop", "stopping", "deleteStatus", "deleteButton", "deletePreview", "releaseIf",
               "kill", "closeUsb", "join", "unref", "closeFd", "exit"}

\* The variables keep their types; a device is referred to once by the camera
\* and once by its handle.
TypeOK ==
    /\ caller \in Connecting \cup Releasing \cup {"idle", "hung", "destroyed"} /\ destroying \in BOOLEAN
    /\ mUsbFs \in BOOLEAN /\ mFd \in {0, 1} /\ fds \in {0, 1}
    /\ context \in BOOLEAN /\ kill \in BOOLEAN /\ reopened \in BOOLEAN
    /\ handler.pc \in {"none", "loop", "tested", "events", "process", "call", "resubmit", "ended"}
    /\ handler.kind \in Kinds \cup {"none"}
    /\ mDevice \in BOOLEAN /\ ref \in 0..2
    /\ devh \in BOOLEAN /\ mDeviceHandle \in BOOLEAN
    /\ usbHandle \in BOOLEAN /\ claimed \in BOOLEAN
    /\ xfer \in {"none", "allocated", "flying", "done"}
    /\ registered \subseteq Kinds /\ alive \subseteq Kinds \cup {"preview"}
    /\ stream \in {"none", "running", "stuck", "unplugged", "cancelled", "orphaned"}

\* Between the calls the camera has everything it needs, or nothing: whatever
\* failed in connect, all that was acquired before has been given back, and
\* release leaves nothing (UVCCamera::connect, release, uvc_open, uvc_close).
AllOrNothing ==
    caller \in {"idle", "destroyed"} =>
        IF mDeviceHandle
            THEN /\ mUsbFs /\ mFd = 1 /\ fds = 1 /\ context /\ mDevice /\ ref = 2
                 /\ devh /\ usbHandle /\ claimed /\ registered = Kinds
                 /\ alive = Kinds \cup {"preview"} /\ handler.pc # "none"
            ELSE /\ mFd = 0 /\ fds = 0 /\ ~mDevice /\ ref = 0
                 /\ ~devh /\ ~usbHandle /\ ~claimed /\ xfer = "none"
                 /\ alive = {} /\ NoStream /\ handler.pc \in {"none", "ended"}

\* "Streaming must be stopped, and threads must have died" when a handle is
\* freed (uvc_free_devh): no event is handled, no transfer is out and no stream
\* is open without it; unless stopPreview orphaned the stream, after the camera
\* was unplugged.
FreedQuietly ==
    ~devh => handler.pc \in {"none", "ended"} /\ xfer = "none" /\ NoStream

\* A release that has begun ends, although it waits for the event thread
\* three times; unless stopPreview never returns, a transfer of the stream was
\* lost, or the camera was connected again with a stream, which a dead event
\* thread never gives back (uvc_close, uvc_stop_streaming).
ReleaseEnds ==
    (caller = "stop") ~> \/ caller \in {"idle", "hung", "destroyed"}
                         \/ caller = "stopping" /\ stream = "stuck"
                         \/ reopened /\ stream = "cancelled"

\* What the camera sends is handled, or dropped by a close; unless the camera
\* was connected again: the event thread then ends at once (uvc_open,
\* _uvc_handle_events).
StatusHandled == (xfer = "done") ~> (xfer # "done" \/ reopened)
=============================================================================
