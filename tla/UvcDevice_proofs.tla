-------------------------- MODULE UvcDevice_proofs --------------------------
(***************************************************************************)
(* What a camera has acquired at each place of connect and release:        *)
(* nothing uses a freed handle, and between the calls a camera has all or  *)
(* nothing.                                                                *)
(*                                                                         *)
(* The invariant says for each thing that is acquired at which places of   *)
(* the caller it is there.  The event thread adds that it lives only when  *)
(* the handle does, and that it has let go of the transfer, and is about   *)
(* to see the kill flag, when libusb_close is through.                     *)
(***************************************************************************)
EXTENDS UvcDevice, TLAPS

\* uvc_open is under way with a device, and with a handle.
Opening == {"claim", "submit", "start", "fail"}
WithDevice == {"openUsb", "openFailed"} \cup Opening

\* The places where the camera has its handle, and those where it may.
Registering == {"status", "button", "preview"}
Deleting == {"deleteStatus", "deleteButton", "deletePreview"}
Closing == {"releaseIf", "kill", "closeUsb", "join"}
Using == Registering \cup Deleting \cup Closing
Between == {"idle", "stop", "stopping", "hung"}

HandleHeld ==
    /\ mDeviceHandle => caller \in Using \cup Between
    /\ caller \in Using => mDeviceHandle
    /\ devh <=> mDeviceHandle \/ caller \in Opening
    /\ usbHandle <=> devh /\ caller # "join"
    /\ claimed => devh /\ caller \notin {"claim", "kill", "closeUsb", "join"}
    /\ devh /\ caller \notin {"claim", "fail", "kill", "closeUsb", "join"} => claimed

\* The device is referred to by the camera and by the handle.
DeviceHeld ==
    /\ mDevice <=> \/ mDeviceHandle \/ caller \in WithDevice
                   \/ caller = "unref" /\ mFd = 1
    /\ ref = (IF mDevice THEN 1 ELSE 0) + (IF devh THEN 1 ELSE 0)

FdsHeld ==
    /\ mFd = 1 => mUsbFs /\ (mDeviceHandle \/ caller \in {"unref", "closeFd"})
    /\ mDeviceHandle => mFd = 1
    /\ fds = IF mFd = 1 \/ caller = "getDevice" \/ caller \in WithDevice THEN 1 ELSE 0
    /\ mDeviceHandle \/ caller = "getDevice" \/ caller \in WithDevice => context /\ mUsbFs

\* The callback objects and the preview, and the transfer.
ObjectsHeld ==
    /\ registered = CASE ~mDeviceHandle \/ caller = "status" -> {}
                      [] mDeviceHandle /\ caller = "button" -> {"status"}
                      [] OTHER -> Kinds
    /\ alive = CASE ~mDeviceHandle \/ caller \in {"status"} \cup Closing -> {}
                 [] mDeviceHandle /\ caller = "button" -> {"status"}
                 [] mDeviceHandle /\ caller = "preview" -> Kinds
                 [] mDeviceHandle /\ caller = "deleteButton" -> {"button", "preview"}
                 [] mDeviceHandle /\ caller = "deletePreview" -> {"preview"}
                 [] OTHER -> Kinds \cup {"preview"}
    /\ xfer # "none" => devh /\ caller # "claim"
    /\ ~NoStream => mDeviceHandle /\ caller \in Between
    /\ caller = "stopping" => NoStream \/ stream \in {"cancelled", "stuck"}

\* The event thread.
HandlerLives ==
    /\ handler.pc \notin {"none", "ended"} => mDeviceHandle
    /\ mDeviceHandle => handler.pc # "none"
    /\ mDeviceHandle /\ handler.pc = "ended" => kill
    /\ caller \in {"closeUsb", "join"} => kill
    /\ caller = "join" => /\ handler.pc \in {"loop", "tested", "events", "ended"}
                          /\ xfer \in {"none", "allocated"}
    /\ caller \in {"submit", "fail"} => xfer \in {"none", "allocated"}
    /\ kill /\ caller \in Connecting => reopened
    /\ kill /\ mDeviceHandle /\ caller \notin {"closeUsb", "join"} => reopened

\* The types that the parts above do not give.
Flags ==
    /\ destroying \in BOOLEAN /\ mUsbFs \in BOOLEAN /\ context \in BOOLEAN /\ kill \in BOOLEAN
    /\ reopened \in BOOLEAN /\ mDevice \in BOOLEAN /\ devh \in BOOLEAN
    /\ mDeviceHandle \in BOOLEAN /\ usbHandle \in BOOLEAN /\ claimed \in BOOLEAN
Places ==
    /\ caller \in Connecting \cup Releasing \cup {"idle", "hung", "destroyed"} /\ mFd \in {0, 1}
    /\ handler.pc \in {"none", "loop", "tested", "events", "process", "call", "resubmit", "ended"}
    /\ handler.kind \in Kinds \cup {"none"}
    /\ xfer \in {"none", "allocated", "flying", "done"}
    /\ stream \in {"none", "running", "stuck", "unplugged", "cancelled", "orphaned"}

Parts == Places /\ HandleHeld /\ DeviceHeld /\ FdsHeld /\ ObjectsHeld /\ HandlerLives
Held  == Flags /\ Parts

\* Whatever release waits for, the event thread is there to do it: to give back
\* the transfers of the stream, unless one was lost or the camera was connected
\* again, and to end, be it after one more wait for events that only its timeout
\* ends.  An event that came finds it as well, once it is started and until
\* libusb_close.
ReleaseServed ==
    /\ caller = "stopping" =>
          \/ stream \in {"none", "orphaned", "stuck"}
          \/ stream = "cancelled" /\ (reopened \/ (~kill /\ handler.pc \notin {"none", "ended"}))
    /\ caller = "closeUsb" => kill
    /\ caller = "join" => kill /\ handler.pc \in {"loop", "tested", "events", "ended"}
    /\ xfer = "done" => \/ reopened \/ caller \in {"start", "closeUsb"}
                       \/ (~kill /\ handler.pc \notin {"none", "ended"})

-----------------------------------------------------------------------------

\* At first nothing is held.
LEMMA Start == Init => Held
  <1> SUFFICES ASSUME Init PROVE Held
    OBVIOUS
  <1>1. Flags
    BY DEF Init, Flags
  <1>2. Parts
    BY DEF Init, Parts, Places, HandleHeld, DeviceHeld, FdsHeld, ObjectsHeld, HandlerLives,
           Opening, WithDevice, Registering, Deleting, Closing, Using, Between, Kinds,
           Connecting, Releasing, At, HandlesEvents, NoStream
  <1> QED BY <1>1, <1>2 DEF Held, Parts

\* connect acquires one thing after the other, and gives them back on failure.
LEMMA ConnectKeeps ==
    ASSUME Held, Connect \/ StartPreview \/ ConnectStep
    PROVE  Held'
  <1> USE DEF Held, Parts, Places, HandleHeld, DeviceHeld, FdsHeld, ObjectsHeld, HandlerLives,
              Opening, WithDevice, Registering, Deleting, Closing, Using, Between, Kinds,
              Connecting, Releasing, callVars, fdVars, threadVars, deviceVars, handleVars,
              At, HandlesEvents, NoStream, Goto
  <1>1. CASE Connect
    <2>1. Flags'
      BY <1>1 DEF Connect, Flags
    <2>2. Parts'
      BY <1>1 DEF Connect
    <2> QED BY <2>1, <2>2
  <1>2. CASE GetDevice
    <2>1. Flags'
      BY <1>2 DEF GetDevice, Flags
    <2>2. Parts'
      BY <1>2 DEF GetDevice
    <2> QED BY <2>1, <2>2
  <1>3. CASE OpenUsb
    <2>1. Flags'
      BY <1>3 DEF OpenUsb, Flags
    <2>2. Parts'
      BY <1>3 DEF OpenUsb
    <2> QED BY <2>1, <2>2
  <1>4. CASE Claim
    <2>1. Flags'
      BY <1>4 DEF Claim, Flags
    <2>2. Parts'
      BY <1>4 DEF Claim
    <2> QED BY <2>1, <2>2
  <1>5. CASE Submit
    <2>1. Flags'
      BY <1>5 DEF Submit, Flags
    <2>2. Parts'
      BY <1>5 DEF Submit
    <2> QED BY <2>1, <2>2
  <1>6. CASE StartHandler
    <2>1. Flags'
      BY <1>6 DEF StartHandler, Flags
    <2>2. Parts'
      BY <1>6 DEF StartHandler
    <2> QED BY <2>1, <2>2
  <1>7. CASE Construct("status", "button")
    <2>1. Flags'
      BY <1>7 DEF Construct, Flags
    <2>2. Parts'
      BY <1>7 DEF Construct
    <2> QED BY <2>1, <2>2
  <1>8. CASE Construct("button", "preview")
    <2>1. Flags'
      BY <1>8 DEF Construct, Flags
    <2>2. Parts'
      BY <1>8 DEF Construct
    <2> QED BY <2>1, <2>2
  <1>9. CASE ConstructPreview
    <2>1. Flags'
      BY <1>9 DEF ConstructPreview, Flags
    <2>2. Parts'
      BY <1>9 DEF ConstructPreview
    <2> QED BY <2>1, <2>2
  <1>10. CASE Fail
    <2>1. Flags'
      BY <1>10 DEF Fail, Flags
    <2>2. Parts'
      BY <1>10 DEF Fail
    <2> QED BY <2>1, <2>2
  <1>11. CASE OpenFailed
    <2>1. Flags'
      BY <1>11 DEF OpenFailed, Flags
    <2>2. Parts'
      BY <1>11 DEF OpenFailed
    <2> QED BY <2>1, <2>2
  <1>12. CASE StartPreview
    <2>1. Flags'
      BY <1>12 DEF StartPreview, Flags
    <2>2. Parts'
      BY <1>12 DEF StartPreview
    <2> QED BY <2>1, <2>2
  <1> HIDE DEF Held, Parts, Goto
  <1> QED BY <1>1, <1>2, <1>3, <1>4, <1>5, <1>6, <1>7, <1>8, <1>9, <1>10, <1>11, <1>12 DEF ConnectStep

\* release and uvc_close give everything back in their order.
LEMMA ReleaseKeeps ==
    ASSUME Held, (\E destroy \in BOOLEAN : Release(destroy)) \/ ReleaseStep
    PROVE  Held'
  <1> USE DEF Held, Parts, Places, HandleHeld, DeviceHeld, FdsHeld, ObjectsHeld, HandlerLives,
              Opening, WithDevice, Registering, Deleting, Closing, Using, Between, Kinds,
              Connecting, Releasing, callVars, fdVars, threadVars, deviceVars, handleVars,
              At, HandlesEvents, NoStream, Goto
  <1>1. CASE \E destroy \in BOOLEAN : Release(destroy)
    <2>1. Flags'
      BY <1>1 DEF Release, Flags
    <2>2. Parts'
      BY <1>1 DEF Release
    <2> QED BY <2>1, <2>2
  <1>2. CASE Stop
    <2>1. Flags'
      BY <1>2 DEF Stop, Flags
    <2>2. Parts'
      BY <1>2 DEF Stop
    <2> QED BY <2>1, <2>2
  <1>3. CASE Stopped
    <2>1. Flags'
      BY <1>3 DEF Stopped, Flags
    <2>2. Parts'
      BY <1>3 DEF Stopped
    <2> QED BY <2>1, <2>2
  <1>14. CASE StopHangs
    <2>1. Flags'
      BY <1>14 DEF StopHangs, Flags
    <2>2. Parts'
      BY <1>14 DEF StopHangs
    <2> QED BY <2>1, <2>2
  <1>4. CASE Delete("deleteStatus", "status", "deleteButton")
    <2>1. Flags'
      BY <1>4 DEF Delete, Flags
    <2>2. Parts'
      BY <1>4 DEF Delete
    <2> QED BY <2>1, <2>2
  <1>5. CASE Delete("deleteButton", "button", "deletePreview")
    <2>1. Flags'
      BY <1>5 DEF Delete, Flags
    <2>2. Parts'
      BY <1>5 DEF Delete
    <2> QED BY <2>1, <2>2
  <1>6. CASE Delete("deletePreview", "preview", "releaseIf")
    <2>1. Flags'
      BY <1>6 DEF Delete, Flags
    <2>2. Parts'
      BY <1>6 DEF Delete
    <2> QED BY <2>1, <2>2
  <1>7. CASE ReleaseInterface
    <2>1. Flags'
      BY <1>7 DEF ReleaseInterface, Flags
    <2>2. Parts'
      BY <1>7 DEF ReleaseInterface
    <2> QED BY <2>1, <2>2
  <1>8. CASE Kill
    <2>1. Flags'
      BY <1>8 DEF Kill, Flags
    <2>2. Parts'
      BY <1>8 DEF Kill
    <2> QED BY <2>1, <2>2
  <1>9. CASE CloseUsb
    <2>1. Flags'
      BY <1>9 DEF CloseUsb, Flags
    <2>2. Parts'
      BY <1>9 DEF CloseUsb
    <2> QED BY <2>1, <2>2
  <1>10. CASE Free
    <2>1. Flags'
      BY <1>10 DEF Free, Flags
    <2>2. Parts'
      BY <1>10 DEF Free
    <2> QED BY <2>1, <2>2
  <1>11. CASE UnrefDevice
    <2>1. Flags'
      BY <1>11 DEF UnrefDevice, Flags
    <2>2. Parts'
      BY <1>11 DEF UnrefDevice
    <2> QED BY <2>1, <2>2
  <1>12. CASE CloseFd
    <2>1. Flags'
      BY <1>12 DEF CloseFd, Flags
    <2>2. Parts'
      BY <1>12 DEF CloseFd
    <2> QED BY <2>1, <2>2
  <1>13. CASE Exit
    <2>1. Flags'
      BY <1>13 DEF Exit, Flags
    <2>2. Parts'
      BY <1>13 DEF Exit
    <2> QED BY <2>1, <2>2
  <1> HIDE DEF Held, Parts, Goto
  <1> QED BY <1>1, <1>2, <1>3, <1>4, <1>5, <1>6, <1>7, <1>8, <1>9, <1>10, <1>11, <1>12, <1>13, <1>14
       DEF ReleaseStep

\* The event thread and the camera: only while there is a handle.
LEMMA HandlerKeeps ==
    ASSUME Held, HandlerStep \/ CameraSends
    PROVE  Held'
  <1> USE DEF Held, Parts, Places, HandleHeld, DeviceHeld, FdsHeld, ObjectsHeld, HandlerLives,
              Opening, WithDevice, Registering, Deleting, Closing, Using, Between, Kinds,
              Connecting, Releasing, callVars, fdVars, threadVars, deviceVars, handleVars,
              At, HandlesEvents, NoStream, Goto, HandlerAt
  <1>1. CASE HandlerTests
    <2>1. Flags'
      BY <1>1 DEF HandlerTests, Flags
    <2>2. Parts'
      BY <1>1 DEF HandlerTests
    <2> QED BY <2>1, <2>2
  <1>9. CASE HandlerEnters
    <2>1. Flags'
      BY <1>9 DEF HandlerEnters, Flags
    <2>2. Parts'
      BY <1>9 DEF HandlerEnters
    <2> QED BY <2>1, <2>2
  <1>10. CASE HandlerStreamFails
    <2>1. Flags'
      BY <1>10 DEF HandlerStreamFails, Flags
    <2>2. Parts'
      BY <1>10 DEF HandlerStreamFails
    <2> QED BY <2>1, <2>2
  <1>2. CASE HandlerWakes
    <2>1. Flags'
      BY <1>2 DEF HandlerWakes, Flags
    <2>2. Parts'
      BY <1>2 DEF HandlerWakes
    <2> QED BY <2>1, <2>2
  <1>3. CASE HandlerStream
    <2>1. Flags'
      BY <1>3 DEF HandlerStream, Flags
    <2>2. Parts'
      BY <1>3 DEF HandlerStream
    <2> QED BY <2>1, <2>2
  <1>4. CASE HandlerStatus
    <2>1. Flags'
      BY <1>4 DEF HandlerStatus, Flags
    <2>2. CASE HandlerAt("events", "loop")
      <3>1. Parts'
        BY <1>4, <2>2 DEF HandlerStatus
      <3> QED BY <2>1, <3>1
    <2>3. ASSUME NEW kind \in Kinds, handler.pc = "events", handler' = At("process", kind),
                 UNCHANGED <<callVars, fdVars, context, kill, deviceVars, handleVars, alive>>
          PROVE  Held'
      <3>1. Parts'
        BY <1>4, <2>3 DEF HandlerStatus
      <3> QED BY <2>1, <3>1
    <2> QED BY <1>4, <2>2, <2>3 DEF HandlerStatus
  <1>5. CASE HandlerCalls
    <2>1. Flags'
      BY <1>5 DEF HandlerCalls, Flags
    <2>2. Parts'
      BY <1>5 DEF HandlerCalls
    <2> QED BY <2>1, <2>2
  <1>6. CASE HandlerCalled
    <2>1. Flags'
      BY <1>6 DEF HandlerCalled, Flags
    <2>2. Parts'
      BY <1>6 DEF HandlerCalled
    <2> QED BY <2>1, <2>2
  <1>7. CASE HandlerResubmits
    <2>1. Flags'
      BY <1>7 DEF HandlerResubmits, Flags
    <2>2. Parts'
      BY <1>7 DEF HandlerResubmits
    <2> QED BY <2>1, <2>2
  <1>8. CASE CameraSends
    <2>1. Flags'
      BY <1>8 DEF CameraSends, Flags
    <2>2. Parts'
      BY <1>8 DEF CameraSends
    <2> QED BY <2>1, <2>2
  <1> HIDE DEF Held, Parts, Goto
  <1> QED BY <1>1, <1>2, <1>3, <1>4, <1>5, <1>6, <1>7, <1>8, <1>9, <1>10 DEF HandlerStep

\* What the caller and the event thread do keeps the account.
LEMMA HeldIsInvariant == Spec => []Held
  <1>1. Held /\ UNCHANGED vars => Held'
    BY DEF Held, Flags, Parts, Places, HandleHeld, DeviceHeld, FdsHeld, ObjectsHeld, HandlerLives,
           HandlesEvents, NoStream, vars, callVars, fdVars, threadVars, deviceVars, handleVars
  <1>2. Held /\ [Next]_vars => Held'
    BY <1>1, ConnectKeeps, ReleaseKeeps, HandlerKeeps DEF Next, CallerStep
  <1> QED BY <1>2, Start, PTL DEF Spec

-----------------------------------------------------------------------------

\* The variables have their types; a device has one reference of the camera and
\* one of its handle at most.
THEOREM TypeCorrect == Spec => []TypeOK
  <1>1. Held => TypeOK
    <2> SUFFICES ASSUME Held PROVE TypeOK
      OBVIOUS
    <2>1. ref \in 0..2 /\ fds \in {0, 1}
      BY DEF Held, Parts, DeviceHeld, FdsHeld
    <2>2. registered \subseteq Kinds /\ alive \subseteq Kinds \cup {"preview"}
      BY DEF Held, Parts, ObjectsHeld, Kinds
    <2> QED BY <2>1, <2>2, Zenon DEF Held, Parts, Flags, Places, TypeOK
  <1> QED BY <1>1, HeldIsInvariant, PTL

\* Whichever step of connect fails and wherever release is called: between the
\* calls the camera has everything it needs or nothing at all.
THEOREM AllOrNothingHeld == Spec => []AllOrNothing
  <1>1. Held => AllOrNothing
    BY DEF Held, Flags, Parts, Places, HandleHeld, DeviceHeld, FdsHeld, ObjectsHeld, HandlerLives,
           Opening, WithDevice, Registering, Deleting, Closing, Using, Between, NoStream, AllOrNothing
  <1> QED BY <1>1, HeldIsInvariant, PTL

\* uvc_free_devh frees a handle only when the event thread has ended and no stream
\* is open, and nobody gets to use it afterwards; but for a stream that was
\* orphaned when the camera was unplugged.
THEOREM HandleFreedQuietly == Spec => []FreedQuietly
  <1>1. Held => FreedQuietly
    BY DEF Held, Flags, Parts, Places, HandleHeld, ObjectsHeld, HandlerLives, NoStream, FreedQuietly
  <1> QED BY <1>1, HeldIsInvariant, PTL

\* The safety behind ReleaseEnds and StatusHandled: uvc_stop_streaming (unless a
\* transfer was lost), libusb_close and the join in uvc_close wait for a thread
\* that is there and that was told.
THEOREM ReleaseAlwaysServed == Spec => []ReleaseServed
  <1>1. Held => ReleaseServed
    BY DEF Held, Flags, Parts, Places, HandleHeld, ObjectsHeld, HandlerLives, Opening,
           Using, Registering, Deleting, Closing, Between, HandlesEvents, NoStream, ReleaseServed
  <1> QED BY <1>1, HeldIsInvariant, PTL
=============================================================================
