----------------------------- MODULE UsbMonitor ------------------------------
(***************************************************************************)
(* USBMonitor: which USB devices are attached, permitted and connected.    *)
(*                                                                         *)
(* Three threads meet in it.  The main thread registers, unregisters and   *)
(* destroys the monitor, asks for permissions and receives the broadcasts  *)
(* of the system.  The thread of mAsyncHandler runs what is posted to it:  *)
(* the check that looks for devices every two seconds, the connecting of a *)
(* device, and the callbacks of the listener.  The camera thread opens a   *)
(* clone of a UsbControlBlock and closes it again (UVCCamera.java).        *)
(*                                                                         *)
(* A step is one access to shared state.  The system attaches and detaches *)
(* devices at any time.  A UsbControlBlock is the device it was made for   *)
(* and a number that tells it from others; onCancel, which changes nothing *)
(* here, is left out; so is what the application does with a block that    *)
(* onConnect gave it, but for opening a camera.                            *)
(***************************************************************************)
EXTENDS Integers, Sequences, FiniteSets, SequencesExt

CONSTANTS Devices,    \* UsbDevice objects, equal when they have the same name
          Wanted,     \* the devices that the application connects to and waits for
          Ids,        \* bound: numbers of UsbControlBlocks of one device
          Faults,     \* "open": the native open may fail after the clone was made;
                      \* "reopen": the application opens a camera that is open
          None,       \* no object
          MAX_LOST,   \* bound: connections lost when a camera is opened
          MAX_QUEUE   \* bound: messages waiting when another device or call comes

ASSUME MonitorAssumption ==
    /\ IsFiniteSet(Devices) /\ Wanted \subseteq Devices
    /\ None \notin Devices \cup Devices \X Ids
    /\ Faults \subseteq {"open", "reopen"} /\ MAX_LOST \in Nat /\ MAX_QUEUE \in Nat

VARIABLES
    attached, granted,    \* the devices there are, and the permitted ones
    broadcasts,           \* intents on their way to main
    mCtrlBlocks,          \* the block of each device
    opened,               \* the blocks with an open connection
    lost,                 \* history: those that neither monitor nor camera will come to
    mHasPermissions, mDeviceCounts,
    registered, destroyed,
    keys,                 \* the devices that the iterator of destroy will come to
    looper, queue, timer, \* mAsyncHandler: is it there, its messages, delayed checks
    async, main, camera,  \* what each thread does: pc, device, block
    list,                 \* the devices that the check has found
    known,                \* history: wanted devices the listener was last told are there
    given,                \* the devices whose block the application got from onConnect
    excused,              \* history: wanted devices whose end was not received, or came
                          \* while they were announced or connected
    rearmed,              \* history: a check was running at the last unregister
    stale                 \* history: mDeviceCounts was last reset inside a check

sysVars   == <<attached, granted>>
blockVars == <<mCtrlBlocks, opened, lost>>
countVars == <<mHasPermissions, mDeviceCounts, stale, list>>
lifeVars  == <<registered, destroyed, keys, rearmed>>
postVars  == <<looper, queue, timer>>
toldVars  == <<known, given, excused>>
vars == <<sysVars, broadcasts, blockVars, countVars, lifeVars, postVars, async, main, camera,
          toldVars>>

Message(what, d) == [what |-> what, device |-> d]
Doing(pc, d, b)  == [pc |-> pc, device |-> d, block |-> b]
Idle == Doing("idle", None, None)

Init ==
    /\ attached = {} /\ granted = {} /\ broadcasts = <<>>
    /\ mCtrlBlocks = [d \in Devices |-> None] /\ opened = {} /\ lost = {}
    /\ mHasPermissions = {} /\ mDeviceCounts = 0 /\ stale = FALSE /\ list = {}
    /\ registered = FALSE /\ destroyed = FALSE /\ keys = {} /\ rearmed = FALSE
    /\ looper = TRUE /\ queue = <<>> /\ timer = 0
    /\ async = Idle /\ main = Idle /\ camera = Idle
    /\ known = {} /\ given = {} /\ excused = {}

\* Nothing reaches a looper that has quit.
Post(messages) == queue' = IF looper THEN queue \o messages ELSE queue

\* The constructors of UsbControlBlock: openDevice gives no connection to a
\* device that is gone or not permitted.
Free(d) == {b \in {d} \X Ids :
              b \notin opened \cup {mCtrlBlocks[d], async.block, main.block, camera.block}}
New(d) == CHOOSE b \in Free(d) : TRUE
Construct(d) ==
    /\ Free(d) # {}
    /\ opened' = IF d \in granted THEN opened \cup {New(d)} ELSE opened

\* b goes out of everyone's hands; when it is open it stays so.
Lose(b) == lost' = lost \cup ({b} \cap opened)

Checking == async.pc \in {"check", "permissions", "compare", "write", "again"}

\* Mutant of ResetCounts: one device less.
ResetCountsByOne ==
    /\ mDeviceCounts' = mDeviceCounts - 1
    /\ stale' = (async.pc \in {"permissions", "compare", "write"})

\* mDeviceCounts = 0, perhaps after a check has looked and before it writes.
ResetCounts ==
    /\ mDeviceCounts' = 0
    /\ stale' = (async.pc \in {"permissions", "compare", "write"})

-----------------------------------------------------------------------------
(* The system *)

Quiet == ~destroyed /\ Len(broadcasts) <= MAX_QUEUE

Broadcast(m) == broadcasts' = IF registered THEN Append(broadcasts, m) ELSE broadcasts

\* A device that comes back is a new UsbDevice: its name is used again only
\* when nothing of the old one is left.
Attach(d) ==
    /\ Quiet /\ Len(queue) <= MAX_QUEUE /\ d \notin attached \cup list
    /\ \A m \in ToSet(broadcasts) \cup ToSet(queue) : m.device # d
    /\ d \notin {async.device, main.device, camera.device} /\ mCtrlBlocks[d] = None
    /\ \A b \in opened : b[1] # d
    /\ attached' = attached \cup {d}
    /\ given' = given \ {d} /\ excused' = excused \ {d}
    /\ UNCHANGED <<granted, broadcasts, blockVars, countVars, lifeVars, postVars, async,
                   main, camera, known>>

Detach(d) ==
    /\ Quiet /\ (d \in Wanted \/ Len(queue) <= MAX_QUEUE) /\ d \in attached
    /\ attached' = attached \ {d} /\ granted' = granted \ {d}
    /\ Broadcast(Message("detached", d))
    /\ excused' = IF registered THEN excused ELSE excused \cup ({d} \cap Wanted)
    /\ UNCHANGED <<blockVars, countVars, lifeVars, postVars, async, main, camera, known, given>>

SystemStep == \E d \in Devices : Attach(d) \/ Detach(d)

-----------------------------------------------------------------------------
(* UsbControlBlock.close, on the main or the camera thread *)

\* The connection is closed, if there is one, and onDisconnect called ...
CloseConnection(self) ==
    /\ opened' = opened \ {self.block}
    /\ UNCHANGED <<mCtrlBlocks, lost>>

\* ... then the monitor forgets the block of the device, whichever it is.
Forget(self) ==
    /\ self.pc = "forget"
    /\ LET d == self.block[1]
       IN  mCtrlBlocks' = [mCtrlBlocks EXCEPT ![d] = None] /\ Lose(mCtrlBlocks[d])
    /\ UNCHANGED opened

-----------------------------------------------------------------------------
(* The main thread *)

Begin == main.pc = "idle"

Register ==
    /\ Begin /\ Len(queue) <= MAX_QUEUE /\ ~destroyed /\ ~registered
    /\ registered' = TRUE
    /\ ResetCounts
    /\ timer' = timer + 1
    /\ UNCHANGED <<sysVars, broadcasts, blockVars, mHasPermissions, list, destroyed, keys,
                   rearmed, looper, queue, async, main, camera, toldVars>>

\* Mutant of StopChecks: the check that waits in the queue is left.
StopDelayedChecks == timer' = 0 /\ UNCHANGED queue

\* The messages that are no checks, in their order.  (SelectSeq would say the
\* same; nothing can be proved of it.)
WithoutChecks ==
    LET kept     == {i \in DOMAIN queue : queue[i].what # "check"}
        place(i) == Cardinality({j \in kept : j <= i})
    IN  [n \in 1..Cardinality(kept) |-> queue[CHOOSE i \in kept : place(i) = n]]

\* removeCallbacks(mDeviceCheckRunnable)
StopChecks == timer' = 0 /\ queue' = WithoutChecks

\* unregister, which destroy calls first.  Broadcasts on their way are lost.
Unregister(next) ==
    /\ Begin /\ (next = "destroy" => Len(queue) <= MAX_QUEUE)
    /\ ResetCounts
    /\ IF destroyed THEN UNCHANGED <<timer, queue>> ELSE StopChecks
    /\ registered' = FALSE /\ rearmed' = Checking
    /\ broadcasts' = <<>>
    /\ excused' = excused \cup {d \in Wanted : Message("detached", d) \in ToSet(broadcasts)}
    /\ main' = Doing(next, None, None)
    /\ UNCHANGED <<sysVars, blockVars, mHasPermissions, list, destroyed, keys, looper, async,
                   camera, known, given>>

\* The rest of destroy.  The iterator over the map will come to the devices
\* that have a block; to a device that gets one meanwhile it may come or not.
Destroy ==
    /\ main.pc = "destroy"
    /\ IF destroyed
          THEN main' = Idle /\ UNCHANGED keys
          ELSE /\ main' = Doing("closeAll", None, None)
               /\ \E late \in SUBSET Wanted :
                     keys' = {d \in Devices : mCtrlBlocks[d] # None} \cup late
    /\ destroyed' = TRUE
    /\ UNCHANGED <<sysVars, broadcasts, blockVars, countVars, registered, rearmed, postVars, async,
                   camera, toldVars>>

\* Where it comes, the block is taken out and closed ...
CloseAll ==
    /\ main.pc = "closeAll"
    /\ \E d \in keys :
          /\ keys' = keys \ {d}
          /\ mCtrlBlocks' = [mCtrlBlocks EXCEPT ![d] = None]
          /\ main' = IF mCtrlBlocks[d] = None THEN main
                     ELSE Doing("close", None, mCtrlBlocks[d])
    /\ UNCHANGED <<sysVars, broadcasts, opened, lost, countVars, registered, destroyed, rearmed,
                   postVars, async, camera, toldVars>>

\* ... the rest of the map is dropped ...
Clear ==
    /\ main.pc = "closeAll" /\ keys = {}
    /\ mCtrlBlocks' = [d \in Devices |-> None]
    /\ main' = Doing("quit", None, None)
    /\ UNCHANGED <<sysVars, broadcasts, opened, lost, countVars, lifeVars, postVars, async, camera,
                   toldVars>>

\* ... and the thread of mAsyncHandler told to quit.
Quit ==
    /\ main.pc = "quit"
    /\ looper' = FALSE /\ queue' = <<>> /\ timer' = 0
    /\ main' = Idle
    /\ UNCHANGED <<sysVars, broadcasts, blockVars, countVars, lifeVars, async, camera, toldVars>>

ProcessConnect(d) ==
    /\ mHasPermissions' = mHasPermissions \cup {d}
    /\ Post(<<Message("connect", d)>>)

\* The listener's onCancel that is posted here changes nothing that is modelled.
ProcessCancel(d) == mHasPermissions' = mHasPermissions \ {d} /\ UNCHANGED queue

\* The user may answer the dialog that it opens: the answer is a broadcast.
RequestPermission(d) ==
    /\ Begin /\ Quiet /\ Len(queue) <= MAX_QUEUE /\ d \in attached
    /\ \/ /\ ~registered
          /\ ProcessCancel(d)
          /\ UNCHANGED <<granted, broadcasts>>
       \/ /\ registered /\ d \in granted
          /\ ProcessConnect(d)
          /\ UNCHANGED <<granted, broadcasts>>
       \/ /\ registered /\ d \notin granted
          /\ \/ granted' = granted \cup {d} /\ Broadcast(Message("granted", d))
             \/ granted' = granted /\ Broadcast(Message("denied", d))
          /\ UNCHANGED <<mHasPermissions, queue>>
    /\ UNCHANGED <<attached, blockVars, mDeviceCounts, stale, list, lifeVars, looper, timer, async,
                   main, camera, toldVars>>

\* onReceive of the answer to a dialog, ...
ReceivePermission ==
    /\ main.pc = "idle" /\ broadcasts # <<>> /\ Head(broadcasts).what # "detached"
    /\ broadcasts' = Tail(broadcasts)
    /\ LET m == Head(broadcasts)
       IN  IF m.what = "granted" THEN ProcessConnect(m.device) ELSE ProcessCancel(m.device)
    /\ UNCHANGED <<sysVars, blockVars, mDeviceCounts, stale, list, lifeVars, looper, timer, async,
                   main, camera, toldVars>>

\* Mutant of ReceiveDetached: the block is looked up, and neither removed nor closed.
ReceiveDetachedUnclosed ==
    /\ main.pc = "idle" /\ broadcasts # <<>> /\ Head(broadcasts).what = "detached"
    /\ broadcasts' = Tail(broadcasts)
    /\ LET d == Head(broadcasts).device
       IN  /\ main' = Doing("detached", d, None)
           /\ excused' = IF async.device = d THEN excused \cup {d} ELSE excused
    /\ UNCHANGED <<sysVars, blockVars, countVars, lifeVars, postVars, async, camera, known, given>>

\* Mutant of ReceiveDetached: a device without a block is passed over.
ReceiveDetachedSilently ==
    /\ main.pc = "idle" /\ broadcasts # <<>> /\ Head(broadcasts).what = "detached"
    /\ broadcasts' = Tail(broadcasts)
    /\ LET d == Head(broadcasts).device
           b == mCtrlBlocks[d]
       IN  /\ mCtrlBlocks' = [mCtrlBlocks EXCEPT ![d] = None]
           /\ main' = IF b = None THEN Idle ELSE Doing("close", d, b)
           /\ excused' = IF async.device = d THEN excused \cup {d} ELSE excused
    /\ UNCHANGED <<sysVars, opened, lost, countVars, lifeVars, postVars, async, camera, known,
                   given>>

\* ... and of the end of a device, whose block is taken out and closed; then
\* the count is reset, and the listener told.
ReceiveDetached ==
    /\ main.pc = "idle" /\ broadcasts # <<>> /\ Head(broadcasts).what = "detached"
    /\ broadcasts' = Tail(broadcasts)
    /\ LET d == Head(broadcasts).device
           b == mCtrlBlocks[d]
       IN  /\ mCtrlBlocks' = [mCtrlBlocks EXCEPT ![d] = None]
           /\ main' = Doing(IF b = None THEN "detached" ELSE "close", d, b)
           /\ excused' = IF async.device = d THEN excused \cup {d} ELSE excused
    /\ UNCHANGED <<sysVars, opened, lost, countVars, lifeVars, postVars, async, camera, known,
                   given>>

\* Mutant of Detached: the count is left as it is.
DetachedUncounted ==
    /\ main.pc = "detached"
    /\ Post(<<Message("dettach", main.device)>>)
    /\ main' = Idle
    /\ UNCHANGED <<sysVars, broadcasts, blockVars, countVars, lifeVars, looper, timer, async,
                   camera, toldVars>>

Detached ==
    /\ main.pc = "detached"
    /\ ResetCounts
    /\ Post(<<Message("dettach", main.device)>>)
    /\ main' = Idle
    /\ UNCHANGED <<sysVars, broadcasts, blockVars, mHasPermissions, list, lifeVars, looper, timer,
                   async, camera, toldVars>>

AfterClose == IF destroyed THEN Doing("closeAll", None, None)
              ELSE Doing("detached", main.device, None)

MainCloses ==
    /\ \/ /\ main.pc = "close" /\ CloseConnection(main)
          /\ main' = IF main.block \in opened THEN [main EXCEPT !.pc = "forget"] ELSE AfterClose
       \/ Forget(main) /\ main' = AfterClose
    /\ UNCHANGED <<sysVars, broadcasts, countVars, lifeVars, postVars, async, camera, toldVars>>

MainCall ==
    \/ Register \/ Unregister("idle") \/ Unregister("destroy")
    \/ \E d \in Wanted : RequestPermission(d)
MainContinue ==
    \/ ReceivePermission \/ ReceiveDetached \/ Detached \/ MainCloses
    \/ Destroy \/ CloseAll \/ Clear \/ Quit

-----------------------------------------------------------------------------
(* The thread of mAsyncHandler *)

AsyncGoto(pc, d, b) == async' = Doing(pc, d, b)

\* The callbacks of the listener are done at once.
Take ==
    /\ async.pc = "idle" /\ queue # <<>>
    /\ queue' = Tail(queue)
    /\ LET m == Head(queue)
       IN  /\ CASE m.what = "check"   -> AsyncGoto("check", None, None)
                [] m.what = "connect" -> AsyncGoto("get", m.device, None)
                [] OTHER              -> UNCHANGED async
           /\ known' = CASE m.what = "attach"  -> known \cup ({m.device} \cap Wanted)
                         [] m.what = "dettach" -> known \ {m.device}
                         [] OTHER              -> known
    /\ UNCHANGED <<sysVars, broadcasts, blockVars, countVars, lifeVars, looper, timer, main,
                   camera,
                   given, excused>>

TimerDue ==
    /\ timer > 0
    /\ timer' = timer - 1
    /\ Post(<<Message("check", None)>>)
    /\ UNCHANGED <<sysVars, broadcasts, blockVars, countVars, lifeVars, looper, async, main,
                   camera,
                   toldVars>>

\* mDeviceCheckRunnable: getDeviceList ...
CheckList ==
    /\ async.pc = "check"
    /\ list' = IF destroyed THEN {} ELSE attached
    /\ AsyncGoto(IF destroyed THEN "idle" ELSE "permissions", None, None)
    /\ UNCHANGED <<sysVars, broadcasts, blockVars, mHasPermissions, mDeviceCounts, stale, lifeVars,
                   postVars, main, camera, toldVars>>

\* ... the permissions are collected anew; when the monitor was destroyed in
\* between, hasPermission throws and the thread ends ...
CheckPermissions ==
    /\ async.pc = "permissions"
    /\ LET has == list \cap granted
           more == Cardinality(has) > Cardinality(mHasPermissions)
       IN  IF destroyed /\ list # {}
              THEN AsyncGoto("thrown", None, None) /\ mHasPermissions' = {}
              ELSE /\ AsyncGoto(IF more THEN "write" ELSE "compare", None, None)
                   /\ mHasPermissions' = has
    /\ UNCHANGED <<sysVars, broadcasts, blockVars, mDeviceCounts, stale, list, lifeVars, postVars,
                   main, camera, toldVars>>

CheckCompare ==
    /\ async.pc = "compare"
    /\ AsyncGoto(IF Cardinality(list) > mDeviceCounts THEN "write" ELSE "again", None, None)
    /\ UNCHANGED <<sysVars, broadcasts, blockVars, countVars, lifeVars, postVars, main, camera,
                   toldVars>>

\* ... if there are more of them, all are announced ...
CheckWrite ==
    /\ async.pc = "write"
    /\ mDeviceCounts' = Cardinality(list)
    /\ Post(SetToSeq({Message("attach", d) : d \in list}))
    /\ excused' = excused \cup ((list \cap Wanted) \ attached)
    /\ AsyncGoto("again", None, None)
    /\ UNCHANGED <<sysVars, broadcasts, blockVars, mHasPermissions, stale, list, lifeVars, looper,
                   timer, main, camera, known, given>>

\* ... and the check comes again, registered or not.
CheckAgain ==
    /\ async.pc = "again"
    /\ list' = {}
    /\ timer' = IF looper THEN timer + 1 ELSE timer
    /\ AsyncGoto("idle", None, None)
    /\ UNCHANGED <<sysVars, broadcasts, blockVars, mHasPermissions, mDeviceCounts, stale, lifeVars,
                   looper, queue, main, camera, toldVars>>

\* Mutant of ConnectGet: a new block in any case.
ConnectGetNew ==
    /\ async.pc = "get"
    /\ AsyncGoto("new", async.device, None)
    /\ UNCHANGED <<sysVars, broadcasts, blockVars, countVars, lifeVars, postVars, main, camera,
                   toldVars>>

\* The Runnable of processConnect: when there is no block a new one is made
\* and put into the map; then the listener is told.
ConnectGet ==
    /\ async.pc = "get"
    /\ LET b == mCtrlBlocks[async.device]
       IN  AsyncGoto(IF b = None THEN "new" ELSE "tell", async.device, b)
    /\ UNCHANGED <<sysVars, broadcasts, blockVars, countVars, lifeVars, postVars, main, camera,
                   toldVars>>

ConnectNew ==
    /\ async.pc = "new"
    /\ Construct(async.device)
    /\ AsyncGoto("put", async.device, New(async.device))
    /\ UNCHANGED <<sysVars, broadcasts, mCtrlBlocks, lost, countVars, lifeVars, postVars, main,
                   camera,
                   toldVars>>

\* Once destroy has passed the place, it only drops the block (Clear).
ConnectPut ==
    /\ async.pc = "put"
    /\ mCtrlBlocks' = [mCtrlBlocks EXCEPT ![async.device] = async.block]
    /\ IF destroyed /\ async.device \notin keys THEN Lose(async.block) ELSE UNCHANGED lost
    /\ AsyncGoto("tell", async.device, async.block)
    /\ UNCHANGED <<sysVars, broadcasts, opened, countVars, lifeVars, postVars, main, camera,
                   toldVars>>

ConnectTell ==
    /\ async.pc = "tell"
    /\ known' = known \cup {async.device} /\ given' = given \cup {async.device}
    /\ AsyncGoto("idle", None, None)
    /\ UNCHANGED <<sysVars, broadcasts, blockVars, countVars, lifeVars, postVars, main, camera,
                   excused>>

AsyncStep ==
    \/ Take \/ CheckList \/ CheckPermissions \/ CheckCompare \/ CheckWrite \/ CheckAgain
    \/ ConnectGet \/ ConnectNew \/ ConnectPut \/ ConnectTell

-----------------------------------------------------------------------------
(* The camera thread: UVCCamera.open and close *)

\* open makes a clone of a block that the application was given; the clone is
\* not in the map, and takes the place of the clone of an open before.  Without
\* permission the clone fails, and nothing changes.
MayOpen(d) == d \in given \cap granted /\ Cardinality(lost) <= MAX_LOST

CameraOpen(d) ==
    /\ camera.pc = "idle" \/ ("reopen" \in Faults /\ camera.pc = "opened")
    /\ MayOpen(d)
    /\ Construct(d)
    /\ Lose(camera.block)
    /\ camera' = Doing("opened", d, New(d))
    /\ UNCHANGED <<sysVars, broadcasts, mCtrlBlocks, countVars, lifeVars, postVars, async, main,
                   toldVars>>

\* nativeConnect fails: handleOpen drops the UVCCamera, with the clone in it.
CameraFails(d) ==
    /\ "open" \in Faults /\ camera.pc = "idle"
    /\ MayOpen(d)
    /\ Construct(d)
    /\ lost' = lost \cup {New(d)}
    /\ UNCHANGED <<sysVars, broadcasts, mCtrlBlocks, countVars, lifeVars, postVars, async, main,
                   camera, toldVars>>

CameraCloses ==
    /\ \/ /\ camera.pc = "opened" /\ CloseConnection(camera)
          /\ camera' = [camera EXCEPT !.pc = "forget"]
       \/ Forget(camera) /\ camera' = Idle
    /\ UNCHANGED <<sysVars, broadcasts, countVars, lifeVars, postVars, async, main, toldVars>>

-----------------------------------------------------------------------------

Next ==
    \/ SystemStep \/ MainCall \/ MainContinue \/ AsyncStep \/ TimerDue
    \/ (\E d \in Wanted : CameraOpen(d) \/ CameraFails(d)) \/ CameraCloses

Spec == Init /\ [][Next]_vars

\* The threads run on and delayed messages come; nobody has to call.
FairSpec ==
    /\ Spec
    /\ WF_vars(MainContinue) /\ WF_vars(AsyncStep) /\ WF_vars(TimerDue)

-----------------------------------------------------------------------------
(* Properties *)

\* The variables keep their types; a block in the map is its device's.
TypeOK ==
    /\ attached \subseteq Devices /\ granted \subseteq attached
    /\ \A m \in ToSet(broadcasts) : m.what \in {"granted", "denied", "detached"}
    /\ \A d \in Devices : mCtrlBlocks[d] \in ({d} \X Ids) \cup {None}
    /\ opened \subseteq Devices \X Ids /\ lost \subseteq opened
    /\ mHasPermissions \subseteq Devices /\ mDeviceCounts \in 0..Cardinality(Devices)
    /\ registered \in BOOLEAN /\ destroyed \in BOOLEAN /\ looper \in BOOLEAN
    /\ \A m \in ToSet(queue) : m.what \in {"check", "connect", "attach", "dettach"}
    /\ timer \in Nat
    /\ async.pc \in {"idle", "check", "permissions", "compare", "write", "again", "thrown",
                     "get", "new", "put", "tell"}
    /\ main.pc \in {"idle", "close", "forget", "detached", "destroy", "closeAll", "quit"}
    /\ camera.pc \in {"idle", "opened", "forget"}
    /\ keys \subseteq Devices /\ list \subseteq Devices
    /\ known \subseteq Wanted /\ given \subseteq Wanted /\ excused \subseteq Wanted
    /\ rearmed \in BOOLEAN /\ stale \in BOOLEAN

\* Monitor or camera will close b: a thread works with it, or it is in the map,
\* and destroy, if it came to that, has not passed it.
Held(b) ==
    \/ b \in {main.block, camera.block} \/ (async.pc = "put" /\ b = async.block)
    \/ b = mCtrlBlocks[b[1]] /\ (destroyed => b[1] \in keys)

\* The connections that stay open out of the sight of monitor and camera are
\* exactly the `lost` ones: the original whose clone was closed, the clone of an
\* open that failed or was followed by another open, and the block that was put
\* behind destroy.  None other is: of a device that is connected anew, that goes
\* while it is being connected, or that a camera opens (processConnect,
\* onReceive, destroy, UVCCamera.open, close).
ConnectionsOwned == lost = {b \in opened : ~Held(b)}

\* UsbControlBlock.clone, "USBMonitor never handle cloned UsbControlBlock":
\* what is done with a clone is nothing to the monitor, and as long as it is
\* not destroyed every open connection is in its hands or in the camera's.
CloneIsApart == ~destroyed => \A b \in opened : Held(b)

\* Checks stop with the monitor: there is one when it is registered and none
\* when it is not, with one more if a check was running at the last unregister
\* (register, unregister, mDeviceCheckRunnable).
OneCheck ==
    timer + Cardinality({i \in DOMAIN queue : queue[i].what = "check"})
      + (IF Checking THEN 1 ELSE 0)
      <= (IF registered THEN 1 ELSE 0) + (IF rearmed THEN 1 ELSE 0)

\* A wanted device that is attached while the monitor is registered is announced to
\* the listener, unless a check wrote mDeviceCounts over a reset (register,
\* onReceive, mDeviceCheckRunnable).
Announced ==
    \A d \in Wanted :
        (d \in attached /\ registered)
          ~> (d \in known \/ d \notin attached \/ ~registered \/ stale)

\* The last the listener hears of a wanted device that is gone is onDettach, unless
\* it went while a check announced it or nobody was registered.
LastWord ==
    \A d \in Wanted :
        d \notin attached ~> (d \notin known \/ d \in attached \cup excused \/ destroyed)

\* The monitor closes its connection to a device that is gone, unless the end
\* was received while the device was being connected (`excused`), or it had
\* lost the connection before, to a camera that closed its clone (`lost`; see
\* onReceive, UsbControlBlock.close).  The camera's clone is the camera's.
DetachCloses ==
    \A d \in Wanted :
        d \notin attached
          ~> \/ d \in attached \cup excused \/ destroyed
             \/ \A b \in opened \ (lost \cup {camera.block}) : b[1] # d
=============================================================================
