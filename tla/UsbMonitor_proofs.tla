------------------------- MODULE UsbMonitor_proofs -------------------------
(***************************************************************************)
(* For any number of devices: which connections of the monitor are lost,   *)
(* that the checks that look for devices do not multiply, that every       *)
(* device is announced and its end told last, and that what is open to a   *)
(* device that ended will be closed.                                       *)
(*                                                                         *)
(* The main thread takes blocks out of the map while the thread of         *)
(* mAsyncHandler makes them and the camera thread clones them, without a   *)
(* lock.  What saves the monitor is an invariant over all three: the block *)
(* of a device that is being connected is missing from the map until it is *)
(* put there, a block that was closed is open no more when its thread lets *)
(* go of it, and a block that the connecting thread only tells the         *)
(* listener about belongs to somebody else as well (Connections).  That    *)
(* the lost connections are lost for good needs that no block has two      *)
(* holders (Apart).                                                        *)
(*                                                                         *)
(* The checks are counted where they can be: delayed, in the queue, and    *)
(* running.  A step moves one on, and only register starts one; the        *)
(* account also needs that nothing is left to a looper that has quit.      *)
(***************************************************************************)
EXTENDS UsbMonitor, FiniteSetTheorems, FunctionTheorems, TLAPS

\* Somebody besides the connecting thread can close b, and will be able to
\* after a destroy.
Kept(b) ==
    \/ b \in {main.block, camera.block}
    \/ b = mCtrlBlocks[b[1]] /\ (destroyed => b[1] \in keys)

Blocks == Devices \X Ids

\* The broadcasts about a device.
Intents == [what : {"granted", "denied", "detached"}, device : Devices]

Types ==
    /\ attached \subseteq Devices /\ granted \subseteq Devices
    /\ broadcasts \in Seq(Intents)
    /\ mCtrlBlocks \in [Devices -> Blocks \cup {None}] /\ opened \subseteq Blocks
    /\ lost \subseteq Blocks /\ keys \subseteq Devices

InMap == \A d \in Devices : mCtrlBlocks[d] # None => mCtrlBlocks[d][1] = d

MainBlock ==
    /\ main = Doing(main.pc, main.device, main.block)
    /\ main.pc \in {"close", "forget"} => main.block \in Blocks
    /\ main.pc = "forget" => main.block \notin opened
    /\ main.pc \notin {"close", "forget"} => main.block = None
    /\ main.pc = "closeAll" => destroyed

CameraBlock ==
    /\ camera = Doing(camera.pc, camera.device, camera.block)
    /\ camera.pc \in {"opened", "forget"} => camera.block \in Blocks
    /\ camera.pc = "forget" => camera.block \notin opened
    /\ camera.pc \notin {"opened", "forget"} => camera.block = None

AsyncBlock ==
    /\ async.pc \notin {"put", "tell"} => async.block = None
    /\ async.pc \in {"new", "put"} /\ async.device \in Devices
         => mCtrlBlocks[async.device] = None
    /\ async.pc = "put" =>
         IF async.device \in Devices
            THEN async.block \in Blocks /\ async.block[1] = async.device
            ELSE async.block \in opened \ lost => Kept(async.block)
    /\ async.pc = "tell" /\ async.block \in opened \ lost => Kept(async.block)

\* What is not lost is in somebody's hands, if only to be told about.
HeldBy(b) ==
    \/ b \in {main.block, async.block, camera.block}
    \/ b = mCtrlBlocks[b[1]] /\ (destroyed => b[1] \in keys)
Covered == \A b \in opened \ lost : HeldBy(b)

Connections ==
    Types /\ InMap /\ MainBlock /\ CameraBlock /\ AsyncBlock /\ Covered

-----------------------------------------------------------------------------

\* A message is a record.
LEMMA MessageFields ==
    ASSUME NEW what \in {"granted", "denied", "detached"}, NEW d \in Devices
    PROVE  Message(what, d) \in Intents
  BY DEF Message, Intents

\* The parts of what a thread does.
LEMMA DoingFields ==
    ASSUME NEW pc, NEW d, NEW b
    PROVE  Doing(pc, d, b).pc = pc /\ Doing(pc, d, b).device = d /\ Doing(pc, d, b).block = b
  BY DEF Doing

\* New finds a block that nobody has and that is not open, if there is one.
LEMMA NewIsNew ==
    ASSUME NEW d \in Devices, Free(d) # {}
    PROVE  /\ New(d) \in Blocks /\ New(d)[1] = d
           /\ New(d) \notin opened
           /\ New(d) \notin {mCtrlBlocks[d], async.block, main.block, camera.block}
  <1>1. New(d) \in Free(d)
    BY DEF New
  <1> HIDE DEF New
  <1> QED BY <1>1 DEF Free, Blocks

-----------------------------------------------------------------------------

\* Who has which block, and what the invariant adds.
LEMMA Start == Init => Connections
  BY MonitorAssumption
     DEF Init, Connections, Types, InMap, MainBlock, CameraBlock, AsyncBlock, Covered,
         Idle, Doing, Blocks

\* The system touches no block.
LEMMA SystemKeeps == Connections /\ SystemStep => Connections'
  <1> SUFFICES ASSUME Connections, NEW d \in Devices, Attach(d) \/ Detach(d)
               PROVE  Connections'
    BY DEF SystemStep
  <1>1. Types'
    <2>1. Message("detached", d) \in Intents
      BY MessageFields
    <2>2. broadcasts' \in {broadcasts, Append(broadcasts, Message("detached", d))}
      BY DEF Attach, Detach, Broadcast
    <2>3. /\ attached' \subseteq Devices /\ granted' \subseteq Devices
          /\ UNCHANGED <<blockVars, keys>>
      BY DEF Connections, Types, Attach, Detach, lifeVars
    <2>4. broadcasts' \in Seq(Intents)
      BY <2>1, <2>2 DEF Connections, Types
    <2> QED BY <2>3, <2>4 DEF Connections, Types, blockVars
  <1>2. UNCHANGED <<blockVars, async, main, camera, destroyed, keys>>
    BY DEF Attach, Detach, lifeVars
  <1> QED BY <1>1, <1>2 DEF Connections, InMap, MainBlock, CameraBlock, AsyncBlock, Kept, HeldBy,
              Covered, blockVars

\* Calls of the main thread: what the map and the threads have stays as it is.
LEMMA MainCallKeeps == Connections /\ MainCall => Connections'
  <1> SUFFICES ASSUME Connections, MainCall PROVE Connections'
    OBVIOUS
  <1>1. ASSUME Register \/ \E d \in Wanted : RequestPermission(d) PROVE Connections'
    <2>1. UNCHANGED <<blockVars, async, main, camera, attached, destroyed, keys>>
      BY <1>1 DEF Register, RequestPermission, sysVars, lifeVars
    <2>2. Types'
      <3>1. CASE Register
        BY <3>1, <2>1 DEF Register, Connections, Types, sysVars, blockVars
      <3>2. ASSUME NEW d \in Wanted, RequestPermission(d) PROVE Types'
        <4>1. d \in Devices
          BY MonitorAssumption
        <4>2. /\ Message("granted", d) \in Intents
              /\ Message("denied", d) \in Intents
          BY <4>1, MessageFields
        <4>3. /\ broadcasts' \in {broadcasts, Append(broadcasts, Message("granted", d)),
                                  Append(broadcasts, Message("denied", d))}
              /\ granted' \in {granted, granted \cup {d}}
          BY <3>2 DEF RequestPermission, Broadcast
        <4>4. broadcasts' \in Seq(Intents)
          BY <4>2, <4>3 DEF Connections, Types
        <4> QED BY <4>1, <4>3, <4>4, <2>1 DEF Connections, Types, blockVars
      <3> QED BY <1>1, <3>1, <3>2
    <2> QED BY <2>1, <2>2 DEF Connections, InMap, MainBlock, CameraBlock, AsyncBlock, Kept, HeldBy,
                Covered, blockVars
  <1>2. ASSUME NEW next \in {"idle", "destroy"}, Unregister(next) PROVE Connections'
    <2>1. /\ UNCHANGED <<sysVars, blockVars, async, camera, destroyed, keys>>
          /\ broadcasts' = <<>> /\ main.pc = "idle" /\ main' = Doing(next, None, None)
      BY <1>2 DEF Unregister, Begin
    <2>2. main'.pc = next /\ main'.device = None /\ main'.block = None
      BY <2>1, DoingFields
    <2>3. main.block = None
      BY <2>1 DEF Connections, MainBlock
    <2>4. Types' /\ InMap' /\ CameraBlock'
      BY <2>1 DEF Connections, Types, InMap, CameraBlock, sysVars, blockVars
    <2>5. MainBlock'
      BY <2>1, <2>2 DEF MainBlock
    <2>6. AsyncBlock' /\ Covered'
      BY <2>1, <2>2, <2>3 DEF Connections, AsyncBlock, Covered, Kept, HeldBy, blockVars
    <2> QED BY <2>4, <2>5, <2>6 DEF Connections
  <1> QED BY <1>1, <1>2 DEF MainCall

\* The main thread gets the block that it took out of the map, or there was
\* none.
LEMMA TakenOut ==
    ASSUME Connections, NEW d \in Devices,
           mCtrlBlocks' = [mCtrlBlocks EXCEPT ![d] = None],
           UNCHANGED <<sysVars, opened, lost, async, camera, destroyed>>,
           keys' \in {keys, keys \ {d}},
           broadcasts' \in Seq(Intents),
           main.pc \notin {"close", "forget"},
           main' = Doing(main'.pc, main'.device, main'.block),
           main'.block = mCtrlBlocks[d],
           main'.pc \in IF mCtrlBlocks[d] = None THEN {"detached", main.pc} ELSE {"close"}
    PROVE  Connections'
  <1> USE DEF Connections
  <1>1. main.block = None
    BY DEF MainBlock
  <1>2. Types' /\ InMap' /\ CameraBlock'
    BY DEF Types, InMap, CameraBlock, sysVars
  <1>3. MainBlock'
    BY DEF MainBlock, Types
  <1>4. ASSUME NEW b \in opened, Kept(b) PROVE Kept(b)'
    BY <1>1, <1>4, MonitorAssumption DEF Kept, Types, InMap, Blocks
  <1>5. Covered'
    BY <1>4 DEF Covered, HeldBy, Kept
  <1>6. AsyncBlock'
    BY <1>4 DEF AsyncBlock, Types
  <1> QED BY <1>2, <1>3, <1>5, <1>6

\* The main thread goes on without a block; the one it had is not open.
LEMMA LetGo ==
    ASSUME Connections, UNCHANGED <<sysVars, blockVars, async, camera, broadcasts>>,
           main.block \notin opened,
           main' \in {Idle, Doing("closeAll", None, None), Doing("detached", main.device, None)},
           main'.pc = "closeAll" => destroyed',
           UNCHANGED <<destroyed, keys>>
             \/ (~destroyed /\ keys' \subseteq Devices
                   /\ \A d \in Devices : mCtrlBlocks[d] # None => d \in keys')
    PROVE  Connections'
  <1> USE DEF Connections
  <1>1. /\ main' = Doing(main'.pc, main'.device, main'.block)
        /\ main'.pc \in {"idle", "closeAll", "detached"} /\ main'.block = None
    BY DoingFields DEF Idle
  <1>2. Types' /\ InMap' /\ CameraBlock' /\ MainBlock'
    BY <1>1 DEF Types, InMap, CameraBlock, MainBlock, sysVars, blockVars
  <1>3. ASSUME NEW b \in opened, Kept(b) PROVE Kept(b)'
    BY <1>1, <1>3, MonitorAssumption DEF Kept, Types, Blocks, blockVars
  <1>4. Covered' /\ AsyncBlock'
    BY <1>3 DEF Covered, AsyncBlock, HeldBy, Kept, blockVars
  <1> QED BY <1>2, <1>4

\* The main thread takes a block out of the map, closes it and forgets it.
LEMMA MainKeeps == Connections /\ MainContinue => Connections'
  <1> SUFFICES ASSUME Connections, MainContinue PROVE Connections'
    OBVIOUS
  <1> USE DEF Connections
  <1>1. CASE ReceivePermission
    <2>1. /\ UNCHANGED <<sysVars, blockVars, async, main, camera, destroyed, keys>>
          /\ broadcasts # <<>> /\ broadcasts' = Tail(broadcasts)
      BY <1>1 DEF ReceivePermission, lifeVars
    <2>2. Types'
      BY <2>1 DEF Types, sysVars, blockVars
    <2> QED BY <2>1, <2>2 DEF InMap, MainBlock, CameraBlock, AsyncBlock, Kept, HeldBy,
                Covered, blockVars
  <1>2. CASE ReceiveDetached
    <2> DEFINE d == Head(broadcasts).device
               b == mCtrlBlocks[d]
    <2>1. /\ UNCHANGED <<sysVars, opened, lost, async, camera, destroyed, keys>>
          /\ broadcasts # <<>> /\ broadcasts' = Tail(broadcasts) /\ main.pc = "idle"
          /\ mCtrlBlocks' = [mCtrlBlocks EXCEPT ![d] = None]
          /\ main' = Doing(IF b = None THEN "detached" ELSE "close", d, b)
      BY <1>2 DEF ReceiveDetached, lifeVars
    <2>2. d \in Devices
      <3>1. Head(broadcasts) \in Intents
        BY <2>1 DEF Types
      <3> QED BY <3>1 DEF Intents
    <2>3. /\ main'.pc = IF b = None THEN "detached" ELSE "close"
          /\ main'.device = d /\ main'.block = b
      BY <2>1, DoingFields
    <2>4. broadcasts' \in Seq(Intents)
      BY <2>1 DEF Types
    <2> HIDE DEF d, b, Connections
    <2> QED BY <2>1, <2>2, <2>3, <2>4, TakenOut DEF b
  <1>3. CASE CloseAll
    <2>1. PICK d \in keys :
          /\ keys' = keys \ {d}
          /\ mCtrlBlocks' = [mCtrlBlocks EXCEPT ![d] = None]
          /\ main' = IF mCtrlBlocks[d] = None THEN main ELSE Doing("close", None, mCtrlBlocks[d])
      BY <1>3 DEF CloseAll
    <2>2. /\ UNCHANGED <<sysVars, opened, lost, async, camera, broadcasts, destroyed>>
          /\ main.pc = "closeAll" /\ d \in Devices
      BY <1>3 DEF CloseAll, Types
    <2>3. main'.block = mCtrlBlocks[d] /\ main' = Doing(main'.pc, main'.device, main'.block)
      BY <2>1, <2>2, DoingFields DEF MainBlock
    <2>4. main'.pc \in IF mCtrlBlocks[d] = None THEN {"detached", main.pc} ELSE {"close"}
      BY <2>1, DoingFields
    <2>5. broadcasts' \in Seq(Intents)
      BY <2>2 DEF Types
    <2> HIDE DEF Connections
    <2> QED BY <2>1, <2>2, <2>3, <2>4, <2>5, TakenOut
  <1>4. CASE Detached \/ Destroy \/ Quit
    <2>1. /\ UNCHANGED <<sysVars, blockVars, async, camera, broadcasts>>
          /\ main.pc \notin {"close", "forget"}
      BY <1>4 DEF Detached, Destroy, Quit
    <2>2. main' \in {Idle, Doing("closeAll", None, None)}
      BY <1>4 DEF Detached, Destroy, Quit
    <2>3. main.block \notin opened
      BY <2>1, MonitorAssumption DEF MainBlock, Types, Blocks
    <2>4. main'.pc = "closeAll" => destroyed'
      BY <1>4, DoingFields DEF Detached, Destroy, Quit, Idle
    <2>5. \/ UNCHANGED <<destroyed, keys>>
          \/ ~destroyed /\ keys' \subseteq Devices
               /\ \A d \in Devices : mCtrlBlocks[d] # None => d \in keys'
      <3>1. CASE Destroy /\ ~destroyed
        BY <3>1, MonitorAssumption DEF Destroy
      <3>2. CASE Destroy /\ destroyed
        <4>1. destroyed' = TRUE /\ keys' = keys
          BY <3>2 DEF Destroy
        <4>2. destroyed = TRUE
          BY <3>2 DEF Types
        <4> QED BY <4>1, <4>2
      <3>3. CASE Detached \/ Quit
        BY <3>3 DEF Detached, Quit, lifeVars
      <3> QED BY <1>4, <3>1, <3>2, <3>3
    <2> HIDE DEF Connections
    <2> QED BY <2>1, <2>2, <2>3, <2>4, <2>5, LetGo
  <1>6. CASE Clear
    <2>1. /\ UNCHANGED <<sysVars, opened, lost, async, camera, broadcasts, destroyed, keys>>
          /\ mCtrlBlocks' = [d \in Devices |-> None] /\ main' = Doing("quit", None, None)
          /\ main.pc = "closeAll" /\ keys = {}
      BY <1>6 DEF Clear, lifeVars
    <2>2. main'.pc = "quit" /\ main'.device = None /\ main'.block = None
      BY <2>1, DoingFields
    <2>3. Types' /\ InMap' /\ CameraBlock' /\ MainBlock'
      BY <2>1, <2>2 DEF Types, InMap, CameraBlock, MainBlock, sysVars
    <2>4. destroyed /\ main.block = None
      BY <2>1 DEF MainBlock
    <2>5. ASSUME NEW b \in opened, Kept(b) PROVE Kept(b)'
      BY <2>1, <2>4, <2>5, MonitorAssumption DEF Kept, Types, Blocks
    <2>6. AsyncBlock' /\ Covered'
      BY <2>1, <2>5 DEF AsyncBlock, Covered, HeldBy, Kept
    <2> QED BY <2>3, <2>6
  <1>5. CASE MainCloses
    <2>1. CASE main.pc = "close" /\ CloseConnection(main) /\ main.block \in opened
      <3>1. /\ UNCHANGED <<sysVars, mCtrlBlocks, lost, async, camera, broadcasts, destroyed, keys>>
            /\ opened' = opened \ {main.block} /\ main' = [main EXCEPT !.pc = "forget"]
        BY <1>5, <2>1 DEF MainCloses, CloseConnection, Forget, lifeVars
      <3>2. main' = Doing("forget", main.device, main.block)
        BY <3>1 DEF MainBlock, Doing
      <3>3. main'.pc = "forget" /\ main'.device = main.device /\ main'.block = main.block
        BY <3>2, DoingFields
      <3>4. Types' /\ InMap' /\ CameraBlock'
        BY <3>1 DEF Types, InMap, CameraBlock, sysVars
      <3>5. MainBlock'
        BY <2>1, <3>1, <3>2, <3>3 DEF MainBlock
      <3>6. AsyncBlock' /\ Covered'
        BY <3>1, <3>3 DEF AsyncBlock, Covered, Kept, HeldBy
      <3> QED BY <3>4, <3>5, <3>6
    <2>2. CASE main.pc = "close" /\ CloseConnection(main) /\ main.block \notin opened
      <3>1. /\ UNCHANGED <<sysVars, blockVars, async, camera, broadcasts, destroyed, keys>>
            /\ main' = AfterClose
        BY <1>5, <2>2 DEF MainCloses, CloseConnection, Forget, blockVars, lifeVars
      <3>2. main' \in {Doing("closeAll", None, None), Doing("detached", main.device, None)}
        BY <3>1 DEF AfterClose
      <3>3. main'.pc = "closeAll" => destroyed'
        BY <3>1, DoingFields DEF AfterClose
      <3> HIDE DEF Connections
      <3> QED BY <2>2, <3>1, <3>2, <3>3, LetGo
    <2>3. CASE Forget(main)
      <3> DEFINE d == main.block[1]
      <3>1. /\ UNCHANGED <<sysVars, opened, async, camera, broadcasts, destroyed, keys>>
            /\ main.pc = "forget"
            /\ mCtrlBlocks' = [mCtrlBlocks EXCEPT ![d] = None]
            /\ lost' = lost \cup ({mCtrlBlocks[d]} \cap opened)
            /\ main' = AfterClose
        BY <1>5, <2>3 DEF MainCloses, CloseConnection, Forget, Lose, lifeVars
      <3>2. main' \in {Doing("closeAll", None, None), Doing("detached", main.device, None)}
        BY <3>1 DEF AfterClose
      <3>3. /\ main' = Doing(main'.pc, main'.device, main'.block)
            /\ main'.pc \in {"closeAll", "detached"} /\ main'.block = None
            /\ main'.pc = "closeAll" => destroyed'
        BY <3>1, <3>2, DoingFields DEF AfterClose
      <3>4. d \in Devices /\ main.block \notin opened
        BY <3>1 DEF MainBlock, Blocks
      <3>5. Types' /\ InMap' /\ CameraBlock' /\ MainBlock'
        BY <3>1, <3>3, <3>4 DEF Types, InMap, CameraBlock, MainBlock, sysVars
      <3>6. ASSUME NEW b \in opened \ lost', Kept(b) PROVE Kept(b)'
        BY <3>1, <3>3, <3>4, <3>6 DEF Kept, Types, InMap, Blocks
      <3>7. lost \subseteq lost' /\ opened' = opened
        BY <3>1
      <3>8. Covered'
        BY <3>1, <3>6, <3>7 DEF Covered, HeldBy, Kept
      <3>9. AsyncBlock'
        BY <3>1, <3>4, <3>6, <3>7 DEF AsyncBlock, Types
      <3> QED BY <3>5, <3>8, <3>9
    <2> QED BY <1>5, <2>1, <2>2, <2>3 DEF MainCloses
  <1> QED BY <1>1, <1>2, <1>3, <1>4, <1>5, <1>6 DEF MainContinue

\* The connecting of a device, in its three steps, and the checks.
LEMMA AsyncKeeps == Connections /\ (AsyncStep \/ TimerDue) => Connections'
  <1> SUFFICES ASSUME Connections, AsyncStep \/ TimerDue PROVE Connections'
    OBVIOUS
  <1>1. CASE TimerDue
    BY <1>1 DEF TimerDue, Connections, Types, InMap, MainBlock, CameraBlock, AsyncBlock, Kept,
                HeldBy,
                Covered, sysVars, blockVars, lifeVars
  <1>2. CASE Take \/ CheckList \/ CheckPermissions \/ CheckCompare \/ CheckWrite \/ CheckAgain
    <2>1. /\ UNCHANGED <<sysVars, blockVars, broadcasts, main, camera, destroyed, keys>>
          /\ async.pc \notin {"new", "put", "tell"}
      BY <1>2 DEF Take, CheckList, CheckPermissions, CheckCompare, CheckWrite, CheckAgain, lifeVars
    <2>2. \/ async' = async
          \/ \E pc \in {"check", "idle", "permissions", "thrown", "write", "compare", "again"} :
                async' = Doing(pc, None, None)
          \/ async' = Doing("get", Head(queue).device, None)
      BY <1>2 DEF Take, CheckList, CheckPermissions, CheckCompare, CheckWrite, CheckAgain,
                  AsyncGoto
    <2>3. async'.pc \notin {"new", "put", "tell"} /\ async'.block = None /\ async.block = None
      BY <2>1, <2>2, DoingFields DEF Connections, AsyncBlock
    <2> QED BY <2>1, <2>3 DEF Connections, Types, InMap, MainBlock, CameraBlock, AsyncBlock, Kept,
                              HeldBy,
                Covered, sysVars, blockVars
  <1>3. CASE ConnectGet
    <2> DEFINE b == mCtrlBlocks[async.device]
    <2>1. /\ UNCHANGED <<sysVars, blockVars, broadcasts, main, camera, destroyed, keys>>
          /\ async.pc = "get"
          /\ async' = Doing(IF b = None THEN "new" ELSE "tell", async.device, b)
      BY <1>3 DEF ConnectGet, AsyncGoto, lifeVars
    <2>2. /\ async'.pc = IF b = None THEN "new" ELSE "tell"
          /\ async'.device = async.device /\ async'.block = b
      BY <2>1, DoingFields
    <2>3. async.block = None
      BY <2>1 DEF Connections, AsyncBlock
    <2>4. Types' /\ InMap' /\ MainBlock' /\ CameraBlock' /\ Covered'
      BY <2>1, <2>3, MonitorAssumption
         DEF Connections, Types, InMap, MainBlock, CameraBlock, Covered, HeldBy, Blocks,
             sysVars, blockVars
    <2>5. AsyncBlock'
      BY <2>1, <2>2, <2>3, MonitorAssumption
         DEF Connections, AsyncBlock, Kept, HeldBy, Covered, Types, Blocks, blockVars
    <2> QED BY <2>4, <2>5 DEF Connections
  <1>4. CASE ConnectNew
    <2>1. /\ UNCHANGED <<sysVars, mCtrlBlocks, lost, broadcasts, main, camera, destroyed, keys>>
          /\ async.pc = "new" /\ Construct(async.device)
          /\ async' = Doing("put", async.device, New(async.device))
      BY <1>4 DEF ConnectNew, AsyncGoto, lifeVars
    <2>2. async'.pc = "put" /\ async'.device = async.device /\ async'.block = New(async.device)
      BY <2>1, DoingFields
    <2>3. async.block = None
      BY <2>1 DEF Connections, AsyncBlock
    <2>4. CASE async.device \in Devices
      <3>1. mCtrlBlocks[async.device] = None
        BY <2>1, <2>4 DEF Connections, AsyncBlock
      <3>2. /\ New(async.device) \in Blocks /\ New(async.device)[1] = async.device
            /\ New(async.device) \notin opened
            /\ New(async.device) \notin {main.block, camera.block}
        BY <2>1, <2>4, NewIsNew DEF Construct
      <3>3. opened' \in {opened, opened \cup {New(async.device)}}
        BY <2>1 DEF Construct
      <3> HIDE DEF New
      <3>4. Types' /\ InMap' /\ MainBlock' /\ CameraBlock'
        BY <2>1, <3>2, <3>3 DEF Connections, Types, InMap, MainBlock, CameraBlock, sysVars
      <3>5. AsyncBlock'
        BY <2>1, <2>2, <2>4, <3>1, <3>2, <3>3 DEF AsyncBlock, Kept, HeldBy
      <3>6. Covered'
        BY <2>1, <2>2, <2>3, <3>3, MonitorAssumption
           DEF Connections, Covered, HeldBy, Types, Blocks
      <3> QED BY <3>4, <3>5, <3>6 DEF Connections
    <2>5. CASE async.device \notin Devices
      <3>1. opened' = opened
        BY <2>1, <2>5 DEF Construct, Connections, Types
      <3>2. \A b \in opened \ lost : Kept(b)
        BY <2>3, MonitorAssumption DEF Connections, Covered, Types, Blocks, Kept, HeldBy
      <3> QED BY <2>1, <2>2, <2>5, <3>1, <3>2
             DEF Connections, Types, InMap, MainBlock, CameraBlock, AsyncBlock, Kept, HeldBy,
                 Covered, sysVars
    <2> QED BY <2>4, <2>5
  <1>5. CASE ConnectPut
    <2>1. /\ UNCHANGED <<sysVars, opened, broadcasts, main, camera, destroyed, keys>>
          /\ async.pc = "put" /\ lost \subseteq lost' /\ lost' \subseteq lost \cup opened
          /\ async.block \in opened \ lost' => (destroyed => async.device \in keys)
          /\ mCtrlBlocks' = [mCtrlBlocks EXCEPT ![async.device] = async.block]
          /\ async' = Doing("tell", async.device, async.block)
      BY <1>5 DEF ConnectPut, AsyncGoto, Lose, lifeVars
    <2>2. async'.pc = "tell" /\ async'.device = async.device /\ async'.block = async.block
      BY <2>1, DoingFields
    <2>3. ASSUME async.device \in Devices PROVE Connections'
      <3>1. /\ mCtrlBlocks[async.device] = None /\ async.block \in Blocks
            /\ async.block[1] = async.device
        BY <2>1, <2>3 DEF Connections, AsyncBlock
      <3>2. Types' /\ InMap' /\ MainBlock' /\ CameraBlock'
        BY <2>1, <2>3, <3>1 DEF Connections, Types, InMap, MainBlock, CameraBlock, sysVars
      <3>3. Covered'
        BY <2>1, <2>2, <2>3, <3>1, MonitorAssumption
           DEF Connections, Covered, HeldBy, Types, Blocks
      <3>4. AsyncBlock'
        BY <2>1, <2>2, <2>3, <3>1 DEF Connections, AsyncBlock, Kept, Types
      <3> QED BY <3>2, <3>3, <3>4 DEF Connections
    <2>4. ASSUME async.device \notin Devices PROVE Connections'
      <3>1. mCtrlBlocks' = mCtrlBlocks
        BY <2>1, <2>4 DEF Connections, Types
      <3> QED BY <2>1, <2>2, <2>4, <3>1
          DEF Connections, Types, InMap, MainBlock, CameraBlock, AsyncBlock, Kept, HeldBy,
              Covered, sysVars
    <2> QED BY <2>3, <2>4
  <1>6. CASE ConnectTell
    <2>1. /\ UNCHANGED <<sysVars, blockVars, broadcasts, main, camera, destroyed, keys>>
          /\ async.pc = "tell"
          /\ async' = Doing("idle", None, None)
      BY <1>6 DEF ConnectTell, AsyncGoto, lifeVars
    <2>2. async'.pc = "idle" /\ async'.device = None /\ async'.block = None
      BY <2>1, DoingFields
    <2> QED BY <2>1, <2>2 DEF Connections, Types, InMap, MainBlock, CameraBlock, AsyncBlock, Kept,
                              HeldBy,
                 Covered, sysVars, blockVars
  <1> QED BY <1>1, <1>2, <1>3, <1>4, <1>5, <1>6 DEF AsyncStep

\* The camera thread: a clone is new, and closed before it is let go of.
LEMMA CameraKeeps ==
    /\ Connections
    /\ (\E d \in Wanted : CameraOpen(d) \/ CameraFails(d)) \/ CameraCloses
    => Connections'
  <1> SUFFICES ASSUME Connections,
                      (\E d \in Wanted : CameraOpen(d) \/ CameraFails(d)) \/ CameraCloses
               PROVE  Connections'
    OBVIOUS
  <1> USE DEF Connections
  <1>1. ASSUME NEW d \in Wanted, CameraOpen(d) \/ CameraFails(d) PROVE Connections'
    <2>1. /\ UNCHANGED <<sysVars, mCtrlBlocks, broadcasts, main, async, destroyed, keys>>
          /\ Construct(d)
      BY <1>1 DEF CameraOpen, CameraFails, lifeVars
    <2>2. d \in Devices
      BY MonitorAssumption
    <2>3. /\ New(d) \in Blocks /\ New(d)[1] = d /\ New(d) \notin opened
          /\ New(d) \notin {mCtrlBlocks[d], async.block, main.block, camera.block}
      BY <2>1, <2>2, NewIsNew DEF Construct
    <2>4. opened' \in {opened, opened \cup {New(d)}}
      BY <2>1 DEF Construct
    <2>5. \/ camera' = Doing("opened", d, New(d)) /\ lost' = lost \cup ({camera.block} \cap opened)
          \/ camera' = camera /\ lost' = lost \cup {New(d)}
      BY <1>1 DEF CameraOpen, CameraFails, Lose
    <2> HIDE DEF New
    <2>6. \/ camera'.pc = "opened" /\ camera'.device = d /\ camera'.block = New(d)
          \/ camera' = camera /\ New(d) \in lost'
      BY <2>5, DoingFields
    <2>7. lost \subseteq lost' /\ lost' \subseteq Blocks
      BY <2>3, <2>5 DEF Types
    <2>8. Types' /\ InMap' /\ MainBlock'
      BY <2>1, <2>3, <2>4, <2>7 DEF Types, InMap, MainBlock, sysVars
    <2>9. CameraBlock'
      BY <2>3, <2>4, <2>5, <2>6, DoingFields DEF CameraBlock
    <2>10. ASSUME NEW b \in opened \ lost', Kept(b) PROVE Kept(b)'
      BY <2>1, <2>5, <2>10 DEF Kept
    <2>11. ASSUME NEW b \in opened' \ lost' PROVE HeldBy(b)'
      <3>1. CASE b = New(d)
        BY <2>6, <2>11, <3>1 DEF HeldBy
      <3>2. CASE b # New(d)
        <4>1. b \in opened \ lost /\ b \in opened \ lost'
          BY <2>4, <2>7, <2>11, <3>2
        <4>2. Kept(b) \/ b = async.block
          BY <4>1 DEF Covered, HeldBy, Kept
        <4> QED BY <2>1, <2>10, <4>1, <4>2 DEF HeldBy, Kept
      <3> QED BY <3>1, <3>2
    <2>12. AsyncBlock'
      BY <2>1, <2>3, <2>4, <2>7, <2>10 DEF AsyncBlock
    <2> QED BY <2>8, <2>9, <2>11, <2>12 DEF Covered
  <1>2. CASE CameraCloses /\ camera.pc = "opened"
    <2>1. /\ UNCHANGED <<sysVars, mCtrlBlocks, lost, broadcasts, main, async, destroyed, keys>>
          /\ opened' = opened \ {camera.block} /\ camera' = [camera EXCEPT !.pc = "forget"]
      BY <1>2 DEF CameraCloses, CloseConnection, Forget, lifeVars
    <2>2. camera' = Doing("forget", camera.device, camera.block)
      BY <2>1 DEF CameraBlock, Doing
    <2>3. camera'.pc = "forget" /\ camera'.device = camera.device /\ camera'.block = camera.block
      BY <2>2, DoingFields
    <2>4. Types' /\ InMap' /\ MainBlock'
      BY <2>1 DEF Types, InMap, MainBlock, sysVars
    <2>5. CameraBlock'
      BY <1>2, <2>1, <2>2, <2>3 DEF CameraBlock
    <2>6. AsyncBlock' /\ Covered'
      BY <2>1, <2>3 DEF AsyncBlock, Covered, Kept, HeldBy
    <2> QED BY <2>4, <2>5, <2>6
  <1>3. CASE CameraCloses /\ camera.pc # "opened"
    <2> DEFINE d == camera.block[1]
    <2>1. /\ UNCHANGED <<sysVars, opened, async, main, broadcasts, destroyed, keys>>
          /\ camera.pc = "forget"
          /\ mCtrlBlocks' = [mCtrlBlocks EXCEPT ![d] = None]
          /\ lost' = lost \cup ({mCtrlBlocks[d]} \cap opened)
          /\ camera' = Doing("idle", None, None)
      BY <1>3 DEF CameraCloses, CloseConnection, Forget, Lose, Idle, lifeVars
    <2>2. /\ camera' = Doing(camera'.pc, camera'.device, camera'.block)
          /\ camera'.pc = "idle" /\ camera'.block = None
      BY <2>1, DoingFields
    <2>3. d \in Devices /\ camera.block \notin opened
      BY <2>1 DEF CameraBlock, Blocks
    <2>4. Types' /\ InMap' /\ CameraBlock' /\ MainBlock'
      BY <2>1, <2>2, <2>3 DEF Types, InMap, CameraBlock, MainBlock, sysVars
    <2>5. ASSUME NEW b \in opened \ lost', Kept(b) PROVE Kept(b)'
      BY <2>1, <2>2, <2>3, <2>5 DEF Kept, Types, InMap, Blocks
    <2>6. lost \subseteq lost' /\ opened' = opened
      BY <2>1
    <2>7. Covered'
      BY <2>1, <2>5, <2>6 DEF Covered, HeldBy, Kept
    <2>8. AsyncBlock'
      BY <2>1, <2>3, <2>5, <2>6 DEF AsyncBlock, Types
    <2> QED BY <2>4, <2>7, <2>8
  <1> QED BY <1>1, <1>2, <1>3

-----------------------------------------------------------------------------

\* Who has which block is an invariant.
LEMMA AlwaysConnected == Spec => []Connections
  <1>1. Connections /\ [Next]_vars => Connections'
    <2>1. Connections /\ UNCHANGED vars => Connections'
      BY DEF vars, Connections, Types, InMap, MainBlock, CameraBlock, AsyncBlock, Kept, HeldBy,
             Covered, sysVars, blockVars, lifeVars
    <2> QED BY <2>1, SystemKeeps, MainCallKeeps, MainKeeps, AsyncKeeps, CameraKeeps DEF Next
  <1> QED BY <1>1, Start, PTL DEF Spec

-----------------------------------------------------------------------------
(* The account of the messages: types, and the checks that wait.           *)

\* The messages for the thread of mAsyncHandler.
Posts == [what : {"check", "attach", "dettach"}, device : Devices \cup {None}]
           \cup [what : {"connect"}, device : Wanted]

\* The broadcasts: answers come only for devices that were asked for.
Answers == [what : {"granted", "denied"}, device : Wanted]
             \cup [what : {"detached"}, device : Devices]

\* The checks in a queue, and their number.
Checks(q) == {i \in DOMAIN q : q[i].what = "check"}
Count(q) == Cardinality(Checks(q))

\* The terms of OneCheck as numbers.
Running  == IF Checking THEN 1 ELSE 0
Asked    == IF registered THEN 1 ELSE 0
Survived == IF rearmed THEN 1 ELSE 0

Flags ==
    /\ registered \in BOOLEAN /\ destroyed \in BOOLEAN /\ looper \in BOOLEAN
    /\ rearmed \in BOOLEAN /\ stale \in BOOLEAN

AsyncPcs == {"idle", "check", "permissions", "compare", "write", "again", "thrown",
             "get", "new", "put", "tell"}

Threads ==
    /\ async.pc \in AsyncPcs
    /\ async.pc \in {"get", "new", "put", "tell"} => async.device \in Wanted
    /\ async.device \in Wanted \cup {None}
    /\ main = Doing(main.pc, main.device, main.block)
    /\ main.pc \in {"idle", "close", "forget", "detached", "destroy", "closeAll", "quit"}
    /\ main.device \in Devices \cup {None}
    /\ camera = Doing(camera.pc, camera.device, camera.block)
    /\ camera.pc \in {"idle", "opened", "forget"}

Messages == broadcasts \in Seq(Answers) /\ queue \in Seq(Posts) /\ timer \in Nat

Sets ==
    /\ attached \subseteq Devices /\ granted \subseteq attached
    /\ mHasPermissions \subseteq Devices /\ list \subseteq Devices
    /\ known \subseteq Wanted /\ given \subseteq Wanted /\ excused \subseteq Wanted
    /\ mDeviceCounts \in 0..Cardinality(Devices)

\* Once the looper is told to quit nothing waits, and nobody registers.
Quitting ==
    /\ looper \/ (queue = <<>> /\ timer = 0)
    /\ destroyed \/ looper
    /\ main.pc \in {"closeAll", "quit"} => destroyed
    /\ destroyed => ~looper \/ main.pc \in {"closeAll", "close", "forget", "quit"}

Polls == timer + Count(queue) + Running <= Asked + Survived

Account == Flags /\ Threads /\ Messages /\ Sets /\ Quitting /\ Polls

-----------------------------------------------------------------------------

\* A message is a record with two fields.
LEMMA PostFields ==
    /\ \A d \in Devices \cup {None} : /\ Message("check", d) \in Posts
                                   /\ Message("attach", d) \in Posts
                                   /\ Message("dettach", d) \in Posts
    /\ \A d \in Wanted : Message("connect", d) \in Posts
    /\ \A d \in Wanted : Message("granted", d) \in Answers /\ Message("denied", d) \in Answers
    /\ \A d \in Devices : Message("detached", d) \in Answers
    /\ \A w, d : Message(w, d).what = w /\ Message(w, d).device = d
  BY DEF Posts, Answers, Message

\* There are finitely many checks in a queue.
LEMMA CountIsNat ==
    ASSUME NEW S, NEW q \in Seq(S)
    PROVE  IsFiniteSet(Checks(q)) /\ Count(q) \in Nat
  <1>1. Checks(q) \in SUBSET (1..Len(q)) /\ Len(q) \in Nat
    BY DEF Checks
  <1>2. IsFiniteSet(1..Len(q))
    BY <1>1, FS_Interval
  <1>3. IsFiniteSet(Checks(q))
    BY <1>1, <1>2, FS_Subset
  <1> QED BY <1>3, FS_CardinalityType DEF Count

\* Messages that are no checks leave the number of checks as it is.
LEMMA CountOthers ==
    ASSUME NEW q \in Seq(Posts), NEW r \in Seq(Posts), Checks(r) = {}
    PROVE  q \o r \in Seq(Posts) /\ Count(q \o r) = Count(q)
  <1>1. q \o r \in Seq(Posts)
    OBVIOUS
  <1>2. Checks(q \o r) = Checks(q)
    BY DEF Checks
  <1> QED BY <1>1, <1>2 DEF Count

\* A check that is posted is one more.
LEMMA CountOneMore ==
    ASSUME NEW q \in Seq(Posts)
    PROVE  LET r == q \o <<Message("check", None)>>
           IN  r \in Seq(Posts) /\ Count(r) = Count(q) + 1
  <1> DEFINE m == Message("check", None)
             r == q \o <<m>>
  <1>1. m \in Posts /\ m.what = "check"
    BY PostFields
  <1> HIDE DEF m
  <1>2. r \in Seq(Posts) /\ Len(r) = Len(q) + 1 /\ r[Len(q) + 1] = m
        /\ \A i \in 1..Len(q) : r[i] = q[i]
    BY <1>1
  <1>3. Checks(r) = Checks(q) \cup {Len(q) + 1} /\ Len(q) + 1 \notin Checks(q)
    BY <1>1, <1>2 DEF Checks
  <1>4. IsFiniteSet(Checks(q)) /\ Count(q) \in Nat
    BY CountIsNat
  <1>5. Cardinality(Checks(q) \cup {Len(q) + 1}) = Cardinality(Checks(q)) + 1
    BY <1>3, <1>4, FS_AddElement
  <1> QED BY <1>2, <1>3, <1>5 DEF m, Count

\* A check that is taken out is one less.
LEMMA CountOneLess ==
    ASSUME NEW q \in Seq(Posts), q # <<>>
    PROVE  /\ Tail(q) \in Seq(Posts) /\ Head(q) \in Posts
           /\ Head(q).what = "check" => Count(q) = Count(Tail(q)) + 1
           /\ Head(q).what # "check" => Count(q) = Count(Tail(q))
  <1> DEFINE t == Tail(q)
             f == [i \in Checks(t) |-> i + 1]
  <1>1. /\ t \in Seq(Posts) /\ Head(q) \in Posts /\ Head(q) = q[1]
        /\ Len(q) \in Nat /\ Len(q) >= 1 /\ Len(t) = Len(q) - 1
        /\ \A i \in 1..Len(t) : t[i] = q[i + 1]
        /\ DOMAIN t = 1..Len(t) /\ DOMAIN q = 1..Len(q)
    OBVIOUS
  <1> HIDE DEF t
  <1>2. \A i \in Checks(q) \ {1} : i - 1 \in Checks(t) /\ i = (i - 1) + 1
    BY <1>1 DEF Checks
  <1>3. \A i \in Checks(t) : i \in Nat /\ i + 1 \in Checks(q) \ {1}
    BY <1>1 DEF Checks
  <1>4. f \in Bijection(Checks(t), Checks(q) \ {1})
    BY <1>2, <1>3, Fun_IsBij
  <1>5. IsFiniteSet(Checks(t)) /\ IsFiniteSet(Checks(q)) /\ Count(q) \in Nat
    BY <1>1, CountIsNat
  <1>6. Cardinality(Checks(q) \ {1}) = Cardinality(Checks(t))
    BY <1>4, <1>5, FS_Bijection DEF ExistsBijection
  <1>7. Cardinality(Checks(q) \ {1})
          = IF 1 \in Checks(q) THEN Cardinality(Checks(q)) - 1 ELSE Cardinality(Checks(q))
    BY <1>5, FS_RemoveElement
  <1>8. 1 \in Checks(q) <=> Head(q).what = "check"
    BY <1>1 DEF Checks
  <1> QED BY <1>1, <1>5, <1>6, <1>7, <1>8 DEF Count, t

\* The place of a number in a finite set of numbers grows with the number.
LEMMA PlaceGrows ==
    ASSUME NEW kept \in SUBSET Nat, IsFiniteSet(kept)
    PROVE  LET place(i) == Cardinality({j \in kept : j <= i})
           IN  /\ \A i \in kept : place(i) \in 1..Cardinality(kept)
               /\ \A i, j \in kept : i < j => place(i) < place(j)
  <1> DEFINE below(i) == {j \in kept : j <= i}
             N == Cardinality(kept)
  <1>1. N \in Nat
    BY FS_CardinalityType
  <1>2. ASSUME NEW i \in kept
        PROVE  IsFiniteSet(below(i)) /\ Cardinality(below(i)) \in 1..N
    <2>1. below(i) \in SUBSET kept /\ i \in below(i)
      OBVIOUS
    <2>2. IsFiniteSet(below(i)) /\ Cardinality(below(i)) <= N
      BY <2>1, FS_Subset
    <2>3. Cardinality(below(i)) \in Nat /\ Cardinality(below(i)) # 0
      BY <2>1, <2>2, FS_CardinalityType, FS_EmptySet
    <2> QED BY <1>1, <2>2, <2>3
  <1>3. ASSUME NEW i \in kept, NEW j \in kept, i < j
        PROVE  Cardinality(below(i)) < Cardinality(below(j))
    <2>1. \A k \in kept : k \in Nat /\ (k <= i => k <= j)
      BY <1>3
    <2>2. j \in below(j) /\ j \notin below(i)
      BY <1>3, <2>1
    <2>3. below(i) \in SUBSET below(j) /\ below(i) # below(j)
      BY <2>1, <2>2
    <2> HIDE DEF below
    <2>4. Cardinality(below(i)) <= Cardinality(below(j))
          /\ Cardinality(below(i)) # Cardinality(below(j))
      BY <1>2, <2>3, FS_Subset
    <2> QED BY <1>2, <2>4
  <1> QED BY <1>2, <1>3

\* A finite set of numbers can be counted in its order: every number up to the
\* size of the set is the place of one of its elements.
LEMMA EveryPlace ==
    ASSUME NEW kept \in SUBSET Nat, IsFiniteSet(kept), NEW n \in 1..Cardinality(kept)
    PROVE  \E i \in kept : Cardinality({j \in kept : j <= i}) = n
  <1> DEFINE spot(i) == Cardinality({j \in kept : j <= i})
             place == [i \in kept |-> spot(i)]
             N == Cardinality(kept)
  <1>1. N \in Nat
    BY FS_CardinalityType
  <1>2. /\ \A i \in kept : spot(i) \in 1..N
        /\ \A i, j \in kept : i < j => spot(i) < spot(j)
    BY PlaceGrows
  <1> HIDE DEF spot, N
  <1>3. place \in Injection(kept, 1..N)
    <2>1. place \in [kept -> 1..N]
      BY <1>2
    <2>2. ASSUME NEW i \in kept, NEW j \in kept, place[i] = place[j] PROVE i = j
      BY <1>1, <1>2, <2>2
    <2> QED BY <2>1, <2>2, Fun_IsInj
  <1>4. IsFiniteSet(1..N) /\ Cardinality(1..N) = N
    BY <1>1, FS_Interval
  <1>5. place \in Surjection(kept, 1..N)
    BY <1>3, <1>4, FS_Injection DEF N
  <1>6. PICK i \in kept : place[i] = n
    BY <1>5 DEF N, Surjection
  <1> QED BY <1>6 DEF spot

\* What is left when the checks are taken out are messages, and no checks.
LEMMA NoChecksLeft ==
    ASSUME queue \in Seq(Posts)
    PROVE  WithoutChecks \in Seq(Posts) /\ Count(WithoutChecks) = 0
  <1> DEFINE kept     == {i \in DOMAIN queue : queue[i].what # "check"}
             place(i) == Cardinality({j \in kept : j <= i})
             at(n)    == CHOOSE i \in kept : place(i) = n
             N        == Cardinality(kept)
  <1>1. kept \in SUBSET (1..Len(queue)) /\ Len(queue) \in Nat /\ kept \in SUBSET Nat
    OBVIOUS
  <1>2. IsFiniteSet(kept) /\ N \in Nat
    <2> HIDE DEF kept
    <2>1. IsFiniteSet(1..Len(queue))
      BY <1>1, FS_Interval
    <2> QED BY <1>1, <2>1, FS_Subset, FS_CardinalityType
  <1>3. ASSUME NEW n \in 1..N PROVE queue[at(n)] \in Posts /\ queue[at(n)].what # "check"
    <2>1. \E i \in kept : place(i) = n
      BY <1>1, <1>2, <1>3, EveryPlace
    <2>2. at(n) \in kept
      BY <2>1
    <2> QED BY <2>2
  <1>4. WithoutChecks = [n \in 1..N |-> queue[at(n)]]
    BY DEF WithoutChecks
  <1> HIDE DEF kept, place, at, N
  <1>5. WithoutChecks \in Seq(Posts)
    BY <1>2, <1>3, <1>4
  <1>6. Checks(WithoutChecks) = {}
    BY <1>3, <1>4 DEF Checks
  <1> QED BY <1>5, <1>6, FS_EmptySet DEF Count

\* The announcements of a check are no checks, and there is one of each device.
LEMMA Announcements ==
    ASSUME NEW S \in SUBSET Devices
    PROVE  LET r == SetToSeq({Message("attach", d) : d \in S})
           IN  /\ r \in Seq(Posts) /\ Checks(r) = {}
               /\ \A i \in DOMAIN r : \E d \in S : r[i] = Message("attach", d)
               /\ \A d \in S : \E i \in DOMAIN r : r[i] = Message("attach", d)
  <1> DEFINE M == {Message("attach", d) : d \in S}
             f == [d \in S |-> Message("attach", d)]
             r == SetToSeq(M)
  <1>1. IsFiniteSet(S)
    BY MonitorAssumption, FS_Subset
  <1>2. f \in Bijection(S, M)
    <2>1. \A d \in S : f[d] \in M /\ f[d].device = d
      BY PostFields
    <2>2. \A m \in M : \E d \in S : f[d] = m
      OBVIOUS
    <2> QED BY <2>1, <2>2, Fun_IsBij
  <1>3. IsFiniteSet(M)
    BY <1>1, <1>2, FS_Bijection DEF ExistsBijection
  <1>4. \A m \in M : m \in Posts /\ m.what = "attach"
    BY PostFields
  <1> HIDE DEF M
  <1>5. /\ Cardinality(M) \in Nat
        /\ \E g \in [1..Cardinality(M) -> M] : IsInjective(g)
    <2>1. ExistsBijection(1..Cardinality(M), M) /\ Cardinality(M) \in Nat
      BY <1>3, FS_CardinalityType
    <2> QED BY <2>1 DEF ExistsBijection, Bijection, Injection
  <1>6. r \in [1..Cardinality(M) -> M] /\ IsInjective(r)
    BY <1>5 DEF SetToSeq
  <1> HIDE DEF r
  <1>7. r \in Seq(Posts) /\ Checks(r) = {} /\ DOMAIN r = 1..Cardinality(M)
    BY <1>4, <1>5, <1>6 DEF Checks
  <1>8. \A m \in M : \E i \in DOMAIN r : r[i] = m
    <2>1. IsFiniteSet(1..Cardinality(M)) /\ Cardinality(1..Cardinality(M)) = Cardinality(M)
      BY <1>5, FS_Interval
    <2>2. r \in Injection(1..Cardinality(M), M)
      BY <1>6 DEF IsInjective, Injection
    <2>3. r \in Surjection(1..Cardinality(M), M)
      BY <1>3, <2>1, <2>2, FS_Injection
    <2> QED BY <1>7, <2>3 DEF Surjection
  <1>9. \A i \in DOMAIN r : r[i] \in M
    BY <1>6, <1>7
  <1> QED BY <1>7, <1>8, <1>9 DEF r, M

-----------------------------------------------------------------------------

\* What Post does to the queue, with a check and without one.
LEMMA PostOthers ==
    ASSUME Messages, Quitting, NEW m \in Posts, m.what # "check", Post(<<m>>)
    PROVE  queue' \in Seq(Posts) /\ Count(queue') = Count(queue) /\ (looper \/ queue' = <<>>)
  <1>1. <<m>> \in Seq(Posts) /\ Checks(<<m>>) = {}
    BY DEF Checks
  <1>2. queue' \in {queue, queue \o <<m>>} /\ (looper \/ queue' = queue)
    BY DEF Post
  <1>3. queue \o <<m>> \in Seq(Posts) /\ Count(queue \o <<m>>) = Count(queue)
    BY <1>1, CountOthers DEF Messages
  <1> QED BY <1>2, <1>3 DEF Messages, Quitting

\* Devices can be counted.
LEMMA DevicesCounted == Cardinality(Devices) \in Nat /\ 0 \in 0..Cardinality(Devices)
  <1>1. Cardinality(Devices) \in Nat
    BY MonitorAssumption, FS_CardinalityType
  <1> QED BY <1>1

\* The terms of OneCheck are numbers.
LEMMA Numbers ==
    ASSUME Account
    PROVE  /\ timer \in Nat /\ Count(queue) \in Nat
           /\ Running \in {0, 1} /\ Asked \in {0, 1} /\ Survived \in {0, 1}
  BY CountIsNat DEF Account, Messages, Running, Asked, Survived

\* In the initial state nothing waits.
LEMMA AccountStarts == Init => Account
  <1> SUFFICES ASSUME Init PROVE Account
    OBVIOUS
  <1>1. Idle.pc = "idle" /\ Idle.device = None /\ Idle.block = None
    BY DoingFields DEF Idle
  <1>2. Flags
    BY DEF Init, Flags
  <1>3. Threads /\ Messages /\ Sets
    <2> QED BY <1>1, DevicesCounted DEF Init, Threads, Messages, Sets, AsyncPcs, Idle
  <1>4. Quitting
    BY <1>1 DEF Init, Quitting
  <1>5. Polls
    <2>1. timer = 0 /\ Running = 0 /\ Asked = 0 /\ Survived = 0
      BY <1>1 DEF Init, Running, Asked, Survived, Checking
    <2>2. Checks(queue) = {}
      BY DEF Init, Checks
    <2> QED BY <2>1, <2>2, FS_EmptySet DEF Polls, Count
  <1> QED BY <1>2, <1>3, <1>4, <1>5 DEF Account

\* Most steps leave the account of the checks alone.
LEMMA SamePolls ==
    ASSUME Polls, UNCHANGED <<timer, registered, rearmed>>, Count(queue') = Count(queue),
           Running' = Running
    PROVE  Polls'
  BY DEF Polls, Asked, Survived

\* Devices come and go.
LEMMA SystemAccounts == Account /\ SystemStep => Account'
  <1> SUFFICES ASSUME Account, NEW d \in Devices, Attach(d) \/ Detach(d) PROVE Account'
    BY DEF SystemStep
  <1> USE DEF Account
  <1>1. /\ UNCHANGED <<async, main, camera, countVars, lifeVars, postVars, known>>
        /\ broadcasts' \in {broadcasts, Append(broadcasts, Message("detached", d))}
        /\ attached' \in {attached \cup {d}, attached \ {d}}
        /\ granted' \in {granted, granted \ {d}} /\ granted' \subseteq attached'
        /\ excused' \subseteq excused \cup Wanted /\ given' \subseteq given
    BY DEF Attach, Detach, Broadcast, Sets
  <1>2. Flags'
    BY <1>1 DEF Flags, countVars, lifeVars, postVars
  <1>3. Threads' /\ Quitting' /\ Sets'
    BY <1>1 DEF Threads, Quitting, Sets, countVars, lifeVars, postVars
  <1>4. Messages'
    <2>1. Message("detached", d) \in Answers
      BY PostFields
    <2> QED BY <1>1, <2>1 DEF Messages, postVars
  <1>5. Polls'
    BY <1>1, SamePolls DEF Running, Checking, lifeVars, postVars
  <1> QED BY <1>2, <1>3, <1>4, <1>5

\* The calls of the main thread.
LEMMA MainCallAccounts == Account /\ MainCall => Account'
  <1> SUFFICES ASSUME Account, MainCall PROVE Account'
    OBVIOUS
  <1> USE DEF Account
  <1>1. CASE Register
    <2>1. Flags'
      BY <1>1 DEF Register, ResetCounts, Flags
    <2>2. Threads' /\ Messages'
      BY <1>1 DEF Register, Threads, Messages
    <2>3. Sets' /\ Quitting'
      BY <1>1, DevicesCounted DEF Register, ResetCounts, Sets, Quitting, sysVars, toldVars
    <2>4. Polls'
      <3>1. timer' = timer + 1 /\ queue' = queue
        BY <1>1 DEF Register
      <3>2. Asked = 0 /\ Asked' = 1 /\ Survived' = Survived
        BY <1>1 DEF Register, Asked, Survived
      <3>3. Running' = Running
        BY <1>1 DEF Register, Running, Checking
      <3> QED BY <3>1, <3>2, <3>3, Numbers DEF Polls
    <2> QED BY <2>1, <2>2, <2>3, <2>4
  <1>2. ASSUME NEW next \in {"idle", "destroy"}, Unregister(next) PROVE Account'
    <2>1. /\ main'.pc = next /\ main'.device = None
          /\ main' = Doing(main'.pc, main'.device, main'.block)
      BY <1>2, DoingFields DEF Unregister
    <2>2. Flags'
      <3>1. /\ UNCHANGED <<destroyed, looper>> /\ registered' = FALSE /\ rearmed' = Checking
            /\ stale' = (async.pc \in {"permissions", "compare", "write"})
        BY <1>2 DEF Unregister, ResetCounts
      <3>2. rearmed' \in BOOLEAN /\ stale' \in BOOLEAN
        BY <3>1 DEF Checking
      <3> QED BY <3>1, <3>2 DEF Flags
    <2>3. Threads'
      BY <1>2, <2>1 DEF Unregister, Threads
    <2>4. IF destroyed THEN UNCHANGED <<timer, queue>> /\ timer = 0 /\ queue = <<>>
          ELSE timer' = 0 /\ queue' = WithoutChecks
      BY <1>2 DEF Unregister, Begin, StopChecks, Quitting
    <2>5. timer' = 0 /\ queue' \in Seq(Posts) /\ Count(queue') = 0 /\ (looper \/ queue' = <<>>)
      <3>1. CASE destroyed
        <4>1. Checks(<<>>) = {}
          BY DEF Checks
        <4> QED BY <2>4, <3>1, <4>1, FS_EmptySet DEF Count
      <3>2. CASE ~destroyed
        BY <2>4, <3>2, NoChecksLeft DEF Messages, Quitting
      <3> QED BY <3>1, <3>2
    <2>6. Messages' /\ Sets'
      BY <1>2, <2>5, DevicesCounted DEF Unregister, ResetCounts, Messages, Sets, sysVars
    <2>7. Quitting'
      BY <1>2, <2>1, <2>5 DEF Unregister, Begin, Quitting
    <2>8. Polls'
      <3>1. Survived' = Running
        BY <1>2 DEF Unregister, Survived, Running
      <3>2. Running' = Running
        BY <1>2 DEF Unregister, Running, Checking
      <3>3. Asked' \in {0, 1}
        BY DEF Asked
      <3> QED BY <2>5, <3>1, <3>2, <3>3, Numbers DEF Polls
    <2> QED BY <2>2, <2>3, <2>6, <2>7, <2>8
  <1>3. ASSUME NEW d \in Wanted, RequestPermission(d) PROVE Account'
    <2>1. d \in Devices
      BY MonitorAssumption
    <2>2. /\ Message("granted", d) \in Answers /\ Message("denied", d) \in Answers
          /\ Message("connect", d) \in Posts /\ Message("connect", d).what # "check"
      BY PostFields
    <2>3. queue' = queue \/ Post(<<Message("connect", d)>>)
      BY <1>3 DEF RequestPermission, ProcessConnect, ProcessCancel
    <2>4. queue' \in Seq(Posts) /\ Count(queue') = Count(queue) /\ (looper \/ queue' = <<>>)
      BY <2>2, <2>3, PostOthers DEF Messages, Quitting
    <2>5. Flags'
      BY <1>3 DEF RequestPermission, Flags, lifeVars
    <2>6. Threads' /\ Quitting'
      BY <1>3, <2>4 DEF RequestPermission, Threads, Quitting, lifeVars
    <2>7. Messages'
      <3>1. /\ broadcasts' \in {broadcasts, Append(broadcasts, Message("granted", d)),
                                Append(broadcasts, Message("denied", d))}
            /\ timer' = timer
        BY <1>3 DEF RequestPermission, Broadcast
      <3>2. \A a \in Answers : Append(broadcasts, a) \in Seq(Answers)
        BY DEF Messages
      <3>3. broadcasts' \in Seq(Answers)
        BY <2>2, <3>1, <3>2 DEF Messages
      <3>4. queue' \in Seq(Posts) /\ timer' \in Nat
        BY <2>4, <3>1 DEF Messages
      <3> QED BY <3>3, <3>4 DEF Messages
    <2>8. Sets'
      BY <1>3, <2>1 DEF RequestPermission, ProcessConnect, ProcessCancel, Sets, toldVars
    <2>9. Polls'
      BY <1>3, <2>4, SamePolls DEF RequestPermission, Running, Checking, lifeVars
    <2> QED BY <2>5, <2>6, <2>7, <2>8, <2>9
  <1> QED BY <1>1, <1>2, <1>3 DEF MainCall

\* The broadcasts, the closing and the destroying.
LEMMA MainAccounts == Account /\ MainContinue => Account'
  <1> SUFFICES ASSUME Account, MainContinue PROVE Account'
    OBVIOUS
  <1> USE DEF Account
  <1>1. CASE ReceivePermission
    <2> DEFINE m == Head(broadcasts)
    <2>1. broadcasts # <<>> /\ m.what # "detached" /\ broadcasts' = Tail(broadcasts)
      BY <1>1 DEF ReceivePermission
    <2>2. m \in Answers /\ broadcasts' \in Seq(Answers)
      BY <2>1 DEF Messages
    <2>3. m.device \in Wanted /\ m.device \in Devices
      BY <2>1, <2>2, MonitorAssumption DEF Answers
    <2>4. /\ Message("connect", m.device) \in Posts
          /\ Message("connect", m.device).what # "check"
      BY <2>3, PostFields
    <2>5. ProcessConnect(m.device) \/ ProcessCancel(m.device)
      BY <1>1 DEF ReceivePermission
    <2> HIDE DEF m
    <2>6. queue' = queue \/ Post(<<Message("connect", m.device)>>)
      BY <2>5 DEF ProcessConnect, ProcessCancel
    <2>7. queue' \in Seq(Posts) /\ Count(queue') = Count(queue) /\ (looper \/ queue' = <<>>)
      BY <2>4, <2>6, PostOthers DEF Messages, Quitting
    <2>8. Flags'
      BY <1>1 DEF ReceivePermission, Flags, lifeVars
    <2>9. Threads' /\ Quitting'
      BY <1>1, <2>7 DEF ReceivePermission, Threads, Quitting, lifeVars
    <2>10. Messages'
      BY <1>1, <2>2, <2>7 DEF ReceivePermission, Messages
    <2>11. Sets'
      BY <1>1, <2>3, <2>5
         DEF ReceivePermission, ProcessConnect, ProcessCancel, Sets, sysVars, toldVars
    <2>12. Polls'
      BY <1>1, <2>7, SamePolls DEF ReceivePermission, Running, Checking, lifeVars
    <2> QED BY <2>8, <2>9, <2>10, <2>11, <2>12
  <1>2. CASE ReceiveDetached
    <2> DEFINE d == Head(broadcasts).device
    <2>1. broadcasts # <<>> /\ broadcasts' = Tail(broadcasts) /\ main.pc = "idle"
          /\ UNCHANGED <<sysVars, countVars, lifeVars, postVars, async, camera, known, given>>
          /\ main' = Doing(IF mCtrlBlocks[d] = None THEN "detached" ELSE "close", d,
                           mCtrlBlocks[d])
          /\ excused' = IF async.device = d THEN excused \cup {d} ELSE excused
      BY <1>2 DEF ReceiveDetached
    <2>2. Head(broadcasts) \in Answers /\ broadcasts' \in Seq(Answers)
      BY <2>1 DEF Messages
    <2>3. d \in Devices
      BY <2>2, MonitorAssumption DEF Answers
    <2>4. excused' \subseteq Wanted
      BY <2>1, <2>3, MonitorAssumption DEF Threads, Sets
    <2>5. /\ main'.pc \in {"detached", "close"} /\ main'.device = d
          /\ main' = Doing(main'.pc, main'.device, main'.block)
      BY <2>1, DoingFields
    <2> HIDE DEF d
    <2>6. Flags'
      BY <2>1 DEF Flags, lifeVars, postVars, countVars
    <2>7. Threads'
      BY <2>1, <2>3, <2>5 DEF Threads
    <2>8. Messages' /\ Sets' /\ Quitting'
      BY <2>1, <2>2, <2>4, <2>5
         DEF Messages, Sets, Quitting, sysVars, countVars, lifeVars, postVars
    <2>9. Polls'
      BY <2>1, SamePolls DEF Running, Checking, lifeVars, postVars
    <2> QED BY <2>6, <2>7, <2>8, <2>9
  <1>3. CASE Detached
    <2> DEFINE m == Message("dettach", main.device)
    <2>1. m \in Posts /\ m.what # "check"
      BY PostFields DEF Threads
    <2>2. Post(<<m>>)
      BY <1>3 DEF Detached
    <2> HIDE DEF m
    <2>3. queue' \in Seq(Posts) /\ Count(queue') = Count(queue) /\ (looper \/ queue' = <<>>)
      BY <2>1, <2>2, PostOthers
    <2>4. Idle.pc = "idle" /\ Idle.device = None /\ Idle.block = None
      BY DoingFields DEF Idle
    <2>5. Flags'
      BY <1>3 DEF Detached, ResetCounts, Flags, lifeVars
    <2>6. Threads'
      BY <1>3, <2>4 DEF Detached, Threads, Idle
    <2>7. Messages' /\ Sets' /\ Quitting'
      BY <1>3, <2>3, <2>4, DevicesCounted DEF Detached, ResetCounts, Messages, Sets, Quitting,
                                              sysVars, lifeVars, toldVars
    <2>8. Polls'
      BY <1>3, <2>3, SamePolls DEF Detached, Running, Checking, lifeVars
    <2> QED BY <2>5, <2>6, <2>7, <2>8
  <1>4. ASSUME main.pc \in {"destroy", "closeAll", "quit"},
               Destroy \/ CloseAll \/ Clear \/ Quit
        PROVE  Account'
    <2>1. /\ UNCHANGED <<sysVars, broadcasts, countVars, registered, rearmed, async, camera,
                         toldVars>>
          /\ \/ main' = main
             \/ main' = Idle \/ main' = Doing("closeAll", None, None)
             \/ main' = Doing("quit", None, None) \/ \E b : main' = Doing("close", None, b)
          /\ destroyed' \in {destroyed, TRUE} /\ looper' \in {looper, FALSE}
      BY <1>4 DEF Destroy, CloseAll, Clear, Quit, lifeVars, postVars
    <2>2. /\ main'.pc \in {"idle", "closeAll", "close", "quit"} \/ main' = main
          /\ main'.device = None \/ main' = main
          /\ main' = Doing(main'.pc, main'.device, main'.block)
      BY <2>1, DoingFields DEF Idle, Threads
    <2>3. UNCHANGED <<queue, timer>> \/ (queue' = <<>> /\ timer' = 0)
      BY <1>4 DEF Destroy, CloseAll, Clear, Quit, postVars
    <2>4. Flags'
      BY <2>1 DEF Flags, countVars
    <2>5. Threads'
      BY <2>1, <2>2 DEF Threads
    <2>6. Messages' /\ Sets'
      <3>1. Sets'
        BY <2>1 DEF Sets, sysVars, countVars, toldVars
      <3>2. timer' \in Nat /\ (queue' = queue \/ queue' = <<>>) /\ <<>> \in Seq(Posts)
        BY <2>3 DEF Messages
      <3> QED BY <2>1, <3>1, <3>2 DEF Messages
    <2>7. Quitting'
      <3>1. CASE Destroy
        <4>1. destroyed => main' = Idle /\ ~looper
          BY <3>1 DEF Destroy, Quitting
        <4>2. ~destroyed => main'.pc = "closeAll"
          BY <3>1, DoingFields DEF Destroy
        <4> QED BY <3>1, <4>1, <4>2 DEF Destroy, Quitting, postVars
      <3>2. CASE CloseAll
        <4>1. main' = main \/ \E b : main' = Doing("close", None, b)
          BY <3>2 DEF CloseAll
        <4>2. main' = main \/ main'.pc = "close"
          BY <4>1, DoingFields
        <4> QED BY <3>2, <4>2 DEF CloseAll, Quitting, postVars
      <3>3. CASE Clear
        <4>1. main.pc = "closeAll" /\ main'.pc = "quit"
          BY <3>3, DoingFields DEF Clear
        <4> QED BY <3>3, <4>1 DEF Clear, Quitting, lifeVars, postVars
      <3>4. CASE Quit
        <4>1. main.pc = "quit" /\ main'.pc = "idle"
          BY <3>4, DoingFields DEF Quit, Idle
        <4> QED BY <3>4, <4>1 DEF Quit, Quitting, lifeVars
      <3> QED BY <1>4, <3>1, <3>2, <3>3, <3>4
    <2>8. Polls'
      <3>1. Asked' = Asked /\ Survived' = Survived
        BY <2>1 DEF Asked, Survived
      <3>2. Running' = Running
        BY <2>1 DEF Running, Checking
      <3>3. Checks(<<>>) = {}
        BY DEF Checks
      <3>4. \/ timer' = timer /\ Count(queue') = Count(queue)
            \/ timer' = 0 /\ Count(queue') = 0
        BY <2>3, <3>3, FS_EmptySet DEF Count
      <3> QED BY <3>1, <3>2, <3>4, Numbers DEF Polls
    <2> QED BY <2>4, <2>5, <2>6, <2>7, <2>8
  <1>5. CASE MainCloses
    <2>1. /\ UNCHANGED <<sysVars, broadcasts, countVars, lifeVars, postVars, async, camera,
                         toldVars>>
          /\ main.pc \in {"close", "forget"}
          /\ main' = AfterClose \/ main' = [main EXCEPT !.pc = "forget"]
      BY <1>5 DEF MainCloses, CloseConnection, Forget
    <2>2. [main EXCEPT !.pc = "forget"] = Doing("forget", main.device, main.block)
      BY DEF Threads, Doing
    <2>3. /\ main' = Doing(main'.pc, main'.device, main'.block)
          /\ main'.device \in Devices \cup {None}
          /\ main'.pc \in {"closeAll", "detached", "forget"}
          /\ main'.pc \in IF destroyed THEN {"closeAll", "forget"} ELSE {"detached", "forget"}
      BY <2>1, <2>2, DoingFields DEF AfterClose, Threads
    <2>4. Flags'
      BY <2>1 DEF Flags, lifeVars, postVars, countVars
    <2>5. Threads'
      BY <2>1, <2>3 DEF Threads
    <2>6. Messages' /\ Sets' /\ Quitting'
      BY <2>1, <2>3 DEF Messages, Sets, Quitting, sysVars, countVars, lifeVars, postVars, toldVars
    <2>7. Polls'
      BY <2>1, SamePolls DEF Running, Checking, lifeVars, postVars
    <2> QED BY <2>4, <2>5, <2>6, <2>7
  <1>6. Destroy \/ CloseAll \/ Clear \/ Quit => main.pc \in {"destroy", "closeAll", "quit"}
    BY DEF Destroy, CloseAll, Clear, Quit
  <1> QED BY <1>1, <1>2, <1>3, <1>4, <1>5, <1>6 DEF MainContinue

\* A step of the thread of mAsyncHandler that goes on with something.
LEMMA AsyncGoes ==
    ASSUME Account, NEW pc \in AsyncPcs, NEW d \in Wanted \cup {None}, NEW b,
           pc \in {"get", "new", "put", "tell"} => d \in Wanted,
           AsyncGoto(pc, d, b), UNCHANGED <<main, camera>>
    PROVE  /\ Threads'
           /\ Running' = IF pc \in {"check", "permissions", "compare", "write", "again"}
                         THEN 1 ELSE 0
  <1>1. async'.pc = pc /\ async'.device = d
    BY DoingFields DEF AsyncGoto
  <1> QED BY <1>1 DEF Account, Threads, Running, Checking

\* The messages, the checks and the connecting.
LEMMA AsyncAccounts == Account /\ (AsyncStep \/ TimerDue) => Account'
  <1> SUFFICES ASSUME Account, AsyncStep \/ TimerDue PROVE Account'
    OBVIOUS
  <1> USE DEF Account
  <1>1. CASE TimerDue
    <2> DEFINE m == Message("check", None)
    <2>1. timer > 0 /\ timer' = timer - 1 /\ Post(<<m>>)
      BY <1>1 DEF TimerDue
    <2>2. looper /\ queue' = queue \o <<m>>
      BY <2>1 DEF Post, Quitting
    <2>3. queue' \in Seq(Posts) /\ Count(queue') = Count(queue) + 1
      BY <2>2, CountOneMore DEF Messages
    <2>4. UNCHANGED <<sysVars, broadcasts, countVars, lifeVars, looper, async, main, camera,
                      toldVars>>
      BY <1>1 DEF TimerDue
    <2> HIDE DEF m
    <2>5. Flags'
      BY <2>4 DEF Flags, countVars, lifeVars
    <2>6. Threads' /\ Sets' /\ Quitting'
      BY <2>2, <2>4 DEF Threads, Sets, Quitting, sysVars, countVars, lifeVars, toldVars
    <2>7. Messages'
      BY <2>1, <2>3, <2>4 DEF Messages
    <2>8. Polls'
      <3>1. Running' = Running /\ Asked' = Asked /\ Survived' = Survived
        BY <2>4 DEF Running, Checking, Asked, Survived, lifeVars
      <3> QED BY <2>1, <2>3, <3>1, Numbers DEF Polls
    <2> QED BY <2>5, <2>6, <2>7, <2>8
  <1>2. CASE Take
    <2> DEFINE m == Head(queue)
    <2>1. /\ async.pc = "idle" /\ queue # <<>> /\ queue' = Tail(queue)
          /\ UNCHANGED <<sysVars, broadcasts, countVars, lifeVars, looper, timer, main, camera,
                         given, excused>>
      BY <1>2 DEF Take
    <2>2. /\ queue' \in Seq(Posts) /\ m \in Posts
          /\ m.what = "check" => Count(queue) = Count(queue') + 1
          /\ m.what # "check" => Count(queue) = Count(queue')
      BY <2>1, CountOneLess DEF Messages
    <2>3. m.what = "connect" => m.device \in Wanted
      BY <2>2 DEF Posts
    <2>4. known' \subseteq Wanted
      BY <1>2 DEF Take, Sets
    <2>5. Running = 0
      BY <2>1 DEF Running, Checking
    <2>6. Threads' /\ Running' = IF m.what = "check" THEN 1 ELSE 0
      <3>1. CASE m.what = "check"
        BY <1>2, <2>1, <3>1, AsyncGoes DEF Take, AsyncPcs
      <3>2. CASE m.what = "connect"
        BY <1>2, <2>1, <2>3, <3>2, AsyncGoes DEF Take, AsyncPcs
      <3>3. CASE m.what \notin {"check", "connect"}
        <4>1. async' = async
          BY <1>2, <3>3 DEF Take
        <4> QED BY <2>1, <2>5, <3>3, <4>1 DEF Threads, Running, Checking
      <3> QED BY <3>1, <3>2, <3>3
    <2> HIDE DEF m
    <2>7. Flags'
      BY <2>1 DEF Flags, countVars, lifeVars
    <2>8. Messages' /\ Sets' /\ Quitting'
      BY <2>1, <2>2, <2>4 DEF Messages, Sets, Quitting, sysVars, countVars, lifeVars
    <2>9. Polls'
      <3>1. Asked' = Asked /\ Survived' = Survived /\ timer' = timer
        BY <2>1 DEF Asked, Survived, lifeVars
      <3>2. Count(queue') \in Nat
        BY <2>2, CountIsNat
      <3> QED BY <2>2, <2>5, <2>6, <3>1, <3>2, Numbers DEF Polls
    <2> QED BY <2>6, <2>7, <2>8, <2>9
  <1>3. CASE CheckList \/ CheckPermissions \/ CheckCompare
    <2>1. /\ UNCHANGED <<sysVars, broadcasts, mDeviceCounts, stale, lifeVars, postVars, main,
                         camera,
                         toldVars>>
          /\ Running = 1
          /\ \E pc \in {"idle", "permissions", "compare", "write", "again", "thrown"} :
                AsyncGoto(pc, None, None)
      BY <1>3 DEF CheckList, CheckPermissions, CheckCompare, Running, Checking, countVars
    <2>2. Threads' /\ Running' \in {0, 1}
      BY <2>1, AsyncGoes DEF AsyncPcs
    <2>3. list' \subseteq Devices /\ mHasPermissions' \subseteq Devices
      BY <1>3 DEF CheckList, CheckPermissions, CheckCompare, Sets, countVars
    <2>4. Flags'
      BY <2>1 DEF Flags, lifeVars, postVars
    <2>5. Messages' /\ Sets' /\ Quitting'
      BY <2>1, <2>3 DEF Messages, Sets, Quitting, sysVars, lifeVars, postVars, toldVars
    <2>6. Polls'
      <3>1. Asked' = Asked /\ Survived' = Survived /\ timer' = timer /\ queue' = queue
        BY <2>1 DEF Asked, Survived, lifeVars, postVars
      <3> QED BY <2>1, <2>2, <3>1, Numbers DEF Polls
    <2> QED BY <2>2, <2>4, <2>5, <2>6
  <1>4. CASE CheckWrite
    <2> DEFINE r == SetToSeq({Message("attach", d) : d \in list})
    <2>1. r \in Seq(Posts) /\ Checks(r) = {}
      BY Announcements DEF Sets
    <2>2. /\ Post(r) /\ async.pc = "write" /\ AsyncGoto("again", None, None)
          /\ mDeviceCounts' = Cardinality(list)
          /\ UNCHANGED <<sysVars, broadcasts, mHasPermissions, stale, list, lifeVars, looper,
                         timer,
                         main, camera, known, given>>
          /\ excused' = excused \cup ((list \cap Wanted) \ attached)
      BY <1>4 DEF CheckWrite
    <2> HIDE DEF r
    <2>3. /\ queue' \in Seq(Posts) /\ Count(queue') = Count(queue)
          /\ looper \/ queue' = <<>>
      <3>1. queue \o r \in Seq(Posts) /\ Count(queue \o r) = Count(queue)
        BY <2>1, CountOthers DEF Messages
      <3> QED BY <2>2, <3>1 DEF Post, Messages, Quitting
    <2>4. Threads' /\ Running' = 1 /\ Running = 1
      BY <2>2, AsyncGoes DEF AsyncPcs, Running, Checking
    <2>5. Flags'
      BY <2>2 DEF Flags, lifeVars
    <2>6. Messages' /\ Quitting'
      BY <2>2, <2>3 DEF Messages, Quitting, lifeVars
    <2>7. Sets'
      <3>1. mDeviceCounts' \in 0..Cardinality(Devices)
        <4>1. IsFiniteSet(list) /\ Cardinality(list) <= Cardinality(Devices)
          BY MonitorAssumption, FS_Subset DEF Sets
        <4>2. Cardinality(list) \in Nat
          BY <4>1, FS_CardinalityType
        <4> QED BY <2>2, <4>1, <4>2, DevicesCounted
      <3> QED BY <2>2, <3>1 DEF Sets, sysVars
    <2>8. Polls'
      BY <2>2, <2>3, <2>4, SamePolls DEF lifeVars
    <2> QED BY <2>4, <2>5, <2>6, <2>7, <2>8
  <1>5. CASE CheckAgain
    <2>1. /\ async.pc = "again" /\ AsyncGoto("idle", None, None)
          /\ list' = {} /\ timer' = IF looper THEN timer + 1 ELSE timer
          /\ UNCHANGED <<sysVars, broadcasts, mHasPermissions, mDeviceCounts, stale, lifeVars,
                         looper,
                         queue, main, camera, toldVars>>
      BY <1>5 DEF CheckAgain
    <2>2. Threads' /\ Running' = 0 /\ Running = 1
      BY <2>1, AsyncGoes DEF AsyncPcs, Running, Checking
    <2>3. timer' \in {timer, timer + 1} /\ (looper \/ timer' = timer)
      BY <2>1
    <2>4. Flags'
      BY <2>1 DEF Flags, lifeVars
    <2>5. Messages' /\ Sets' /\ Quitting'
      BY <2>1, <2>3 DEF Messages, Sets, Quitting, sysVars, lifeVars, toldVars
    <2>6. Polls'
      <3>1. Asked' = Asked /\ Survived' = Survived /\ queue' = queue
        BY <2>1 DEF Asked, Survived, lifeVars
      <3> QED BY <2>2, <2>3, <3>1, Numbers DEF Polls
    <2> QED BY <2>2, <2>4, <2>5, <2>6
  <1>6. CASE ConnectGet \/ ConnectNew \/ ConnectPut \/ ConnectTell
    <2>1. /\ UNCHANGED <<sysVars, broadcasts, countVars, lifeVars, postVars, main, camera,
                         excused>>
          /\ async.pc \in {"get", "new", "put", "tell"}
          /\ known' \in {known, known \cup {async.device}}
          /\ given' \in {given, given \cup {async.device}}
      BY <1>6 DEF ConnectGet, ConnectNew, ConnectPut, ConnectTell, toldVars
    <2>2. \/ \E pc \in {"new", "put", "tell"} : \E b : AsyncGoto(pc, async.device, b)
          \/ AsyncGoto("idle", None, None)
      BY <1>6 DEF ConnectGet, ConnectNew, ConnectPut, ConnectTell
    <2>3. async.device \in Wanted
      BY <2>1 DEF Threads
    <2>4. Threads' /\ Running' = 0 /\ Running = 0
      <3>1. Running = 0
        BY <2>1 DEF Running, Checking
      <3> QED BY <2>1, <2>2, <2>3, <3>1, AsyncGoes DEF AsyncPcs
    <2>5. Flags'
      BY <2>1 DEF Flags, countVars, lifeVars, postVars
    <2>6. Messages' /\ Sets' /\ Quitting'
      BY <2>1, <2>3 DEF Messages, Sets, Quitting, sysVars, countVars, lifeVars, postVars
    <2>7. Polls'
      BY <2>1, <2>4, SamePolls DEF lifeVars, postVars
    <2> QED BY <2>4, <2>5, <2>6, <2>7
  <1> QED BY <1>1, <1>2, <1>3, <1>4, <1>5, <1>6 DEF AsyncStep

\* The camera thread posts nothing.
LEMMA CameraAccounts ==
    /\ Account
    /\ (\E d \in Wanted : CameraOpen(d) \/ CameraFails(d)) \/ CameraCloses
    => Account'
  <1> SUFFICES ASSUME Account,
                      (\E d \in Wanted : CameraOpen(d) \/ CameraFails(d)) \/ CameraCloses
               PROVE  Account'
    OBVIOUS
  <1> USE DEF Account
  <1>1. /\ UNCHANGED <<sysVars, broadcasts, countVars, lifeVars, postVars, async, main, toldVars>>
        /\ \/ \E d, b : camera' = Doing("opened", d, b)
           \/ camera' = [camera EXCEPT !.pc = "forget"]
           \/ camera' = Doing("idle", None, None) \/ camera' = camera
    BY DEF CameraOpen, CameraFails, CameraCloses, Idle
  <1>2. [camera EXCEPT !.pc = "forget"] = Doing("forget", camera.device, camera.block)
    BY DEF Threads, Doing
  <1>3. /\ camera' = Doing(camera'.pc, camera'.device, camera'.block)
        /\ camera'.pc \in {"idle", "opened", "forget"}
    BY <1>1, <1>2, DoingFields DEF Threads
  <1>4. Flags'
    BY <1>1 DEF Flags, countVars, lifeVars, postVars
  <1>5. Threads'
    BY <1>1, <1>3 DEF Threads
  <1>6. Messages' /\ Sets' /\ Quitting'
    BY <1>1 DEF Messages, Sets, Quitting, sysVars, countVars, lifeVars, postVars, toldVars
  <1>7. Polls'
    BY <1>1, SamePolls DEF Running, Checking, lifeVars, postVars
  <1> QED BY <1>4, <1>5, <1>6, <1>7

\* The account is an invariant of the monitor.
LEMMA AlwaysAccounted == Spec => []Account
  <1>1. Account /\ [Next]_vars => Account'
    <2>1. Account /\ UNCHANGED vars => Account'
      <3> SUFFICES ASSUME Account, UNCHANGED vars PROVE Account'
        OBVIOUS
      <3> USE DEF vars, sysVars, blockVars, countVars, lifeVars, postVars, toldVars
      <3>1. Flags'
        BY DEF Account, Flags
      <3>2. Threads' /\ Messages' /\ Sets' /\ Quitting'
        BY DEF Account, Threads, Messages, Sets, Quitting
      <3>3. Polls'
        BY SamePolls DEF Account, Running, Checking
      <3> QED BY <3>1, <3>2, <3>3 DEF Account
    <2> QED BY <2>1, SystemAccounts, MainCallAccounts, MainAccounts, AsyncAccounts, CameraAccounts
            DEF Next
  <1> QED BY <1>1, AccountStarts, PTL DEF Spec

-----------------------------------------------------------------------------

\* For any number of devices the polling stops with the monitor: there is one
\* check when it is registered and none when it is not, with one more if a
\* check was running at the last unregister, whatever comes in between
\* (register, unregister, destroy, mDeviceCheckRunnable).
THEOREM OneCheckEver == Spec => []OneCheck
  <1>1. Account => OneCheck
    BY DEF Account, Polls, OneCheck, Count, Checks, Running, Asked, Survived
  <1> QED BY <1>1, AlwaysAccounted, PTL

-----------------------------------------------------------------------------
(* What is lost, exactly.  No block is in two hands, and what was lost does *)
(* not come into anybody's again: after the end of the monitor because the *)
(* iterator of destroy has passed its place in the map.                    *)

Apart ==
    /\ \A b \in lost : b \in opened /\ ~Held(b)
    /\ main.block # None => main.block \notin {camera.block, mCtrlBlocks[main.block[1]]}
    /\ camera.block # None => camera.block # mCtrlBlocks[camera.block[1]]
    /\ async.pc = "put" => async.block \notin {main.block, camera.block}
    /\ destroyed \/ main.pc = "destroy" => broadcasts = <<>> /\ ~registered

\* In the initial state nothing is open.
LEMMA ApartStarts == Init => Apart
  <1>1. Idle.pc = "idle" /\ Idle.block = None
    BY DoingFields DEF Idle
  <1> QED BY <1>1 DEF Init, Apart

\* A block that the thread of mAsyncHandler has still to put is in nobody
\* else's hands.
LEMMA PutIsNew ==
    ASSUME Account, Connections, async.pc = "put"
    PROVE  /\ async.device \in Devices /\ async.block \in Blocks
           /\ async.block[1] = async.device /\ mCtrlBlocks[async.device] = None
  BY MonitorAssumption DEF Account, Threads, Connections, AsyncBlock

\* The system and the calls of the main thread touch no block.
LEMMA CallsKeepApart ==
    Account /\ Connections /\ Apart /\ (SystemStep \/ MainCall) => Apart'
  <1> SUFFICES ASSUME Account, Connections, Apart, SystemStep \/ MainCall PROVE Apart'
    OBVIOUS
  <1> DEFINE Untouched ==
               /\ UNCHANGED <<mCtrlBlocks, opened, lost, camera, async, destroyed, keys>>
               /\ main'.block = main.block
               /\ destroyed \/ main'.pc = "destroy" => broadcasts' = <<>> /\ ~registered'
  <1>1. Untouched
    <2>1. ASSUME NEW d \in Devices, Attach(d) \/ Detach(d) PROVE Untouched
      BY <2>1 DEF Attach, Detach, Broadcast, Apart, blockVars, lifeVars
    <2>2. CASE Register
      BY <2>2 DEF Register, Begin, Apart, blockVars
    <2>3. ASSUME NEW next \in {"idle", "destroy"}, Unregister(next) PROVE Untouched
      <3>1. main.block = None
        BY <2>3 DEF Unregister, Begin, Connections, MainBlock
      <3>2. main'.block = None
        BY <2>3, DoingFields DEF Unregister
      <3> QED BY <2>3, <3>1, <3>2 DEF Unregister, blockVars
    <2>4. ASSUME NEW d \in Wanted, RequestPermission(d) PROVE Untouched
      BY <2>4 DEF RequestPermission, Begin, Quiet, blockVars, lifeVars
    <2> QED BY <2>1, <2>2, <2>3, <2>4 DEF SystemStep, MainCall
  <1> QED BY <1>1 DEF Apart, Held

\* The main thread takes a block out of the map that is not lost.
LEMMA TakenOutApart ==
    ASSUME Account, Connections, Apart, NEW d \in Devices, destroyed => d \in keys,
           mCtrlBlocks' = [mCtrlBlocks EXCEPT ![d] = None],
           UNCHANGED <<opened, lost, async, camera, destroyed, registered>>,
           keys' \in {keys, keys \ {d}}, main.block = None,
           main'.block = mCtrlBlocks[d],
           destroyed \/ main'.pc = "destroy" => broadcasts' = <<>> /\ ~registered
    PROVE  Apart'
  <1>1. mCtrlBlocks[d] # None => mCtrlBlocks[d] \in Blocks /\ mCtrlBlocks[d][1] = d
    BY DEF Connections, Types, InMap
  <1>2. async.pc = "put" => async.block # mCtrlBlocks[d]
    BY <1>1, PutIsNew, MonitorAssumption DEF Blocks
  <1>3. mCtrlBlocks[d] \notin lost
    <2> SUFFICES ASSUME mCtrlBlocks[d] \in lost PROVE FALSE
      OBVIOUS
    <2>1. mCtrlBlocks[d] # None
      BY MonitorAssumption DEF Connections, Types, Blocks
    <2> QED BY <1>1, <2>1 DEF Apart, Held
  <1>4. ASSUME NEW b \in lost PROVE b \in opened /\ ~Held(b)'
    <2>1. b \in Blocks /\ b # None /\ b[1] \in Devices
      BY MonitorAssumption DEF Connections, Types, Blocks
    <2>2. mCtrlBlocks'[b[1]] \in {mCtrlBlocks[b[1]], None}
      BY <2>1 DEF Connections, Types
    <2> QED BY <1>3, <1>4, <2>1, <2>2 DEF Apart, Held
  <1>5. mCtrlBlocks[d] # None => mCtrlBlocks[d] \notin {camera.block, mCtrlBlocks'[d]}
    BY <1>1 DEF Apart, Connections, Types
  <1>6. camera.block # None => camera.block # mCtrlBlocks'[camera.block[1]]
    <2>1. camera.block # None => camera.block[1] \in Devices
      BY DEF Connections, CameraBlock, Blocks
    <2> QED BY <2>1 DEF Apart, Connections, Types
  <1>7. async.pc = "put" => async.block \notin {mCtrlBlocks[d], camera.block}
    BY <1>2 DEF Apart
  <1> QED BY <1>1, <1>4, <1>5, <1>6, <1>7 DEF Apart

\* When the monitor forgets a block, that one is lost, if it was open.
LEMMA ForgottenApart ==
    ASSUME Account, Connections, Apart, NEW d \in Devices,
           mCtrlBlocks' = [mCtrlBlocks EXCEPT ![d] = None],
           lost' = lost \cup ({mCtrlBlocks[d]} \cap opened),
           UNCHANGED <<opened, async, destroyed, registered, broadcasts, keys>>,
           main'.block \in {main.block, None}, camera'.block \in {camera.block, None},
           main'.pc # "destroy" \/ main' = main
    PROVE  Apart'
  <1>1. mCtrlBlocks[d] # None => mCtrlBlocks[d] \in Blocks /\ mCtrlBlocks[d][1] = d
    BY DEF Connections, Types, InMap
  <1>2. async.pc = "put" => async.block # mCtrlBlocks[d]
    BY <1>1, PutIsNew, MonitorAssumption DEF Blocks
  <1>3. mCtrlBlocks[d] # None => mCtrlBlocks[d] \notin {main.block, camera.block}
    BY <1>1 DEF Apart
  <1>4. ASSUME NEW b \in lost' PROVE b \in opened /\ ~Held(b)'
    <2>1. b \in Blocks /\ b # None /\ b[1] \in Devices
      BY MonitorAssumption DEF Connections, Types, Blocks
    <2>2. mCtrlBlocks'[b[1]] \in {mCtrlBlocks[b[1]], None}
      BY <2>1 DEF Connections, Types
    <2>3. CASE b \in lost
      BY <2>1, <2>2, <2>3 DEF Apart, Held
    <2>4. CASE b = mCtrlBlocks[d] /\ b \in opened
      <3>1. mCtrlBlocks'[b[1]] = None
        BY <1>1, <2>1, <2>4 DEF Connections, Types
      <3> QED BY <1>2, <1>3, <2>1, <2>4, <3>1 DEF Held
    <2> QED BY <2>3, <2>4
  <1>5. main'.block # None => main'.block \notin {camera'.block, mCtrlBlocks'[main'.block[1]]}
    <2>1. main.block # None => main.block[1] \in Devices
      BY DEF Connections, MainBlock, Blocks
    <2> QED BY <2>1 DEF Apart, Connections, Types
  <1>6. camera'.block # None => camera'.block # mCtrlBlocks'[camera'.block[1]]
    <2>1. camera.block # None => camera.block[1] \in Devices
      BY DEF Connections, CameraBlock, Blocks
    <2> QED BY <2>1 DEF Apart, Connections, Types
  <1>7. async.pc = "put" => async.block \notin {main'.block, camera'.block}
    BY PutIsNew, MonitorAssumption DEF Apart, Blocks
  <1>8. destroyed \/ main'.pc = "destroy" => broadcasts' = <<>> /\ ~registered
    BY DEF Apart
  <1> QED BY <1>4, <1>5, <1>6, <1>7, <1>8 DEF Apart

\* A thread closes its block, or lets go of one that is not open.
LEMMA ClosedApart ==
    ASSUME Account, Connections, Apart,
           NEW c \in {None, main.block, camera.block},
           opened' = opened \ {c}, c # None => c \in Blocks,
           UNCHANGED <<mCtrlBlocks, lost, async, registered, broadcasts>>,
           UNCHANGED <<destroyed, keys>>
             \/ (~destroyed /\ main.pc = "destroy"),
           main'.block \in {main.block, None}, camera'.block \in {camera.block, None},
           main'.pc # "destroy" \/ main' = main
    PROVE  Apart'
  <1>1. \A b \in lost : b # None
    BY MonitorAssumption DEF Connections, Types, Blocks
  <1>2. ASSUME NEW b \in lost PROVE b \in opened' /\ ~Held(b)'
    BY <1>1, <1>2 DEF Apart, Held
  <1>3. async.pc = "put" => async.block \notin {main'.block, camera'.block}
    BY PutIsNew, MonitorAssumption DEF Apart, Blocks
  <1>4. destroyed' \/ main'.pc = "destroy" => broadcasts' = <<>> /\ ~registered'
    BY DEF Apart
  <1> QED BY <1>2, <1>3, <1>4 DEF Apart

\* The broadcasts, the closing and the destroying.
LEMMA MainKeepsApart == Account /\ Connections /\ Apart /\ MainContinue => Apart'
  <1> SUFFICES ASSUME Account, Connections, Apart, MainContinue PROVE Apart'
    OBVIOUS
  <1>0. main.pc \notin {"close", "forget"} => main.block = None
    BY DEF Connections, MainBlock
  <1>1. CASE ReceivePermission
    BY <1>1 DEF ReceivePermission, Apart, Held, blockVars, lifeVars
  <1>2. CASE ReceiveDetached
    <2> DEFINE d == Head(broadcasts).device
    <2>1. /\ broadcasts # <<>> /\ main.pc = "idle" /\ broadcasts \in Seq(Answers)
          /\ mCtrlBlocks' = [mCtrlBlocks EXCEPT ![d] = None]
          /\ UNCHANGED <<opened, lost, async, camera, destroyed, registered, keys>>
          /\ main' = Doing(IF mCtrlBlocks[d] = None THEN "detached" ELSE "close", d,
                           mCtrlBlocks[d])
      BY <1>2 DEF ReceiveDetached, lifeVars, Account, Messages
    <2>2. d \in Devices
      <3>1. Head(broadcasts) \in Answers
        BY <2>1
      <3> QED BY <3>1, MonitorAssumption DEF Answers
    <2>3. ~destroyed
      BY <2>1 DEF Apart
    <2>4. main'.block = mCtrlBlocks[d] /\ main'.pc # "destroy"
      BY <2>1, DoingFields
    <2> HIDE DEF d
    <2> QED BY <1>0, <2>1, <2>2, <2>3, <2>4, TakenOutApart
  <1>3. CASE CloseAll
    <2>1. PICK d \in keys :
          /\ keys' = keys \ {d}
          /\ mCtrlBlocks' = [mCtrlBlocks EXCEPT ![d] = None]
          /\ main' = IF mCtrlBlocks[d] = None THEN main ELSE Doing("close", None, mCtrlBlocks[d])
      BY <1>3 DEF CloseAll
    <2>2. /\ UNCHANGED <<opened, lost, async, camera, broadcasts, destroyed, registered>>
          /\ main.pc = "closeAll" /\ d \in Devices
      BY <1>3 DEF CloseAll, Connections, Types
    <2>3. main.block = None
      BY <1>0, <2>2
    <2>4. main'.block = mCtrlBlocks[d] /\ main'.pc # "destroy"
      BY <2>1, <2>2, <2>3, DoingFields
    <2>5. destroyed \/ main'.pc = "destroy" => broadcasts' = <<>> /\ ~registered
      BY <2>2, <2>4 DEF Apart
    <2> QED BY <2>1, <2>2, <2>3, <2>4, <2>5, TakenOutApart
  <1>4. CASE Clear
    <2>1. /\ UNCHANGED <<opened, lost, async, camera, broadcasts, destroyed, registered, keys>>
          /\ mCtrlBlocks' = [d \in Devices |-> None] /\ main' = Doing("quit", None, None)
      BY <1>4 DEF Clear, lifeVars
    <2>2. main'.pc = "quit" /\ main'.block = None
      BY <2>1, DoingFields
    <2>3. ASSUME NEW b \in lost PROVE b \in opened /\ ~Held(b)'
      <3>1. b # None /\ b[1] \in Devices
        BY MonitorAssumption DEF Connections, Types, Blocks
      <3> QED BY <2>1, <2>2, <2>3, <3>1 DEF Apart, Held
    <2>4. camera.block # None => mCtrlBlocks'[camera.block[1]] = None
      BY <2>1 DEF Connections, CameraBlock, Blocks
    <2>5. async.pc = "put" => async.block # None
      BY PutIsNew, MonitorAssumption DEF Blocks
    <2> QED BY <2>1, <2>2, <2>3, <2>4, <2>5 DEF Apart
  <1>5. CASE Detached \/ Destroy \/ Quit
    <2>1. /\ UNCHANGED <<mCtrlBlocks, opened, lost, async, camera, broadcasts, registered>>
          /\ main' \in {Idle, Doing("closeAll", None, None)}
      BY <1>5 DEF Detached, Destroy, Quit, blockVars, lifeVars
    <2>2. main'.block = None /\ main'.pc # "destroy"
      BY <2>1, DoingFields DEF Idle
    <2>3. UNCHANGED <<destroyed, keys>> \/ (~destroyed /\ main.pc = "destroy")
      <3>1. CASE Destroy /\ destroyed
        <4>1. destroyed' = TRUE /\ destroyed = TRUE /\ keys' = keys
          BY <3>1 DEF Destroy, Account, Flags
        <4> QED BY <4>1
      <3> QED BY <1>5, <3>1 DEF Detached, Destroy, Quit, lifeVars
    <2>4. opened' = opened \ {None}
      BY <2>1, MonitorAssumption DEF Connections, Types, Blocks
    <2> QED BY <2>1, <2>2, <2>3, <2>4, ClosedApart
  <1>6. CASE MainCloses
    <2>1. /\ UNCHANGED <<async, camera, broadcasts, destroyed, registered, keys>>
          /\ main.block \in Blocks
      BY <1>6 DEF MainCloses, CloseConnection, Forget, lifeVars, Connections, MainBlock
    <2>2. main' \in {AfterClose, [main EXCEPT !.pc = "forget"]}
      BY <1>6 DEF MainCloses
    <2>3. [main EXCEPT !.pc = "forget"] = Doing("forget", main.device, main.block)
      BY DEF Connections, MainBlock, Doing
    <2>4. main'.block \in {main.block, None} /\ main'.pc # "destroy"
      BY <2>2, <2>3, DoingFields DEF AfterClose
    <2>5. CASE CloseConnection(main)
      BY <2>1, <2>4, <2>5, ClosedApart DEF CloseConnection
    <2>6. CASE Forget(main)
      <3>1. main.block[1] \in Devices
        BY <2>1 DEF Blocks
      <3> QED BY <2>1, <2>4, <2>6, <3>1, ForgottenApart DEF Forget, Lose
    <2> QED BY <1>6, <2>5, <2>6 DEF MainCloses
  <1> QED BY <1>1, <1>2, <1>3, <1>4, <1>5, <1>6 DEF MainContinue

\* A block that is made is new; the map gets it from the connecting thread, or
\* it is lost, when destroy has passed.
LEMMA AsyncKeepsApart ==
    Account /\ Connections /\ Apart /\ (AsyncStep \/ TimerDue) => Apart'
  <1> SUFFICES ASSUME Account, Connections, Apart, AsyncStep \/ TimerDue PROVE Apart'
    OBVIOUS
  <1>0. UNCHANGED <<main, camera, broadcasts, destroyed, registered, keys>>
    BY DEF AsyncStep, TimerDue, Take, CheckList, CheckPermissions, CheckCompare, CheckWrite,
       CheckAgain, ConnectGet, ConnectNew, ConnectPut, ConnectTell, lifeVars
  <1>1. CASE TimerDue
    BY <1>0, <1>1 DEF TimerDue, Apart, Held, blockVars
  <1>2. CASE Take \/ CheckList \/ CheckPermissions \/ CheckCompare \/ CheckWrite \/ CheckAgain
             \/ ConnectGet \/ ConnectTell
    <2>1. UNCHANGED blockVars
          /\ \/ async' = async
             \/ \E pc \in AsyncPcs \ {"put"} : \E d, b : async' = Doing(pc, d, b)
      BY <1>2 DEF Take, CheckList, CheckPermissions, CheckCompare, CheckWrite, CheckAgain,
         ConnectGet, ConnectTell, AsyncGoto, AsyncPcs
    <2>2. async' = async \/ async'.pc # "put"
      BY <2>1, DoingFields
    <2> QED BY <1>0, <2>1, <2>2 DEF Apart, Held, blockVars
  <1>3. CASE ConnectNew
    <2> DEFINE n == New(async.device)
    <2>1. /\ UNCHANGED <<mCtrlBlocks, lost>> /\ async.pc = "new"
          /\ opened' \in {opened, opened \cup {n}} /\ Free(async.device) # {}
          /\ async' = Doing("put", async.device, n)
      BY <1>3 DEF ConnectNew, Construct, AsyncGoto
    <2>2. async.device \in Devices
      BY <2>1, MonitorAssumption DEF Account, Threads
    <2>3. n \notin opened /\ n \notin {main.block, camera.block}
      BY <2>1, <2>2, NewIsNew
    <2> HIDE DEF n
    <2>4. async'.pc = "put" /\ async'.block = n
      BY <2>1, DoingFields
    <2>5. \A b \in lost : b # n /\ b \in opened'
      BY <2>1, <2>3 DEF Apart
    <2> QED BY <1>0, <2>1, <2>3, <2>4, <2>5 DEF Apart, Held
  <1>4. CASE ConnectPut
    <2> DEFINE d == async.device
               n == async.block
    <2>1. /\ opened' = opened /\ async.pc = "put"
          /\ mCtrlBlocks' = [mCtrlBlocks EXCEPT ![d] = n] /\ async' = Doing("tell", d, n)
          /\ lost' = IF destroyed /\ d \notin keys THEN lost \cup ({n} \cap opened) ELSE lost
      BY <1>4 DEF ConnectPut, AsyncGoto, Lose
    <2>2. d \in Devices /\ n \in Blocks /\ n[1] = d /\ mCtrlBlocks[d] = None
      BY <2>1, PutIsNew
    <2>3. async'.pc = "tell"
      BY <2>1, DoingFields
    <2>4. n \notin {main.block, camera.block} /\ n \notin lost
      BY <2>1 DEF Apart, Held
    <2> HIDE DEF d, n
    <2>5. ASSUME NEW b \in lost' PROVE b \in opened /\ ~Held(b)'
      <3>1. CASE b \in lost
        <4>1. b # n /\ b[1] \in Devices
          BY <2>4, <3>1 DEF Connections, Types, Blocks
        <4>2. mCtrlBlocks'[b[1]] \in {mCtrlBlocks[b[1]], n}
          BY <2>1, <4>1 DEF Connections, Types
        <4> QED BY <1>0, <2>3, <3>1, <4>1, <4>2 DEF Apart, Held
      <3>2. CASE b = n /\ b \in opened /\ destroyed /\ d \notin keys
        BY <1>0, <2>2, <2>3, <2>4, <3>2 DEF Held
      <3> QED BY <2>1, <2>5, <3>1, <3>2
    <2>6. \A c \in {main.block, camera.block} :
             c # None => c # mCtrlBlocks'[c[1]]
      <3>1. \A c \in {main.block, camera.block} : c # None => c[1] \in Devices
        BY DEF Connections, MainBlock, CameraBlock, Blocks
      <3> QED BY <2>1, <2>4, <3>1 DEF Apart, Connections, Types
    <2> QED BY <1>0, <2>1, <2>3, <2>5, <2>6 DEF Apart
  <1> QED BY <1>1, <1>2, <1>3, <1>4 DEF AsyncStep

\* The camera's block is new; what it drops is lost.
LEMMA CameraKeepsApart ==
    /\ Account /\ Connections /\ Apart
    /\ (\E d \in Wanted : CameraOpen(d) \/ CameraFails(d)) \/ CameraCloses
    => Apart'
  <1> SUFFICES ASSUME Account, Connections, Apart,
                      (\E d \in Wanted : CameraOpen(d) \/ CameraFails(d)) \/ CameraCloses
               PROVE  Apart'
    OBVIOUS
  <1>0. UNCHANGED <<main, async, broadcasts, destroyed, registered, keys>>
    BY DEF CameraOpen, CameraFails, CameraCloses, lifeVars
  <1>1. ASSUME NEW d \in Wanted, CameraOpen(d) \/ CameraFails(d) PROVE Apart'
    <2> DEFINE n == New(d)
    <2>1. /\ mCtrlBlocks' = mCtrlBlocks /\ opened' = opened \cup {n} /\ Free(d) # {}
      BY <1>1 DEF CameraOpen, CameraFails, MayOpen, Construct
    <2>2. d \in Devices
      BY MonitorAssumption
    <2>3. /\ n \in Blocks /\ n[1] = d /\ n \notin opened
          /\ n \notin {mCtrlBlocks[d], async.block, main.block, camera.block}
      BY <2>1, <2>2, NewIsNew
    <2>4. \/ camera'.block = n /\ lost' = lost \cup ({camera.block} \cap opened)
          \/ camera' = camera /\ lost' = lost \cup {n}
      BY <1>1, DoingFields DEF CameraOpen, CameraFails, Lose
    <2> HIDE DEF n
    <2>5. \A b \in lost : b # n /\ b # None
      BY <2>3, MonitorAssumption DEF Apart, Connections, Types, Blocks
    <2>6. ASSUME NEW b \in lost' PROVE b \in opened' /\ ~Held(b)'
      <3>1. CASE b \in lost
        BY <1>0, <2>1, <2>4, <2>5, <3>1 DEF Apart, Held
      <3>2. CASE b = camera.block /\ b \in opened /\ camera'.block = n
        <4>1. b # None
          BY <3>2, MonitorAssumption DEF Connections, Types, Blocks
        <4> QED BY <1>0, <2>1, <2>3, <3>2, <4>1 DEF Apart, Held
      <3>3. CASE b = n /\ camera' = camera
        BY <1>0, <2>1, <2>3, <3>3 DEF Held
      <3> QED BY <2>4, <2>6, <3>1, <3>2, <3>3
    <2>7. main.block # None => main.block # camera'.block
      BY <2>3, <2>4 DEF Apart
    <2>8. camera'.block # None => camera'.block # mCtrlBlocks[camera'.block[1]]
      BY <2>3, <2>4 DEF Apart
    <2>9. async.pc = "put" => async.block # camera'.block
      BY <2>3, <2>4 DEF Apart
    <2> QED BY <1>0, <2>1, <2>6, <2>7, <2>8, <2>9 DEF Apart
  <1>2. CASE CameraCloses
    <2>1. camera.pc \in {"opened", "forget"} /\ camera.block \in Blocks
      BY <1>2 DEF CameraCloses, Forget, Connections, CameraBlock
    <2>2. camera = Doing(camera.pc, camera.device, camera.block)
      BY DEF Connections, CameraBlock
    <2>3. [camera EXCEPT !.pc = "forget"].block = camera.block
      BY <2>2 DEF Doing
    <2>9. Idle.block = None
      BY DoingFields DEF Idle
    <2>4. camera'.block \in {camera.block, None}
      <3>1. camera' \in {[camera EXCEPT !.pc = "forget"], Idle}
        BY <1>2 DEF CameraCloses
      <3> QED BY <2>3, <2>9, <3>1
    <2>5. CASE CloseConnection(camera)
      BY <1>0, <2>1, <2>4, <2>5, ClosedApart DEF CloseConnection
    <2>6. CASE Forget(camera)
      <3>1. camera.block[1] \in Devices
        BY <2>1 DEF Blocks
      <3> QED BY <1>0, <2>4, <2>6, <3>1, ForgottenApart DEF Forget, Lose
    <2> QED BY <1>2, <2>5, <2>6 DEF CameraCloses
  <1> QED BY <1>1, <1>2

\* The blocks stay apart.
LEMMA AlwaysApart == Spec => []Apart
  <1>1. Account /\ Connections /\ Apart /\ [Next]_vars => Apart'
    <2>1. Apart /\ UNCHANGED vars => Apart'
      BY DEF vars, Apart, Held, blockVars, lifeVars
    <2> QED BY <2>1, CallsKeepApart, MainKeepsApart, AsyncKeepsApart, CameraKeepsApart DEF Next
  <1> QED BY <1>1, ApartStarts, AlwaysAccounted, AlwaysConnected, PTL DEF Spec

-----------------------------------------------------------------------------

\* For any number of devices and blocks: a connection that is open is in
\* nobody's hands exactly when it is lost, and only the steps of the property's
\* comment lose one (processConnect, onReceive, destroy, UVCCamera.open, close).
THEOREM ConnectionsAlwaysOwned == Spec => []ConnectionsOwned
  <1>1. Account /\ Connections /\ Apart => ConnectionsOwned
    <2> SUFFICES ASSUME Account, Connections, Apart, NEW b \in opened, ~Held(b)
                 PROVE  b \in lost
      BY DEF ConnectionsOwned, Apart
    <2>1. b \notin lost => b = async.block \/ Kept(b)
      BY DEF Connections, Covered, HeldBy, Kept
    <2>2. Kept(b) => Held(b)
      BY DEF Kept, Held
    <2>3. b = async.block /\ b \notin lost => async.pc \in {"put", "tell"}
      BY MonitorAssumption DEF Connections, AsyncBlock, Types, Blocks
    <2>4. b = async.block /\ async.pc = "tell" /\ b \notin lost => Kept(b)
      BY DEF Connections, AsyncBlock
    <2>5. b = async.block /\ async.pc = "put" => Held(b)
      BY DEF Held
    <2> QED BY <2>1, <2>2, <2>3, <2>4, <2>5
  <1> QED BY <1>1, AlwaysAccounted, AlwaysConnected, AlwaysApart, PTL

\* Permissions are held only for devices that are attached, a block in the map
\* is its device's, the devices that are counted exist, and only the messages
\* of USBMonitor are posted to its threads.
THEOREM TypeCorrect == Spec => []TypeOK
  <1>1. Account /\ Connections /\ Apart => TypeOK
    <2> SUFFICES ASSUME Account, Connections, Apart PROVE TypeOK
      OBVIOUS
    <2>1. \A m \in ToSet(broadcasts) : m.what \in {"granted", "denied", "detached"}
      BY DEF Account, Messages, Answers, ToSet
    <2>2. \A m \in ToSet(queue) : m.what \in {"check", "connect", "attach", "dettach"}
      BY DEF Account, Messages, Posts, ToSet
    <2>3. \A d \in Devices : mCtrlBlocks[d] \in ({d} \X Ids) \cup {None}
      BY DEF Connections, Types, InMap, Blocks
    <2>4. /\ registered \in BOOLEAN /\ destroyed \in BOOLEAN /\ looper \in BOOLEAN
          /\ rearmed \in BOOLEAN /\ stale \in BOOLEAN
      BY DEF Account, Flags
    <2>5. /\ attached \subseteq Devices /\ granted \subseteq attached
          /\ mHasPermissions \subseteq Devices /\ mDeviceCounts \in 0..Cardinality(Devices)
          /\ list \subseteq Devices /\ known \subseteq Wanted /\ given \subseteq Wanted
          /\ excused \subseteq Wanted
      BY DEF Account, Sets
    <2>6. /\ timer \in Nat /\ async.pc \in AsyncPcs /\ camera.pc \in {"idle", "opened", "forget"}
          /\ main.pc \in {"idle", "close", "forget", "detached", "destroy", "closeAll", "quit"}
      BY DEF Account, Messages, Threads
    <2>7. opened \subseteq Devices \X Ids /\ lost \subseteq opened /\ keys \subseteq Devices
      BY DEF Connections, Types, Apart, Blocks
    <2> QED BY <2>1, <2>2, <2>3, <2>4, <2>5, <2>6, <2>7 DEF TypeOK, AsyncPcs
  <1> QED BY <1>1, AlwaysAccounted, AlwaysConnected, AlwaysApart, PTL

-----------------------------------------------------------------------------
(* What is on its way.  The liveness properties of the monitor depend on   *)
(* messages that are never lost: the safe part of each says that until it  *)
(* is fulfilled there is something left that fulfils it.                   *)

Says(q, m) == \E i \in DOMAIN q : q[i] = m

\* Behind every message of these kinds about the device of m, m is said.
SaidLast(q, m, kinds) ==
    \A i \in DOMAIN q :
       q[i].device = m.device /\ q[i].what \in kinds => \E j \in DOMAIN q : i < j /\ q[j] = m

Gone(d)      == Message("detached", d)
OnAttach(d)  == Message("attach", d)
OnDettach(d) == Message("dettach", d)

\* Main has not yet posted onDettach for d.
Leaving(d) ==
    \/ Says(broadcasts, Gone(d))
    \/ main.pc \in {"close", "forget", "detached"} /\ main.device = d

\* The listener knows that d is there, or will be told.
Told(d) == d \in known \/ Says(queue, OnAttach(d))

Polling == timer > 0 \/ Checks(queue) # {} \/ Checking

Looking == async.pc \in {"permissions", "compare", "write"}

\* What a sequence is after an element was added, and after one was taken.
LEMMA Added ==
    ASSUME NEW S, NEW q \in Seq(S), NEW r \in Seq(S)
    PROVE  /\ DOMAIN (q \o r) = 1..(Len(q) + Len(r))
           /\ Len(q) \in Nat /\ Len(r) \in Nat /\ DOMAIN q = 1..Len(q) /\ DOMAIN r = 1..Len(r)
           /\ \A i \in 1..Len(q) : (q \o r)[i] = q[i]
           /\ \A i \in 1..Len(r) : (q \o r)[Len(q) + i] = r[i]
           /\ \A i \in DOMAIN (q \o r) :
                 i \in DOMAIN q \/ \E j \in DOMAIN r : i = Len(q) + j
  <1>1. /\ DOMAIN (q \o r) = 1..(Len(q) + Len(r))
        /\ Len(q) \in Nat /\ Len(r) \in Nat /\ DOMAIN q = 1..Len(q) /\ DOMAIN r = 1..Len(r)
        /\ \A i \in 1..Len(q) : (q \o r)[i] = q[i]
        /\ \A i \in 1..Len(r) : (q \o r)[Len(q) + i] = r[i]
    OBVIOUS
  <1>2. ASSUME NEW i \in DOMAIN (q \o r), i \notin DOMAIN q
        PROVE  \E j \in DOMAIN r : i = Len(q) + j
    <2>1. i - Len(q) \in DOMAIN r /\ i = Len(q) + (i - Len(q))
      BY <1>1, <1>2
    <2> QED BY <2>1
  <1> QED BY <1>1, <1>2

\* Adding and taking, as far as Says and SaidLast see it.
LEMMA SaysAdded ==
    ASSUME NEW S, NEW q \in Seq(S), NEW r \in Seq(S), NEW m
    PROVE  Says(q \o r, m) <=> Says(q, m) \/ Says(r, m)
  <1>1. Says(q, m) => Says(q \o r, m)
    BY Added DEF Says
  <1>2. Says(r, m) => Says(q \o r, m)
    <2> SUFFICES ASSUME NEW j \in DOMAIN r, r[j] = m PROVE Says(q \o r, m)
      BY DEF Says
    <2>1. Len(q) + j \in DOMAIN (q \o r) /\ (q \o r)[Len(q) + j] = m
      BY Added
    <2> QED BY <2>1 DEF Says
  <1>3. Says(q \o r, m) => Says(q, m) \/ Says(r, m)
    <2> SUFFICES ASSUME NEW i \in DOMAIN (q \o r), (q \o r)[i] = m
                 PROVE  Says(q, m) \/ Says(r, m)
      BY DEF Says
    <2>1. CASE i \in DOMAIN q
      BY <2>1, Added DEF Says
    <2>2. CASE \E j \in DOMAIN r : i = Len(q) + j
      BY <2>2, Added DEF Says
    <2> QED BY <2>1, <2>2, Added
  <1> QED BY <1>1, <1>2, <1>3

\* A message that is taken is the first.
LEMMA SaysTaken ==
    ASSUME NEW S, NEW q \in Seq(S), q # <<>>, NEW m
    PROVE  Says(q, m) <=> Head(q) = m \/ Says(Tail(q), m)
  <1>1. /\ Head(q) = q[1] /\ Len(q) \in Nat \ {0} /\ DOMAIN q = 1..Len(q)
        /\ DOMAIN Tail(q) = 1..(Len(q) - 1)
        /\ \A i \in 1..(Len(q) - 1) : Tail(q)[i] = q[i + 1]
    OBVIOUS
  <1>2. Says(Tail(q), m) => Says(q, m)
    <2> SUFFICES ASSUME NEW i \in DOMAIN Tail(q), Tail(q)[i] = m PROVE Says(q, m)
      BY DEF Says
    <2>1. i + 1 \in DOMAIN q /\ q[i + 1] = m
      BY <1>1
    <2> QED BY <2>1 DEF Says
  <1>3. Head(q) = m => Says(q, m)
    BY <1>1 DEF Says
  <1>4. Says(q, m) => Head(q) = m \/ Says(Tail(q), m)
    <2> SUFFICES ASSUME NEW i \in DOMAIN q, q[i] = m, i # 1 PROVE Says(Tail(q), m)
      BY <1>1 DEF Says
    <2>1. i - 1 \in DOMAIN Tail(q) /\ Tail(q)[i - 1] = m
      BY <1>1
    <2> QED BY <2>1 DEF Says
  <1> QED BY <1>2, <1>3, <1>4

\* What is said last stays last, unless one of the kinds is added.
LEMMA SaidLastAdded ==
    ASSUME NEW S, NEW q \in Seq(S), NEW r \in Seq(S), NEW m, NEW kinds,
           \/ SaidLast(q, m, kinds)
           \/ \E j \in DOMAIN r : r[j] = m,
           SaidLast(r, m, kinds)
    PROVE  SaidLast(q \o r, m, kinds)
  <1> SUFFICES ASSUME NEW i \in DOMAIN (q \o r), (q \o r)[i].device = m.device,
                      (q \o r)[i].what \in kinds
               PROVE  \E j \in DOMAIN (q \o r) : i < j /\ (q \o r)[j] = m
    BY DEF SaidLast
  <1>1. CASE i \in DOMAIN q
    <2>1. (q \o r)[i] = q[i] /\ i <= Len(q) /\ Len(q) \in Nat /\ i \in Nat
      BY <1>1, Added
    <2>2. CASE SaidLast(q, m, kinds)
      <3>1. PICK j \in DOMAIN q : i < j /\ q[j] = m
        BY <1>1, <2>1, <2>2 DEF SaidLast
      <3>2. j \in DOMAIN (q \o r) /\ (q \o r)[j] = q[j]
        BY <3>1, Added
      <3> QED BY <3>1, <3>2
    <2>3. CASE \E j \in DOMAIN r : r[j] = m
      <3>1. PICK j \in DOMAIN r : r[j] = m
        BY <2>3
      <3>2. /\ j \in 1..Len(r) /\ Len(q) + j \in DOMAIN (q \o r)
            /\ (q \o r)[Len(q) + j] = m
        BY <3>1, Added
      <3>3. i < Len(q) + j
        BY <2>1, <3>2
      <3> QED BY <3>2, <3>3
    <2> QED BY <2>2, <2>3
  <1>2. CASE \E j \in DOMAIN r : i = Len(q) + j
    <2>1. PICK j \in DOMAIN r : i = Len(q) + j
      BY <1>2
    <2>2. (q \o r)[i] = r[j]
      BY <2>1, Added
    <2>3. PICK k \in DOMAIN r : j < k /\ r[k] = m
      BY <2>2 DEF SaidLast
    <2>4. /\ k \in Nat /\ j \in Nat /\ Len(q) \in Nat
          /\ Len(q) + k \in DOMAIN (q \o r) /\ (q \o r)[Len(q) + k] = m
      BY <2>3, Added
    <2>5. i < Len(q) + k
      BY <2>1, <2>3, <2>4
    <2> QED BY <2>4, <2>5
  <1> QED BY <1>1, <1>2, Added

\* What is said last stays last when the first message is taken; if that one
\* is of these kinds, m is still to come.
LEMMA SaidLastTaken ==
    ASSUME NEW S, NEW q \in Seq(S), q # <<>>, NEW m, NEW kinds, SaidLast(q, m, kinds)
    PROVE  /\ SaidLast(Tail(q), m, kinds)
           /\ Head(q).device = m.device /\ Head(q).what \in kinds => Says(Tail(q), m)
  <1>1. /\ Head(q) = q[1] /\ Len(q) \in Nat \ {0} /\ DOMAIN q = 1..Len(q)
        /\ DOMAIN Tail(q) = 1..(Len(q) - 1)
        /\ \A i \in 1..(Len(q) - 1) : Tail(q)[i] = q[i + 1]
    OBVIOUS
  <1>2. ASSUME NEW i \in DOMAIN q, q[i].device = m.device, q[i].what \in kinds
        PROVE  \E j \in DOMAIN Tail(q) : i < j + 1 /\ Tail(q)[j] = m
    <2>1. PICK k \in DOMAIN q : i < k /\ q[k] = m
      BY <1>2 DEF SaidLast
    <2>2. k - 1 \in DOMAIN Tail(q) /\ Tail(q)[k - 1] = m /\ i < (k - 1) + 1
      BY <1>1, <2>1
    <2> QED BY <2>2
  <1>3. SaidLast(Tail(q), m, kinds)
    <2> SUFFICES ASSUME NEW i \in DOMAIN Tail(q), Tail(q)[i].device = m.device,
                        Tail(q)[i].what \in kinds
                 PROVE  \E j \in DOMAIN Tail(q) : i < j /\ Tail(q)[j] = m
      BY DEF SaidLast
    <2>1. i + 1 \in DOMAIN q /\ q[i + 1] = Tail(q)[i] /\ i \in Nat
      BY <1>1
    <2>2. PICK j \in DOMAIN Tail(q) : i + 1 < j + 1 /\ Tail(q)[j] = m
      BY <1>2, <2>1
    <2> QED BY <1>1, <2>1, <2>2
  <1>4. Head(q).device = m.device /\ Head(q).what \in kinds => Says(Tail(q), m)
    <2> SUFFICES ASSUME Head(q).device = m.device, Head(q).what \in kinds
                 PROVE  Says(Tail(q), m)
      OBVIOUS
    <2>1. 1 \in DOMAIN q /\ q[1] = Head(q)
      BY <1>1
    <2>2. PICK j \in DOMAIN Tail(q) : Tail(q)[j] = m
      BY <1>2, <2>1
    <2> QED BY <2>2 DEF Says
  <1> QED BY <1>3, <1>4

\* Taking the checks out of the queue changes nothing of what else is said, nor
\* its order.
LEMMA SaidWithoutChecks ==
    ASSUME queue \in Seq(Posts)
    PROVE  /\ \A m : m.what # "check" /\ Says(queue, m) => Says(WithoutChecks, m)
           /\ \A m : Says(WithoutChecks, m) => Says(queue, m)
           /\ \A m, kinds : m.what # "check" /\ SaidLast(queue, m, kinds)
                               => SaidLast(WithoutChecks, m, kinds)
  <1> DEFINE kept     == {i \in DOMAIN queue : queue[i].what # "check"}
             place(i) == Cardinality({j \in kept : j <= i})
             at(n)    == CHOOSE i \in kept : place(i) = n
             N        == Cardinality(kept)
  <1>1. kept \in SUBSET (1..Len(queue)) /\ Len(queue) \in Nat /\ kept \in SUBSET Nat
    OBVIOUS
  <1>2. IsFiniteSet(kept)
    <2> HIDE DEF kept
    <2>1. IsFiniteSet(1..Len(queue))
      BY <1>1, FS_Interval
    <2> QED BY <1>1, <2>1, FS_Subset
  <1>3. ASSUME NEW n \in 1..N PROVE at(n) \in kept /\ place(at(n)) = n
    <2>1. \E i \in kept : place(i) = n
      BY <1>1, <1>2, <1>3, EveryPlace
    <2> QED BY <2>1
  <1>4. N \in Nat /\ WithoutChecks = [n \in 1..N |-> queue[at(n)]]
    BY <1>2, FS_CardinalityType DEF WithoutChecks
  <1>5. /\ \A i \in kept : place(i) \in 1..N
        /\ \A i, j \in kept : i < j => place(i) < place(j)
    BY <1>1, <1>2, PlaceGrows
  <1>6. \A i \in DOMAIN queue : i \in kept <=> queue[i].what # "check"
    OBVIOUS
  <1>7. kept \in SUBSET DOMAIN queue
    OBVIOUS
  <1> HIDE DEF kept, place, at, N
  <1>8. ASSUME NEW i \in kept, NEW j \in kept, place(i) = place(j) PROVE i = j
    <2>1. i \in Nat /\ j \in Nat /\ place(i) \in Nat
      BY <1>1, <1>4, <1>5
    <2> QED BY <1>5, <1>8, <2>1
  <1>9. ASSUME NEW i \in kept PROVE at(place(i)) = i
    <2>1. at(place(i)) \in kept /\ place(at(place(i))) = place(i)
      BY <1>3, <1>5
    <2> QED BY <1>8, <2>1
  <1>10. ASSUME NEW m, m.what # "check", Says(queue, m) PROVE Says(WithoutChecks, m)
    <2>1. PICK i \in DOMAIN queue : queue[i] = m
      BY <1>10 DEF Says
    <2>2. i \in kept
      BY <1>6, <1>10, <2>1
    <2>3. place(i) \in DOMAIN WithoutChecks /\ WithoutChecks[place(i)] = m
      BY <1>4, <1>5, <1>9, <2>1, <2>2
    <2> QED BY <2>3 DEF Says
  <1>11. ASSUME NEW m, Says(WithoutChecks, m) PROVE Says(queue, m)
    <2>1. PICK n \in 1..N : WithoutChecks[n] = m
      BY <1>4, <1>11 DEF Says
    <2>2. at(n) \in DOMAIN queue /\ queue[at(n)] = m
      BY <1>3, <1>4, <1>7, <2>1
    <2> QED BY <2>2 DEF Says
  <1>12. ASSUME NEW m, NEW kinds, m.what # "check", SaidLast(queue, m, kinds)
         PROVE  SaidLast(WithoutChecks, m, kinds)
    <2> SUFFICES ASSUME NEW n \in DOMAIN WithoutChecks, WithoutChecks[n].device = m.device,
                        WithoutChecks[n].what \in kinds
                 PROVE  \E k \in DOMAIN WithoutChecks : n < k /\ WithoutChecks[k] = m
      BY DEF SaidLast
    <2>1. /\ n \in 1..N /\ at(n) \in kept /\ at(n) \in DOMAIN queue
          /\ WithoutChecks[n] = queue[at(n)] /\ place(at(n)) = n
      BY <1>3, <1>4, <1>7
    <2>2. PICK j \in DOMAIN queue : at(n) < j /\ queue[j] = m
      BY <1>12, <2>1 DEF SaidLast
    <2>3. j \in kept
      BY <1>6, <1>12, <2>2
    <2>4. place(j) \in 1..N /\ n < place(j) /\ WithoutChecks[place(j)] = m
      BY <1>4, <1>5, <1>9, <2>1, <2>2, <2>3
    <2> QED BY <1>4, <2>4
  <1> QED BY <1>10, <1>11, <1>12

-----------------------------------------------------------------------------

\* Who changes the queue, and how.
LEMMA QueueSteps ==
    ASSUME Account, [Next]_vars
    PROVE  \/ queue' = queue
           \/ queue' = <<>> /\ destroyed'
           \/ queue' = WithoutChecks /\ (\E next : Unregister(next))
           \/ Take /\ queue # <<>> /\ queue' = Tail(queue)
           \/ Detached /\ queue' = queue \o <<OnDettach(main.device)>>
           \/ TimerDue /\ queue' = queue \o <<Message("check", None)>>
           \/ CheckWrite /\ queue' = queue \o SetToSeq({Message("attach", d) : d \in list})
           \/ \E d \in Wanted :
                 /\ RequestPermission(d)
                    \/ (ReceivePermission /\ Head(broadcasts) = Message("granted", d))
                 /\ queue' = queue \o <<Message("connect", d)>>
  <1> DEFINE Goal == \/ queue' = queue
                     \/ queue' = <<>> /\ destroyed'
                     \/ queue' = WithoutChecks /\ (\E next : Unregister(next))
                     \/ Take /\ queue # <<>> /\ queue' = Tail(queue)
                     \/ Detached /\ queue' = queue \o <<OnDettach(main.device)>>
                     \/ TimerDue /\ queue' = queue \o <<Message("check", None)>>
                     \/ CheckWrite
                        /\ queue' = queue \o SetToSeq({Message("attach", d) : d \in list})
                     \/ \E d \in Wanted :
                           /\ RequestPermission(d)
                              \/ (ReceivePermission /\ Head(broadcasts) = Message("granted", d))
                           /\ queue' = queue \o <<Message("connect", d)>>
  <1>1. CASE SystemStep \/ (\E d \in Wanted : CameraOpen(d) \/ CameraFails(d)) \/ CameraCloses
             \/ UNCHANGED vars
    BY <1>1 DEF SystemStep, Attach, Detach, CameraOpen, CameraFails, CameraCloses, vars, postVars
  <1>2. CASE MainCall
    <2>1. CASE Register
      BY <2>1 DEF Register
    <2>2. ASSUME NEW next, Unregister(next) PROVE Goal
      BY <2>2 DEF Unregister, StopChecks
    <2>3. ASSUME NEW d \in Wanted, RequestPermission(d) PROVE Goal
      BY <2>3 DEF RequestPermission, ProcessConnect, ProcessCancel, Post
    <2> QED BY <1>2, <2>1, <2>2, <2>3 DEF MainCall
  <1>3. CASE MainContinue
    <2>1. CASE ReceivePermission
      <3>1. broadcasts # <<>> /\ Head(broadcasts) \in Answers
            /\ Head(broadcasts).what # "detached"
        BY <2>1 DEF ReceivePermission, Account, Messages
      <3>2. PICK d \in Wanted : Head(broadcasts).device = d
                  /\ Head(broadcasts) = Message(Head(broadcasts).what, d)
        BY <3>1 DEF Answers, Message
      <3>3. CASE Head(broadcasts).what = "granted"
        BY <2>1, <3>2, <3>3 DEF ReceivePermission, ProcessConnect, Post
      <3>4. CASE Head(broadcasts).what # "granted"
        BY <2>1, <3>4 DEF ReceivePermission, ProcessCancel
      <3> QED BY <3>3, <3>4
    <2>2. CASE Detached
      BY <2>2 DEF Detached, Post, OnDettach
    <2>3. CASE ReceiveDetached \/ MainCloses \/ Destroy \/ CloseAll \/ Clear
      BY <2>3 DEF ReceiveDetached, MainCloses, Destroy, CloseAll, Clear, postVars
    <2>4. CASE Quit
      BY <2>4 DEF Quit, Account, Quitting, lifeVars
    <2> QED BY <1>3, <2>1, <2>2, <2>3, <2>4 DEF MainContinue
  <1>4. CASE AsyncStep
    <2>1. CASE Take
      BY <2>1 DEF Take
    <2>2. CASE CheckWrite
      BY <2>2 DEF CheckWrite, Post
    <2>3. CASE \/ CheckList \/ CheckPermissions \/ CheckCompare \/ CheckAgain
               \/ ConnectGet \/ ConnectNew \/ ConnectPut \/ ConnectTell
      BY <2>3 DEF CheckList, CheckPermissions, CheckCompare, CheckAgain,
         ConnectGet, ConnectNew, ConnectPut, ConnectTell, postVars
    <2> QED BY <1>4, <2>1, <2>2, <2>3 DEF AsyncStep
  <1>5. CASE TimerDue
    BY <1>5 DEF TimerDue, Post
  <1> QED BY <1>1, <1>2, <1>3, <1>4, <1>5 DEF Next

\* Who changes the broadcasts or what main does with a device, and how.
LEMMA MainSteps ==
    ASSUME Account, [Next]_vars
    PROVE  \/ UNCHANGED <<broadcasts, main>>
           \/ /\ main' = main
              /\ \E d \in Devices : /\ Detach(d)
                                    /\ broadcasts' = broadcasts \o <<Gone(d)>>
           \/ /\ main' = main
              /\ \E d \in Wanted, what \in {"granted", "denied"} :
                    RequestPermission(d) /\ broadcasts' = broadcasts \o <<Message(what, d)>>
           \/ /\ \E next \in {"idle", "destroy"} : Unregister(next)
              /\ main'.pc \in {"idle", "destroy"} /\ broadcasts' = <<>>
           \/ /\ ReceivePermission /\ main' = main
              /\ broadcasts # <<>> /\ broadcasts' = Tail(broadcasts)
              /\ Head(broadcasts).what # "detached"
           \/ /\ ReceiveDetached /\ main'.pc \in {"close", "detached"}
              /\ broadcasts # <<>> /\ broadcasts' = Tail(broadcasts)
              /\ Head(broadcasts) = Gone(main'.device)
           \/ Detached /\ main'.pc = "idle" /\ broadcasts' = broadcasts
           \/ /\ MainCloses /\ broadcasts' = broadcasts
              /\ main.pc \in {"close", "forget"}
              /\ \/ main'.pc \in {"forget", "detached"} /\ main'.device = main.device
                 \/ destroyed' /\ main'.pc = "closeAll"
           \/ /\ Destroy \/ CloseAll \/ Clear \/ Quit
              /\ broadcasts' = broadcasts /\ main.pc \in {"destroy", "closeAll", "quit"}
              /\ main'.pc \in {"idle", "closeAll", "close", "quit"} /\ main'.device = None
  <1> DEFINE Goal ==
           \/ UNCHANGED <<broadcasts, main>>
           \/ /\ main' = main
              /\ \E d \in Devices : /\ Detach(d)
                                    /\ broadcasts' = broadcasts \o <<Gone(d)>>
           \/ /\ main' = main
              /\ \E d \in Wanted, what \in {"granted", "denied"} :
                    RequestPermission(d) /\ broadcasts' = broadcasts \o <<Message(what, d)>>
  <1>1. CASE SystemStep
    <2>1. ASSUME NEW d \in Devices, Attach(d) \/ Detach(d) PROVE Goal
      <3>1. Append(broadcasts, Gone(d)) = broadcasts \o <<Gone(d)>>
        BY DEF Account, Messages
      <3> QED BY <2>1, <3>1 DEF Attach, Detach, Broadcast, Gone
    <2> QED BY <1>1, <2>1 DEF SystemStep
  <1>2. CASE MainCall
    <2>1. CASE Register
      BY <2>1 DEF Register
    <2>2. ASSUME NEW next \in {"idle", "destroy"}, Unregister(next)
          PROVE  main'.pc \in {"idle", "destroy"} /\ broadcasts' = <<>>
      BY <2>2, DoingFields DEF Unregister
    <2>3. ASSUME NEW d \in Wanted, RequestPermission(d) PROVE Goal
      <3>1. \A m : Append(broadcasts, m) = broadcasts \o <<m>>
        BY DEF Account, Messages
      <3> QED BY <2>3, <3>1 DEF RequestPermission, Broadcast
    <2> QED BY <1>2, <2>1, <2>2, <2>3 DEF MainCall
  <1>3. CASE MainContinue
    <2>1. CASE ReceivePermission
      BY <2>1 DEF ReceivePermission
    <2>2. CASE ReceiveDetached
      <3>1. /\ broadcasts # <<>> /\ Head(broadcasts).what = "detached"
            /\ Head(broadcasts) \in Answers /\ broadcasts' = Tail(broadcasts)
        BY <2>2 DEF ReceiveDetached, Account, Messages
      <3>2. Head(broadcasts) = Gone(Head(broadcasts).device)
        BY <3>1 DEF Answers, Message, Gone
      <3>3. main'.pc \in {"close", "detached"} /\ main'.device = Head(broadcasts).device
        BY <2>2, DoingFields DEF ReceiveDetached
      <3> QED BY <2>2, <3>1, <3>2, <3>3
    <2>3. CASE Detached
      BY <2>3, DoingFields DEF Detached, Idle
    <2>4. CASE MainCloses
      <3>1. main = Doing(main.pc, main.device, main.block)
        BY DEF Account, Threads
      <3>2. [main EXCEPT !.pc = "forget"].pc = "forget"
            /\ [main EXCEPT !.pc = "forget"].device = main.device
        BY <3>1 DEF Doing
      <3>3. /\ broadcasts' = broadcasts /\ destroyed' = destroyed
            /\ main.pc \in {"close", "forget"}
            /\ main' = AfterClose \/ main' = [main EXCEPT !.pc = "forget"]
        BY <2>4 DEF MainCloses, Forget, lifeVars
      <3>4. \/ main'.pc \in {"forget", "detached"} /\ main'.device = main.device
            \/ destroyed /\ main'.pc = "closeAll"
        <4>1. /\ destroyed => AfterClose.pc = "closeAll"
              /\ ~destroyed => AfterClose.pc = "detached" /\ AfterClose.device = main.device
          BY DoingFields DEF AfterClose
        <4> QED BY <3>2, <3>3, <4>1
      <3> QED BY <2>4, <3>3, <3>4
    <2>5. CASE Destroy
      <3>1. /\ main.pc = "destroy" /\ broadcasts' = broadcasts
            /\ main' = Idle \/ main' = Doing("closeAll", None, None)
        BY <2>5 DEF Destroy
      <3>2. main'.pc \in {"idle", "closeAll"} /\ main'.device = None
        BY <3>1, DoingFields DEF Idle
      <3> QED BY <2>5, <3>1, <3>2
    <2>6. CASE CloseAll
      <3>1. main' = main \/ \E b : main' = Doing("close", None, b)
        BY <2>6 DEF CloseAll
      <3>2. main' = main \/ (main'.pc = "close" /\ main'.device = None)
        BY <3>1, DoingFields
      <3>3. main.pc = "closeAll" /\ broadcasts' = broadcasts
        BY <2>6 DEF CloseAll
      <3> QED BY <2>6, <3>2, <3>3
    <2>7. CASE Clear \/ Quit
      BY <2>7, DoingFields DEF Clear, Quit, Idle
    <2> QED BY <1>3, <2>1, <2>2, <2>3, <2>4, <2>5, <2>6, <2>7 DEF MainContinue
  <1>4. CASE AsyncStep \/ TimerDue
    BY <1>4 DEF AsyncStep, TimerDue, Take, CheckList, CheckPermissions, CheckCompare,
       CheckWrite, CheckAgain, ConnectGet, ConnectNew, ConnectPut, ConnectTell
  <1>5. CASE (\E d \in Wanted : CameraOpen(d) \/ CameraFails(d)) \/ CameraCloses \/ UNCHANGED vars
    BY <1>5 DEF CameraOpen, CameraFails, CameraCloses, vars
  <1> QED BY <1>1, <1>2, <1>3, <1>4, <1>5 DEF Next

\* The types of what is added.
LEMMA OneMessage ==
    /\ \A d \in Devices : /\ <<Gone(d)>> \in Seq(Answers)
                          /\ <<OnDettach(d)>> \in Seq(Posts)
    /\ <<Message("check", None)>> \in Seq(Posts)
    /\ \A d \in Wanted : /\ <<Message("connect", d)>> \in Seq(Posts)
                         /\ \A what \in {"granted", "denied"} :
                               <<Message(what, d)>> \in Seq(Answers)
  BY PostFields DEF Gone, OnDettach

\* A sequence of one message.
LEMMA SaysOne ==
    /\ \A m, n : Says(<<m>>, n) <=> m = n
    /\ \A m, kinds : SaidLast(<<m>>, m, kinds) <=> m.what \notin kinds
    /\ \A m, n, kinds : m.device # n.device \/ m.what \notin kinds => SaidLast(<<m>>, n, kinds)
  <1>1. \A m : DOMAIN <<m>> = {1} /\ <<m>>[1] = m
    OBVIOUS
  <1>2. \A m, n : Says(<<m>>, n) <=> m = n
    BY <1>1 DEF Says
  <1>3. ASSUME NEW m, NEW n, NEW kinds, m.device # n.device \/ m.what \notin kinds
        PROVE  SaidLast(<<m>>, n, kinds)
    BY <1>1, <1>3 DEF SaidLast
  <1>4. ASSUME NEW m, NEW kinds, SaidLast(<<m>>, m, kinds) PROVE m.what \notin kinds
    <2>1. ~(1 < 1)
      OBVIOUS
    <2> QED BY <1>1, <1>4, <2>1 DEF SaidLast
  <1> QED BY <1>2, <1>3, <1>4

\* Main does not forget a device it has to tell about.
LEMMA LeavingStays ==
    ASSUME Account, [Next]_vars, NEW d \in Devices, Leaving(d)
    PROVE  \/ Leaving(d)'
           \/ destroyed'
           \/ Detached /\ main.device = d
           \/ (\E next : Unregister(next)) /\ Says(broadcasts, Gone(d))
  <1>1. broadcasts \in Seq(Answers)
    BY DEF Account, Messages
  <1>2. ASSUME NEW r \in Seq(Answers), broadcasts' = broadcasts \o r, main' = main
        PROVE  Leaving(d)'
    <2>1. Says(broadcasts, Gone(d)) => Says(broadcasts', Gone(d))
      BY <1>1, <1>2, SaysAdded
    <2> QED BY <1>2, <2>1 DEF Leaving
  <1>3. CASE UNCHANGED <<broadcasts, main>>
    BY <1>3 DEF Leaving
  <1>4. CASE /\ main' = main
             /\ \/ \E e \in Devices : Detach(e) /\ broadcasts' = broadcasts \o <<Gone(e)>>
                \/ \E e \in Wanted, what \in {"granted", "denied"} :
                      RequestPermission(e) /\ broadcasts' = broadcasts \o <<Message(what, e)>>
    BY <1>2, <1>4, OneMessage
  <1>5. CASE \E next \in {"idle", "destroy"} : Unregister(next)
    <2>1. main.pc = "idle"
      BY <1>5 DEF Unregister, Begin
    <2> QED BY <1>5, <2>1 DEF Leaving
  <1>6. CASE /\ ReceivePermission /\ main' = main
             /\ broadcasts # <<>> /\ broadcasts' = Tail(broadcasts)
             /\ Head(broadcasts).what # "detached"
    <2>1. Head(broadcasts) # Gone(d)
      BY <1>6, PostFields DEF Gone
    <2> QED BY <1>1, <1>6, <2>1, SaysTaken DEF Leaving
  <1>7. CASE /\ ReceiveDetached /\ main'.pc \in {"close", "detached"}
             /\ broadcasts # <<>> /\ broadcasts' = Tail(broadcasts)
             /\ Head(broadcasts) = Gone(main'.device)
    <2>1. main.pc = "idle"
      BY <1>7 DEF ReceiveDetached
    <2>2. Says(broadcasts', Gone(d)) \/ Head(broadcasts) = Gone(d)
      BY <1>1, <1>7, <2>1, SaysTaken DEF Leaving
    <2>3. Gone(main'.device) = Gone(d) => main'.device = d
      BY PostFields DEF Gone
    <2> QED BY <1>7, <2>2, <2>3 DEF Leaving
  <1>8. CASE Detached /\ main'.pc = "idle" /\ broadcasts' = broadcasts
    BY <1>8 DEF Leaving
  <1>9. CASE /\ MainCloses /\ broadcasts' = broadcasts
             /\ main.pc \in {"close", "forget"}
             /\ \/ main'.pc \in {"forget", "detached"} /\ main'.device = main.device
                \/ destroyed' /\ main'.pc = "closeAll"
    BY <1>9 DEF Leaving
  <1>10. CASE /\ Destroy \/ CloseAll \/ Clear \/ Quit
              /\ broadcasts' = broadcasts /\ main.pc \in {"destroy", "closeAll", "quit"}
    BY <1>10 DEF Leaving
  <1> QED BY <1>3, <1>4, <1>5, <1>6, <1>7, <1>8, <1>9, <1>10, MainSteps

\* It has nothing to tell about a device that has not been detached.
LEMMA LeavingComes ==
    ASSUME Account, [Next]_vars, NEW d \in Devices, Leaving(d)'
    PROVE  Leaving(d) \/ Detach(d)
  <1>1. broadcasts \in Seq(Answers)
    BY DEF Account, Messages
  <1>2. CASE UNCHANGED <<broadcasts, main>>
    BY <1>2 DEF Leaving
  <1>3. CASE /\ main' = main
             /\ \E e \in Devices : Detach(e) /\ broadcasts' = broadcasts \o <<Gone(e)>>
    <2>1. PICK e \in Devices : Detach(e) /\ broadcasts' = broadcasts \o <<Gone(e)>>
      BY <1>3
    <2>2. Gone(e) = Gone(d) => e = d
      BY PostFields DEF Gone
    <2>3. Says(broadcasts', Gone(d)) => Says(broadcasts, Gone(d)) \/ Gone(e) = Gone(d)
      <3>1. Says(broadcasts \o <<Gone(e)>>, Gone(d))
              <=> Says(broadcasts, Gone(d)) \/ Says(<<Gone(e)>>, Gone(d))
        BY <1>1, OneMessage, SaysAdded
      <3> QED BY <2>1, <3>1, SaysOne
    <2> QED BY <1>3, <2>1, <2>2, <2>3 DEF Leaving
  <1>4. CASE /\ main' = main
             /\ \E e \in Wanted, what \in {"granted", "denied"} :
                   RequestPermission(e) /\ broadcasts' = broadcasts \o <<Message(what, e)>>
    <2>1. PICK e \in Wanted, what \in {"granted", "denied"} :
             broadcasts' = broadcasts \o <<Message(what, e)>>
      BY <1>4
    <2>2. Message(what, e) # Gone(d)
      BY PostFields DEF Gone
    <2>3. Says(broadcasts', Gone(d)) => Says(broadcasts, Gone(d))
      <3>1. Says(broadcasts \o <<Message(what, e)>>, Gone(d))
              <=> Says(broadcasts, Gone(d)) \/ Says(<<Message(what, e)>>, Gone(d))
        BY <1>1, OneMessage, SaysAdded
      <3> QED BY <2>1, <2>2, <3>1, SaysOne
    <2> QED BY <1>4, <2>3 DEF Leaving
  <1>5. CASE main'.pc \in {"idle", "destroy"} /\ broadcasts' = <<>>
    BY <1>5 DEF Leaving, Says
  <1>6. CASE /\ ReceivePermission /\ main' = main
             /\ broadcasts # <<>> /\ broadcasts' = Tail(broadcasts)
    BY <1>1, <1>6, SaysTaken DEF Leaving
  <1>7. CASE /\ broadcasts # <<>> /\ broadcasts' = Tail(broadcasts)
             /\ Head(broadcasts) = Gone(main'.device)
    BY <1>1, <1>7, SaysTaken DEF Leaving
  <1>8. CASE Detached /\ main'.pc = "idle" /\ broadcasts' = broadcasts
    BY <1>8 DEF Leaving
  <1>9. CASE /\ MainCloses /\ broadcasts' = broadcasts
             /\ main.pc \in {"close", "forget"}
             /\ \/ main'.pc \in {"forget", "detached"} /\ main'.device = main.device
                \/ destroyed' /\ main'.pc = "closeAll"
    BY <1>9 DEF Leaving
  <1>10. CASE /\ broadcasts' = broadcasts
              /\ main'.pc \in {"idle", "closeAll", "close", "quit"} /\ main'.device = None
    BY <1>10, MonitorAssumption DEF Leaving
  <1> QED BY <1>2, <1>3, <1>4, <1>5, <1>6, <1>7, <1>8, <1>9, <1>10, MainSteps

\* A device that is attached has left nothing of an earlier time behind.
Fresh == \A d \in attached : ~Leaving(d) /\ ~Says(queue, OnDettach(d))

\* A monitor that is registered polls.
Awake ==
    /\ registered => looper /\ ~destroyed /\ Polling
    /\ main.pc = "destroy" => ~registered
    /\ async.pc = "thrown" => destroyed

\* A device that mDeviceCounts counts is known, or on its way in or out.
Counted ==
    registered /\ ~stale =>
       \E S \in SUBSET Devices :
          /\ Cardinality(S) = mDeviceCounts
          /\ \A d \in S : (d \in attached /\ (d \in Wanted => Told(d))) \/ Leaving(d)

\* So is a device that a check has found.
Listed == registered /\ ~stale /\ Looking => \A d \in list : d \in attached \/ Leaving(d)

\* A monitor that is registered polls, and a wanted device that is there is known
\* to the listener, or its announcement is queued, or the next check will
\* announce it, because there are more devices than were counted, or will be
\* when main has received that one of them is gone.
AnnounceServed ==
    registered =>
       /\ Polling
       /\ ~stale => \A d \in Wanted \cap attached :
                       \/ Told(d)
                       \/ mDeviceCounts < Cardinality(attached)
                       \/ \E e \in Devices : Leaving(e)

\* Only the system attaches and detaches devices.
LEMMA DevicesChange ==
    ASSUME [Next]_vars, attached' # attached
    PROVE  \E d \in Devices : Attach(d) \/ Detach(d)
  BY DEF Next, SystemStep, MainCall, Register, Unregister, RequestPermission, MainContinue,
     ReceivePermission, ReceiveDetached, Detached, MainCloses, Destroy, CloseAll, Clear, Quit,
     AsyncStep,
     Take, CheckList, CheckPermissions, CheckCompare, CheckWrite, CheckAgain, ConnectGet,
     ConnectNew, ConnectPut, ConnectTell, TimerDue, CameraOpen, CameraFails, CameraCloses,
     sysVars, vars

\* onDettach is posted for a device that leaves.
LEMMA DettachComes ==
    ASSUME Account, [Next]_vars, NEW d \in Devices, Says(queue', OnDettach(d))
    PROVE  Says(queue, OnDettach(d)) \/ Leaving(d)
  <1>1. queue \in Seq(Posts) /\ OnDettach(d).what = "dettach" /\ OnDettach(d).device = d
    BY PostFields DEF Account, Messages, OnDettach
  <1>2. ASSUME NEW m, <<m>> \in Seq(Posts), queue' = queue \o <<m>>, m # OnDettach(d)
        PROVE  Says(queue, OnDettach(d))
    <2>1. Says(queue \o <<m>>, OnDettach(d))
            <=> Says(queue, OnDettach(d)) \/ Says(<<m>>, OnDettach(d))
      BY <1>1, <1>2, SaysAdded
    <2> QED BY <1>2, <2>1, SaysOne
  <1>3. CASE Detached /\ queue' = queue \o <<OnDettach(main.device)>>
    <2>1. CASE main.device = d
      BY <1>3, <2>1 DEF Detached, Leaving
    <2>2. CASE main.device # d
      <3>1. main.device \in Devices \cup {None}
        BY DEF Account, Threads
      <3>2. <<OnDettach(main.device)>> \in Seq(Posts) /\ OnDettach(main.device) # OnDettach(d)
        BY <2>2, <3>1, PostFields DEF OnDettach
      <3> QED BY <1>2, <1>3, <3>2
    <2> QED BY <2>1, <2>2
  <1>4. CASE TimerDue /\ queue' = queue \o <<Message("check", None)>>
    BY <1>1, <1>2, <1>4, OneMessage, PostFields
  <1>5. CASE \E e \in Wanted : queue' = queue \o <<Message("connect", e)>>
    BY <1>1, <1>2, <1>5, OneMessage, PostFields
  <1>6. CASE CheckWrite /\ queue' = queue \o SetToSeq({Message("attach", e) : e \in list})
    <2> DEFINE r == SetToSeq({Message("attach", e) : e \in list})
    <2>1. /\ r \in Seq(Posts)
          /\ \A i \in DOMAIN r : \E e \in list : r[i] = Message("attach", e)
      BY Announcements DEF Account, Sets
    <2> HIDE DEF r
    <2>2. ~Says(r, OnDettach(d))
      BY <1>1, <2>1, PostFields DEF Says
    <2>3. queue' = queue \o r
      BY <1>6 DEF r
    <2> QED BY <1>1, <2>1, <2>2, <2>3, SaysAdded
  <1>7. CASE queue' = WithoutChecks
    BY <1>1, <1>7, SaidWithoutChecks
  <1>8. CASE queue # <<>> /\ queue' = Tail(queue)
    BY <1>1, <1>8, SaysTaken
  <1>9. CASE queue' = <<>>
    BY <1>9 DEF Says
  <1> QED BY <1>3, <1>4, <1>5, <1>6, <1>7, <1>8, <1>9, QueueSteps

\* Nothing is left behind when a device comes back, and nothing is said of the
\* end of a device that has not ended.
LEMMA FreshStays == Account /\ Fresh /\ [Next]_vars => Fresh'
  <1> SUFFICES ASSUME Account, Fresh, [Next]_vars, NEW d \in attached'
               PROVE  ~Leaving(d)' /\ ~Says(queue', OnDettach(d))
    BY DEF Fresh
  <1>1. attached \subseteq Devices
    BY DEF Account, Sets
  <1>2. CASE d \in attached
    <2>1. ~Detach(d)
      BY DEF Detach
    <2> QED BY <1>1, <1>2, <2>1, LeavingComes, DettachComes DEF Fresh
  <1>3. CASE d \notin attached
    <2>1. d \in Devices /\ Attach(d)
      <3>1. PICK e \in Devices : Attach(e) \/ Detach(e)
        BY <1>3, DevicesChange
      <3>2. attached' = attached \cup {e} \/ attached' = attached \ {e}
        BY <3>1 DEF Attach, Detach
      <3>3. d = e /\ ~Detach(e)
        BY <1>3, <3>2 DEF Detach
      <3> QED BY <3>1, <3>3
    <2>2. /\ \A m \in ToSet(broadcasts) \cup ToSet(queue) : m.device # d
          /\ d # main.device /\ UNCHANGED <<broadcasts, queue, main>>
      BY <2>1 DEF Attach, postVars
    <2>3. ~Says(queue, OnDettach(d)) /\ ~Says(broadcasts, Gone(d))
      BY <2>2, PostFields DEF Says, ToSet, OnDettach, Gone
    <2> QED BY <2>2, <2>3 DEF Leaving
  <1> QED BY <1>2, <1>3

\* A check in the queue stays there until it is taken, or the monitor stops.
LEMMA ChecksStay ==
    ASSUME Account, [Next]_vars, Checks(queue) # {}
    PROVE  \/ Checks(queue') # {}
           \/ async.pc = "idle" /\ async'.pc = "check"
           \/ ~registered' \/ destroyed'
  <1>1. queue \in Seq(Posts)
    BY DEF Account, Messages
  <1>2. PICK i \in DOMAIN queue : queue[i].what = "check"
    BY DEF Checks
  <1>3. ASSUME NEW r \in Seq(Posts), queue' = queue \o r PROVE Checks(queue') # {}
    <2>1. i \in DOMAIN queue' /\ queue'[i] = queue[i]
      BY <1>1, <1>2, <1>3, Added
    <2> QED BY <1>2, <2>1 DEF Checks
  <1>4. CASE Take /\ queue # <<>> /\ queue' = Tail(queue)
    <2>1. CASE i = 1
      <3>1. Head(queue).what = "check"
        BY <1>1, <1>2, <1>4, <2>1
      <3>2. async.pc = "idle" /\ AsyncGoto("check", None, None)
        BY <1>4, <3>1 DEF Take
      <3> QED BY <3>2, DoingFields DEF AsyncGoto
    <2>2. CASE i # 1
      <3>1. i - 1 \in DOMAIN Tail(queue) /\ Tail(queue)[i - 1] = queue[i]
        BY <1>1, <1>2, <1>4, <2>2
      <3> QED BY <1>2, <1>4, <3>1 DEF Checks
    <2> QED BY <2>1, <2>2
  <1>5. CASE Detached /\ queue' = queue \o <<OnDettach(main.device)>>
    <2>1. <<OnDettach(main.device)>> \in Seq(Posts)
      BY PostFields DEF Account, Threads, OnDettach
    <2> QED BY <1>3, <1>5, <2>1
  <1>6. CASE CheckWrite /\ queue' = queue \o SetToSeq({Message("attach", d) : d \in list})
    BY <1>3, <1>6, Announcements DEF Account, Sets
  <1>7. CASE \/ queue' = queue \o <<Message("check", None)>>
             \/ \E d \in Wanted : queue' = queue \o <<Message("connect", d)>>
    BY <1>3, <1>7, OneMessage
  <1>8. CASE \E next : Unregister(next)
    BY <1>8 DEF Unregister
  <1> QED BY <1>4, <1>5, <1>6, <1>7, <1>8, QueueSteps

\* A step of the thread of mAsyncHandler goes where it says.
LEMMA AsyncAt ==
    ASSUME NEW pc, NEW d, NEW b, AsyncGoto(pc, d, b)
    PROVE  async'.pc = pc /\ async'.device = d /\ async'.block = b
  BY DoingFields DEF AsyncGoto

\* The polling goes on until the monitor is unregistered.
LEMMA AwakeStays == Account /\ Awake /\ [Next]_vars => Awake'
  <1> SUFFICES ASSUME Account, Awake, [Next]_vars PROVE Awake'
    OBVIOUS
  <1>0. timer \in Nat /\ queue \in Seq(Posts)
    BY DEF Account, Messages
  <1>1. CASE SystemStep \/ (\E d \in Wanted : CameraOpen(d) \/ CameraFails(d)) \/ CameraCloses
             \/ UNCHANGED vars
    <2>1. UNCHANGED <<lifeVars, postVars, async, main>>
      BY <1>1 DEF SystemStep, Attach, Detach, CameraOpen, CameraFails, CameraCloses, vars
    <2> QED BY <2>1 DEF Awake, Polling, Checking, lifeVars, postVars
  <1>2. CASE Register
    <2>1. registered' /\ UNCHANGED <<destroyed, looper, async, main>> /\ timer' = timer + 1
          /\ ~destroyed /\ main.pc = "idle"
      BY <1>2 DEF Register, Begin
    <2>2. looper
      BY <2>1 DEF Account, Quitting
    <2>3. timer' > 0
      BY <1>0, <2>1
    <2> QED BY <2>1, <2>2, <2>3 DEF Awake, Polling
  <1>3. ASSUME NEW next, Unregister(next) PROVE Awake'
    BY <1>3 DEF Unregister, Awake
  <1>4. ASSUME UNCHANGED <<registered, destroyed, looper, timer, async>>,
               main'.pc # "destroy" \/ main' = main
        PROVE  Awake'
    <2>1. async.pc # "idle" \/ async'.pc # "check"
      BY <1>4
    <2>2. registered' => (Checks(queue) # {} => Checks(queue') # {})
      BY <1>4, <2>1, ChecksStay DEF Awake
    <2> QED BY <1>4, <2>2 DEF Awake, Polling, Checking
  <1>5. CASE (\E d \in Wanted : RequestPermission(d)) \/ MainContinue
    <2>1. CASE (\E d \in Wanted : RequestPermission(d)) \/ ReceivePermission
               \/ ReceiveDetached \/ Detached \/ MainCloses \/ CloseAll \/ Clear
      <3>1. UNCHANGED <<registered, destroyed, looper, timer, async>>
        BY <2>1 DEF RequestPermission, ReceivePermission, ReceiveDetached, Detached, MainCloses,
           CloseAll, Clear, lifeVars, postVars
      <3>2. main'.pc # "destroy" \/ main' = main
        <4>1. CASE (\E d \in Wanted : RequestPermission(d)) \/ ReceivePermission
          BY <4>1 DEF RequestPermission, ReceivePermission
        <4>2. CASE ReceiveDetached \/ Detached \/ CloseAll \/ Clear
          BY <4>2, DoingFields DEF ReceiveDetached, Detached, CloseAll, Clear, Idle
        <4>3. CASE MainCloses
          <5>1. [main EXCEPT !.pc = "forget"].pc = "forget"
            BY DEF Account, Threads, Doing
          <5>2. AfterClose.pc # "destroy"
            BY DoingFields DEF AfterClose
          <5> QED BY <4>3, <5>1, <5>2 DEF MainCloses
        <4> QED BY <2>1, <4>1, <4>2, <4>3
      <3> QED BY <1>4, <3>1, <3>2
    <2>2. CASE Destroy
      <3>1. ~registered' /\ main'.pc # "destroy" /\ destroyed'
        BY <2>2, DoingFields DEF Destroy, Awake, Idle
      <3> QED BY <3>1 DEF Awake
    <2>3. CASE Quit
      <3>1. ~registered' /\ main'.pc # "destroy" /\ destroyed'
        BY <2>3, DoingFields DEF Quit, Awake, Idle, Account, Quitting, lifeVars
      <3> QED BY <3>1 DEF Awake
    <2> QED BY <1>5, <2>1, <2>2, <2>3 DEF MainContinue
  <1>6. CASE TimerDue
    <2>1. /\ timer > 0 /\ timer' = timer - 1 /\ UNCHANGED <<lifeVars, looper, async, main>>
          /\ looper => queue' = queue \o <<Message("check", None)>>
      BY <1>6 DEF TimerDue, Post
    <2>2. looper => Checks(queue') # {}
      <3>1. SUFFICES ASSUME looper PROVE Len(queue) + 1 \in Checks(queue')
        OBVIOUS
      <3>2. Message("check", None).what = "check"
        BY PostFields
      <3>3. Len(queue) + 1 \in DOMAIN queue' /\ queue'[Len(queue) + 1] = Message("check", None)
        BY <1>0, <2>1, <3>1
      <3> QED BY <3>2, <3>3 DEF Checks
    <2> QED BY <2>1, <2>2 DEF Awake, Polling, lifeVars
  <1>7. CASE AsyncStep
    <2>1. UNCHANGED <<lifeVars, looper, main>>
      BY <1>7 DEF AsyncStep, Take, CheckList, CheckPermissions, CheckCompare, CheckWrite,
                  CheckAgain,
         ConnectGet, ConnectNew, ConnectPut, ConnectTell, postVars
    <2>2. async'.pc = "thrown" => destroyed
      <3>1. CASE Take
        <4>1. async.pc = "idle"
              /\ \/ async' = async
                 \/ AsyncGoto("check", None, None) \/ \E d : AsyncGoto("get", d, None)
          BY <3>1 DEF Take
        <4> QED BY <4>1, AsyncAt
      <3>2. CASE CheckPermissions
        BY <3>2, AsyncAt DEF CheckPermissions
      <3>3. CASE CheckList \/ CheckCompare \/ CheckWrite \/ CheckAgain
                 \/ ConnectGet \/ ConnectNew \/ ConnectPut \/ ConnectTell
        BY <3>3, AsyncAt DEF CheckList, CheckCompare, CheckWrite, CheckAgain,
           ConnectGet, ConnectNew, ConnectPut, ConnectTell
      <3> QED BY <1>7, <3>1, <3>2, <3>3 DEF AsyncStep
    <2>3. registered => Polling'
      <3> SUFFICES ASSUME registered, looper, ~destroyed, Polling PROVE Polling'
        BY DEF Awake
      <3>1. CASE Take
        <4>1. timer' = timer /\ async.pc = "idle"
          BY <3>1 DEF Take
        <4>2. Checks(queue) # {} => Checks(queue') # {} \/ async'.pc = "check"
          BY <2>1, ChecksStay DEF lifeVars
        <4> QED BY <4>1, <4>2 DEF Polling, Checking
      <3>2. CASE CheckList \/ CheckPermissions \/ CheckCompare \/ CheckWrite
        <4>1. async'.pc \in {"permissions", "compare", "write", "again"}
          BY <3>2, AsyncAt DEF CheckList, CheckPermissions, CheckCompare, CheckWrite
        <4> QED BY <4>1 DEF Polling, Checking
      <3>3. CASE CheckAgain
        <4>1. timer' > 0
          BY <1>0, <3>3 DEF CheckAgain
        <4> QED BY <4>1 DEF Polling
      <3>4. CASE ConnectGet \/ ConnectNew \/ ConnectPut \/ ConnectTell
        <4>1. UNCHANGED postVars /\ async.pc \in {"get", "new", "put", "tell"}
          BY <3>4 DEF ConnectGet, ConnectNew, ConnectPut, ConnectTell
        <4> QED BY <4>1 DEF Polling, Checking, postVars
      <3> QED BY <1>7, <3>1, <3>2, <3>3, <3>4 DEF AsyncStep
    <2> QED BY <2>1, <2>2, <2>3 DEF Awake, lifeVars
  <1> QED BY <1>1, <1>2, <1>3, <1>5, <1>6, <1>7 DEF Next, MainCall

\* What is posted stays posted until it is taken or the thread is told to quit.
LEMMA SaidStays ==
    ASSUME Account, [Next]_vars, NEW m, m.what # "check", Says(queue, m)
    PROVE  \/ Says(queue', m)
           \/ Take /\ queue # <<>> /\ queue' = Tail(queue) /\ Head(queue) = m
           \/ destroyed'
  <1>1. queue \in Seq(Posts)
    BY DEF Account, Messages
  <1>2. ASSUME NEW r \in Seq(Posts), queue' = queue \o r PROVE Says(queue', m)
    BY <1>1, <1>2, SaysAdded
  <1>3. CASE Detached /\ queue' = queue \o <<OnDettach(main.device)>>
    <2>1. <<OnDettach(main.device)>> \in Seq(Posts)
      BY PostFields DEF Account, Threads, OnDettach
    <2> QED BY <1>2, <1>3, <2>1
  <1>4. CASE CheckWrite /\ queue' = queue \o SetToSeq({Message("attach", d) : d \in list})
    BY <1>2, <1>4, Announcements DEF Account, Sets
  <1>5. CASE \/ queue' = queue \o <<Message("check", None)>>
             \/ \E d \in Wanted : queue' = queue \o <<Message("connect", d)>>
    BY <1>2, <1>5, OneMessage
  <1>6. CASE queue' = WithoutChecks
    BY <1>1, <1>6, SaidWithoutChecks
  <1>7. CASE Take /\ queue # <<>> /\ queue' = Tail(queue)
    BY <1>1, <1>7, SaysTaken
  <1> QED BY <1>3, <1>4, <1>5, <1>6, <1>7, QueueSteps

\* Only the thread of mAsyncHandler tells the listener.
LEMMA KnownChanges ==
    ASSUME [Next]_vars
    PROVE  known' = known \/ Take \/ (ConnectTell /\ known' = known \cup {async.device})
  BY DEF Next, SystemStep, Attach, Detach, MainCall, Register, Unregister, RequestPermission,
     MainContinue, ReceivePermission, ReceiveDetached, Detached, MainCloses, Destroy, CloseAll,
     Clear,
     Quit, AsyncStep, CheckList, CheckPermissions, CheckCompare, CheckWrite, CheckAgain,
     ConnectGet, ConnectNew, ConnectPut, ConnectTell, TimerDue, CameraOpen, CameraFails,
     CameraCloses,
     toldVars, vars

\* The listener that knows of a device is not told otherwise while it is there.
LEMMA ToldStays ==
    ASSUME Account, Fresh, [Next]_vars, NEW d \in Wanted, d \in attached, Told(d)
    PROVE  Told(d)' \/ destroyed'
  <1>1. queue \in Seq(Posts) /\ OnAttach(d).what = "attach" /\ OnAttach(d).device = d
        /\ OnDettach(d).what = "dettach" /\ OnDettach(d).device = d
    BY PostFields DEF Account, Messages, OnAttach, OnDettach
  <1>2. CASE Take
    <2>1. queue # <<>> /\ queue' = Tail(queue) /\ Head(queue) \in Posts
      BY <1>1, <1>2 DEF Take
    <2>2. CASE Says(queue, OnAttach(d)) /\ Head(queue) # OnAttach(d)
      BY <1>1, <2>1, <2>2, SaysTaken DEF Told
    <2>3. CASE Head(queue) = OnAttach(d)
      <3>1. known' = known \cup ({d} \cap Wanted)
        BY <1>1, <1>2, <2>3 DEF Take
      <3> QED BY <3>1 DEF Told
    <2>4. CASE d \in known /\ Head(queue) # OnAttach(d)
      <3>1. Head(queue) # OnDettach(d)
        BY <1>1, <2>1, SaysTaken DEF Fresh
      <3>2. Head(queue).what = "dettach" => Head(queue).device # d
        BY <2>1, <3>1 DEF Posts, OnDettach, Message
      <3>3. d \in known'
        BY <1>2, <2>4, <3>2 DEF Take
      <3> QED BY <3>3 DEF Told
    <2> QED BY <2>2, <2>3, <2>4 DEF Told
  <1>3. CASE ~Take
    <2>1. d \in known => d \in known'
      BY <1>3, KnownChanges
    <2>2. Says(queue, OnAttach(d)) => Says(queue', OnAttach(d)) \/ destroyed'
      BY <1>1, <1>3, SaidStays
    <2> QED BY <2>1, <2>2 DEF Told
  <1> QED BY <1>2, <1>3

\* The numbers of the count, and when they change.
LEMMA CountsChange ==
    ASSUME [Next]_vars
    PROVE  \/ UNCHANGED <<mDeviceCounts, stale, registered>>
           \/ Register \/ Detached \/ CheckWrite \/ ~registered'
  BY DEF Next, SystemStep, Attach, Detach, MainCall, Unregister, RequestPermission,
     MainContinue, ReceivePermission, ReceiveDetached, MainCloses, Destroy, CloseAll, Clear,
     Quit, AsyncStep, Take, CheckList, CheckPermissions, CheckCompare, CheckAgain,
     ConnectGet, ConnectNew, ConnectPut, ConnectTell, TimerDue, CameraOpen, CameraFails,
     CameraCloses,
     countVars, lifeVars, vars

\* When the list of a check changes.
LEMMA ListChanges ==
    ASSUME [Next]_vars, Looking'
    PROVE  \/ list' = list /\ Looking
           \/ list' = attached /\ attached' = attached
  <1>1. CASE AsyncStep
    <2>1. CASE Take
      <3>1. async.pc = "idle"
            /\ \/ async' = async
               \/ AsyncGoto("check", None, None) \/ \E d : AsyncGoto("get", d, None)
        BY <2>1 DEF Take
      <3> QED BY <3>1, AsyncAt DEF Looking
    <2>2. CASE CheckList
      BY <2>2, AsyncAt DEF CheckList, Looking, sysVars
    <2>3. CASE CheckPermissions \/ CheckCompare
      BY <2>3 DEF CheckPermissions, CheckCompare, Looking, countVars
    <2>4. CASE CheckWrite \/ CheckAgain \/ ConnectGet \/ ConnectNew \/ ConnectPut \/ ConnectTell
      BY <2>4, AsyncAt
         DEF CheckWrite, CheckAgain, ConnectGet, ConnectNew, ConnectPut, ConnectTell, Looking
    <2> QED BY <1>1, <2>1, <2>2, <2>3, <2>4 DEF AsyncStep
  <1>2. CASE ~AsyncStep
    BY <1>2 DEF Next, SystemStep, Attach, Detach, MainCall, Register, Unregister,
       RequestPermission, MainContinue, ReceivePermission, ReceiveDetached, Detached, MainCloses,
       Destroy, CloseAll, Clear, Quit, TimerDue, CameraOpen, CameraFails, CameraCloses, countVars,
       Looking, vars
  <1> QED BY <1>1, <1>2

\* A device that is there, or whose end main has still to tell, is so after a
\* step of a registered monitor, unless that step resets the count.
LEMMA PlaceStays ==
    ASSUME Account, [Next]_vars, registered, registered', ~destroyed', ~Detached,
           NEW d \in Devices, d \in attached \/ Leaving(d)
    PROVE  (d \in attached /\ d \in attached') \/ Leaving(d)'
  <1>1. CASE Leaving(d)
    <2>1. ~\E next : Unregister(next)
      BY DEF Unregister
    <2> QED BY <1>1, <2>1, LeavingStays
  <1>2. CASE d \in attached /\ d \notin attached'
    <2>1. PICK e \in Devices : Attach(e) \/ Detach(e)
      BY <1>2, DevicesChange
    <2>2. d = e /\ Detach(d)
      BY <1>2, <2>1 DEF Attach, Detach
    <2>3. broadcasts' = broadcasts \o <<Gone(d)>> /\ broadcasts \in Seq(Answers)
      BY <2>2 DEF Detach, Broadcast, Gone, Account, Messages
    <2>4. Says(broadcasts', Gone(d))
      <3>1. Says(broadcasts \o <<Gone(d)>>, Gone(d))
              <=> Says(broadcasts, Gone(d)) \/ Says(<<Gone(d)>>, Gone(d))
        BY <2>3, OneMessage, SaysAdded
      <3> QED BY <2>3, <3>1, SaysOne
    <2> QED BY <2>4 DEF Leaving
  <1> QED BY <1>1, <1>2

\* What is counted and what is listed.
LEMMA CountedStays ==
    Account /\ Fresh /\ Awake /\ Counted /\ Listed /\ [Next]_vars => Counted' /\ Listed'
  <1> SUFFICES ASSUME Account, Fresh, Awake, Counted, Listed, [Next]_vars, registered', ~stale'
               PROVE  Counted' /\ Listed'
    BY DEF Counted, Listed
  <1>0. ~destroyed' /\ list \subseteq Devices /\ attached \subseteq Devices
    BY AwakeStays DEF Awake, Account, Sets
  <1>1. CASE Register \/ Detached
    <2>1. mDeviceCounts' = 0 /\ ~Looking' /\ async' = async
      BY <1>1 DEF Register, Detached, ResetCounts, Looking
    <2>2. Cardinality({}) = 0
      BY FS_EmptySet
    <2>3. Counted'
      BY <2>1, <2>2 DEF Counted
    <2> QED BY <2>1, <2>3 DEF Listed
  <1>2. CASE CheckWrite
    <2> DEFINE r == SetToSeq({Message("attach", d) : d \in list})
    <2>1. /\ registered /\ ~stale /\ Looking /\ ~Looking'
          /\ mDeviceCounts' = Cardinality(list) /\ ~Detached
          /\ UNCHANGED <<attached, list, broadcasts, main, looper>>
      <3>1. async.pc = "write" /\ async'.pc = "again"
        BY <1>2, AsyncAt DEF CheckWrite
      <3>2. ~Detached
        BY <3>1 DEF Detached
      <3>3. /\ mDeviceCounts' = Cardinality(list)
            /\ UNCHANGED <<attached, list, broadcasts, main, looper, stale, registered>>
        BY <1>2 DEF CheckWrite, lifeVars, sysVars
      <3> QED BY <3>1, <3>2, <3>3 DEF Looking
    <2>2. /\ queue' = queue \o r /\ r \in Seq(Posts) /\ queue \in Seq(Posts)
          /\ \A d \in list : Says(r, OnAttach(d))
      <3>1. looper
        BY <2>1 DEF Awake
      <3>2. Post(r)
        BY <1>2 DEF CheckWrite
      <3>3. \A d \in list : \E i \in DOMAIN r : r[i] = OnAttach(d)
        BY <1>0, Announcements DEF OnAttach
      <3>4. r \in Seq(Posts) /\ queue \in Seq(Posts)
        BY <1>0, Announcements DEF Account, Messages
      <3> HIDE DEF r
      <3> QED BY <3>1, <3>2, <3>3, <3>4 DEF Post, Says
    <2> HIDE DEF r
    <2>3. ASSUME NEW d \in list
          PROVE  (d \in attached' /\ (d \in Wanted => Told(d)')) \/ Leaving(d)'
      <3>1. (d \in attached /\ d \in attached') \/ Leaving(d)'
        BY <1>0, <2>1, PlaceStays DEF Listed
      <3>2. Says(queue', OnAttach(d))
        BY <2>2, SaysAdded
      <3> QED BY <3>1, <3>2 DEF Told
    <2>4. Counted'
      BY <1>0, <2>1, <2>3 DEF Counted
    <2> QED BY <2>1, <2>4 DEF Listed
  <1>3. ASSUME UNCHANGED <<mDeviceCounts, stale, registered>>, ~Detached PROVE Counted' /\ Listed'
    <2>1. registered /\ ~stale
      BY <1>3
    <2>2. PICK S \in SUBSET Devices :
             /\ Cardinality(S) = mDeviceCounts
             /\ \A d \in S : (d \in attached /\ (d \in Wanted => Told(d))) \/ Leaving(d)
      BY <2>1 DEF Counted
    <2>3. ASSUME NEW d \in S
          PROVE  (d \in attached' /\ (d \in Wanted => Told(d)')) \/ Leaving(d)'
      <3>1. (d \in attached /\ d \in attached') \/ Leaving(d)'
        BY <1>0, <1>3, <2>2, <2>3, PlaceStays
      <3>2. d \in attached /\ d \in Wanted => Told(d)
        BY <1>0, <2>2, <2>3 DEF Fresh
      <3>3. d \in attached /\ d \in Wanted => Told(d)'
        BY <1>0, <3>2, ToldStays
      <3> QED BY <3>1, <3>3
    <2>4. Counted'
      BY <1>3, <2>2, <2>3 DEF Counted
    <2>5. Looking' => \A d \in list' : d \in attached' \/ Leaving(d)'
      BY <1>0, <1>3, <2>1, ListChanges, PlaceStays DEF Listed
    <2> QED BY <2>4, <2>5 DEF Listed
  <1>4. CASE Detached
    BY <1>1, <1>4
  <1> QED BY <1>1, <1>2, <1>3, <1>4, CountsChange

-----------------------------------------------------------------------------

\* For any number of devices: nothing is forgotten of what Announced promises
\* (register, onReceive, mDeviceCheckRunnable).
THEOREM AnnouncedAlwaysServed == Spec => []AnnounceServed
  <1>1. Init => Fresh /\ Awake /\ Counted /\ Listed
    <2> SUFFICES ASSUME Init PROVE Fresh /\ Awake /\ Counted /\ Listed
      OBVIOUS
    <2>1. Idle.pc = "idle"
      BY DoingFields DEF Idle
    <2> QED BY <2>1 DEF Init, Fresh, Awake, Counted, Listed
  <1>2. Account /\ Fresh /\ Awake /\ Counted /\ Listed /\ [Next]_vars
          => Fresh' /\ Awake' /\ Counted' /\ Listed'
    BY FreshStays, AwakeStays, CountedStays
  <1>3. Account /\ Fresh /\ Awake /\ Counted => AnnounceServed
    <2> SUFFICES ASSUME Account, Fresh, Awake, Counted, registered, ~stale,
                        NEW d \in Wanted \cap attached, ~Told(d), \A e \in Devices : ~Leaving(e)
                 PROVE  mDeviceCounts < Cardinality(attached)
      BY DEF AnnounceServed, Awake
    <2>1. PICK S \in SUBSET Devices :
             /\ Cardinality(S) = mDeviceCounts
             /\ \A e \in S : (e \in attached /\ (e \in Wanted => Told(e))) \/ Leaving(e)
      BY DEF Counted
    <2>2. S \in SUBSET attached /\ S # attached /\ attached \subseteq Devices
      BY <2>1 DEF Account, Sets
    <2>3. IsFiniteSet(attached)
      BY <2>2, MonitorAssumption, FS_Subset
    <2>4. Cardinality(S) <= Cardinality(attached) /\ Cardinality(S) # Cardinality(attached)
      BY <2>2, <2>3, FS_Subset
    <2>5. Cardinality(S) \in Nat /\ Cardinality(attached) \in Nat
      BY <2>2, <2>3, FS_Subset, FS_CardinalityType
    <2> QED BY <2>1, <2>4, <2>5
  <1> QED BY <1>1, <1>2, <1>3, AlwaysAccounted, PTL DEF Spec

-----------------------------------------------------------------------------

\* A wanted device is gone, and the monitor owes the listener the news of it.
Ended(d) == d \in Wanted /\ d \notin attached \cup excused /\ ~destroyed

\* Whatever may still tell the listener that the device is there, an attach or a
\* connect in the queue or a connecting under way, onDettach comes after it.
ToldLast(d) ==
    /\ SaidLast(queue, OnDettach(d), {"attach", "connect"})
    /\ d \in known \/ async.device = d => Says(queue, OnDettach(d))

\* The permissions asked for while it was there come before its end.
AnsweredFirst(d) == SaidLast(broadcasts, Gone(d), {"granted", "denied"})

\* The last word that the listener will hear of a device that ended is
\* onDettach, or main has still to post it.
LastWordServed == \A d \in Wanted : Ended(d) => Leaving(d) \/ ToldLast(d)

LastWords ==
    /\ \A d \in Wanted : Ended(d) => AnsweredFirst(d) /\ (Leaving(d) \/ ToldLast(d))
    /\ async.pc \notin {"get", "new", "put", "tell"} => async.device = None

\* A device ends when it is detached from a monitor that is registered.
LEMMA EndsWhenDetached ==
    ASSUME Account, [Next]_vars, NEW d \in Wanted, Ended(d)'
    PROVE  \/ Ended(d) /\ ~Detach(d)
           \/ Detach(d) /\ broadcasts' = broadcasts \o <<Gone(d)>>
  <1>1. d \in Devices /\ broadcasts \in Seq(Answers)
    BY MonitorAssumption DEF Account, Messages
  <1>2. ~destroyed
    <2>1. destroyed' = destroyed \/ destroyed' = TRUE
      BY DEF Next, SystemStep, Attach, Detach, MainCall, Register, Unregister, RequestPermission,
         MainContinue, ReceivePermission, ReceiveDetached, Detached, MainCloses, Destroy,
         CloseAll, Clear,
         Quit, AsyncStep, Take, CheckList, CheckPermissions, CheckCompare, CheckWrite, CheckAgain,
         ConnectGet, ConnectNew, ConnectPut, ConnectTell, TimerDue, CameraOpen, CameraFails,
         CameraCloses,
         lifeVars, vars
    <2> QED BY <2>1 DEF Ended
  <1>3. ~(\E e \in Devices : Attach(e)) => excused \subseteq excused'
    BY DEF Next, SystemStep, Attach, Detach, MainCall, Register, Unregister, RequestPermission,
       MainContinue, ReceivePermission, ReceiveDetached, Detached, MainCloses, Destroy, CloseAll,
       Clear,
       Quit, AsyncStep, Take, CheckList, CheckPermissions, CheckCompare, CheckWrite, CheckAgain,
       ConnectGet, ConnectNew, ConnectPut, ConnectTell, TimerDue, CameraOpen, CameraFails,
       CameraCloses,
       toldVars, vars
  <1>4. CASE \E e \in Devices : Attach(e)
    <2>1. PICK e \in Devices : Attach(e)
      BY <1>4
    <2>2. attached' = attached \cup {e} /\ excused' = excused \ {e}
          /\ e \notin attached
      BY <2>1 DEF Attach
    <2> QED BY <1>2, <2>2 DEF Ended, Detach
  <1>5. CASE Detach(d)
    <2>1. registered
      BY <1>5 DEF Detach, Ended
    <2> QED BY <1>1, <1>5, <2>1 DEF Detach, Broadcast, Gone
  <1>6. CASE ~(\E e \in Devices : Attach(e)) /\ ~Detach(d)
    <2>1. d \notin attached
      <3>1. CASE attached' = attached
        BY <3>1 DEF Ended
      <3>2. CASE attached' # attached
        <4>1. PICK e \in Devices : Detach(e)
          BY <1>6, <3>2, DevicesChange
        <4> QED BY <1>6, <4>1 DEF Ended, Detach
      <3> QED BY <3>1, <3>2
    <2> QED BY <1>2, <1>3, <1>6, <2>1 DEF Ended
  <1> QED BY <1>4, <1>5, <1>6

\* A permission that was asked for is answered before the end of the device is
\* received.
LEMMA AnswersComeFirst ==
    ASSUME Account, LastWords, [Next]_vars, NEW d \in Wanted, Ended(d)'
    PROVE  AnsweredFirst(d)'
  <1>1. /\ d \in Devices /\ broadcasts \in Seq(Answers)
        /\ Gone(d).what = "detached" /\ Gone(d).device = d
    BY MonitorAssumption, PostFields DEF Account, Messages, Gone
  <1>2. CASE Detach(d) /\ broadcasts' = broadcasts \o <<Gone(d)>>
    <2>1. SaidLast(<<Gone(d)>>, Gone(d), {"granted", "denied"})
      BY <1>1, SaysOne
    <2>2. <<Gone(d)>> \in Seq(Answers) /\ \E j \in DOMAIN <<Gone(d)>> : <<Gone(d)>>[j] = Gone(d)
      BY <1>1, OneMessage, SaysOne DEF Says
    <2> QED BY <1>1, <1>2, <2>1, <2>2, SaidLastAdded DEF AnsweredFirst
  <1>3. CASE Ended(d) /\ ~Detach(d)
    <2>1. SaidLast(broadcasts, Gone(d), {"granted", "denied"})
      BY <1>3 DEF LastWords, AnsweredFirst
    <2>2. ASSUME NEW m, <<m>> \in Seq(Answers), broadcasts' = broadcasts \o <<m>>, m.device # d
          PROVE  AnsweredFirst(d)'
      <3>1. SaidLast(<<m>>, Gone(d), {"granted", "denied"})
        BY <1>1, <2>2, SaysOne
      <3> QED BY <1>1, <2>1, <2>2, <3>1, SaidLastAdded DEF AnsweredFirst
    <2>3. CASE \E e \in Devices : Detach(e) /\ broadcasts' = broadcasts \o <<Gone(e)>>
      <3>1. PICK e \in Devices : Detach(e) /\ broadcasts' = broadcasts \o <<Gone(e)>>
        BY <2>3
      <3>2. e # d /\ Gone(e).device = e
        BY <1>3, <3>1, PostFields DEF Gone
      <3> QED BY <2>2, <3>1, <3>2, OneMessage
    <2>4. CASE \E e \in Wanted, what \in {"granted", "denied"} :
                  RequestPermission(e) /\ broadcasts' = broadcasts \o <<Message(what, e)>>
      <3>1. PICK e \in Wanted, what \in {"granted", "denied"} :
                  RequestPermission(e) /\ broadcasts' = broadcasts \o <<Message(what, e)>>
        BY <2>4
      <3>2. e # d /\ Message(what, e).device = e
        BY <1>3, <3>1, PostFields DEF RequestPermission, Ended
      <3> QED BY <2>2, <3>1, <3>2, OneMessage
    <2>5. CASE broadcasts' = <<>>
      BY <2>5 DEF AnsweredFirst, SaidLast
    <2>6. CASE broadcasts # <<>> /\ broadcasts' = Tail(broadcasts)
      BY <1>1, <2>1, <2>6, SaidLastTaken DEF AnsweredFirst
    <2>7. CASE broadcasts' = broadcasts
      BY <2>1, <2>7 DEF AnsweredFirst, Gone, Message
    <2> QED BY <2>3, <2>4, <2>5, <2>6, <2>7, MainSteps
  <1> QED BY <1>2, <1>3, EndsWhenDetached

\* What the thread of mAsyncHandler works at changes when it takes a message,
\* or is done.
LEMMA AsyncChanges ==
    ASSUME Account, [Next]_vars
    PROVE  \/ async' = async
           \/ /\ Take /\ async.pc = "idle"
              /\ \/ AsyncGoto("check", None, None)
                 \/ /\ Head(queue).what = "connect" /\ Head(queue).device \in Wanted
                    /\ AsyncGoto("get", Head(queue).device, None)
           \/ /\ ~Take /\ async.pc # "idle"
              /\ \/ async'.pc \in {"idle", "permissions", "compare", "write", "again", "thrown"}
                    /\ async'.device = None
                 \/ async'.pc \in {"new", "put", "tell"} /\ async'.device = async.device
                    /\ async.pc \in {"get", "new", "put"}
  <1>1. CASE AsyncStep
    <2>1. CASE Take
      <3>1. queue # <<>> /\ Head(queue) \in Posts
        BY <2>1 DEF Take, Account, Messages
      <3> QED BY <2>1, <3>1 DEF Take, Posts
    <2>2. CASE CheckList \/ CheckPermissions \/ CheckCompare \/ CheckWrite \/ CheckAgain
               \/ ConnectTell
      BY <2>2, AsyncAt DEF CheckList, CheckPermissions, CheckCompare, CheckWrite, CheckAgain,
         ConnectTell, Take
    <2>3. CASE ConnectGet \/ ConnectNew \/ ConnectPut
      BY <2>3, AsyncAt DEF ConnectGet, ConnectNew, ConnectPut, Take
    <2> QED BY <1>1, <2>1, <2>2, <2>3 DEF AsyncStep
  <1>2. CASE ~AsyncStep
    BY <1>2 DEF Next, SystemStep, Attach, Detach, MainCall, Register, Unregister,
       RequestPermission, MainContinue, ReceivePermission, ReceiveDetached, Detached, MainCloses,
       Destroy, CloseAll, Clear, Quit, TimerDue, CameraOpen, CameraFails, CameraCloses, vars
  <1> QED BY <1>1, <1>2

\* The order of the queue: nothing is posted about a device that has ended
\* but onDettach.
LEMMA OrderStays ==
    ASSUME Account, LastWords, [Next]_vars, NEW d \in Wanted, Ended(d), Ended(d)', ~Leaving(d),
           ToldLast(d)
    PROVE  SaidLast(queue', OnDettach(d), {"attach", "connect"})
  <1>1. /\ queue \in Seq(Posts) /\ d \in Devices
        /\ OnDettach(d).what = "dettach" /\ OnDettach(d).device = d
        /\ SaidLast(queue, OnDettach(d), {"attach", "connect"})
    BY MonitorAssumption, PostFields DEF Account, Messages, OnDettach, ToldLast
  <1>2. ASSUME NEW m, <<m>> \in Seq(Posts), queue' = queue \o <<m>>,
               m.device # d \/ m.what \notin {"attach", "connect"}
        PROVE  SaidLast(queue', OnDettach(d), {"attach", "connect"})
    <2>1. SaidLast(<<m>>, OnDettach(d), {"attach", "connect"})
      BY <1>1, <1>2, SaysOne
    <2> QED BY <1>1, <1>2, <2>1, SaidLastAdded
  <1>3. CASE Detached /\ queue' = queue \o <<OnDettach(main.device)>>
    <2>1. <<OnDettach(main.device)>> \in Seq(Posts) /\ OnDettach(main.device).what = "dettach"
      BY PostFields DEF Account, Threads, OnDettach
    <2> QED BY <1>2, <1>3, <2>1
  <1>4. CASE TimerDue /\ queue' = queue \o <<Message("check", None)>>
    BY <1>2, <1>4, OneMessage, PostFields
  <1>5. CASE CheckWrite /\ queue' = queue \o SetToSeq({Message("attach", e) : e \in list})
    <2> DEFINE r == SetToSeq({Message("attach", e) : e \in list})
    <2>1. /\ r \in Seq(Posts)
          /\ \A i \in DOMAIN r : \E e \in list : r[i] = Message("attach", e)
      BY Announcements DEF Account, Sets
    <2>2. d \notin list
      BY <1>5 DEF CheckWrite, Ended
    <2>3. queue' = queue \o r
      BY <1>5
    <2> HIDE DEF r
    <2>4. \A i \in DOMAIN r : r[i].device # d
      BY <2>1, <2>2, PostFields
    <2>5. SaidLast(r, OnDettach(d), {"attach", "connect"})
      BY <1>1, <2>4 DEF SaidLast
    <2> QED BY <1>1, <2>1, <2>3, <2>5, SaidLastAdded
  <1>6. CASE \E e \in Wanted :
                /\ RequestPermission(e)
                   \/ (ReceivePermission /\ Head(broadcasts) = Message("granted", e))
                /\ queue' = queue \o <<Message("connect", e)>>
    <2>1. PICK e \in Wanted :
                /\ RequestPermission(e)
                   \/ (ReceivePermission /\ Head(broadcasts) = Message("granted", e))
                /\ queue' = queue \o <<Message("connect", e)>>
      BY <1>6
    <2>2. CASE RequestPermission(e)
      <3>1. e # d
        BY <2>2 DEF RequestPermission, Ended
      <3> QED BY <1>2, <2>1, <3>1, OneMessage, PostFields
    <2>3. CASE ReceivePermission /\ Head(broadcasts) = Message("granted", e)
      <3>1. broadcasts # <<>> /\ broadcasts \in Seq(Answers)
            /\ Gone(d).device = d /\ Head(broadcasts).device = e
            /\ Head(broadcasts).what = "granted"
        BY <2>3, PostFields DEF ReceivePermission, Account, Messages, Gone
      <3>2. e # d
        <4> SUFFICES ASSUME e = d PROVE FALSE
          OBVIOUS
        <4>1. SaidLast(broadcasts, Gone(d), {"granted", "denied"})
          BY DEF LastWords, AnsweredFirst
        <4>2. Says(Tail(broadcasts), Gone(d))
          BY <3>1, <4>1, SaidLastTaken
        <4>3. Says(broadcasts, Gone(d))
          BY <3>1, <4>2, SaysTaken
        <4> QED BY <4>3 DEF Leaving
      <3> QED BY <1>2, <2>1, <3>2, OneMessage, PostFields
    <2> QED BY <2>1, <2>2, <2>3
  <1>7. CASE queue' = WithoutChecks
    BY <1>1, <1>7, SaidWithoutChecks
  <1>8. CASE queue # <<>> /\ queue' = Tail(queue)
    BY <1>1, <1>8, SaidLastTaken
  <1>9. CASE queue' = <<>>
    BY <1>9 DEF SaidLast
  <1>10. CASE queue' = queue
    BY <1>1, <1>10
  <1> QED BY <1>3, <1>4, <1>5, <1>6, <1>7, <1>8, <1>9, <1>10, QueueSteps

\* The listener that knows a device which has ended will hear of it.
LEMMA ToldLastStays ==
    ASSUME Account, LastWords, [Next]_vars, NEW d \in Wanted, Ended(d), Ended(d)', ~Leaving(d),
           ToldLast(d)
    PROVE  ToldLast(d)'
  <1>1. /\ queue \in Seq(Posts) /\ d # None
        /\ OnDettach(d).what = "dettach" /\ OnDettach(d).device = d
        /\ OnDettach(d)' = OnDettach(d)
    BY MonitorAssumption, PostFields DEF Account, Messages, OnDettach, Message
  <1>2. d \in known \/ async.device = d => Says(queue, OnDettach(d))
    BY DEF ToldLast
  <1>3. CASE Take
    <2>1. queue # <<>> /\ queue' = Tail(queue) /\ Head(queue) \in Posts /\ async.pc = "idle"
      BY <1>1, <1>3 DEF Take
    <2>2. async.device = None
      BY <2>1 DEF LastWords
    <2>3. CASE Head(queue).device = d /\ Head(queue).what \in {"attach", "connect"}
      <3>1. Says(Tail(queue), OnDettach(d))
        BY <1>1, <2>1, <2>3, SaidLastTaken DEF ToldLast
      <3> QED BY <1>1, <2>1, <3>1, OrderStays DEF ToldLast
    <2>4. CASE ~(Head(queue).device = d /\ Head(queue).what \in {"attach", "connect"})
      <3>1. async'.device # d
        BY <1>1, <2>1, <2>2, <2>4, AsyncChanges, AsyncAt
      <3>2. d \in known' => d \in known /\ Head(queue) # OnDettach(d)
        BY <1>1, <1>3, <2>4 DEF Take
      <3>3. d \in known' => Says(queue', OnDettach(d))
        BY <1>1, <1>2, <2>1, <3>2, SaysTaken
      <3> QED BY <1>1, <3>1, <3>3, OrderStays DEF ToldLast
    <2> QED BY <2>3, <2>4
  <1>4. CASE ~Take
    <2>1. async'.device = d => async.device = d
      BY <1>1, <1>4, AsyncChanges
    <2>2. d \in known' => d \in known \/ async.device = d
      BY <1>4, KnownChanges
    <2>3. Says(queue, OnDettach(d)) => Says(queue', OnDettach(d))
      BY <1>1, <1>4, SaidStays DEF Ended
    <2> QED BY <1>1, <1>2, <2>1, <2>2, <2>3, OrderStays DEF ToldLast
  <1> QED BY <1>3, <1>4

\* So the last word is always to come, or said.
LEMMA LastWordsStay == Account /\ LastWords /\ [Next]_vars => LastWords'
  <1> SUFFICES ASSUME Account, LastWords, [Next]_vars PROVE LastWords'
    OBVIOUS
  <1>1. ASSUME NEW d \in Wanted, Ended(d)' PROVE Leaving(d)' \/ ToldLast(d)'
    <2>0. d \in Devices /\ queue \in Seq(Posts) /\ broadcasts \in Seq(Answers)
      BY MonitorAssumption DEF Account, Messages
    <2>1. CASE Detach(d) /\ broadcasts' = broadcasts \o <<Gone(d)>>
      <3>1. Says(broadcasts \o <<Gone(d)>>, Gone(d))
              <=> Says(broadcasts, Gone(d)) \/ Says(<<Gone(d)>>, Gone(d))
        BY <2>0, OneMessage, SaysAdded
      <3>2. Says(broadcasts', Gone(d))
        BY <2>1, <3>1, SaysOne
      <3> QED BY <3>2 DEF Leaving, Gone, Message
    <2>2. CASE Ended(d) /\ ~Leaving(d)
      BY <1>1, <2>2, ToldLastStays DEF LastWords
    <2>3. CASE Detached /\ main.device = d
      <3>1. looper /\ Post(<<OnDettach(d)>>)
        <4>1. ~destroyed
          BY <1>1, <2>3 DEF Detached, Ended, lifeVars
        <4> QED BY <2>3, <4>1 DEF Detached, OnDettach, Account, Quitting
      <3>2. queue' = queue \o <<OnDettach(d)>> /\ <<OnDettach(d)>> \in Seq(Posts)
        BY <2>0, <3>1, OneMessage DEF Post
      <3>3. OnDettach(d).what = "dettach" /\ Says(<<OnDettach(d)>>, OnDettach(d))
        BY PostFields, SaysOne DEF OnDettach
      <3>4. Says(queue', OnDettach(d))
        BY <2>0, <3>2, <3>3, SaysAdded
      <3>5. SaidLast(<<OnDettach(d)>>, OnDettach(d), {"attach", "connect"})
        BY <3>3, SaysOne
      <3>6. SaidLast(queue', OnDettach(d), {"attach", "connect"})
        BY <2>0, <3>2, <3>3, <3>5, SaidLastAdded DEF Says
      <3> QED BY <3>4, <3>6 DEF ToldLast, OnDettach, Message
    <2>4. CASE Ended(d) /\ Leaving(d) /\ ~(Detached /\ main.device = d)
      <3>1. ~destroyed'
        BY <1>1 DEF Ended
      <3>2. ASSUME NEW next, Unregister(next), Says(broadcasts, Gone(d)) PROVE FALSE
        <4>1. d \in excused'
          BY <3>2 DEF Unregister, Says, Gone, ToSet
        <4> QED BY <1>1, <4>1 DEF Ended
      <3> QED BY <2>0, <2>4, <3>1, <3>2, LeavingStays
    <2> QED BY <1>1, <2>1, <2>2, <2>3, <2>4, EndsWhenDetached
  <1>2. async'.pc \notin {"get", "new", "put", "tell"} => async'.device = None
    BY AsyncChanges, AsyncAt DEF LastWords
  <1> QED BY <1>1, <1>2, AnswersComeFirst DEF LastWords

-----------------------------------------------------------------------------

\* For any number of devices, whatever is asked and posted before a device is
\* detached and while its end is received: the safe part of LastWord (onReceive,
\* mDeviceCheckRunnable, processConnect).
THEOREM LastWordAlwaysServed == Spec => []LastWordServed
  <1>1. Init => LastWords
    <2> SUFFICES ASSUME Init PROVE LastWords
      OBVIOUS
    <2>1. broadcasts = <<>> /\ queue = <<>> /\ known = {} /\ async.device = None
      BY DoingFields DEF Init, Idle
    <2>2. ASSUME NEW d \in Wanted PROVE AnsweredFirst(d) /\ ToldLast(d)
      <3>1. d # None
        BY MonitorAssumption
      <3> QED BY <2>1, <3>1 DEF AnsweredFirst, ToldLast, SaidLast
    <2> QED BY <2>1, <2>2 DEF LastWords
  <1>2. LastWords => LastWordServed
    BY DEF LastWords, LastWordServed
  <1> QED BY <1>1, <1>2, LastWordsStay, AlwaysAccounted, PTL DEF Spec

-----------------------------------------------------------------------------

\* A connection to a wanted device that ended is one of the camera's, or main will
\* close it: it has still to receive the end, or closes it now.
DetachServed ==
    \A b \in opened \ (lost \cup {camera.block}) :
       Ended(b[1]) => Says(broadcasts, Gone(b[1])) \/ (main.pc = "close" /\ main.block = b)

\* A connection is opened only to a device that is there.
LEMMA OpenedNow ==
    ASSUME Connections, [Next]_vars, NEW b \in opened', b \notin opened
    PROVE  b[1] \in granted /\ attached' = attached
  <1>1. CASE ConnectNew
    <2>1. Construct(async.device) /\ attached' = attached
      BY <1>1 DEF ConnectNew, sysVars
    <2>2. async.device \in granted /\ b = New(async.device) /\ Free(async.device) # {}
      BY <2>1 DEF Construct
    <2>3. async.device \in Devices
      BY <2>2 DEF Connections, Types
    <2> QED BY <2>1, <2>2, <2>3, NewIsNew
  <1>2. ASSUME NEW d \in Wanted, CameraOpen(d) \/ CameraFails(d)
        PROVE  b[1] \in granted /\ attached' = attached
    <2>1. Construct(d) /\ d \in granted /\ attached' = attached
      BY <1>2 DEF CameraOpen, CameraFails, MayOpen, sysVars
    <2>2. b = New(d) /\ d \in Devices /\ Free(d) # {}
      BY <2>1, MonitorAssumption DEF Construct
    <2> QED BY <2>1, <2>2, NewIsNew
  <1>3. ConnectNew \/ \E d \in Wanted : CameraOpen(d) \/ CameraFails(d)
    BY DEF Next, SystemStep, Attach, Detach, MainCall, Register, Unregister, RequestPermission,
       MainContinue, ReceivePermission, ReceiveDetached, Detached, MainCloses, Destroy, CloseAll,
       Clear, Quit, AsyncStep, Take, CheckList, CheckPermissions, CheckCompare, CheckWrite,
       CheckAgain,
       ConnectGet, ConnectPut, ConnectTell, TimerDue, CameraCloses, CloseConnection, Forget,
       blockVars, vars
  <1> QED BY <1>1, <1>2, <1>3

\* What is lost stays so.
LEMMA LostStays == [Next]_vars => lost \subseteq lost'
  BY DEF Next, SystemStep, Attach, Detach, MainCall, Register, Unregister, RequestPermission,
     MainContinue, ReceivePermission, ReceiveDetached, Detached, MainCloses, Destroy, CloseAll,
     Clear, Quit, AsyncStep, Take, CheckList, CheckPermissions, CheckCompare, CheckWrite,
     CheckAgain,
     ConnectGet, ConnectNew, ConnectPut, ConnectTell, TimerDue, CameraOpen, CameraFails,
     CameraCloses, CloseConnection, Forget, Lose, blockVars, vars

\* The camera's block is let go of when it was closed, or it is lost.
LEMMA CameraLetsGo ==
    ASSUME Connections, [Next]_vars, camera.block \in opened'
    PROVE  camera'.block = camera.block \/ camera.block = None \/ camera.block \in lost'
  <1>1. CASE CameraCloses
    <2>1. camera = Doing(camera.pc, camera.device, camera.block)
      BY DEF Connections, CameraBlock
    <2>2. [camera EXCEPT !.pc = "forget"].block = camera.block
      BY <2>1 DEF Doing
    <2>3. CASE camera.pc = "opened" /\ camera' = [camera EXCEPT !.pc = "forget"]
      BY <2>2, <2>3
    <2>4. CASE Forget(camera)
      <3>1. camera.block \notin opened /\ opened' \subseteq opened
        BY <2>4 DEF Forget, Connections, CameraBlock
      <3> QED BY <3>1
    <2> QED BY <1>1, <2>3, <2>4 DEF CameraCloses
  <1>2. CASE \E d \in Wanted : CameraOpen(d)
    <2>1. PICK d \in Wanted : CameraOpen(d)
      BY <1>2
    <2>2. d \in Devices /\ Free(d) # {} /\ opened' \subseteq opened \cup {New(d)}
      BY <2>1, MonitorAssumption DEF CameraOpen, Construct
    <2>3. camera.block \in opened
      BY <2>2, NewIsNew
    <2> QED BY <2>1, <2>3 DEF CameraOpen, Lose
  <1>3. CASE ~CameraCloses /\ ~\E d \in Wanted : CameraOpen(d)
    BY <1>3 DEF Next, SystemStep, Attach, Detach, MainCall, Register, Unregister,
       RequestPermission, MainContinue, ReceivePermission, ReceiveDetached, Detached, MainCloses,
       Destroy, CloseAll, Clear, Quit, AsyncStep, Take, CheckList, CheckPermissions, CheckCompare,
       CheckWrite, CheckAgain, ConnectGet, ConnectNew, ConnectPut, ConnectTell, TimerDue,
       CameraFails, vars
  <1> QED BY <1>1, <1>2, <1>3

\* The end of a device that is received closes its connection.
LEMMA DetachKeeps ==
    Account /\ Connections /\ DetachServed /\ [Next]_vars => DetachServed'
  <1> SUFFICES ASSUME Account, Connections, DetachServed, [Next]_vars,
                      NEW b \in opened', b \notin lost', b # camera'.block, Ended(b[1])'
               PROVE  Says(broadcasts', Gone(b[1])) \/ (main'.pc = "close" /\ main'.block = b)
    BY DEF DetachServed, Gone, Message
  <1> DEFINE d == b[1]
  <1>0. d \in Wanted /\ d \in Devices /\ broadcasts \in Seq(Answers) /\ ~destroyed'
        /\ d \notin attached' /\ d \notin excused'
    BY MonitorAssumption DEF Account, Messages, Ended
  <1>1. b \in opened
    <2> SUFFICES ASSUME b \notin opened PROVE FALSE
      OBVIOUS
    <2>1. d \in granted /\ attached' = attached
      BY OpenedNow
    <2> QED BY <1>0, <2>1 DEF Account, Sets
  <1>2. b # camera.block /\ b \notin lost
    <2>1. b # None
      BY <1>1, MonitorAssumption DEF Connections, Types, Blocks
    <2> QED BY <2>1, CameraLetsGo, LostStays
  <1>3. CASE Detach(d) /\ broadcasts' = broadcasts \o <<Gone(d)>>
    <2> HIDE DEF d
    <2>1. <<Gone(d)>> \in Seq(Answers)
      BY <1>0, OneMessage
    <2>2. Says(broadcasts \o <<Gone(d)>>, Gone(d))
            <=> Says(broadcasts, Gone(d)) \/ Says(<<Gone(d)>>, Gone(d))
      BY <1>0, <2>1, SaysAdded
    <2> QED BY <1>3, <2>2, SaysOne DEF d
  <1>4. CASE Ended(d) /\ Says(broadcasts, Gone(d))
    <2>1. CASE ReceiveDetached /\ Head(broadcasts) = Gone(d)
      <3>0. Gone(d).device = d /\ b # None
        <4>1. b \in Blocks
          BY <1>1 DEF Connections, Types
        <4> QED BY <4>1, PostFields, MonitorAssumption DEF Gone, Blocks
      <3>1. /\ main.pc = "idle"
            /\ main' = Doing(IF mCtrlBlocks[d] = None THEN "detached" ELSE "close", d,
                             mCtrlBlocks[d])
            /\ excused' = IF async.device = d THEN excused \cup {d} ELSE excused
        BY <2>1, <3>0 DEF ReceiveDetached
      <3>2. main.block = None
        BY <3>1 DEF Connections, MainBlock
      <3>3. async.block = b => b = mCtrlBlocks[d]
        <4> SUFFICES ASSUME async.block = b PROVE b = mCtrlBlocks[d]
          OBVIOUS
        <4>1. async.pc \in {"put", "tell"} /\ async.device # d
          BY <1>0, <3>0, <3>1 DEF Connections, AsyncBlock
        <4>2. Kept(b)
          BY <1>1, <1>2, <4>1 DEF Connections, AsyncBlock
        <4> QED BY <1>2, <3>0, <3>2, <4>2 DEF Kept
      <3>4. b = mCtrlBlocks[d]
        BY <1>1, <1>2, <3>0, <3>2, <3>3 DEF Connections, Covered, HeldBy
      <3>5. main' = Doing("close", d, b)
        BY <3>0, <3>1, <3>4
      <3> QED BY <3>5, DoingFields
    <2>2. CASE \E next : Unregister(next)
      <3>1. d \in excused'
        BY <1>0, <1>4, <2>2 DEF Unregister, Says, Gone, ToSet
      <3> QED BY <1>0, <3>1
    <2>3. ASSUME NEW r \in Seq(Answers), broadcasts' = broadcasts \o r
          PROVE  Says(broadcasts', Gone(d))
      BY <1>0, <1>4, <2>3, SaysAdded
    <2>4. CASE \/ \E e \in Devices : Detach(e) /\ broadcasts' = broadcasts \o <<Gone(e)>>
               \/ \E e \in Wanted, what \in {"granted", "denied"} :
                     RequestPermission(e) /\ broadcasts' = broadcasts \o <<Message(what, e)>>
      BY <2>3, <2>4, OneMessage
    <2>5. CASE broadcasts # <<>> /\ broadcasts' = Tail(broadcasts) /\ Head(broadcasts) # Gone(d)
      BY <1>0, <1>4, <2>5, SaysTaken
    <2>6. Head(broadcasts) = Gone(d) => Head(broadcasts).what = "detached"
      BY PostFields DEF Gone
    <2>7. CASE broadcasts' = broadcasts
      BY <1>4, <2>7
    <2> QED BY <2>1, <2>2, <2>4, <2>5, <2>6, <2>7, MainSteps
  <1>5. CASE Ended(d) /\ main.pc = "close" /\ main.block = b
    <2>1. ~MainCloses
      BY <1>1, <1>5 DEF MainCloses, CloseConnection, Forget
    <2>2. main' = main
      BY <1>5, <2>1 DEF Next, SystemStep, Attach, Detach, MainCall, Register, Unregister, Begin,
         RequestPermission, MainContinue, ReceivePermission, ReceiveDetached, Detached, Destroy,
         CloseAll, Clear, Quit, AsyncStep, Take, CheckList, CheckPermissions, CheckCompare,
         CheckWrite,
         CheckAgain, ConnectGet, ConnectNew, ConnectPut, ConnectTell, TimerDue, CameraOpen,
         CameraFails, CameraCloses, vars
    <2> QED BY <1>5, <2>2
  <1>6. Ended(d) => Says(broadcasts, Gone(d)) \/ (main.pc = "close" /\ main.block = b)
    BY <1>1, <1>2 DEF DetachServed
  <1>7. \/ Ended(d)
        \/ Detach(d) /\ broadcasts' = broadcasts \o <<Gone(d)>>
    <2> HIDE DEF d
    <2>1. Ended(d)'
      BY DEF d, Ended
    <2> QED BY <1>0, <2>1, EndsWhenDetached
  <1> QED BY <1>3, <1>4, <1>5, <1>6, <1>7

-----------------------------------------------------------------------------

\* For any number of devices, whatever is connected meanwhile: the safe part of
\* DetachCloses (onReceive, UsbControlBlock.close).
THEOREM DetachAlwaysServed == Spec => []DetachServed
  <1>1. Init => DetachServed
    BY DEF Init, DetachServed
  <1>2. Account /\ Connections /\ DetachServed /\ [Next]_vars => DetachServed'
    BY DetachKeeps
  <1> QED BY <1>1, <1>2, AlwaysAccounted, AlwaysConnected, PTL DEF Spec
=============================================================================
