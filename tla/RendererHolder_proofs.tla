----------------------- MODULE RendererHolder_proofs ------------------------
(***************************************************************************)
(* For any number of callers, surfaces and pending requests: a Request is  *)
(* in one place at a time, as long as one thread at most asks for frames   *)
(* and removeRequest is not overtaken by the worker.                       *)
(*                                                                         *)
(* The pool is filled by the worker with the Request it has processed and  *)
(* by removeRequest with the one it has found.  The first is in no other   *)
(* place because the worker took it out of the queue.  The second is,      *)
(* because remove takes out the first Request of the queue that equals the *)
(* one found, and no Request before that one is a draw request.            *)
(*                                                                         *)
(* A caller that waits for its surface has a request that the worker will  *)
(* come to, and the answer that wakes it is its own, as long as one thread *)
(* at a time adds and removes surfaces.                                    *)
(*                                                                         *)
(* The notifies of the still capture are not lost while the holder runs,   *)
(* and a release has its quit message on the way to the worker.            *)
(***************************************************************************)
EXTENDS RendererHolder, FiniteSetTheorems, FunctionTheorems, SequenceTheorems,
        WellFoundedInduction, TLAPS

\* Objects can be made without end.
EndlessRequests == \A S \in SUBSET Requests : IsFiniteSet(S) => S # Requests

\* One thread at most calls requestFrame.
OneFrameCaller == \A c, d \in FrameCallers : c = d

Whats == {"none", "draw", "add", "remove", "recreate", "result", "quit"}
Messages ==
    {m \in [what : Whats, arg : Ids \cup {None}, forResult : {"none", "recreate"}] :
        m.what = "add" => m.arg \in Ids}
Calls == {"idle", "add", "addWait", "remove", "removeWait", "result", "find",
               "removeRequest", "offerDraw", "stillWait", "clear", "clearOnly",
               "join", "stopHolder"}

Types ==
    /\ mRequestPool \in [Requests -> Nat]
    /\ mRequestQueue \in Seq(Requests)
    /\ request \in [Requests -> Messages]
    /\ current \in Requests \cup {None}
    /\ mine \in [Callers -> Requests \cup {None}]
    /\ api \in [Callers -> Calls]
    /\ arg \in [Callers -> Ids]

\* No Request is queued twice, or queued before it was filled in.
Queued ==
    /\ \A i, j \in DOMAIN mRequestQueue : mRequestQueue[i] = mRequestQueue[j] => i = j
    /\ \A i \in DOMAIN mRequestQueue :
          /\ mRequestPool[mRequestQueue[i]] = 0
          /\ mRequestQueue[i] # current
          /\ request[mRequestQueue[i]].what # "none"

Pooling ==
    /\ \A q \in Requests : mRequestPool[q] <= 1
    /\ current # None => mRequestPool[current] = 0

\* The Request that removeRequest has found is not pooled, and no draw
\* request comes before it.
Found(q) ==
    /\ q \in Requests /\ mRequestPool[q] = 0 /\ q # current
    /\ request[q].what = "draw"
    /\ \A i, j \in DOMAIN mRequestQueue :
          mRequestQueue[j] = q /\ i < j => request[mRequestQueue[i]].what # "draw"

Finding ==
    overtaken = FALSE =>
       \A c \in Callers : api[c] = "removeRequest" => c \in FrameCallers /\ Found(mine[c])

OneFinder == \A c \in Callers : api[c] = "find" => c \in FrameCallers

Owning == Types /\ Queued /\ Pooling /\ OneFinder /\ Finding

-----------------------------------------------------------------------------
(* Requests *)

\* The values of a finite sequence, or of a function on a finite set, do not
\* exhaust the objects.
LEMMA SomeUnreferred ==
    ASSUME EndlessRequests, Types, IsFiniteSet(Callers), NEW queue \in Seq(Requests), Pooled = {}
    PROVE  Unreferred(queue) # {}
  <1> DEFINE M == {mine[c] : c \in Callers}
             U == ToSet(queue) \cup M \cup {current}
  <1>1. IsFiniteSet(ToSet(queue))
    <2>1. ToSet(queue) = {queue[i] : i \in 1..Len(queue)}
      BY DEF ToSet
    <2>2. queue \in [1..Len(queue) -> ToSet(queue)]
      BY <2>1
    <2>3. queue \in Surjection(1..Len(queue), ToSet(queue))
      BY <2>1, <2>2, Fun_IsSurj
    <2>4. IsFiniteSet(1..Len(queue))
      BY FS_Interval
    <2> QED BY <2>3, <2>4, FS_Surjection
  <1>2. IsFiniteSet(M)
    <2>1. mine \in [Callers -> M] /\ \A t \in M : \E c \in Callers : mine[c] = t
      BY DEF Types
    <2>2. mine \in Surjection(Callers, M)
      BY <2>1, Fun_IsSurj
    <2> QED BY <2>2, FS_Surjection
  <1>3. IsFiniteSet(U)
    BY <1>1, <1>2, FS_Union, FS_AddElement
  <1>4. IsFiniteSet(U \cap Requests)
    BY <1>3, FS_Subset
  <1>5. PICK q \in Requests : q \notin U
    BY <1>4 DEF EndlessRequests
  <1> QED BY <1>5 DEF Unreferred

\* An obtained Request is in no other place.
LEMMA ObtainedIsFree ==
    ASSUME EndlessRequests, IsFiniteSet(Callers), Owning, overtaken = FALSE,
           NEW queue \in {mRequestQueue, <<>>}
    PROVE  /\ Obtained(queue) \in Requests
           /\ Obtained(queue) # current
           /\ \A i \in DOMAIN queue : queue[i] # Obtained(queue)
           /\ \A c \in Callers : api[c] = "removeRequest" => mine[c] # Obtained(queue)
  <1> DEFINE q == Obtained(queue)
  <1>1. queue \in Seq(Requests)
    <2>1. mRequestQueue \in Seq(Requests)
      BY DEF Owning, Types
    <2>2. <<>> \in Seq(Requests)
      OBVIOUS
    <2> QED BY <2>1, <2>2
  <1>2. CASE Pooled # {}
    <2>1. q \in Pooled
      BY <1>2 DEF Obtained
    <2>2. q \in Requests /\ mRequestPool[q] > 0
      BY <2>1 DEF Pooled
    <2>3. mRequestPool[q] # 0
      BY <2>2 DEF Owning, Types
    <2> QED BY <2>2, <2>3, <1>1, TaskAssumption DEF Owning, Queued, Pooling, Finding, Found
  <1>3. CASE Pooled = {}
    <2>1. q \in Unreferred(queue)
      BY <1>1, <1>3, SomeUnreferred DEF Obtained, Owning
    <2> QED BY <2>1, <1>1 DEF Unreferred, ToSet
  <1> QED BY <1>2, <1>3

\* What stays as it was.
LEMMA NothingMoved ==
    ASSUME Owning, UNCHANGED <<taskVars, mine, overtaken>>, current' \in {current, None},
           api' \in [Callers -> Calls], arg' \in [Callers -> Ids],
           \A c \in Callers : api'[c] \in {"find", "removeRequest"} =>
               api'[c] = api[c] \/ (api'[c] = "find" /\ c \in FrameCallers)
    PROVE  Owning'
  <1> USE DEF Owning
  <1>1. Types'
    BY DEF Types, taskVars
  <1>2. Queued'
    BY TaskAssumption DEF Types, Queued, taskVars
  <1>3. Pooling' /\ OneFinder'
    BY DEF Pooling, OneFinder, taskVars
  <1>4. Finding'
    BY TaskAssumption DEF Finding, Found, taskVars
  <1> QED BY <1>1, <1>2, <1>3, <1>4

\* Filling in an obtained Request and queueing it, or queueing it alone.
LEMMA PutKeepsOwning ==
    ASSUME Owning, overtaken = FALSE, NEW queue \in {mRequestQueue, <<>>}, NEW q \in Requests,
           q # current, \A i \in DOMAIN queue : queue[i] # q,
           \A c \in Callers : api[c] = "removeRequest" => mine[c] # q,
           NEW what \in Whats \ {"none"}, NEW a \in Ids \cup {None},
           what = "add" => a \in Ids,
           NEW forResult \in {"none", "recreate"},
           Put(queue, q, what, a, forResult),
           UNCHANGED <<current, overtaken>>,
           mine' \in [Callers -> Requests \cup {None}],
           api' \in [Callers -> Calls], arg' \in [Callers -> Ids],
           \A c \in Callers : api'[c] \in {"find", "removeRequest"} =>
               api'[c] = api[c] /\ mine'[c] = mine[c]
    PROVE  Owning'
  <1> USE DEF Owning
  <1>1. /\ mRequestPool' \in [Requests -> Nat]
        /\ \A p \in Requests \ {q} : mRequestPool'[p] = mRequestPool[p]
        /\ mRequestPool'[q] = 0
    BY DEF Types, Put, Pooling
  <1>2. /\ request' \in [Requests -> Messages] /\ request'[q].what = what
        /\ \A p \in Requests \ {q} : request'[p] = request[p]
    BY DEF Types, Put, Message, Messages
  <1>3. queue \in Seq(Requests) /\ Len(queue) \in Nat /\ DOMAIN queue = 1..Len(queue)
    <2>1. mRequestQueue \in Seq(Requests)
      BY DEF Types
    <2>2. <<>> \in Seq(Requests)
      OBVIOUS
    <2>3. queue \in Seq(Requests)
      BY <2>1, <2>2
    <2> QED BY <2>3
  <1>4. /\ mRequestQueue' \in Seq(Requests)
        /\ DOMAIN mRequestQueue' = 1..(Len(queue) + 1)
        /\ \A i \in 1..Len(queue) : mRequestQueue'[i] = queue[i] /\ queue[i] \in Requests \ {q}
        /\ mRequestQueue'[Len(queue) + 1] = q
    BY <1>3 DEF Put
  <1>5. /\ \A i, j \in DOMAIN queue : queue[i] = queue[j] => i = j
        /\ \A i \in DOMAIN queue : /\ mRequestPool[queue[i]] = 0 /\ queue[i] # current
                                   /\ request[queue[i]].what # "none"
    BY DEF Queued
  <1>6. Types'
    BY <1>1, <1>2, <1>4 DEF Types
  <1>7. Queued'
    <2>1. \A i \in 1..Len(queue) + 1 : i \in 1..Len(queue) \/ i = Len(queue) + 1
      BY <1>3
    <2>2. \A i, j \in DOMAIN mRequestQueue' : mRequestQueue'[i] = mRequestQueue'[j] => i = j
      BY <2>1, <1>3, <1>4, <1>5
    <2>3. \A i \in DOMAIN mRequestQueue' :
             /\ mRequestPool'[mRequestQueue'[i]] = 0
             /\ mRequestQueue'[i] # current'
             /\ request'[mRequestQueue'[i]].what # "none"
      <3> SUFFICES ASSUME NEW i \in 1..(Len(queue) + 1)
                   PROVE  /\ mRequestPool'[mRequestQueue'[i]] = 0
                          /\ mRequestQueue'[i] # current
                          /\ request'[mRequestQueue'[i]].what # "none"
        BY <1>4
      <3>1. CASE i \in 1..Len(queue)
        <4>1. mRequestQueue'[i] = queue[i] /\ queue[i] \in Requests \ {q}
          BY <3>1, <1>4
        <4>2. mRequestPool[queue[i]] = 0 /\ queue[i] # current /\ request[queue[i]].what # "none"
          BY <3>1, <1>3, <1>5
        <4>3. mRequestPool'[queue[i]] = mRequestPool[queue[i]] /\ request'[queue[i]] = request[queue[i]]
          BY <4>1, <1>1, <1>2
        <4> QED BY <4>1, <4>2, <4>3
      <3>2. CASE i = Len(queue) + 1
        <4>1. mRequestQueue'[i] = q
          BY <3>2, <1>4
        <4> QED BY <4>1, <1>1, <1>2
      <3> QED BY <2>1, <3>1, <3>2
    <2> QED BY <2>2, <2>3 DEF Queued
  <1>8. Pooling'
    <2>1. \A p \in Requests : mRequestPool'[p] <= 1
      <3>1. \A p \in Requests : mRequestPool[p] <= 1
        BY DEF Pooling
      <3>2. mRequestPool'[q] <= 1
        BY <1>1
      <3> QED BY <1>1, <3>1, <3>2
    <2>2. current # None => current \in Requests \ {q} /\ mRequestPool[current] = 0
      BY DEF Pooling, Types
    <2> QED BY <1>1, <2>1, <2>2 DEF Pooling
  <1>9. OneFinder'
    BY DEF OneFinder
  <1>10. Finding'
    <2> SUFFICES ASSUME NEW c \in Callers, api'[c] = "removeRequest"
                 PROVE  c \in FrameCallers /\ Found(mine[c])'
      BY DEF Finding
    <2>1. api[c] = "removeRequest" /\ mine'[c] = mine[c]
      OBVIOUS
    <2>2. c \in FrameCallers /\ Found(mine[c]) /\ mine[c] # q
      BY <2>1 DEF Finding
    <2>3. \A i, j \in DOMAIN queue :
             queue[j] = mine[c] /\ i < j => request[queue[i]].what # "draw"
      BY <2>2 DEF Found
    <2>4. \A i, j \in DOMAIN mRequestQueue' :
             mRequestQueue'[j] = mine[c] /\ i < j => request'[mRequestQueue'[i]].what # "draw"
      <3> SUFFICES ASSUME NEW i \in 1..(Len(queue) + 1), NEW j \in 1..(Len(queue) + 1),
                          mRequestQueue'[j] = mine[c], i < j
                   PROVE  request'[mRequestQueue'[i]].what # "draw"
        BY <1>4
      <3>1. j \in 1..Len(queue) /\ i \in 1..Len(queue)
        BY <1>3, <1>4, <2>2
      <3>2. request[queue[i]].what # "draw"
        BY <3>1, <2>3, <1>3, <1>4
      <3> QED BY <3>1, <3>2, <1>2, <1>4
    <2> QED BY <2>1, <2>2, <2>4, <1>1, <1>2 DEF Found
  <1> QED BY <1>6, <1>7, <1>8, <1>9, <1>10

\* offer keeps everything in its place.
LEMMA OfferKeepsOwning ==
    ASSUME EndlessRequests, IsFiniteSet(Callers), Owning, overtaken = FALSE,
           NEW what \in Whats \ {"none"}, NEW a \in Ids \cup {None},
           what = "add" => a \in Ids, Offer(what, a),
           UNCHANGED <<current, overtaken, mine>>,
           api' \in [Callers -> Calls], arg' \in [Callers -> Ids],
           \A c \in Callers : api'[c] \in {"find", "removeRequest"} => api'[c] = api[c]
    PROVE  Owning'
  <1> DEFINE q == Obtained(mRequestQueue)
  <1>1. /\ q \in Requests /\ q # current
        /\ \A i \in DOMAIN mRequestQueue : mRequestQueue[i] # q
        /\ \A c \in Callers : api[c] = "removeRequest" => mine[c] # q
    BY ObtainedIsFree
  <1>2. request[q].forResult \in {"none", "recreate"}
    BY <1>1 DEF Owning, Types, Messages
  <1>3. Put(mRequestQueue, q, what, a, request[q].forResult)
    BY DEF Offer
  <1>4. mine' \in [Callers -> Requests \cup {None}] /\ \A c \in Callers : mine'[c] = mine[c]
    BY DEF Owning, Types
  <1> HIDE DEF q
  <1> QED BY <1>1, <1>2, <1>3, <1>4, PutKeepsOwning

-----------------------------------------------------------------------------
(* The worker *)

\* The worker takes the first Request out of the queue.
LEMMA TakeKeepsOwning == Owning /\ overtaken = FALSE /\ TakeRequest => Owning'
  <1> SUFFICES ASSUME Owning, overtaken = FALSE, TakeRequest PROVE Owning'
    OBVIOUS
  <1> USE DEF Owning
  <1> DEFINE Q == mRequestQueue
  <1>1. /\ Q \in Seq(Requests) /\ Q # <<>> /\ Len(Q) \in Nat /\ DOMAIN Q = 1..Len(Q)
        /\ mRequestQueue' = Tail(Q) /\ current' = Q[1]
        /\ UNCHANGED <<mRequestPool, request, mine, api, arg>>
    BY DEF Types, TakeRequest, callerVars
  <1>2. /\ 1 \in DOMAIN Q /\ Q[1] \in Requests
        /\ mRequestQueue' \in Seq(Requests) /\ DOMAIN mRequestQueue' = 1..(Len(Q) - 1)
        /\ \A i \in 1..(Len(Q) - 1) : mRequestQueue'[i] = Q[i + 1] /\ i + 1 \in DOMAIN Q
    BY <1>1
  <1>3. Types'
    BY <1>1, <1>2 DEF Types
  <1>4. Queued'
    <2>1. /\ \A i, j \in DOMAIN Q : Q[i] = Q[j] => i = j
          /\ \A i \in DOMAIN Q : mRequestPool[Q[i]] = 0 /\ request[Q[i]].what # "none"
      BY DEF Queued
    <2>2. \A i, j \in DOMAIN mRequestQueue' : mRequestQueue'[i] = mRequestQueue'[j] => i = j
      <3> SUFFICES ASSUME NEW i \in 1..(Len(Q) - 1), NEW j \in 1..(Len(Q) - 1),
                          mRequestQueue'[i] = mRequestQueue'[j]
                   PROVE  i = j
        BY <1>2
      <3>1. i + 1 = j + 1
        BY <1>2, <2>1
      <3> QED BY <3>1
    <2>3. \A i \in DOMAIN mRequestQueue' :
             /\ mRequestPool[mRequestQueue'[i]] = 0 /\ mRequestQueue'[i] # Q[1]
             /\ request[mRequestQueue'[i]].what # "none"
      <3> SUFFICES ASSUME NEW i \in 1..(Len(Q) - 1)
                   PROVE  /\ mRequestPool[Q[i + 1]] = 0 /\ Q[i + 1] # Q[1]
                          /\ request[Q[i + 1]].what # "none"
        BY <1>2
      <3>1. i + 1 # 1 /\ i + 1 \in DOMAIN Q
        BY <1>2
      <3> QED BY <3>1, <1>2, <2>1
    <2> QED BY <2>2, <2>3, <1>1 DEF Queued
  <1>5. Pooling' /\ OneFinder'
    BY <1>1, <1>2 DEF Pooling, OneFinder, Queued
  <1>6. Finding'
    <2> SUFFICES ASSUME overtaken' = FALSE, NEW c \in Callers, api[c] = "removeRequest"
                 PROVE  c \in FrameCallers /\ Found(mine[c])'
      BY <1>1 DEF Finding
    <2>1. c \in FrameCallers /\ Found(mine[c])
      BY DEF Finding
    <2>2. mine[c] # Q[1]
      BY <1>1 DEF TakeRequest
    <2>3. \A i, j \in DOMAIN mRequestQueue' :
             mRequestQueue'[j] = mine[c] /\ i < j => request[mRequestQueue'[i]].what # "draw"
      <3> SUFFICES ASSUME NEW i \in 1..(Len(Q) - 1), NEW j \in 1..(Len(Q) - 1),
                          mRequestQueue'[j] = mine[c], i < j
                   PROVE  request[mRequestQueue'[i]].what # "draw"
        BY <1>2
      <3>1. i + 1 \in DOMAIN Q /\ j + 1 \in DOMAIN Q /\ i + 1 < j + 1
        BY <1>2
      <3>2. Q[j + 1] = mine[c] /\ mRequestQueue'[i] = Q[i + 1]
        BY <1>2
      <3> QED BY <3>1, <3>2, <2>1 DEF Found
    <2> QED BY <2>1, <2>2, <2>3, <1>1 DEF Found
  <1> QED BY <1>3, <1>4, <1>5, <1>6

\* The Request that is processed may be blanked and given back: it is in no
\* other place.
LEMMA CurrentKeepsOwning ==
    ASSUME Owning,
           request' \in {request, [request EXCEPT ![current] = Blank]},
           \/ UNCHANGED <<mRequestPool, current>>
           \/ GiveBack(current) /\ current' = None,
           UNCHANGED <<mRequestQueue, mine, overtaken, api, arg>>
    PROVE  Owning'
  <1> USE DEF Owning
  <1>1. Blank \in Messages
    BY DEF Blank, Message, Messages, Whats
  <1>2. /\ request' \in [Requests -> Messages]
        /\ \A p \in Requests : p # current => request'[p] = request[p]
    BY <1>1 DEF Types
  <1>3. /\ mRequestPool' \in [Requests -> Nat]
        /\ \A p \in Requests : p # current => mRequestPool'[p] = mRequestPool[p]
        /\ \A p \in Requests : mRequestPool'[p] <= 1
    <2>1. CASE UNCHANGED mRequestPool
      BY <2>1 DEF Types, Pooling
    <2>2. CASE GiveBack(current)
      <3>1. mRequestPool' = [mRequestPool EXCEPT ![current] = @ + 1]
        BY <2>2 DEF GiveBack
      <3>2. CASE current = None
        <4>1. mRequestPool' = mRequestPool
          BY <3>1, <3>2, TaskAssumption DEF Types
        <4> QED BY <4>1 DEF Types, Pooling
      <3>3. CASE current # None
        <4>1. current \in Requests /\ mRequestPool[current] = 0 /\ 0 + 1 = 1
          BY <3>3 DEF Types, Pooling
        <4>2. mRequestPool' = [mRequestPool EXCEPT ![current] = 1]
          BY <3>1, <4>1
        <4> QED BY <4>1, <4>2 DEF Types, Pooling
      <3> QED BY <3>2, <3>3
    <2> QED BY <2>1, <2>2
  <1>4. current' \in {current, None} /\ current' \in Requests \cup {None}
    BY DEF Types
  <1>5. Types'
    BY <1>2, <1>3, <1>4 DEF Types
  <1>6. Queued'
    BY <1>2, <1>3, <1>4, TaskAssumption DEF Queued, Types
  <1>7. Pooling' /\ OneFinder'
    BY <1>3, TaskAssumption DEF Pooling, OneFinder
  <1>8. Finding'
    <2> SUFFICES ASSUME overtaken = FALSE, NEW c \in Callers, api[c] = "removeRequest"
                 PROVE  c \in FrameCallers /\ Found(mine[c])'
      BY DEF Finding
    <2>1. c \in FrameCallers /\ Found(mine[c])
      BY DEF Finding
    <2>2. \A i \in DOMAIN mRequestQueue : request'[mRequestQueue[i]] = request[mRequestQueue[i]]
      BY <1>2 DEF Queued, Types
    <2> QED BY <2>1, <2>2, <1>2, <1>3, <1>4, TaskAssumption DEF Found
  <1> QED BY <1>5, <1>6, <1>7, <1>8

\* Those who wait for a client or a picture are told.
LEMMA Told ==
    ASSUME Types, NEW woken \in SUBSET Calls, "find" \notin woken, "removeRequest" \notin woken,
           api' = [c \in Callers |-> IF api[c] \in woken THEN "idle" ELSE api[c]]
    PROVE  /\ api' \in [Callers -> Calls]
           /\ \A c \in Callers : api'[c] \in {"find", "removeRequest"} => api'[c] = api[c]
  BY DEF Types, Calls

\* The worker's steps.
LEMMA WorkerKeepsOwning ==
    ASSUME EndlessRequests, IsFiniteSet(Callers), Owning, overtaken = FALSE, WorkerStep
    PROVE  Owning'
  <1>1. Types
    BY DEF Owning
  <1>2. api \in [Callers -> Calls] /\ arg \in [Callers -> Ids]
    BY <1>1 DEF Types
  <1>3. CASE Test \/ Quit \/ Finish \/ HandleRemoveAll
    <2>1. /\ UNCHANGED <<taskVars, mine, overtaken, api, arg>>
          /\ current' \in {current, None}
      BY <1>3 DEF Test, Quit, Finish, HandleRemoveAll, callerVars
    <2> QED BY <2>1, <1>2, NothingMoved
  <1>4. CASE TakeRequest
    BY <1>4, TakeKeepsOwning
  <1>5. CASE HandleDraw
    <2>1. UNCHANGED <<current, mine, overtaken, api, arg>>
      BY <1>5 DEF HandleDraw, callerVars
    <2>2. CASE UNCHANGED taskVars
      BY <2>1, <2>2, <1>2, NothingMoved
    <2>3. CASE Offer("recreate", None)
      <3>1. "recreate" \in Whats \ {"none"} /\ None \in Ids \cup {None}
        BY DEF Whats
      <3> QED BY <2>1, <2>3, <3>1, <1>2, OfferKeepsOwning
    <2> QED BY <1>5, <2>2, <2>3 DEF HandleDraw
  <1>6. CASE HandleAddSurface \/ HandleRemoveSurface
    <2>1. UNCHANGED <<taskVars, current, mine, overtaken, arg>> /\ NotifyClients
      BY <1>6 DEF HandleAddSurface, HandleRemoveSurface
    <2>2. {"addWait", "removeWait"} \in SUBSET Calls
      BY DEF Calls
    <2>3. /\ api' \in [Callers -> Calls]
          /\ \A c \in Callers : api'[c] \in {"find", "removeRequest"} => api'[c] = api[c]
      BY <2>1, <2>2, <1>1, Told DEF NotifyClients
    <2> QED BY <2>1, <2>3, <1>2, NothingMoved
  <1>7. CASE HandleReCreateMasterSurface
    <2>1. /\ UNCHANGED <<mRequestPool, mRequestQueue, current, mine, overtaken, api, arg>>
          /\ request' \in {request, [request EXCEPT ![current] = Blank]}
      BY <1>7 DEF HandleReCreateMasterSurface, callerVars
    <2> QED BY <2>1, CurrentKeepsOwning
  <1>8. CASE Recycle
    <2>1. /\ UNCHANGED <<mRequestQueue, mine, overtaken, api, arg>>
          /\ request' = [request EXCEPT ![current] = Blank]
          /\ GiveBack(current) /\ current' = None
      BY <1>8 DEF Recycle, callerVars
    <2> QED BY <2>1, CurrentKeepsOwning
  <1>9. CASE OnStop
    <2>1. /\ UNCHANGED <<taskVars, current, mine, overtaken, arg>>
          /\ api' = [c \in Callers |-> IF api[c] \in {"stillWait"} THEN "idle" ELSE api[c]]
      BY <1>9 DEF OnStop, StopHolder, NotifyHolder
    <2>2. {"stillWait"} \in SUBSET Calls
      BY DEF Calls
    <2>3. /\ api' \in [Callers -> Calls]
          /\ \A c \in Callers : api'[c] \in {"find", "removeRequest"} => api'[c] = api[c]
      BY <2>1, <2>2, <1>1, Told
    <2> QED BY <2>1, <2>3, <1>2, NothingMoved
  <1> QED BY <1>3, <1>4, <1>5, <1>6, <1>7, <1>8, <1>9 DEF WorkerStep


-----------------------------------------------------------------------------
(* The callers *)

\* A set of numbers has a least one.
LEMMA Least ==
    ASSUME NEW E, E \subseteq Nat, E # {}
    PROVE  \E i \in E : \A j \in E : i <= j
  <1> DEFINE Less == OpToRel(<, Nat)
  <1>1. IsWellFoundedOn(Less, Nat)
    BY NatLessThanWellFounded
  <1>2. \A i, j \in Nat : <<j, i>> \in Less <=> j < i
    BY DEF OpToRel
  <1> HIDE DEF Less
  <1>3. PICK i \in E : \A j \in E : ~(<<j, i>> \in Less)
    BY <1>1, WFMin
  <1>4. \A j \in E : i \in Nat /\ j \in Nat /\ ~(j < i)
    BY <1>2, <1>3
  <1>5. \A j \in E : i <= j
    BY <1>4
  <1> QED BY <1>3, <1>5

\* A sequence without its element at k.
LEMMA RemoveAtIndex ==
    ASSUME NEW S, NEW s \in Seq(S), NEW k \in 1..Len(s)
    PROVE  /\ RemoveAt(s, k) \in Seq(S)
           /\ DOMAIN RemoveAt(s, k) = 1..(Len(s) - 1)
           /\ \A i \in 1..(Len(s) - 1) : RemoveAt(s, k)[i] = IF i < k THEN s[i] ELSE s[i + 1]
  <1> DEFINE front == SubSeq(s, 1, k - 1)
             back == SubSeq(s, k + 1, Len(s))
  <1>1. Len(s) \in Nat /\ k \in Nat /\ k >= 1 /\ k <= Len(s)
    OBVIOUS
  <1>2. /\ front \in Seq(S) /\ Len(front) = k - 1
        /\ \A i \in 1..(k - 1) : front[i] = s[i]
    BY <1>1
  <1>3. /\ back \in Seq(S) /\ Len(back) = Len(s) - k
        /\ \A i \in 1..(Len(s) - k) : back[i] = s[k + i]
    BY <1>1
  <1>4. RemoveAt(s, k) = front \o back
    BY DEF RemoveAt
  <1> HIDE DEF front, back
  <1>5. /\ front \o back \in Seq(S) /\ Len(front \o back) = Len(s) - 1
        /\ \A i \in 1..(Len(s) - 1) :
              (front \o back)[i] = IF i < k THEN front[i] ELSE back[i - (k - 1)]
    <2>1. /\ front \o back \in Seq(S) /\ Len(front \o back) = Len(front) + Len(back)
          /\ \A i \in 1..(Len(front) + Len(back)) :
                (front \o back)[i] = IF i <= Len(front) THEN front[i] ELSE back[i - Len(front)]
      BY <1>2, <1>3, ConcatProperties
    <2>2. Len(front) + Len(back) = Len(s) - 1
      BY <1>1, <1>2, <1>3
    <2>3. \A i \in 1..(Len(s) - 1) : i <= Len(front) <=> i < k
      BY <1>1, <1>2
    <2> QED BY <1>2, <2>1, <2>2, <2>3
  <1>6. \A i \in 1..(Len(s) - 1) :
           /\ i < k => i \in 1..(k - 1)
           /\ ~(i < k) => i - (k - 1) \in 1..(Len(s) - k) /\ k + (i - (k - 1)) = i + 1
    BY <1>1
  <1> QED BY <1>1, <1>2, <1>3, <1>4, <1>5, <1>6

\* removeRequest takes the Request that it has found out of the queue, if it
\* is still there.
LEMMA RemovedIsOut ==
    ASSUME Types, Queued, NEW q, Found(q)
    PROVE  LET R == Removed(mRequestQueue, q)
           IN  /\ R \in Seq(Requests)
               /\ \A i \in DOMAIN R : R[i] # q
               /\ \A i, j \in DOMAIN R : R[i] = R[j] => i = j
               /\ \A i \in DOMAIN R : \E n \in DOMAIN mRequestQueue : R[i] = mRequestQueue[n]
  <1> DEFINE Q == mRequestQueue
             Equal(i) == request[Q[i]] = request[q]
             First(i) == Equal(i) /\ \A j \in 1..(i - 1) : request[Q[j]] # request[q]
  <1>1. Q \in Seq(Requests) /\ Len(Q) \in Nat /\ DOMAIN Q = 1..Len(Q)
    BY DEF Types
  <1>2. \A i, j \in DOMAIN Q : Q[i] = Q[j] => i = j
    BY DEF Queued
  <1>3. CASE ~\E i \in DOMAIN Q : Equal(i)
    <2>1. Removed(Q, q) = Q
      BY <1>3 DEF Removed
    <2> QED BY <1>1, <1>2, <1>3, <2>1
  <1>4. CASE \E i \in DOMAIN Q : Equal(i)
    <2> DEFINE k == CHOOSE i \in DOMAIN Q : First(i)
               R == RemoveAt(Q, k)
    <2>1. \E i \in DOMAIN Q : First(i)
      <3> DEFINE E == {i \in 1..Len(Q) : Equal(i)}
      <3>1. E # {} /\ E \subseteq Nat
        BY <1>1, <1>4
      <3>2. PICK i \in E : \A j \in E : i <= j
        <4> HIDE DEF E
        <4> QED BY <3>1, Least
      <3>3. \A j \in 1..(i - 1) : j \in DOMAIN Q /\ j < i
        BY <1>1, <3>2
      <3> QED BY <1>1, <3>2, <3>3
    <2>2. k \in DOMAIN Q /\ First(k)
      BY <2>1
    <2>3. Removed(Q, q) = R
      BY <1>4 DEF Removed
    <2>4. \A n \in DOMAIN Q : Q[n] = q => n = k
      <3> SUFFICES ASSUME NEW n \in DOMAIN Q, Q[n] = q PROVE n = k
        OBVIOUS
      <3>1. \A i \in DOMAIN Q : i < n => request[Q[i]].what # "draw"
        BY DEF Found
      <3>2. request[Q[k]].what = "draw"
        BY <2>2 DEF Found
      <3>3. ~(k < n)
        BY <2>2, <3>1, <3>2
      <3>4. ~(n < k)
        BY <1>1, <2>2
      <3> QED BY <1>1, <2>2, <3>3, <3>4
    <2> HIDE DEF k
    <2>5. /\ R \in Seq(Requests) /\ DOMAIN R = 1..(Len(Q) - 1)
          /\ \A i \in 1..(Len(Q) - 1) : R[i] = IF i < k THEN Q[i] ELSE Q[i + 1]
      BY <1>1, <2>2, RemoveAtIndex
    <2> HIDE DEF R
    <2>6. \A i \in 1..(Len(Q) - 1) :
             \E n \in DOMAIN Q : n = (IF i < k THEN i ELSE i + 1) /\ n # k /\ R[i] = Q[n]
      BY <1>1, <2>2, <2>5
    <2>7. \A i \in DOMAIN R : R[i] # q
      BY <2>4, <2>5, <2>6
    <2>8. \A i, j \in DOMAIN R : R[i] = R[j] => i = j
      <3> SUFFICES ASSUME NEW i \in 1..(Len(Q) - 1), NEW j \in 1..(Len(Q) - 1), R[i] = R[j]
                   PROVE  i = j
        BY <2>5
      <3>1. PICK n \in DOMAIN Q : n = (IF i < k THEN i ELSE i + 1) /\ R[i] = Q[n]
        BY <2>6
      <3>2. PICK m \in DOMAIN Q : m = (IF j < k THEN j ELSE j + 1) /\ R[j] = Q[m]
        BY <2>6
      <3>3. n = m
        BY <1>2, <3>1, <3>2
      <3> QED BY <1>1, <2>2, <3>1, <3>2, <3>3
    <2>9. \A i \in DOMAIN R : \E n \in DOMAIN Q : R[i] = Q[n]
      BY <2>5, <2>6
    <2> QED BY <2>3, <2>5, <2>7, <2>8, <2>9
  <1> QED BY <1>3, <1>4


\* removeRequest pools the Request that it has found, which is nowhere else.
LEMMA RemoveKeepsOwning ==
    ASSUME OneFrameCaller, Owning, overtaken = FALSE, NEW c \in Callers,
           RemoveRequest(c), current' = current
    PROVE  Owning'
  <1> USE DEF Owning
  <1> DEFINE q == mine[c]
             R == Removed(mRequestQueue, q)
  <1>1. /\ api[c] = "removeRequest" /\ mRequestQueue' = R
        /\ mRequestPool' = [mRequestPool EXCEPT ![q] = @ + 1]
        /\ mine' = [mine EXCEPT ![c] = None] /\ api' = [api EXCEPT ![c] = "find"]
        /\ UNCHANGED <<request, overtaken, arg>>
    BY DEF RemoveRequest, GiveBack, ApiGoto
  <1>2. c \in FrameCallers /\ Found(q)
    BY <1>1 DEF Finding
  <1>3. q \in Requests /\ mRequestPool[q] = 0 /\ q # current
    BY <1>2 DEF Found
  <1>4. /\ R \in Seq(Requests)
        /\ \A i \in DOMAIN R : R[i] # q
        /\ \A i, j \in DOMAIN R : R[i] = R[j] => i = j
        /\ \A i \in DOMAIN R : \E n \in DOMAIN mRequestQueue : R[i] = mRequestQueue[n]
    BY <1>2, RemovedIsOut
  <1> HIDE DEF R
  <1>5. mRequestPool' = [mRequestPool EXCEPT ![q] = 1]
    BY <1>1, <1>3
  <1>6. /\ mRequestPool' \in [Requests -> Nat]
        /\ \A p \in Requests : p # q => mRequestPool'[p] = mRequestPool[p]
        /\ \A p \in Requests : mRequestPool'[p] <= 1
    <2>1. /\ mRequestPool' \in [Requests -> Nat] /\ mRequestPool'[q] = 1
          /\ \A p \in Requests : p # q => mRequestPool'[p] = mRequestPool[p]
      BY <1>3, <1>5 DEF Types
    <2>2. \A p \in Requests : mRequestPool[p] <= 1
      BY DEF Pooling
    <2>3. \A p \in Requests : mRequestPool'[p] <= 1
      <3> SUFFICES ASSUME NEW p \in Requests PROVE mRequestPool'[p] <= 1
        OBVIOUS
      <3>1. CASE p = q
        BY <2>1, <3>1
      <3>2. CASE p # q
        BY <2>1, <2>2, <3>2
      <3> QED BY <3>1, <3>2
    <2> QED BY <2>1, <2>3
  <1>7. "find" \in Calls
    BY DEF Calls
  <1>8. Types'
    BY <1>1, <1>4, <1>6, <1>7 DEF Types
  <1>9. Queued'
    <2>1. \A i \in DOMAIN R : R[i] \in Requests
      BY <1>4
    <2> QED BY <2>1, <1>1, <1>4, <1>6 DEF Queued
  <1>10. Pooling'
    BY <1>3, <1>6, TaskAssumption DEF Pooling, Types
  <1>11. OneFinder'
    BY <1>1, <1>2 DEF OneFinder, Types
  <1>12. Finding'
    <2> SUFFICES ASSUME NEW d \in Callers, api'[d] = "removeRequest" PROVE FALSE
      BY DEF Finding
    <2>1. d # c /\ api[d] = "removeRequest"
      BY <1>1 DEF Types
    <2>2. d \in FrameCallers
      BY <2>1 DEF Finding
    <2> QED BY <2>1, <2>2, <1>2 DEF OneFrameCaller
  <1> QED BY <1>8, <1>9, <1>10, <1>11, <1>12

\* removeRequest finds the first draw request.
LEMMA FindKeepsOwning ==
    ASSUME Owning, NEW c \in Callers, FindRequest(c), current' = current
    PROVE  Owning'
  <1> USE DEF Owning
  <1>1. api[c] = "find" /\ UNCHANGED <<taskVars, overtaken, arg>>
    BY DEF FindRequest
  <1>2. "offerDraw" \in Calls /\ "removeRequest" \in Calls
    BY DEF Calls
  <1>3. CASE ApiGoto(c, "offerDraw") /\ UNCHANGED mine
    <2>1. api' \in [Callers -> Calls]
          /\ \A d \in Callers : api'[d] \in {"find", "removeRequest"} => api'[d] = api[d]
      BY <1>2, <1>3 DEF ApiGoto, Types
    <2>2. arg' \in [Callers -> Ids]
      BY <1>1 DEF Types
    <2> QED BY <1>1, <1>3, <2>1, <2>2, NothingMoved
  <1>4. ASSUME NEW i \in DOMAIN mRequestQueue,
               request[mRequestQueue[i]].what = "draw",
               \A j \in DOMAIN mRequestQueue : request[mRequestQueue[j]].what = "draw" => i <= j,
               mine' = [mine EXCEPT ![c] = mRequestQueue[i]], ApiGoto(c, "removeRequest")
        PROVE  Owning'
    <2> DEFINE q == mRequestQueue[i]
    <2>1. q \in Requests /\ DOMAIN mRequestQueue = 1..Len(mRequestQueue)
      BY DEF Types
    <2>2. c \in FrameCallers
      BY <1>1 DEF OneFinder
    <2>3. /\ api' = [api EXCEPT ![c] = "removeRequest"]
          /\ UNCHANGED <<mRequestPool, mRequestQueue, request>>
      BY <1>1, <1>4 DEF ApiGoto, taskVars
    <2>4. Types'
      BY <1>1, <1>2, <1>4, <2>1, <2>3 DEF Types
    <2>5. Queued' /\ Pooling'
      BY <2>3 DEF Queued, Pooling
    <2>6. OneFinder'
      BY <2>3 DEF OneFinder, Types
    <2>7. Found(q)
      <3>1. mRequestPool[q] = 0 /\ q # current
        BY DEF Queued
      <3>2. \A n, m \in DOMAIN mRequestQueue :
               mRequestQueue[m] = q /\ n < m => request[mRequestQueue[n]].what # "draw"
        <4> SUFFICES ASSUME NEW n \in DOMAIN mRequestQueue, NEW m \in DOMAIN mRequestQueue,
                            mRequestQueue[m] = q, n < m,
                            request[mRequestQueue[n]].what = "draw"
                     PROVE  FALSE
          OBVIOUS
        <4>1. m = i
          BY DEF Queued
        <4>2. i <= n
          BY <1>4
        <4> QED BY <4>1, <4>2, <2>1
      <3> QED BY <3>1, <3>2, <2>1, <1>4 DEF Found
    <2>8. Found(q)'
      BY <2>3, <2>7 DEF Found
    <2>9. Finding'
      <3> SUFFICES ASSUME overtaken = FALSE, NEW d \in Callers, api'[d] = "removeRequest"
                   PROVE  d \in FrameCallers /\ Found(mine[d])'
        BY <1>1 DEF Finding
      <3>1. CASE d = c
        <4>1. mine'[c] = q
          BY <1>4 DEF Types
        <4> QED BY <3>1, <4>1, <2>2, <2>3, <2>7 DEF Found
      <3>2. CASE d # c
        <4>1. mine'[d] = mine[d] /\ api[d] = "removeRequest"
          BY <3>2, <1>4, <2>3 DEF Types
        <4>2. d \in FrameCallers /\ Found(mine[d])
          BY <4>1 DEF Finding
        <4> QED BY <4>1, <4>2, <2>3 DEF Found
      <3> QED BY <3>1, <3>2
    <2> QED BY <2>4, <2>5, <2>6, <2>9
  <1>5. \/ ApiGoto(c, "offerDraw") /\ UNCHANGED mine
        \/ \E i \in DOMAIN mRequestQueue :
              /\ request[mRequestQueue[i]].what = "draw"
              /\ \A j \in DOMAIN mRequestQueue :
                    request[mRequestQueue[j]].what = "draw" => i <= j
              /\ mine' = [mine EXCEPT ![c] = mRequestQueue[i]]
              /\ ApiGoto(c, "removeRequest")
    BY DEF FindRequest
  <1> QED BY <1>3, <1>4, <1>5


\* Steps of a caller that only change where it is.
LEMMA MovesKeepOwning ==
    ASSUME Owning, NEW c \in Callers, current' = current, UNCHANGED <<taskVars, mine, overtaken>>,
           \/ \E next \in Calls \ {"find", "removeRequest"}, a \in Ids :
                 BeginWith(c, next, a)
           \/ \E next \in Calls \ {"find", "removeRequest"} :
                 (Begin(c, next) \/ ApiGoto(c, next)) /\ UNCHANGED arg
           \/ RequestFrame(c)
    PROVE  Owning'
  <1>1. api \in [Callers -> Calls] /\ arg \in [Callers -> Ids]
    BY DEF Owning, Types
  <1>2. "find" \in Calls
    BY DEF Calls
  <1>3. arg' \in [Callers -> Ids]
    BY <1>1 DEF BeginWith, RequestFrame, Begin
  <1>4. /\ api' \in [Callers -> Calls]
        /\ \A d \in Callers : api'[d] \in {"find", "removeRequest"} =>
               api'[d] = api[d] \/ (api'[d] = "find" /\ d \in FrameCallers)
    <2>1. \/ \E next \in Calls \ {"find", "removeRequest"} : api' = [api EXCEPT ![c] = next]
          \/ api' = [api EXCEPT ![c] = "find"] /\ c \in FrameCallers
      BY DEF BeginWith, Begin, ApiGoto, RequestFrame
    <2>2. CASE \E next \in Calls \ {"find", "removeRequest"} : api' = [api EXCEPT ![c] = next]
      BY <1>1, <2>2
    <2>3. CASE api' = [api EXCEPT ![c] = "find"] /\ c \in FrameCallers
      BY <1>1, <1>2, <2>3
    <2> QED BY <2>1, <2>2, <2>3
  <1> QED BY <1>3, <1>4, NothingMoved

\* offerAndWait keeps a reference to the Request it offers.
LEMMA OfferForResultKeepsOwning ==
    ASSUME EndlessRequests, IsFiniteSet(Callers), Owning, overtaken = FALSE,
           NEW c \in Callers, CheckMasterSurface(c), current' = current
    PROVE  Owning'
  <1> DEFINE q == Obtained(mRequestQueue)
  <1>1. /\ q \in Requests /\ q # current
        /\ \A i \in DOMAIN mRequestQueue : mRequestQueue[i] # q
        /\ \A d \in Callers : api[d] = "removeRequest" => mine[d] # q
    BY ObtainedIsFree
  <1>2. /\ Put(mRequestQueue, q, "result", None, "recreate")
        /\ mine' = [mine EXCEPT ![c] = q] /\ api' = [api EXCEPT ![c] = "result"]
        /\ UNCHANGED <<overtaken, arg>>
    BY DEF CheckMasterSurface, Begin, OfferForResult
  <1> HIDE DEF q
  <1>3. "result" \in Whats \ {"none"} /\ "result" \in Calls
    BY DEF Whats, Calls
  <1>4. /\ mine' \in [Callers -> Requests \cup {None}]
        /\ api' \in [Callers -> Calls] /\ arg' \in [Callers -> Ids]
        /\ \A d \in Callers : api'[d] \in {"find", "removeRequest"} =>
               api'[d] = api[d] /\ mine'[d] = mine[d]
    BY <1>1, <1>2, <1>3 DEF Owning, Types
  <1> QED BY <1>1, <1>2, <1>3, <1>4, PutKeepsOwning

\* Steps of a caller that offer a request or go on without.
LEMMA OffersKeepOwning ==
    ASSUME EndlessRequests, IsFiniteSet(Callers), Owning, overtaken = FALSE,
           NEW c \in Callers, AddOffer(c) \/ RemoveOffer(c) \/ OfferDraw(c), current' = current
    PROVE  Owning'
  <1>1. UNCHANGED <<mine, overtaken, arg>>
    BY DEF AddOffer, RemoveOffer, OfferDraw
  <1>2. api \in [Callers -> Calls] /\ arg \in [Callers -> Ids]
    BY DEF Owning, Types
  <1>3. {"idle", "addWait", "removeWait"} \subseteq Calls \ {"find", "removeRequest"}
    BY DEF Calls
  <1>4. /\ \E next \in {"idle", "addWait", "removeWait"} : ApiGoto(c, next)
        /\ \/ UNCHANGED taskVars
           \/ \E what \in {"add", "remove"} : Offer(what, arg[c])
           \/ Offer("draw", None)
    BY DEF AddOffer, RemoveOffer, OfferDraw
  <1>5. PICK next \in Calls \ {"find", "removeRequest"} : ApiGoto(c, next)
    BY <1>3, <1>4
  <1>6. /\ api' \in [Callers -> Calls]
        /\ \A d \in Callers : api'[d] \in {"find", "removeRequest"} => api'[d] = api[d]
    BY <1>2, <1>5 DEF ApiGoto
  <1>7. CASE UNCHANGED taskVars
    BY <1>1, <1>2, <1>6, <1>7, NothingMoved
  <1>8. ASSUME NEW what \in {"add", "remove"}, Offer(what, arg[c]) PROVE Owning'
    <2>1. what \in Whats \ {"none"} /\ arg[c] \in Ids
      BY <1>2 DEF Whats
    <2> QED BY <1>1, <1>2, <1>6, <1>8, <2>1, OfferKeepsOwning
  <1>9. CASE Offer("draw", None)
    <2>1. "draw" \in Whats \ {"none"} /\ None \in Ids \cup {None}
      BY DEF Whats
    <2> QED BY <1>1, <1>2, <1>6, <1>9, <2>1, OfferKeepsOwning
  <1> QED BY <1>4, <1>7, <1>8, <1>9

\* offerAndWait returns, and the caller lets go of its Request.
LEMMA ResultKeepsOwning ==
    ASSUME Owning, NEW c \in Callers, Result(c), current' = current
    PROVE  Owning'
  <1>1. /\ UNCHANGED <<taskVars, overtaken, arg>>
        /\ mine' = [mine EXCEPT ![c] = None] /\ api' = [api EXCEPT ![c] = "idle"]
    BY DEF Result, ApiGoto
  <1>2. "idle" \in Calls
    BY DEF Calls
  <1>3. \A d \in Callers : api'[d] \in {"find", "removeRequest"} =>
           api'[d] = api[d] /\ mine'[d] = mine[d]
    BY <1>1 DEF Owning, Types
  <1>4. Types'
    BY <1>1, <1>2 DEF Owning, Types, taskVars
  <1>5. Queued' /\ Pooling' /\ OneFinder'
    BY <1>1, <1>3 DEF Owning, Queued, Pooling, OneFinder, taskVars
  <1>6. Finding'
    BY <1>1, <1>3 DEF Owning, Finding, Found, taskVars
  <1> QED BY <1>4, <1>5, <1>6 DEF Owning

\* release clears the queue and offers the quit request.
LEMMA ReleaseClearKeepsOwning ==
    ASSUME EndlessRequests, IsFiniteSet(Callers), Owning, overtaken = FALSE,
           NEW c \in Callers, ReleaseClear(c), current' = current
    PROVE  Owning'
  <1>1. /\ UNCHANGED <<mine, overtaken, arg>>
        /\ \E next \in {"stopHolder", "join"} : ApiGoto(c, next)
        /\ UNCHANGED taskVars \/ OfferQuit
    BY DEF ReleaseClear
  <1>2. {"stopHolder", "join"} \subseteq Calls \ {"find", "removeRequest"}
    BY DEF Calls
  <1>3. /\ api' \in [Callers -> Calls] /\ arg' \in [Callers -> Ids]
        /\ mine' \in [Callers -> Requests \cup {None}]
        /\ \A d \in Callers : api'[d] \in {"find", "removeRequest"} =>
               api'[d] = api[d] /\ mine'[d] = mine[d]
    BY <1>1, <1>2 DEF Owning, Types, ApiGoto
  <1>4. CASE UNCHANGED taskVars
    BY <1>1, <1>3, <1>4, NothingMoved
  <1>5. CASE OfferQuit
    <2> DEFINE q == Obtained(<<>>)
    <2>1. /\ q \in Requests /\ q # current
          /\ \A i \in DOMAIN <<>> : <<>>[i] # q
          /\ \A d \in Callers : api[d] = "removeRequest" => mine[d] # q
      <3>1. <<>> \in {mRequestQueue, <<>>}
        OBVIOUS
      <3> QED BY <3>1, ObtainedIsFree
    <2>2. request[q].forResult \in {"none", "recreate"}
      BY <2>1 DEF Owning, Types, Messages
    <2>3. Put(<<>>, q, "quit", None, request[q].forResult)
      BY <1>5 DEF OfferQuit
    <2>4. "quit" \in Whats \ {"none"} /\ None \in Ids \cup {None}
      BY DEF Whats
    <2> HIDE DEF q
    <2>5. <<>> \in {mRequestQueue, <<>>}
      OBVIOUS
    <2> QED BY <1>1, <1>3, <2>1, <2>2, <2>3, <2>4, <2>5, PutKeepsOwning
  <1> QED BY <1>1, <1>4, <1>5


\* Still pictures.
LEMMA StillKeepsOwning ==
    ASSUME Owning, NEW c \in Callers, CaptureStillAsync(c) \/ CaptureStill(c), current' = current
    PROVE  Owning'
  <1>1. UNCHANGED <<taskVars, mine, overtaken, arg>>
    BY DEF CaptureStillAsync, CaptureStill
  <1>2. api \in [Callers -> Calls] /\ arg \in [Callers -> Ids]
    BY DEF Owning, Types
  <1>3. "idle" \in Calls /\ "stillWait" \in Calls
    BY DEF Calls
  <1>4. /\ api' \in [Callers -> Calls]
        /\ \A d \in Callers : api'[d] \in {"find", "removeRequest"} => api'[d] = api[d]
    BY <1>2, <1>3 DEF CaptureStillAsync, CaptureStill, NotifyHolder
  <1> QED BY <1>1, <1>2, <1>4, NothingMoved

\* The end of release.
LEMMA ReleaseHolderKeepsOwning ==
    ASSUME Owning, NEW c \in Callers, ReleaseHolder(c), current' = current
    PROVE  Owning'
  <1>1. UNCHANGED <<taskVars, mine, overtaken, arg>>
    BY DEF ReleaseHolder
  <1>2. api \in [Callers -> Calls] /\ arg \in [Callers -> Ids]
    BY DEF Owning, Types
  <1>3. "idle" \in Calls
    BY DEF Calls
  <1>4. /\ api' \in [Callers -> Calls]
        /\ \A d \in Callers : api'[d] \in {"find", "removeRequest"} => api'[d] = api[d]
    BY <1>2, <1>3 DEF ReleaseHolder
  <1> QED BY <1>1, <1>2, <1>4, NothingMoved

\* The callers' steps.
LEMMA CallersKeepOwning ==
    ASSUME EndlessRequests, IsFiniteSet(Callers), OneFrameCaller, Owning, overtaken = FALSE,
           NEW c \in Callers, Call(c) \/ Continue(c), CallerKeeps
    PROVE  Owning'
  <1>1. current' = current
    BY DEF CallerKeeps
  <1>2. CASE \/ \E id \in Ids : AddSurface(c, id) \/ RemoveSurface(c, id)
             \/ RequestFrame(c) \/ Release(c) \/ ReleaseJoin(c)
    <2>1. {"add", "remove", "clear", "clearOnly", "stopHolder"} \subseteq
              Calls \ {"find", "removeRequest"}
      BY DEF Calls
    <2>2. /\ UNCHANGED <<taskVars, mine, overtaken>>
          /\ \/ \E next \in {"add", "remove"}, a \in Ids : BeginWith(c, next, a)
             \/ \E next \in {"clear", "clearOnly", "stopHolder"} :
                   (Begin(c, next) \/ ApiGoto(c, next)) /\ UNCHANGED arg
             \/ RequestFrame(c)
      <3>1. CASE \E id \in Ids : AddSurface(c, id) \/ RemoveSurface(c, id)
        BY <3>1 DEF AddSurface, RemoveSurface
      <3>2. CASE RequestFrame(c)
        BY <3>2 DEF RequestFrame
      <3>3. CASE Release(c)
        BY <3>3 DEF Release, Begin
      <3>4. CASE ReleaseJoin(c)
        BY <3>4 DEF ReleaseJoin
      <3> QED BY <1>2, <3>1, <3>2, <3>3, <3>4
    <2>3. \/ \E next \in Calls \ {"find", "removeRequest"}, a \in Ids : BeginWith(c, next, a)
          \/ \E next \in Calls \ {"find", "removeRequest"} :
                (Begin(c, next) \/ ApiGoto(c, next)) /\ UNCHANGED arg
          \/ RequestFrame(c)
      BY <2>1, <2>2
    <2> QED BY <1>1, <2>2, <2>3, MovesKeepOwning
  <1>3. CASE CheckMasterSurface(c)
    BY <1>1, <1>3, OfferForResultKeepsOwning
  <1>4. CASE CaptureStillAsync(c) \/ CaptureStill(c)
    BY <1>1, <1>4, StillKeepsOwning
  <1>5. CASE AddOffer(c) \/ RemoveOffer(c) \/ OfferDraw(c)
    BY <1>1, <1>5, OffersKeepOwning
  <1>6. CASE Result(c)
    BY <1>1, <1>6, ResultKeepsOwning
  <1>7. CASE FindRequest(c)
    BY <1>1, <1>7, FindKeepsOwning
  <1>8. CASE RemoveRequest(c)
    BY <1>1, <1>8, RemoveKeepsOwning
  <1>9. CASE ReleaseClear(c)
    BY <1>1, <1>9, ReleaseClearKeepsOwning
  <1>10. CASE ReleaseHolder(c)
    BY <1>1, <1>10, ReleaseHolderKeepsOwning
  <1> QED BY <1>2, <1>3, <1>4, <1>5, <1>6, <1>7, <1>8, <1>9, <1>10 DEF Call, Continue

-----------------------------------------------------------------------------
(* The theorems *)

\* The capture thread, the camera's frames and the master surface.
LEMMA OthersKeepOwning ==
    ASSUME EndlessRequests, IsFiniteSet(Callers), Owning, overtaken = FALSE,
           CaptureStep \/ OnFrameAvailable \/ MasterReleased
    PROVE  Owning'
  <1>1. api \in [Callers -> Calls] /\ arg \in [Callers -> Ids]
    BY DEF Owning, Types
  <1>2. CASE CaptureStep
    <2>1. /\ UNCHANGED <<taskVars, current, mine, overtaken, arg>>
          /\ \/ UNCHANGED api
             \/ api' = [c \in Callers |-> IF api[c] = "stillWait" THEN "idle" ELSE api[c]]
      BY <1>2 DEF CaptureStep, CaptureBegin, CaptureTest, CaptureTake, CaptureWoken,
                  CaptureWrite, TakeFile, CaptureGoto
    <2>2. "idle" \in Calls
      BY DEF Calls
    <2>3. /\ api' \in [Callers -> Calls]
          /\ \A c \in Callers : api'[c] \in {"find", "removeRequest"} => api'[c] = api[c]
      BY <1>1, <2>1, <2>2
    <2> QED BY <1>1, <2>1, <2>3, NothingMoved
  <1>3. CASE OnFrameAvailable
    <2>1. Offer("draw", None) /\ UNCHANGED <<current, mine, overtaken, api, arg>>
      BY <1>3 DEF OnFrameAvailable, callerVars
    <2>2. "draw" \in Whats \ {"none"} /\ None \in Ids \cup {None}
      BY DEF Whats
    <2> QED BY <1>1, <2>1, <2>2, OfferKeepsOwning
  <1>4. CASE MasterReleased
    <2>1. UNCHANGED <<taskVars, current, mine, overtaken, api, arg>>
      BY <1>4 DEF MasterReleased, callerVars
    <2> QED BY <1>1, <2>1, NothingMoved
  <1> QED BY <1>2, <1>3, <1>4

\* Each Request starts out in no place and stays in one at most.
LEMMA OwningIsInvariant ==
    ASSUME EndlessRequests, IsFiniteSet(Callers), OneFrameCaller
    PROVE  Spec => []Owning
  <1>1. Init => Owning
    <2> SUFFICES ASSUME Init PROVE Owning
      OBVIOUS
    <2>1. Blank \in Messages /\ "idle" \in Calls
      BY DEF Blank, Message, Messages, Whats, Calls
    <2>2. Types
      BY <2>1 DEF Init, TaskInit, Types
    <2>3. Queued /\ Pooling /\ OneFinder
      BY DEF Init, TaskInit, Queued, Pooling, OneFinder
    <2>4. Finding
      BY DEF Init, Finding
    <2> QED BY <2>2, <2>3, <2>4 DEF Owning
  <1>2. Owning /\ [Next]_vars => Owning'
    <2> SUFFICES ASSUME Owning, [Next]_vars PROVE Owning'
      OBVIOUS
    <2>1. CASE UNCHANGED vars
      <3>1. UNCHANGED <<taskVars, current, mine, overtaken, api, arg>>
        BY <2>1 DEF vars, callerVars
      <3> QED BY <3>1, NothingMoved DEF Owning, Types
    <2>2. CASE Next
      <3>1. overtaken = FALSE
        BY <2>2 DEF Next
      <3>2. CASE WorkerStep
        BY <3>1, <3>2, WorkerKeepsOwning
      <3>3. CASE CaptureStep \/ OnFrameAvailable \/ MasterReleased
        BY <3>1, <3>3, OthersKeepOwning
      <3>4. ASSUME NEW c \in Callers, Call(c) \/ Continue(c), CallerKeeps PROVE Owning'
        BY <3>1, <3>4, CallersKeepOwning
      <3> QED BY <2>2, <3>2, <3>3, <3>4 DEF Next
    <2> QED BY <2>1, <2>2
  <1> QED BY <1>1, <1>2, PTL DEF Spec

\* A Request is in one place at a time, whatever the callers, the worker, the
\* camera and the user of the master surface do, up to a step in which the
\* worker takes the Request that removeRequest has found.
THEOREM RequestsOwnedOnce ==
    ASSUME EndlessRequests, IsFiniteSet(Callers), OneFrameCaller
    PROVE  Spec => []RequestOwnedOnce
  <1>1. Owning => RequestOwnedOnce
    <2> SUFFICES ASSUME Owning, NEW q \in Requests PROVE Places(q) <= 1
      BY DEF RequestOwnedOnce
    <2> DEFINE At == {i \in DOMAIN mRequestQueue : mRequestQueue[i] = q}
    <2>1. mRequestPool[q] \in Nat /\ mRequestPool[q] <= 1
      BY DEF Owning, Types, Pooling
    <2>2. CASE At = {}
      <3>1. Cardinality(At) = 0
        BY <2>2, FS_EmptySet
      <3>2. current = q => mRequestPool[q] = 0
        BY TaskAssumption DEF Owning, Pooling
      <3> QED BY <2>1, <3>1, <3>2 DEF Places
    <2>3. CASE At # {}
      <3>1. PICK i \in DOMAIN mRequestQueue : mRequestQueue[i] = q
        BY <2>3
      <3>2. At = {i}
        BY <3>1 DEF Owning, Queued
      <3>3. Cardinality(At) = 1
        BY <3>2, FS_Singleton
      <3>4. mRequestPool[q] = 0 /\ current # q
        BY <3>1 DEF Owning, Queued
      <3> QED BY <3>3, <3>4 DEF Places
    <2> QED BY <2>2, <2>3
  <1> QED BY <1>1, OwningIsInvariant, PTL


-----------------------------------------------------------------------------
(* The rest of the types *)

Workers == {"test", "take", "process", "recycle", "finish", "stop", "removeAll", "ended"}
Captures == {"begin", "test", "sync", "waiting", "woken", "ended"}

Flags ==
    /\ mIsRunning \in BOOLEAN /\ mFinished \in BOOLEAN /\ overtaken \in BOOLEAN
    /\ masterValid \in BOOLEAN /\ isRunning \in BOOLEAN
    /\ mCaptureFile \in BOOLEAN /\ taken \in BOOLEAN /\ late \in BOOLEAN

Holder ==
    /\ mClients \subseteq Ids
    /\ worker \in Workers /\ capture \in Captures
    /\ worker \in {"process", "recycle"} => current \in Requests

\* No step sets a flag to anything but a truth value.
LEMMA FlagsStay == Flags /\ [Next]_vars => Flags'
  <1> SUFFICES ASSUME Flags, [Next]_vars PROVE Flags'
    OBVIOUS
  <1> USE DEF Flags
  <1>1. CASE UNCHANGED vars
    BY <1>1 DEF vars, runVars, holderVars
  <1>2. CASE WorkerStep
    <2>1. CASE Test \/ Quit \/ HandleDraw \/ Recycle
      BY <2>1 DEF Test, Quit, HandleDraw, Recycle, runVars, holderVars
    <2>2. CASE TakeRequest
      BY <2>2 DEF TakeRequest, runVars, holderVars
    <2>3. CASE HandleAddSurface \/ HandleRemoveSurface
      BY <2>3 DEF HandleAddSurface, HandleRemoveSurface, runVars, holderVars
    <2>4. CASE HandleReCreateMasterSurface \/ Finish
      BY <2>4 DEF HandleReCreateMasterSurface, Finish, runVars, holderVars
    <2>5. CASE OnStop \/ HandleRemoveAll
      BY <2>5 DEF OnStop, StopHolder, HandleRemoveAll, runVars, holderVars
    <2> QED BY <1>2, <2>1, <2>2, <2>3, <2>4, <2>5 DEF WorkerStep
  <1>3. CASE CaptureStep
    BY <1>3 DEF CaptureStep, CaptureBegin, CaptureTest, CaptureTake, CaptureWoken,
                CaptureWrite, TakeFile, CaptureGoto, runVars
  <1>4. CASE OnFrameAvailable \/ MasterReleased
    BY <1>4 DEF OnFrameAvailable, MasterReleased, runVars, holderVars
  <1>5. ASSUME NEW c \in Callers, Call(c), CallerKeeps PROVE Flags'
    BY <1>5 DEF Call, CallerKeeps, AddSurface, RemoveSurface, CheckMasterSurface, RequestFrame,
                CaptureStillAsync, CaptureStill, Release, runVars
  <1>6. ASSUME NEW c \in Callers, Continue(c), CallerKeeps PROVE Flags'
    BY <1>6 DEF Continue, CallerKeeps, AddOffer, RemoveOffer, Result, FindRequest, RemoveRequest,
                OfferDraw, ReleaseClear, ReleaseJoin, ReleaseHolder, runVars
  <1> QED BY <1>1, <1>2, <1>3, <1>4, <1>5, <1>6 DEF Next

\* The surfaces that are drawn on are those that were added, the worker has
\* a Request while it works on one.
LEMMA HolderStays ==
    ASSUME EndlessRequests, IsFiniteSet(Callers), Owning, Holder, [Next]_vars
    PROVE  Holder'
  <1> USE DEF Holder
  <1>1. CASE UNCHANGED vars
    BY <1>1 DEF vars, holderVars
  <1>2. CASE WorkerStep
    <2>1. CASE Test \/ Quit \/ HandleDraw \/ Recycle \/ Finish
      BY <2>1 DEF Test, Quit, HandleDraw, Recycle, Finish, WorkerGoto, Workers, Captures,
                  holderVars, Processing
    <2>2. CASE TakeRequest
      <3>1. Head(mRequestQueue) \in Requests
        BY <2>2 DEF TakeRequest, Owning, Types
      <3> QED BY <2>2, <3>1 DEF TakeRequest, WorkerGoto, Workers, holderVars
    <2>3. CASE HandleAddSurface
      <3>1. worker = "process" /\ current \in Requests
        BY <2>3 DEF HandleAddSurface, Processing
      <3>2. request[current] \in Messages
        BY <3>1 DEF Owning, Types
      <3>3. request[current].what = "add"
        BY <2>3, <3>2 DEF HandleAddSurface, Processing, Messages
      <3>4. request[current].arg \in Ids
        BY <3>2, <3>3 DEF Messages
      <3> QED BY <2>3, <3>1, <3>4 DEF HandleAddSurface, WorkerGoto, Workers, holderVars
    <2>4. CASE HandleRemoveSurface \/ HandleReCreateMasterSurface
      BY <2>4 DEF HandleRemoveSurface, HandleReCreateMasterSurface, Processing, WorkerGoto,
                  Workers, holderVars
    <2>5. CASE OnStop \/ HandleRemoveAll
      BY <2>5 DEF OnStop, StopHolder, NotifyHolder, HandleRemoveAll, WorkerGoto, Workers,
                  Captures, holderVars
    <2> QED BY <1>2, <2>1, <2>2, <2>3, <2>4, <2>5 DEF WorkerStep
  <1>3. CASE CaptureStep
    BY <1>3 DEF CaptureStep, CaptureBegin, CaptureTest, CaptureTake, CaptureWoken,
                CaptureWrite, TakeFile, CaptureGoto, Captures
  <1>4. CASE OnFrameAvailable \/ MasterReleased
    BY <1>4 DEF OnFrameAvailable, MasterReleased, holderVars
  <1>5. ASSUME NEW c \in Callers, Call(c), CallerKeeps PROVE Holder'
    <2>1. capture' \in {capture, "woken"}
      BY <1>5 DEF Call, AddSurface, RemoveSurface, CheckMasterSurface, RequestFrame,
                  CaptureStillAsync, NotifyHolder, CaptureStill, Release
    <2> QED BY <1>5, <2>1 DEF CallerKeeps, Captures
  <1>6. ASSUME NEW c \in Callers, Continue(c), CallerKeeps PROVE Holder'
    <2>1. capture' \in {capture, "woken"}
      BY <1>6 DEF Continue, AddOffer, RemoveOffer, Result, FindRequest, RemoveRequest,
                  OfferDraw, ReleaseClear, ReleaseJoin, ReleaseHolder
    <2> QED BY <1>6, <2>1 DEF CallerKeeps, Captures
  <1> QED BY <1>1, <1>2, <1>3, <1>4, <1>5, <1>6 DEF Next

\* The variables have their types, and every queued Request was filled in.
THEOREM TypeCorrect ==
    ASSUME EndlessRequests, IsFiniteSet(Callers), OneFrameCaller
    PROVE  Spec => []TypeOK
  <1>1. Init => Flags
    BY DEF Init, TaskInit, Flags
  <1>2. Init => Holder
    BY DEF Init, TaskInit, Holder, Workers, Captures
  <1>3. Owning /\ Holder /\ [Next]_vars => Holder'
    BY HolderStays
  <1>4. Owning /\ Flags /\ Holder => TypeOK
    <2> SUFFICES ASSUME Owning, Flags, Holder PROVE TypeOK
      OBVIOUS
    <2>1. \A q \in Requests : /\ request[q].what \in Whats
                              /\ request[q].forResult \in {"none", "recreate"}
      BY DEF Owning, Types, Messages
    <2>2. TaskTypeOK
      <3>1. /\ mRequestPool \in [Requests -> Nat] /\ mRequestQueue \in Seq(Requests)
            /\ \A i \in DOMAIN mRequestQueue : request[mRequestQueue[i]].what # "none"
            /\ current \in Requests \cup {None}
            /\ mine \in [Callers -> Requests \cup {None}]
        BY DEF Owning, Types, Queued
      <3>2. worker \in Workers
        BY DEF Holder
      <3>3. mIsRunning \in BOOLEAN /\ mFinished \in BOOLEAN /\ overtaken \in BOOLEAN
        BY DEF Flags
      <3> QED BY <2>1, <3>1, <3>2, <3>3, Zenon DEF TaskTypeOK, Whats, Workers
    <2>3. /\ mClients \subseteq Ids /\ capture \in Captures
          /\ api \in [Callers -> Calls] /\ arg \in [Callers -> Ids]
      BY DEF Owning, Types, Holder
    <2>4. /\ masterValid \in BOOLEAN /\ isRunning \in BOOLEAN
          /\ mCaptureFile \in BOOLEAN /\ taken \in BOOLEAN /\ late \in BOOLEAN
      BY DEF Flags
    <2> QED BY <2>2, <2>3, <2>4, Zenon DEF TypeOK, Calls, Captures
  <1> QED BY <1>1, <1>2, <1>3, <1>4, FlagsStay, OwningIsInvariant, PTL DEF Spec

-----------------------------------------------------------------------------
(* What a caller that waits for its surface waits for                      *)

\* addSurface and removeSurface are called by one thread at a time: their
\* callers in UVCCameraHandlerMultiSurface are synchronized.  With two, the
\* answer to one wakes both.
OneSurfaceCaller == \A c, d \in SurfaceCallers : c = d

Waits == {"addWait", "removeWait"}
WaitFor(what) == IF what = "add" THEN "addWait" ELSE "removeWait"

\* The Requests that are queued or worked on, and those of them that are about
\* a surface.
InQueue(q) == \E i \in DOMAIN mRequestQueue : mRequestQueue[i] = q
InHand(q)  == InQueue(q) \/ (worker = "process" /\ current = q)
Asks(q)    == InHand(q) /\ request[q].what \in {"add", "remove"}

\* There is one request about a surface at most, it is that of a caller who
\* waits, and whoever waits has one while the task runs.
Asking ==
    /\ \A c \in Callers : api[c] \in {"add", "remove"} \cup Waits => c \in SurfaceCallers
    /\ \A p, q \in Requests : Asks(p) /\ Asks(q) => p = q
    /\ \A q \in Requests : Asks(q) =>
          \E c \in Callers : api[c] = WaitFor(request[q].what) /\ arg[c] = request[q].arg
    /\ mIsRunning = TRUE => \A c \in Callers : api[c] \in Waits => \E q \in Requests : Asks(q)

\* While the task runs the worker is at work, and nothing tells it to quit.
Working ==
    /\ mIsRunning = TRUE => worker \in {"test", "take", "process", "recycle"}
    /\ mIsRunning = TRUE => \A q \in Requests : InHand(q) => request[q].what # "quit"
    /\ \A c \in Callers : api[c] \in {"clear", "clearOnly"} => mIsRunning = FALSE

\* When the requests about surfaces stay what they are and those who wait go on
\* waiting, nothing changes; new ones may wait that have not asked yet.
LEMMA SameAsking ==
    ASSUME Asking, OneSurfaceCaller,
           \A q \in Requests : Asks(q) => request'[q] = request[q],
           \A q \in Requests : Asks(q)' <=> Asks(q),
           \A c \in Callers : api[c] \in Waits => api'[c] = api[c] /\ arg'[c] = arg[c],
           \A c \in Callers : api'[c] \in Waits => api[c] \in Waits,
           \A c \in Callers : api'[c] \in {"add", "remove"} => c \in SurfaceCallers,
           mIsRunning' = TRUE => mIsRunning = TRUE
    PROVE  Asking'
  <1>1. \A what : WaitFor(what) \in Waits
    BY DEF WaitFor, Waits
  <1>2. \A c \in Callers : api'[c] \in {"add", "remove"} \cup Waits => c \in SurfaceCallers
    BY DEF Asking
  <1>3. \A p, q \in Requests : Asks(p)' /\ Asks(q)' => p = q
    BY DEF Asking
  <1>4. \A q \in Requests : Asks(q)' =>
          \E c \in Callers : api'[c] = WaitFor(request'[q].what) /\ arg'[c] = request'[q].arg
    <2> SUFFICES ASSUME NEW q \in Requests, Asks(q)
                 PROVE  \E c \in Callers : api'[c] = WaitFor(request'[q].what)
                                          /\ arg'[c] = request'[q].arg
      OBVIOUS
    <2>1. PICK c \in Callers : api[c] = WaitFor(request[q].what) /\ arg[c] = request[q].arg
      BY DEF Asking
    <2> QED BY <1>1, <2>1
  <1>5. mIsRunning' = TRUE =>
          \A c \in Callers : api'[c] \in Waits => \E q \in Requests : Asks(q)'
    BY DEF Asking
  <1> QED BY <1>2, <1>3, <1>4, <1>5 DEF Asking

\* A Request that is put at the end of the queue.
LEMMA PutIsQueued ==
    ASSUME Types, NEW queue \in {mRequestQueue, <<>>}, NEW q \in Requests, q # current,
           \A i \in DOMAIN queue : queue[i] # q,
           NEW what, NEW a, NEW forResult, Put(queue, q, what, a, forResult)
    PROVE  /\ request'[q].what = what /\ request'[q].arg = a /\ InQueue(q)'
           /\ \A p \in Requests : p # q =>
                 /\ request'[p] = request[p]
                 /\ InQueue(p)' <=> queue = mRequestQueue /\ InQueue(p)
           /\ queue = mRequestQueue => ~InHand(q)
  <1>1. /\ request'[q].what = what /\ request'[q].arg = a
        /\ \A p \in Requests : p # q => request'[p] = request[p]
    BY DEF Put, Types, Message
  <1>2. queue \in Seq(Requests) /\ Len(queue) \in Nat /\ DOMAIN queue = 1..Len(queue)
    <2>1. mRequestQueue \in Seq(Requests) /\ <<>> \in Seq(Requests)
      BY DEF Types
    <2>2. queue \in Seq(Requests)
      BY <2>1
    <2> QED BY <2>2
  <1>3. /\ DOMAIN mRequestQueue' = 1..(Len(queue) + 1)
        /\ \A i \in 1..Len(queue) : mRequestQueue'[i] = queue[i]
        /\ mRequestQueue'[Len(queue) + 1] = q
    BY <1>2 DEF Put
  <1>4. \A p : InQueue(p)' <=> p = q \/ \E i \in DOMAIN queue : queue[i] = p
    <2>1. \A i \in 1..(Len(queue) + 1) : i \in 1..Len(queue) \/ i = Len(queue) + 1
      BY <1>2
    <2>2. 1..Len(queue) \subseteq 1..(Len(queue) + 1) /\ Len(queue) + 1 \in 1..(Len(queue) + 1)
      BY <1>2
    <2> QED BY <1>2, <1>3, <2>1, <2>2 DEF InQueue
  <1>5. \A p : (\E i \in DOMAIN queue : queue[i] = p) <=> queue = mRequestQueue /\ InQueue(p)
    BY DEF InQueue
  <1> QED BY <1>1, <1>4, <1>5 DEF InHand

\* An offer that is not about a surface.
LEMMA OtherOffer ==
    ASSUME EndlessRequests, IsFiniteSet(Callers), Owning, overtaken = FALSE,
           OneSurfaceCaller, Asking, Working,
           NEW what, what \notin {"add", "remove", "quit"}, NEW a,
           Offer(what, a), UNCHANGED <<worker, current, mIsRunning>>,
           \A c \in Callers : api[c] \in Waits => api'[c] = api[c] /\ arg'[c] = arg[c],
           \A c \in Callers : api'[c] \in Waits => api[c] \in Waits,
           \A c \in Callers : api'[c] \in {"add", "remove"} => c \in SurfaceCallers,
           \A c \in Callers : api'[c] \in {"clear", "clearOnly"} => api[c] = api'[c]
    PROVE  Asking' /\ Working'
  <1>1. PICK q \in Requests :
          /\ q = Obtained(mRequestQueue) /\ q # current
          /\ \A i \in DOMAIN mRequestQueue : mRequestQueue[i] # q
    BY ObtainedIsFree
  <1>2. Put(mRequestQueue, q, what, a, request[q].forResult)
    BY <1>1 DEF Offer
  <1>3. /\ request'[q].what = what /\ InHand(q)' /\ ~InHand(q)
        /\ \A p \in Requests : p # q => request'[p] = request[p] /\ (InHand(p)' <=> InHand(p))
    <2>1. Types
      BY DEF Owning
    <2>2. /\ request'[q].what = what /\ InQueue(q)' /\ ~InHand(q)
          /\ \A p \in Requests : p # q => request'[p] = request[p] /\ (InQueue(p)' <=> InQueue(p))
      BY <1>1, <1>2, <2>1, PutIsQueued
    <2> QED BY <2>2 DEF InHand
  <1>4. \A p \in Requests : (Asks(p)' <=> Asks(p)) /\ (Asks(p) => request'[p] = request[p])
    BY <1>3 DEF Asks
  <1>5. Asking'
    BY <1>4, SameAsking
  <1>6. Working'
    BY <1>3 DEF Working
  <1> QED BY <1>5, <1>6

\* When the queue, its Requests and what the worker holds stay as they are.
LEMMA SameRequests ==
    ASSUME Asking, Working, OneSurfaceCaller,
           UNCHANGED <<mRequestQueue, request, worker, current>>,
           \A c \in Callers : api[c] \in Waits => api'[c] = api[c] /\ arg'[c] = arg[c],
           \A c \in Callers : api'[c] \in Waits => api[c] \in Waits,
           \A c \in Callers : api'[c] \in {"add", "remove"} => c \in SurfaceCallers,
           mIsRunning' \in {mIsRunning, FALSE},
           \A c \in Callers :
              api'[c] \in {"clear", "clearOnly"} => api[c] = api'[c] \/ mIsRunning' = FALSE
    PROVE  Asking' /\ Working'
  <1>1. \A q \in Requests : (InHand(q)' <=> InHand(q)) /\ (Asks(q)' <=> Asks(q))
    BY DEF InHand, InQueue, Asks
  <1>2. Asking'
    BY <1>1, SameAsking
  <1>3. Working'
    BY <1>1 DEF Working
  <1> QED BY <1>2, <1>3

-----------------------------------------------------------------------------

\* Init: nobody has asked for anything.
LEMMA AskingStarts == Init => Asking /\ Working
  <1> SUFFICES ASSUME Init PROVE Asking /\ Working
    OBVIOUS
  <1>1. \A q \in Requests : ~InHand(q)
    BY DEF Init, TaskInit, InHand, InQueue
  <1>2. \A c \in Callers : api[c] = "idle"
    BY DEF Init
  <1>3. mIsRunning = TRUE /\ worker = "test"
    BY DEF Init, TaskInit
  <1> QED BY <1>1, <1>2, <1>3 DEF Asking, Working, Asks, Waits

\* What the worker takes out of the queue it has in hand.
LEMMA TakenIsInHand ==
    ASSUME Types, TakeRequest
    PROVE  \A q : InHand(q)' <=> InHand(q)
  <1> DEFINE Q == mRequestQueue
  <1>1. /\ worker = "take" /\ Q # <<>> /\ current' = Q[1] /\ worker' = "process"
        /\ mRequestQueue' = Tail(Q)
    BY DEF TakeRequest, WorkerGoto
  <1>2. /\ Q \in Seq(Requests) /\ Len(Q) \in Nat /\ 1 \in DOMAIN Q /\ DOMAIN Q = 1..Len(Q)
        /\ DOMAIN Tail(Q) = 1..(Len(Q) - 1)
        /\ \A i \in 1..(Len(Q) - 1) : Tail(Q)[i] = Q[i + 1] /\ i + 1 \in DOMAIN Q
    BY <1>1 DEF Types
  <1>3. \A i \in DOMAIN Q : i # 1 => i - 1 \in 1..(Len(Q) - 1) /\ Tail(Q)[i - 1] = Q[i]
    BY <1>2
  <1>4. \A q : InQueue(q) <=> InQueue(q)' \/ q = Q[1]
    BY <1>1, <1>2, <1>3 DEF InQueue
  <1> QED BY <1>1, <1>4 DEF InHand

\* The worker takes a request, does what it asks for, answers and gives it back.
LEMMA WorkerAnswers ==
    ASSUME EndlessRequests, IsFiniteSet(Callers), Owning, Holder, overtaken = FALSE,
           OneSurfaceCaller, Asking, Working, WorkerStep
    PROVE  Asking' /\ Working'
  <1>0. Types
    BY DEF Owning
  <1>1. CASE Test
    <2>1. /\ worker = "test" /\ worker' \in {"take", "finish"}
          /\ mIsRunning = TRUE => worker' = "take"
          /\ UNCHANGED <<mRequestQueue, request, current, api, arg, mIsRunning>>
      BY <1>1 DEF Test, WorkerGoto, taskVars, runVars, callerVars
    <2>2. \A q \in Requests : (InHand(q)' <=> InHand(q)) /\ (Asks(q)' <=> Asks(q))
      BY <2>1 DEF InHand, InQueue, Asks
    <2>3. Asking'
      BY <2>1, <2>2, SameAsking DEF Asking
    <2>4. Working'
      BY <2>1, <2>2 DEF Working
    <2> QED BY <2>3, <2>4
  <1>2. CASE TakeRequest
    <2>1. /\ worker = "take" /\ worker' = "process"
          /\ UNCHANGED <<request, mIsRunning, api, arg>>
      BY <1>2 DEF TakeRequest, WorkerGoto, runVars, callerVars
    <2>5. \A q \in Requests : (InHand(q)' <=> InHand(q)) /\ (Asks(q)' <=> Asks(q))
      BY <1>0, <1>2, <2>1, TakenIsInHand DEF Asks
    <2>6. Asking'
      BY <2>1, <2>5, SameAsking DEF Asking
    <2>7. Working'
      BY <2>1, <2>5 DEF Working
    <2> QED BY <2>6, <2>7
  <1>3. CASE Quit
    <2>1. /\ worker = "process" /\ worker' = "finish" /\ current' = None /\ current \in Requests
          /\ UNCHANGED <<mRequestQueue, request, api, arg, mIsRunning>>
      BY <1>3 DEF Quit, Processing, WorkerGoto, taskVars, runVars, callerVars, Holder
    <2>2. request[current].what = "quit"
      <3>1. request[current].forResult # "quit"
        BY <1>0, <2>1 DEF Types, Messages
      <3> QED BY <1>3, <3>1 DEF Quit, Processing
    <2>3. mIsRunning = TRUE => FALSE
      BY <2>1, <2>2 DEF Working, InHand
    <2>4. \A q \in Requests : (InHand(q)' => InHand(q)) /\ (Asks(q)' <=> Asks(q))
      BY <2>1, <2>2 DEF InHand, InQueue, Asks
    <2>5. Asking'
      BY <2>1, <2>4, SameAsking DEF Asking
    <2>6. Working'
      BY <2>1, <2>3, <2>4 DEF Working
    <2> QED BY <2>5, <2>6
  <1>4. CASE HandleDraw
    <2>1. /\ worker = "process" /\ worker' = "recycle" /\ current \in Requests
          /\ UNCHANGED <<current, api, arg, mIsRunning>>
      BY <1>4 DEF HandleDraw, Processing, WorkerGoto, runVars, callerVars, Holder
    <2>2. request[current].what \notin {"add", "remove"}
      BY <1>0, <1>4, <2>1 DEF HandleDraw, Processing, Types, Messages
    <2>3. CASE UNCHANGED taskVars
      <3>1. \A q \in Requests : (InHand(q)' => InHand(q)) /\ (Asks(q)' <=> Asks(q))
        BY <2>1, <2>2, <2>3 DEF InHand, InQueue, Asks, taskVars
      <3>2. Asking'
        BY <2>1, <2>3, <3>1, SameAsking DEF Asking, taskVars
      <3>3. Working'
        BY <2>1, <2>3, <3>1 DEF Working, taskVars
      <3> QED BY <3>2, <3>3
    <2>4. CASE Offer("recreate", None)
      <3>1. PICK q \in Requests :
              /\ q = Obtained(mRequestQueue) /\ q # current
              /\ \A i \in DOMAIN mRequestQueue : mRequestQueue[i] # q
        BY ObtainedIsFree
      <3>2. Put(mRequestQueue, q, "recreate", None, request[q].forResult)
        BY <2>4, <3>1 DEF Offer
      <3>3. /\ request'[q].what = "recreate" /\ InQueue(q)' /\ ~InHand(q)
            /\ \A p \in Requests : p # q => request'[p] = request[p] /\ (InQueue(p)' <=> InQueue(p))
        BY <1>0, <3>1, <3>2, PutIsQueued
      <3>4. \A p \in Requests : (InHand(p)' => InHand(p) \/ p = q)
                                /\ (Asks(p)' <=> Asks(p)) /\ (Asks(p) => request'[p] = request[p])
        BY <2>1, <2>2, <3>1, <3>3 DEF InHand, Asks
      <3>5. Asking'
        BY <2>1, <3>4, SameAsking DEF Asking
      <3>6. Working'
        BY <2>1, <3>3, <3>4 DEF Working
      <3> QED BY <3>5, <3>6
    <2> QED BY <1>4, <2>3, <2>4 DEF HandleDraw
  <1>5. CASE HandleAddSurface \/ HandleRemoveSurface
    <2>1. /\ worker = "process" /\ worker' = "recycle" /\ current \in Requests
          /\ UNCHANGED <<mRequestQueue, request, current, arg, mIsRunning>> /\ NotifyClients
      BY <1>5 DEF HandleAddSurface, HandleRemoveSurface, Processing, WorkerGoto, runVars, taskVars,
                  Holder
    <2>2. request[current].what \in {"add", "remove"}
      BY <1>0, <1>5, <2>1
         DEF HandleAddSurface, HandleRemoveSurface, Processing, Types, Messages
    <2>3. Asks(current)
      BY <2>1, <2>2 DEF Asks, InHand
    <2>4. ~InQueue(current)
      BY <2>1 DEF Owning, Queued, InQueue
    <2>5. \A q \in Requests : ~Asks(q)' /\ (InHand(q)' => InHand(q))
      BY <2>1, <2>3, <2>4 DEF Asking, Asks, InHand, InQueue
    <2>6. \A c \in Callers : api'[c] \notin Waits /\ api'[c] \in {api[c], "idle"}
      BY <2>1 DEF NotifyClients, Waits
    <2>7. Asking'
      BY <2>5, <2>6 DEF Asking
    <2>8. Working'
      BY <2>1, <2>5, <2>6 DEF Working
    <2> QED BY <2>7, <2>8
  <1>6. CASE HandleReCreateMasterSurface \/ Recycle
    <2>1. /\ worker \in {"process", "recycle"} /\ worker' \in {"recycle", "test"}
          /\ current \in Requests /\ current' \in {current, None}
          /\ UNCHANGED <<mRequestQueue, arg, api, mIsRunning>>
          /\ request' \in {request, [request EXCEPT ![current] = Blank]}
      BY <1>6 DEF HandleReCreateMasterSurface, Recycle, Processing, WorkerGoto, runVars,
                  callerVars, Holder
    <2>2. worker = "process" => request[current].what \notin {"add", "remove"}
      BY <1>0, <1>6, <2>1
         DEF HandleReCreateMasterSurface, Recycle, Processing, Types, Messages
    <2>3. ~InQueue(current)
      BY <2>1 DEF Owning, Queued, InQueue
    <2>4. \A q \in Requests : q # current => request'[q] = request[q]
      BY <1>0, <2>1 DEF Types
    <2>5. \A q \in Requests : /\ InHand(q)' => InHand(q) /\ q # current
                              /\ Asks(q)' <=> Asks(q)
                              /\ Asks(q) => request'[q] = request[q]
      BY <2>1, <2>2, <2>3, <2>4 DEF InHand, InQueue, Asks
    <2>6. Asking'
      BY <2>1, <2>5, SameAsking DEF Asking
    <2>7. Working'
      BY <2>1, <2>4, <2>5 DEF Working
    <2> QED BY <2>6, <2>7
  <1>7. CASE Finish \/ OnStop \/ HandleRemoveAll
    <2>1. /\ worker \in {"finish", "stop", "removeAll"} /\ worker' # "process"
          /\ UNCHANGED <<mRequestQueue, request, current, arg>>
          /\ mIsRunning' \in {mIsRunning, FALSE}
      BY <1>7 DEF Finish, OnStop, HandleRemoveAll, WorkerGoto, taskVars, runVars, callerVars
    <2>2. \A c \in Callers : api'[c] = api[c] \/ (api[c] = "stillWait" /\ api'[c] = "idle")
      BY <1>7 DEF Finish, OnStop, HandleRemoveAll, StopHolder, NotifyHolder, callerVars
    <2>3. \A q \in Requests : (InHand(q)' => InHand(q)) /\ (Asks(q)' <=> Asks(q))
      BY <2>1 DEF InHand, InQueue, Asks
    <2>4. Asking'
      BY <2>1, <2>2, <2>3, SameAsking DEF Asking, Waits
    <2>5. Working'
      BY <2>1, <2>2, <2>3 DEF Working
    <2> QED BY <2>4, <2>5
  <1> QED BY <1>1, <1>2, <1>3, <1>4, <1>5, <1>6, <1>7 DEF WorkerStep

\* remove takes no request about a surface out of the queue, and no quit.
LEMMA RemovedKeepsOthers ==
    ASSUME Types, NEW q, request[q].what = "draw"
    PROVE  LET R == Removed(mRequestQueue, q)
           IN  /\ \A i \in DOMAIN R : \E n \in DOMAIN mRequestQueue : R[i] = mRequestQueue[n]
               /\ \A n \in DOMAIN mRequestQueue : request[mRequestQueue[n]].what # "draw"
                     => \E i \in DOMAIN R : R[i] = mRequestQueue[n]
  <1> DEFINE Q == mRequestQueue
             First(i) == /\ request[Q[i]] = request[q]
                         /\ \A j \in 1..(i - 1) : request[Q[j]] # request[q]
             k == CHOOSE i \in DOMAIN Q : First(i)
             R == RemoveAt(Q, k)
  <1>1. Q \in Seq(Requests) /\ Len(Q) \in Nat /\ DOMAIN Q = 1..Len(Q)
    BY DEF Types
  <1>2. CASE ~\E i \in DOMAIN Q : request[Q[i]] = request[q]
    <2>1. Removed(Q, q) = Q
      BY <1>2 DEF Removed
    <2> QED BY <2>1
  <1>3. CASE \E i \in DOMAIN Q : request[Q[i]] = request[q]
    <2>1. \E i \in DOMAIN Q : First(i)
      <3> DEFINE E == {i \in 1..Len(Q) : request[Q[i]] = request[q]}
      <3>1. E # {} /\ E \subseteq Nat
        BY <1>1, <1>3
      <3>2. PICK i \in E : \A j \in E : i <= j
        <4> HIDE DEF E
        <4> QED BY <3>1, Least
      <3>3. \A j \in 1..(i - 1) : j \in DOMAIN Q /\ j < i
        BY <1>1, <3>2
      <3> QED BY <1>1, <3>2, <3>3
    <2>2. k \in DOMAIN Q /\ First(k)
      BY <2>1
    <2>3. Removed(Q, q) = R
      BY <1>3 DEF Removed
    <2>4. request[Q[k]].what = "draw"
      BY <2>2
    <2> HIDE DEF k
    <2>5. /\ DOMAIN R = 1..(Len(Q) - 1)
          /\ \A i \in 1..(Len(Q) - 1) : R[i] = IF i < k THEN Q[i] ELSE Q[i + 1]
      BY <1>1, <2>2, RemoveAtIndex
    <2> HIDE DEF R
    <2>6. \A i \in DOMAIN R : \E n \in DOMAIN Q : R[i] = Q[n]
      BY <1>1, <2>2, <2>5
    <2>7. ASSUME NEW n \in DOMAIN Q, request[Q[n]].what # "draw"
          PROVE  \E i \in DOMAIN R : R[i] = Q[n]
      <3>1. n # k
        BY <2>4, <2>7
      <3>2. CASE n < k
        <4>1. n \in 1..(Len(Q) - 1) /\ R[n] = Q[n]
          BY <1>1, <2>2, <2>5, <3>2
        <4> QED BY <2>5, <4>1
      <3>3. CASE n > k
        <4>1. n - 1 \in 1..(Len(Q) - 1) /\ ~(n - 1 < k) /\ (n - 1) + 1 = n
          BY <1>1, <2>2, <3>3
        <4>2. R[n - 1] = Q[n]
          BY <2>5, <4>1
        <4> QED BY <2>5, <4>1, <4>2
      <3> QED BY <1>1, <2>2, <3>1, <3>2, <3>3
    <2> QED BY <2>3, <2>6, <2>7
  <1> QED BY <1>2, <1>3

\* A caller that asks about a surface, as the only one who does.
LEMMA SurfaceOfferAsks ==
    ASSUME EndlessRequests, IsFiniteSet(Callers), Owning, overtaken = FALSE,
           OneSurfaceCaller, Asking, Working, NEW c \in Callers,
           NEW what \in {"add", "remove"}, api[c] = what, Offer(what, arg[c]),
           ApiGoto(c, WaitFor(what)), UNCHANGED <<worker, current, arg, mIsRunning>>
    PROVE  Asking' /\ Working'
  <1>1. PICK q \in Requests :
          /\ q = Obtained(mRequestQueue) /\ q # current
          /\ \A i \in DOMAIN mRequestQueue : mRequestQueue[i] # q
    BY ObtainedIsFree
  <1>2. Put(mRequestQueue, q, what, arg[c], request[q].forResult)
    BY <1>1 DEF Offer
  <1>3. Types /\ api' = [api EXCEPT ![c] = WaitFor(what)] /\ WaitFor(what) \in Waits
    BY DEF Owning, ApiGoto, WaitFor, Waits
  <1>4. /\ request'[q].what = what /\ request'[q].arg = arg[c] /\ InQueue(q)'
        /\ \A p \in Requests : p # q => request'[p] = request[p] /\ (InQueue(p)' <=> InQueue(p))
    BY <1>1, <1>2, <1>3, PutIsQueued
  <1>5. c \in SurfaceCallers
    BY DEF Asking
  <1>6. \A d \in Callers : api[d] \notin Waits
    BY <1>5 DEF Asking, OneSurfaceCaller, Waits
  <1>7. \A p \in Requests : ~Asks(p)
    BY <1>6 DEF Asking, WaitFor, Waits
  <1>8. \A p \in Requests : Asks(p)' <=> p = q
    BY <1>4, <1>7 DEF Asks, InHand
  <1>9. \A d \in Callers : d # c => api'[d] = api[d]
    BY <1>3 DEF Types
  <1>10. api'[c] = WaitFor(what)
    BY <1>3 DEF Types
  <1>11. Asking'
    <2>1. \A d \in Callers : api'[d] \in {"add", "remove"} \cup Waits => d \in SurfaceCallers
      BY <1>5, <1>9 DEF Asking
    <2>2. \A p \in Requests : Asks(p)' =>
            \E d \in Callers : api'[d] = WaitFor(request'[p].what) /\ arg'[d] = request'[p].arg
      BY <1>4, <1>8, <1>10
    <2> QED BY <1>8, <2>1, <2>2 DEF Asking
  <1>12. Working'
    <2>1. \A p \in Requests : InHand(p)' => request'[p].what # "quit"  \/ (InHand(p) /\ request[p].what = "quit")
      BY <1>4 DEF InHand
    <2>2. \A d \in Callers : api'[d] \in {"clear", "clearOnly"} => api[d] = api'[d]
      BY <1>9, <1>10 DEF WaitFor
    <2> QED BY <2>1, <2>2 DEF Working
  <1> QED BY <1>11, <1>12

\* The callers.
LEMMA CallersAsk ==
    ASSUME EndlessRequests, IsFiniteSet(Callers), OneFrameCaller, Owning, Flags, overtaken = FALSE,
           OneSurfaceCaller, Asking, Working,
           NEW c \in Callers, Call(c) \/ Continue(c), CallerKeeps
    PROVE  Asking' /\ Working'
  <1>1. UNCHANGED <<worker, current>>
    BY DEF CallerKeeps
  <1>2. Types
    BY DEF Owning
  <1>3. CASE AddOffer(c) /\ ~mFinished
    <2>1. /\ api[c] = "add" /\ Offer("add", arg[c]) /\ ApiGoto(c, WaitFor("add"))
          /\ UNCHANGED <<arg, mIsRunning>>
      BY <1>3 DEF AddOffer, WaitFor, runVars
    <2> QED BY <1>1, <2>1, SurfaceOfferAsks
  <1>4. CASE RemoveOffer(c) /\ ~(mFinished \/ ~mIsRunning)
    <2>1. /\ api[c] = "remove" /\ Offer("remove", arg[c]) /\ ApiGoto(c, WaitFor("remove"))
          /\ UNCHANGED <<arg, mIsRunning>>
      BY <1>4 DEF RemoveOffer, WaitFor, runVars
    <2> QED BY <1>1, <2>1, SurfaceOfferAsks
  <1>5. CASE OfferDraw(c) /\ Offer("draw", None)
    <2>1. api[c] = "offerDraw" /\ ApiGoto(c, "idle") /\ UNCHANGED <<arg, mIsRunning>>
      BY <1>5 DEF OfferDraw, runVars
    <2>2. \A d \in Callers : api'[d] = IF d = c THEN "idle" ELSE api[d]
      BY <1>2, <2>1 DEF ApiGoto, Types
    <2>3. /\ \A d \in Callers : api[d] \in Waits => api'[d] = api[d] /\ arg'[d] = arg[d]
          /\ \A d \in Callers : api'[d] \in Waits => api[d] \in Waits
          /\ \A d \in Callers : api'[d] \in {"add", "remove"} => d \in SurfaceCallers
          /\ \A d \in Callers : api'[d] \in {"clear", "clearOnly"} => api[d] = api'[d]
      BY <2>1, <2>2 DEF Asking, Waits
    <2> QED BY <1>1, <1>5, <2>1, <2>3, OtherOffer
  <1>6. CASE CheckMasterSurface(c)
    <2>1. /\ api[c] = "idle" /\ api' = [api EXCEPT ![c] = "result"]
          /\ UNCHANGED <<arg, mIsRunning>> /\ OfferForResult(c, "recreate")
      BY <1>6 DEF CheckMasterSurface, Begin, runVars
    <2>2. \A d \in Callers : api'[d] = IF d = c THEN "result" ELSE api[d]
      BY <1>2, <2>1 DEF Types
    <2>3. PICK q \in Requests :
            /\ q = Obtained(mRequestQueue) /\ q # current
            /\ \A i \in DOMAIN mRequestQueue : mRequestQueue[i] # q
      BY ObtainedIsFree
    <2>4. Put(mRequestQueue, q, "result", None, "recreate")
      BY <2>1, <2>3 DEF OfferForResult
    <2>5. /\ request'[q].what = "result" /\ ~InHand(q)
          /\ \A p \in Requests : p # q => request'[p] = request[p] /\ (InQueue(p)' <=> InQueue(p))
      BY <1>2, <2>3, <2>4, PutIsQueued
    <2>6. \A p \in Requests : (Asks(p)' <=> Asks(p)) /\ (Asks(p) => request'[p] = request[p])
                              /\ (InHand(p)' => InHand(p) \/ p = q)
      BY <1>1, <2>5 DEF InHand, Asks
    <2>7. Asking'
      <3>1. /\ \A d \in Callers : api[d] \in Waits => api'[d] = api[d] /\ arg'[d] = arg[d]
            /\ \A d \in Callers : api'[d] \in Waits => api[d] \in Waits
            /\ \A d \in Callers : api'[d] \in {"add", "remove"} => d \in SurfaceCallers
        BY <2>1, <2>2 DEF Asking, Waits
      <3> QED BY <2>1, <2>6, <3>1, SameAsking
    <2>8. Working'
      BY <1>1, <2>1, <2>2, <2>5, <2>6 DEF Working
    <2> QED BY <2>7, <2>8
  <1>7. CASE RemoveRequest(c)
    <2>1. /\ api[c] = "removeRequest" /\ api' = [api EXCEPT ![c] = "find"]
          /\ mRequestQueue' = Removed(mRequestQueue, mine[c])
          /\ UNCHANGED <<request, arg, mIsRunning>>
      BY <1>7 DEF RemoveRequest, ApiGoto, runVars
    <2>2. \A d \in Callers : api'[d] = IF d = c THEN "find" ELSE api[d]
      BY <1>2, <2>1 DEF Types
    <2>3. request[mine[c]].what = "draw"
      BY <2>1 DEF Owning, Finding, Found
    <2>4. /\ \A q : InQueue(q)' => InQueue(q)
          /\ \A q : InQueue(q) /\ request[q].what # "draw" => InQueue(q)'
      BY <1>2, <2>1, <2>3, RemovedKeepsOthers DEF InQueue
    <2>5. \A q \in Requests : (InHand(q)' => InHand(q)) /\ (Asks(q)' <=> Asks(q))
      BY <1>1, <2>1, <2>4 DEF InHand, Asks
    <2>6. Asking'
      <3>1. /\ \A d \in Callers : api[d] \in Waits => api'[d] = api[d] /\ arg'[d] = arg[d]
            /\ \A d \in Callers : api'[d] \in Waits => api[d] \in Waits
            /\ \A d \in Callers : api'[d] \in {"add", "remove"} => d \in SurfaceCallers
        BY <2>1, <2>2 DEF Asking, Waits
      <3> QED BY <2>1, <2>5, <3>1, SameAsking
    <2>7. Working'
      BY <1>1, <2>1, <2>2, <2>5 DEF Working
    <2> QED BY <2>6, <2>7
  <1>8. CASE ReleaseClear(c) /\ OfferQuit
    <2>1. /\ api[c] \in {"clear", "clearOnly"} /\ UNCHANGED <<arg, mIsRunning>>
          /\ api' \in {[api EXCEPT ![c] = "stopHolder"], [api EXCEPT ![c] = "join"]}
      BY <1>8 DEF ReleaseClear, ApiGoto, runVars
    <2>2. mIsRunning = FALSE
      BY <2>1 DEF Working
    <2>3. PICK q \in Requests :
            q = Obtained(<<>>) /\ q # current /\ \A i \in DOMAIN <<>> : <<>>[i] # q
      BY ObtainedIsFree
    <2>4. Put(<<>>, q, "quit", None, request[q].forResult)
      BY <1>8, <2>3 DEF OfferQuit
    <2>5. /\ request'[q].what = "quit"
          /\ \A p \in Requests : p # q => request'[p] = request[p] /\ (InQueue(p)' => InQueue(p))
      BY <1>2, <2>3, <2>4, PutIsQueued
    <2>6. \A p \in Requests : Asks(p)' => Asks(p) /\ request'[p] = request[p]
      BY <1>1, <2>5 DEF InHand, Asks
    <2>7. \A d \in Callers : d # c => api'[d] = api[d]
      BY <1>2, <2>1 DEF Types
    <2>8. api'[c] \in {"stopHolder", "join"}
      BY <1>2, <2>1 DEF Types
    <2>9. Asking'
      <3>1. \A d \in Callers : api'[d] \in {"add", "remove"} \cup Waits => d \in SurfaceCallers
        BY <2>7, <2>8 DEF Asking, Waits
      <3>2. \A p, r \in Requests : Asks(p)' /\ Asks(r)' => p = r
        BY <2>6 DEF Asking
      <3>3. ASSUME NEW p \in Requests, Asks(p)'
            PROVE  \E d \in Callers : api'[d] = WaitFor(request'[p].what) /\ arg'[d] = request'[p].arg
        <4>1. PICK d \in Callers : api[d] = WaitFor(request[p].what) /\ arg[d] = request[p].arg
          BY <2>6, <3>3 DEF Asking
        <4>2. d # c
          BY <2>1, <4>1 DEF WaitFor
        <4> QED BY <2>1, <2>6, <2>7, <3>3, <4>1, <4>2
      <3> QED BY <2>1, <2>2, <3>1, <3>2, <3>3 DEF Asking
    <2>10. Working'
      BY <2>1, <2>2 DEF Working
    <2> QED BY <2>9, <2>10
  <1> DEFINE Passes == \/ AddOffer(c) /\ mFinished
                       \/ RemoveOffer(c) /\ (mFinished \/ ~mIsRunning)
                       \/ OfferDraw(c) /\ ~Offer("draw", None)
                       \/ ReleaseClear(c) /\ ~OfferQuit
             Moves == \/ \E id \in Ids : AddSurface(c, id) \/ RemoveSurface(c, id)
                      \/ RequestFrame(c) \/ Release(c)
                      \/ CaptureStillAsync(c) \/ CaptureStill(c) \/ ReleaseHolder(c)
                      \/ Result(c) \/ FindRequest(c) \/ ReleaseJoin(c)
  <1>9. CASE Moves \/ Passes
    <2>1. UNCHANGED <<mRequestQueue, request>> /\ mIsRunning' \in {mIsRunning, FALSE}
      <3>1. CASE Moves
        BY <3>1 DEF AddSurface, RemoveSurface, RequestFrame, Release, CaptureStillAsync, CaptureStill,
                    Result, FindRequest, ReleaseJoin, ReleaseHolder, taskVars, runVars
      <3>2. CASE Passes
        BY <3>2 DEF AddOffer, RemoveOffer, OfferDraw, ReleaseClear, taskVars, runVars
      <3> QED BY <1>9, <3>1, <3>2
    <2>2. \A d \in Callers :
            \/ api'[d] = api[d] /\ arg'[d] = arg[d]
            \/ /\ api[d] \notin Waits /\ api'[d] \notin Waits
               /\ api'[d] \in {"add", "remove"} => d \in SurfaceCallers
               /\ api'[d] \in {"clear", "clearOnly"} => mIsRunning' = FALSE
      <3>1. CASE \E id \in Ids : AddSurface(c, id) \/ RemoveSurface(c, id)
        <4>1. PICK id \in Ids, next \in {"add", "remove"} :
                BeginWith(c, next, id) /\ c \in SurfaceCallers
          BY <3>1 DEF AddSurface, RemoveSurface
        <4> QED BY <1>2, <4>1 DEF BeginWith, Waits, Types
      <3>2. CASE RequestFrame(c) \/ Release(c)
        BY <1>2, <3>2 DEF RequestFrame, Release, Begin, Waits, Types
      <3>3. CASE CaptureStillAsync(c) \/ CaptureStill(c) \/ ReleaseHolder(c)
        BY <1>2, <3>3 DEF CaptureStillAsync, CaptureStill, ReleaseHolder, NotifyHolder, Waits, Types
      <3>4. CASE Result(c) \/ FindRequest(c) \/ ReleaseJoin(c)
        BY <1>2, <3>4 DEF Result, FindRequest, ReleaseJoin, ApiGoto, Waits, Types
      <3>5. CASE Passes
        <4>1. /\ api[c] \in {"add", "remove", "offerDraw", "clear", "clearOnly"} /\ arg' = arg
              /\ \E next \in {"idle", "stopHolder", "join"} : api' = [api EXCEPT ![c] = next]
          BY <3>5 DEF AddOffer, RemoveOffer, OfferDraw, ReleaseClear, ApiGoto
        <4> QED BY <1>2, <4>1 DEF Waits, Types
      <3> QED BY <1>9, <3>1, <3>2, <3>3, <3>4, <3>5
    <2>3. /\ \A d \in Callers : api[d] \in Waits => api'[d] = api[d] /\ arg'[d] = arg[d]
          /\ \A d \in Callers : api'[d] \in Waits => api[d] \in Waits
          /\ \A d \in Callers : api'[d] \in {"add", "remove"} => d \in SurfaceCallers
          /\ \A d \in Callers :
                api'[d] \in {"clear", "clearOnly"} => api[d] = api'[d] \/ mIsRunning' = FALSE
      BY <2>2 DEF Asking
    <2> QED BY <1>1, <2>1, <2>3, SameRequests
  <1>10. \/ AddOffer(c) /\ ~mFinished
         \/ RemoveOffer(c) /\ ~(mFinished \/ ~mIsRunning)
         \/ OfferDraw(c) /\ Offer("draw", None)
         \/ CheckMasterSurface(c)
         \/ RemoveRequest(c)
         \/ ReleaseClear(c) /\ OfferQuit
         \/ Moves \/ Passes
    <2>1. CASE Call(c)
      BY <2>1 DEF Call
    <2>2. CASE Continue(c)
      BY <2>2 DEF Continue
    <2> QED BY <2>1, <2>2
  <1> QED BY <1>3, <1>4, <1>5, <1>6, <1>7, <1>8, <1>9, <1>10

\* The capture thread, the camera's frames and the master surface.
LEMMA OthersAsk ==
    ASSUME EndlessRequests, IsFiniteSet(Callers), Owning, overtaken = FALSE,
           OneSurfaceCaller, Asking, Working,
           CaptureStep \/ OnFrameAvailable \/ MasterReleased
    PROVE  Asking' /\ Working'
  <1>1. CASE CaptureStep
    <2>1. /\ UNCHANGED <<mRequestQueue, request, worker, current, arg, mIsRunning>>
          /\ UNCHANGED api
             \/ api' = [c \in Callers |-> IF api[c] = "stillWait" THEN "idle" ELSE api[c]]
      BY <1>1 DEF CaptureStep, CaptureBegin, CaptureTest, CaptureTake, CaptureWoken,
                  CaptureWrite, TakeFile, CaptureGoto, taskVars, runVars
    <2>2. \A c \in Callers : api'[c] = api[c] \/ (api[c] = "stillWait" /\ api'[c] = "idle")
      BY <2>1
    <2> QED BY <2>1, <2>2, SameRequests DEF Asking, Waits
  <1>2. CASE OnFrameAvailable
    <2>1. Offer("draw", None) /\ UNCHANGED <<worker, current, api, arg, mIsRunning>>
      BY <1>2 DEF OnFrameAvailable, runVars, callerVars
    <2> QED BY <2>1, OtherOffer DEF Asking
  <1>3. CASE MasterReleased
    <2>1. UNCHANGED <<mRequestQueue, request, worker, current, api, arg, mIsRunning>>
      BY <1>3 DEF MasterReleased, taskVars, runVars, callerVars
    <2> QED BY <2>1, SameRequests DEF Asking
  <1> QED BY <1>1, <1>2, <1>3

\* Who waits has asked, in every state.
LEMMA AlwaysAsked ==
    ASSUME EndlessRequests, IsFiniteSet(Callers), OneFrameCaller, OneSurfaceCaller
    PROVE  Spec => [](Owning /\ Holder /\ Asking /\ Working)
  <1>1. Init => Flags /\ Holder
    BY DEF Init, TaskInit, Flags, Holder, Workers, Captures
  <1>2. Owning /\ Holder /\ [Next]_vars => Holder'
    BY HolderStays
  <1>3. Owning /\ Flags /\ Holder /\ Asking /\ Working /\ [Next]_vars => Asking' /\ Working'
    <2> SUFFICES ASSUME Owning, Flags, Holder, Asking, Working, [Next]_vars
                 PROVE  Asking' /\ Working'
      OBVIOUS
    <2>1. CASE UNCHANGED vars
      <3>1. UNCHANGED <<mRequestQueue, request, worker, current, api, arg, mIsRunning>>
        BY <2>1 DEF vars, taskVars, runVars, callerVars
      <3> QED BY <3>1, SameRequests DEF Asking
    <2>2. CASE Next
      <3>1. overtaken = FALSE
        BY <2>2 DEF Next, Flags
      <3>2. CASE WorkerStep
        BY <3>1, <3>2, WorkerAnswers
      <3>3. CASE CaptureStep \/ OnFrameAvailable \/ MasterReleased
        BY <3>1, <3>3, OthersAsk
      <3>4. ASSUME NEW c \in Callers, Call(c) \/ Continue(c), CallerKeeps
            PROVE  Asking' /\ Working'
        BY <3>1, <3>4, CallersAsk
      <3> QED BY <2>2, <3>2, <3>3, <3>4 DEF Next
    <2> QED BY <2>1, <2>2
  <1> QED BY <1>1, <1>2, <1>3, FlagsStay, AskingStarts, OwningIsInvariant, PTL DEF Spec

\* Who waits for a surface while the task runs is not forgotten: the worker has
\* its request before it or in hand, and is at work (addSurface, removeSurface,
\* MessageTask.run).
SurfaceCallServed ==
    mIsRunning = TRUE =>
       \A c \in Callers : api[c] \in Waits =>
          /\ worker \in {"test", "take", "process", "recycle"}
          /\ \E q \in Requests :
                InHand(q) /\ api[c] = WaitFor(request[q].what) /\ request[q].arg = arg[c]

\* However many requests are queued, and whatever frames, stills and releases
\* come in between, a caller that waits for its surface has a request that the
\* worker will come to, until the renderer is released: the safe part of
\* SurfaceCallReturns.
THEOREM SurfaceCallsServed ==
    ASSUME EndlessRequests, IsFiniteSet(Callers), OneFrameCaller, OneSurfaceCaller
    PROVE  Spec => []SurfaceCallServed
  <1>1. Asking /\ Working => SurfaceCallServed
    <2> SUFFICES ASSUME Asking, Working, mIsRunning = TRUE, NEW c \in Callers, api[c] \in Waits
                 PROVE  /\ worker \in {"test", "take", "process", "recycle"}
                        /\ \E q \in Requests : /\ InHand(q) /\ api[c] = WaitFor(request[q].what)
                                              /\ request[q].arg = arg[c]
      BY DEF SurfaceCallServed
    <2>1. PICK q \in Requests : Asks(q)
      BY DEF Asking
    <2>2. PICK d \in Callers : api[d] = WaitFor(request[q].what) /\ arg[d] = request[q].arg
      BY <2>1 DEF Asking
    <2>3. c \in SurfaceCallers /\ d \in SurfaceCallers
      BY <2>2 DEF Asking, WaitFor, Waits
    <2>4. c = d
      BY <2>3 DEF OneSurfaceCaller
    <2> QED BY <2>1, <2>2, <2>4 DEF Working, Asks
  <1> QED BY <1>1, AlwaysAsked, PTL

\* When removeSurface has waited, nothing draws on the surface any more: what
\* wakes it is the answer to its own request.
THEOREM RemovedBeforeReturn ==
    ASSUME EndlessRequests, IsFiniteSet(Callers), OneFrameCaller, OneSurfaceCaller
    PROVE  Spec => RemovedWhenReturned
  <1>1. ASSUME Owning, Holder, Asking, Next, NEW c \in Callers,
               api[c] = "removeWait", api'[c] = "idle"
        PROVE  arg[c] \notin mClients'
    <2>1. api \in [Callers -> Calls] /\ arg \in [Callers -> Ids] /\ c \in SurfaceCallers
      BY <1>1 DEF Owning, Types, Asking, Waits
    <2>2. CASE HandleAddSurface \/ HandleRemoveSurface
      <3>1. worker = "process" /\ current \in Requests /\ request[current] \in Messages
        BY <1>1, <2>2 DEF HandleAddSurface, HandleRemoveSurface, Processing, Holder, Owning, Types
      <3>2. Asks(current) /\ (HandleAddSurface => request[current].what = "add")
        BY <2>2, <3>1 DEF HandleAddSurface, HandleRemoveSurface, Processing, Messages, Asks, InHand
      <3>3. PICK d \in Callers :
              api[d] = WaitFor(request[current].what) /\ arg[d] = request[current].arg
        BY <1>1, <3>1, <3>2 DEF Asking
      <3>4. d \in SurfaceCallers
        BY <1>1, <3>3 DEF Asking, WaitFor, Waits
      <3>5. d = c
        BY <2>1, <3>4 DEF OneSurfaceCaller
      <3>6. request[current].what # "add" /\ request[current].arg = arg[c]
        BY <1>1, <3>3, <3>5 DEF WaitFor
      <3> QED BY <2>2, <3>2, <3>6 DEF HandleRemoveSurface
    <2>3. CASE WorkerStep /\ ~(HandleAddSurface \/ HandleRemoveSurface)
      BY <1>1, <2>1, <2>3
         DEF WorkerStep, Test, TakeRequest, Quit, HandleDraw, HandleReCreateMasterSurface, Recycle,
             Finish, OnStop, StopHolder, NotifyHolder, HandleRemoveAll, callerVars
    <2>4. CASE CaptureStep
      BY <1>1, <2>1, <2>4
         DEF CaptureStep, CaptureBegin, CaptureTest, CaptureTake, CaptureWoken, CaptureWrite,
             TakeFile, CaptureGoto
    <2>5. CASE OnFrameAvailable \/ MasterReleased
      BY <1>1, <2>5 DEF OnFrameAvailable, MasterReleased, callerVars
    <2>6. ASSUME NEW d \in Callers, Call(d) PROVE FALSE
      BY <1>1, <2>1, <2>6
         DEF Call, AddSurface, RemoveSurface, CheckMasterSurface, RequestFrame, CaptureStillAsync,
             CaptureStill, Release, Begin, BeginWith, NotifyHolder
    <2>7. ASSUME NEW d \in Callers, Continue(d) PROVE FALSE
      BY <1>1, <2>1, <2>7
         DEF Continue, AddOffer, RemoveOffer, Result, FindRequest, RemoveRequest, OfferDraw,
             ReleaseClear, ReleaseJoin, ReleaseHolder, ApiGoto
    <2> QED BY <1>1, <2>2, <2>3, <2>4, <2>5, <2>6, <2>7 DEF Next
  <1>2. ASSUME Owning, Holder, Asking
        PROVE  [\A c \in Callers :
                  api[c] = "removeWait" /\ api'[c] = "idle" => arg[c] \notin mClients']_vars
               \/ ~[Next]_vars
    BY <1>1, <1>2
  <1>3. Owning /\ Holder /\ Asking /\ [Next]_vars
          => [\A c \in Callers :
                api[c] = "removeWait" /\ api'[c] = "idle" => arg[c] \notin mClients']_vars
    BY <1>2
  <1> QED BY <1>3, AlwaysAsked, PTL DEF Spec, RemovedWhenReturned

-----------------------------------------------------------------------------
(* What a caller that waits for a still picture waits for                  *)

\* The capture thread sleeps only when there is no picture to take, or the holder
\* has stopped; who waits for a picture has left a file, which the thread has
\* taken or will take; and the end of the holder finds the thread awake or
\* asleep, unless it fell between its test and its wait.
Stills ==
    /\ DOMAIN api = Callers
    /\ isRunning = TRUE => capture # "ended"
    /\ capture \in {"begin", "waiting"} => taken = FALSE
    /\ capture = "waiting" /\ isRunning = TRUE => mCaptureFile = FALSE
    /\ \A c \in Callers :
          api[c] = "stillWait" /\ isRunning = TRUE => mCaptureFile = TRUE \/ taken = TRUE
    /\ isRunning = FALSE /\ late = FALSE => capture \notin {"begin", "sync", "waiting"}

\* The worker has nothing to do with it but at its end, when it stops the holder.
LEMMA WorkerStills == Flags /\ Stills /\ WorkerStep => Stills'
  <1> SUFFICES ASSUME Flags, Stills, WorkerStep PROVE Stills'
    OBVIOUS
  <1> USE DEF Flags, Stills
  <1>1. CASE Test \/ TakeRequest \/ Quit \/ HandleDraw \/ HandleReCreateMasterSurface
             \/ Recycle \/ Finish \/ HandleRemoveAll
    <2>1. UNCHANGED <<holderVars, callerVars>>
      BY <1>1 DEF Test, TakeRequest, Quit, HandleDraw, HandleReCreateMasterSurface, Recycle,
                  Finish, HandleRemoveAll
    <2> QED BY <2>1 DEF holderVars, callerVars
  <1>2. CASE HandleAddSurface \/ HandleRemoveSurface
    <2>1. NotifyClients /\ UNCHANGED holderVars
      BY <1>2 DEF HandleAddSurface, HandleRemoveSurface
    <2> QED BY <2>1 DEF NotifyClients, holderVars
  <1>3. CASE OnStop
    BY <1>3 DEF OnStop, StopHolder, NotifyHolder
  <1> QED BY <1>1, <1>2, <1>3 DEF WorkerStep

\* The capture thread sleeps without a file only, and answers everybody.
LEMMA CaptureStills == Flags /\ Stills /\ CaptureStep => Stills'
  <1> SUFFICES ASSUME Flags, Stills, CaptureStep PROVE Stills'
    OBVIOUS
  <1> USE DEF Flags, Stills, CaptureGoto
  <1>1. CASE CaptureBegin
    BY <1>1 DEF CaptureBegin
  <1>2. CASE CaptureTest
    BY <1>2 DEF CaptureTest
  <1>3. CASE CaptureTake
    BY <1>3 DEF CaptureTake, TakeFile
  <1>4. CASE CaptureWoken
    BY <1>4 DEF CaptureWoken, TakeFile
  <1>5. CASE CaptureWrite
    BY <1>5 DEF CaptureWrite
  <1> QED BY <1>1, <1>2, <1>3, <1>4, <1>5 DEF CaptureStep

\* Who leaves a file, or stops the holder, wakes the thread.
LEMMA CallersStills ==
    ASSUME Flags, Stills, NEW c \in Callers, Call(c) \/ Continue(c), CallerKeeps
    PROVE  Stills'
  <1>0. UNCHANGED taken
    BY DEF CallerKeeps
  <1> USE DEF Flags, Stills
  <1>1. CASE CaptureStillAsync(c)
    BY <1>0, <1>1 DEF CaptureStillAsync, NotifyHolder
  <1>2. CASE CaptureStill(c)
    BY <1>0, <1>2 DEF CaptureStill
  <1>3. CASE ReleaseHolder(c)
    BY <1>0, <1>3 DEF ReleaseHolder
  <1>4. CASE \/ \E id \in Ids : AddSurface(c, id) \/ RemoveSurface(c, id)
             \/ CheckMasterSurface(c) \/ RequestFrame(c) \/ Release(c)
    <2>1. UNCHANGED <<isRunning, mCaptureFile, capture, late>>
      BY <1>4 DEF AddSurface, RemoveSurface, CheckMasterSurface, RequestFrame, Release
    <2>2. \E next \in {"add", "remove", "result", "find", "clear", "clearOnly"} :
             api' = [api EXCEPT ![c] = next]
      BY <1>4 DEF AddSurface, RemoveSurface, CheckMasterSurface, RequestFrame, Release, Begin,
                  BeginWith
    <2> QED BY <1>0, <2>1, <2>2
  <1>5. CASE AddOffer(c) \/ RemoveOffer(c) \/ Result(c) \/ FindRequest(c) \/ RemoveRequest(c)
             \/ OfferDraw(c) \/ ReleaseClear(c) \/ ReleaseJoin(c)
    <2>1. UNCHANGED <<isRunning, mCaptureFile, capture, late>>
      BY <1>5 DEF AddOffer, RemoveOffer, Result, FindRequest, RemoveRequest, OfferDraw,
                  ReleaseClear, ReleaseJoin
    <2>2. \E next \in Calls \ {"stillWait"} : api' = [api EXCEPT ![c] = next]
      BY <1>5 DEF AddOffer, RemoveOffer, Result, FindRequest, RemoveRequest, OfferDraw,
                  ReleaseClear, ReleaseJoin, ApiGoto, Calls
    <2> QED BY <1>0, <2>1, <2>2
  <1> QED BY <1>1, <1>2, <1>3, <1>4, <1>5 DEF Call, Continue

\* Who waits for a still picture while the holder runs has left a file, and the
\* capture thread is awake; when the holder has stopped, the thread is on its way
\* to its end, unless the stop fell between its test and its wait (captureStill,
\* captureLoop).
StillServed ==
    /\ \A c \in Callers : api[c] = "stillWait" /\ isRunning = TRUE =>
          (mCaptureFile = TRUE \/ taken = TRUE) /\ capture \notin {"waiting", "ended"}
    /\ isRunning = FALSE /\ late = FALSE => capture \notin {"begin", "sync", "waiting"}

\* Whatever the callers and the worker do, no notify of the holder's monitor is
\* lost but the one that CaptureEnds names: the safe part of StillReturns and
\* CaptureEnds.
THEOREM StillsServed == Spec => []StillServed
  <1>1. Init => Flags /\ Stills
    BY DEF Init, TaskInit, Flags, Stills
  <1>2. Flags /\ Stills /\ [Next]_vars => Stills'
    <2> SUFFICES ASSUME Flags, Stills, [Next]_vars PROVE Stills'
      OBVIOUS
    <2>1. CASE OnFrameAvailable \/ MasterReleased \/ UNCHANGED vars
      <3>1. UNCHANGED <<holderVars, callerVars>>
        BY <2>1 DEF OnFrameAvailable, MasterReleased, vars
      <3> QED BY <3>1 DEF Stills, holderVars, callerVars
    <2> QED BY <2>1, WorkerStills, CaptureStills, CallersStills DEF Next
  <1>3. Flags /\ Stills => StillServed
    BY DEF Flags, Stills, StillServed
  <1> QED BY <1>1, <1>2, <1>3, FlagsStay, PTL DEF Spec


-----------------------------------------------------------------------------
(* What a release waits for                                                 *)

AtEnd == {"stop", "removeAll", "ended"}

\* What the flags say of the worker, and of the callers that release.
Ending ==
    /\ mFinished = TRUE <=> worker \in AtEnd
    /\ worker \in AtEnd => mIsRunning = FALSE
    /\ worker = "ended" => mClients = {}
    /\ \A c \in Callers : api[c] \in {"clear", "clearOnly", "join"} => mIsRunning = FALSE

\* A task that was released is at its end, or will be told to end, or has been.
Clears(c) == api[c] \in {"clear", "clearOnly"}
Quits(q)  == InHand(q) /\ request[q].what = "quit"
Quitting ==
    mIsRunning = FALSE =>
       \/ worker \in {"finish"} \cup AtEnd
       \/ \E c \in Callers : Clears(c)
       \/ \E q \in Requests : Quits(q)

\* While nobody takes back what was said.
LEMMA SameQuits ==
    ASSUME Quitting, mIsRunning' = mIsRunning,
           worker \in {"finish"} \cup AtEnd => worker' \in {"finish"} \cup AtEnd,
           \A c \in Callers : Clears(c) => Clears(c)',
           \A q \in Requests : Quits(q) => Quits(q)'
    PROVE  Quitting'
  BY DEF Quitting

\* The flags follow the worker.
LEMMA EndingStays ==
    ASSUME Types, Flags, Ending, [Next]_vars
    PROVE  Ending'
  <1>1. CASE UNCHANGED vars
    BY <1>1 DEF vars, runVars, callerVars, Ending
  <1>2. CASE WorkerStep
    <2>1. \A c \in Callers : api'[c] \in {api[c], "idle"}
      <3>1. \/ api' = api
            \/ \E W \in SUBSET Calls :
                  api' = [c \in Callers |-> IF api[c] \in W THEN "idle" ELSE api[c]]
        <4>1. CASE HandleAddSurface \/ HandleRemoveSurface
          <5>1. \/ api' = api
                \/ api' = [c \in Callers |-> IF api[c] \in {"addWait", "removeWait"}
                                             THEN "idle" ELSE api[c]]
            BY <4>1 DEF HandleAddSurface, HandleRemoveSurface, NotifyClients
          <5> QED BY <5>1 DEF Calls
        <4>2. CASE OnStop
          <5>1. api' = [c \in Callers |-> IF api[c] \in {"stillWait"} THEN "idle" ELSE api[c]]
            BY <4>2 DEF OnStop, StopHolder, NotifyHolder
          <5> QED BY <5>1 DEF Calls
        <4>3. CASE ~(HandleAddSurface \/ HandleRemoveSurface) /\ ~OnStop
          BY <1>2, <4>3 DEF WorkerStep, Test, TakeRequest, Quit, HandleDraw,
             HandleReCreateMasterSurface, Recycle, Finish, HandleRemoveAll, callerVars
        <4> QED BY <4>1, <4>2, <4>3
      <3> QED BY <3>1
    <2>2. CASE Finish
      BY <2>1, <2>2 DEF Finish, WorkerGoto, Ending, AtEnd
    <2>3. CASE OnStop
      BY <2>1, <2>3 DEF OnStop, WorkerGoto, runVars, Ending, AtEnd
    <2>4. CASE HandleRemoveAll
      BY <2>1, <2>4 DEF HandleRemoveAll, WorkerGoto, runVars, Ending, AtEnd
    <2>5. CASE ~Finish /\ ~OnStop /\ ~HandleRemoveAll
      <3>1. /\ worker \in {"test", "take", "process", "recycle"}
            /\ worker' \in {"test", "take", "process", "recycle", "finish"}
            /\ UNCHANGED runVars
        BY <1>2, <2>5 DEF WorkerStep, Test, TakeRequest, Quit, HandleDraw, HandleAddSurface,
           HandleRemoveSurface, HandleReCreateMasterSurface, Recycle, WorkerGoto, Processing
      <3> QED BY <2>1, <3>1 DEF runVars, Ending, AtEnd
    <2> QED BY <2>2, <2>3, <2>4, <2>5
  <1>3. CASE CaptureStep
    <2>1. /\ UNCHANGED <<worker, mClients, mIsRunning, mFinished>>
          /\ \/ api' = api
             \/ api' = [c \in Callers |-> IF api[c] = "stillWait" THEN "idle" ELSE api[c]]
      BY <1>3 DEF CaptureStep, CaptureBegin, CaptureTest, CaptureTake, CaptureWoken,
                  CaptureWrite, TakeFile, CaptureGoto, runVars
    <2>2. \A c \in Callers : api'[c] \in {api[c], "idle"}
      BY <2>1
    <2> QED BY <2>1, <2>2 DEF Ending
  <1>4. CASE OnFrameAvailable \/ MasterReleased
    BY <1>4 DEF OnFrameAvailable, MasterReleased, runVars, callerVars, Ending
  <1>5. ASSUME NEW c \in Callers, Call(c) \/ Continue(c), CallerKeeps PROVE Ending'
    <2>1. UNCHANGED <<worker, mClients>>
      BY <1>5 DEF CallerKeeps
    <2>2. mFinished' = mFinished /\ mIsRunning' \in {mIsRunning, FALSE}
      BY <1>5 DEF Call, Continue, AddSurface, RemoveSurface, CheckMasterSurface, RequestFrame,
         CaptureStillAsync, CaptureStill, Release, AddOffer, RemoveOffer, Result, FindRequest,
         RemoveRequest, OfferDraw, ReleaseClear, ReleaseJoin, ReleaseHolder, runVars
    <2>3. ASSUME NEW d \in Callers, api'[d] \in {"clear", "clearOnly", "join"}
          PROVE  mIsRunning' = FALSE \/ api[d] \in {"clear", "clearOnly", "join"}
      <3>1. CASE CaptureStillAsync(c) \/ CaptureStill(c) \/ ReleaseHolder(c)
        BY <2>3, <3>1 DEF CaptureStillAsync, CaptureStill, ReleaseHolder, NotifyHolder, Types
      <3>2. CASE ~(CaptureStillAsync(c) \/ CaptureStill(c) \/ ReleaseHolder(c))
        BY <1>5, <2>3, <3>2 DEF Call, Continue, AddSurface, RemoveSurface, CheckMasterSurface,
           RequestFrame, Release, Begin, BeginWith, AddOffer, RemoveOffer, Result, FindRequest,
           RemoveRequest, OfferDraw, ReleaseClear, ReleaseJoin, ApiGoto, Types
      <3> QED BY <3>1, <3>2
    <2> QED BY <2>1, <2>2, <2>3 DEF Ending
  <1> QED BY <1>1, <1>2, <1>3, <1>4, <1>5 DEF Next

\* The worker takes the quit message as it comes, and no other for it.
LEMMA WorkerQuits ==
    ASSUME EndlessRequests, IsFiniteSet(Callers), Owning, Holder, Flags, overtaken = FALSE,
           Ending, Quitting, WorkerStep
    PROVE  Quitting'
  <1>0. Types
    BY DEF Owning
  <1>1. CASE Test
    BY <1>1 DEF Test, WorkerGoto, taskVars, runVars, callerVars, Flags, Quitting, Clears,
       Quits, InHand, InQueue, AtEnd
  <1>2. CASE TakeRequest
    <2>1. /\ UNCHANGED <<request, api, mIsRunning>> /\ worker = "take"
      BY <1>2 DEF TakeRequest, runVars, callerVars
    <2>2. \A q \in Requests : Quits(q) => Quits(q)'
      BY <1>0, <1>2, <2>1, TakenIsInHand DEF Quits
    <2> QED BY <2>1, <2>2, SameQuits DEF Clears, AtEnd
  <1>3. CASE Quit \/ Finish \/ OnStop \/ HandleRemoveAll
    BY <1>3 DEF Quit, Finish, OnStop, HandleRemoveAll, WorkerGoto, Quitting, AtEnd
  <1>4. CASE HandleDraw \/ HandleAddSurface \/ HandleRemoveSurface \/ HandleReCreateMasterSurface
    <2>1. worker = "process" /\ current \in Requests /\ mIsRunning' = mIsRunning
          /\ current' = current
      BY <1>4 DEF HandleDraw, HandleAddSurface, HandleRemoveSurface,
         HandleReCreateMasterSurface, Processing, runVars, Holder
    <2>2. request[current].what # "quit" /\ ~InQueue(current)
      <3>1. ~InQueue(current)
        BY <2>1 DEF Owning, Queued, InQueue
      <3>2. request[current].what # "quit"
        BY <1>0, <1>4, <2>1 DEF HandleDraw, HandleAddSurface, HandleRemoveSurface,
           HandleReCreateMasterSurface, Processing, Types, Messages
      <3> QED BY <3>1, <3>2
    <2>3. \A c \in Callers : Clears(c) => Clears(c)'
      <3>1. \/ api' = api
            \/ api' = [c \in Callers |-> IF api[c] \in {"addWait", "removeWait"}
                                         THEN "idle" ELSE api[c]]
        BY <1>4 DEF HandleDraw, HandleAddSurface, HandleRemoveSurface,
           HandleReCreateMasterSurface, NotifyClients, callerVars
      <3> QED BY <3>1 DEF Clears
    <2>4. \A q \in Requests : Quits(q) => Quits(q)'
      <3>1. CASE Offer("recreate", None)
        <4>1. PICK q \in Requests :
                /\ q = Obtained(mRequestQueue) /\ q # current
                /\ \A i \in DOMAIN mRequestQueue : mRequestQueue[i] # q
          BY ObtainedIsFree
        <4>2. Put(mRequestQueue, q, "recreate", None, request[q].forResult)
          BY <3>1, <4>1 DEF Offer
        <4>3. /\ ~InHand(q)
              /\ \A p \in Requests : p # q =>
                    request'[p] = request[p] /\ (InQueue(p)' <=> InQueue(p))
          BY <1>0, <4>1, <4>2, PutIsQueued
        <4> QED BY <2>1, <2>2, <4>3 DEF Quits, InHand
      <3>2. CASE mRequestQueue' = mRequestQueue
                 /\ request' \in {request, [request EXCEPT ![current] = Blank]}
        <4>1. \A q \in Requests : q # current => request'[q] = request[q]
          BY <1>0, <3>2 DEF Types
        <4> QED BY <2>1, <2>2, <3>2, <4>1 DEF Quits, InHand, InQueue
      <3>3. Offer("recreate", None)
            \/ (/\ mRequestQueue' = mRequestQueue
                /\ request' \in {request, [request EXCEPT ![current] = Blank]})
        BY <1>4 DEF HandleDraw, HandleAddSurface, HandleRemoveSurface,
           HandleReCreateMasterSurface, taskVars
      <3> QED BY <3>1, <3>2, <3>3
    <2> QED BY <2>1, <2>3, <2>4, SameQuits DEF AtEnd
  <1>5. CASE Recycle
    <2>1. /\ worker = "recycle" /\ current \in Requests
          /\ UNCHANGED <<mRequestQueue, api, mIsRunning>>
          /\ request' = [request EXCEPT ![current] = Blank]
      BY <1>5 DEF Recycle, runVars, callerVars, Holder
    <2>2. ~InQueue(current)
      BY <2>1 DEF Owning, Queued, InQueue
    <2>3. \A q \in Requests : q # current => request'[q] = request[q]
      BY <1>0, <2>1 DEF Types
    <2>4. \A q \in Requests : Quits(q) => Quits(q)'
      BY <2>1, <2>2, <2>3 DEF Quits, InHand, InQueue
    <2> QED BY <2>1, <2>4, SameQuits DEF Clears, AtEnd
  <1> QED BY <1>1, <1>2, <1>3, <1>4, <1>5 DEF WorkerStep

\* An offer is put into a Request that is free, not into that of the quit message.
LEMMA OfferKeepsQuits ==
    ASSUME EndlessRequests, IsFiniteSet(Callers), Owning, overtaken = FALSE,
           UNCHANGED <<worker, current>>, NEW q, q = Obtained(mRequestQueue),
           NEW what, NEW a, NEW forResult, Put(mRequestQueue, q, what, a, forResult)
    PROVE  \A p \in Requests : Quits(p) => Quits(p)'
  <1>1. /\ q \in Requests /\ q # current
        /\ \A i \in DOMAIN mRequestQueue : mRequestQueue[i] # q
    BY ObtainedIsFree
  <1>2. Types
    BY DEF Owning
  <1>3. /\ ~InHand(q)
        /\ \A p \in Requests : p # q =>
              request'[p] = request[p] /\ (InQueue(p)' <=> InQueue(p))
    BY <1>1, <1>2, PutIsQueued
  <1> QED BY <1>3 DEF Quits, InHand

\* Nobody but a release clears the queue, and it puts the quit message there.
LEMMA CallersQuit ==
    ASSUME EndlessRequests, IsFiniteSet(Callers), OneFrameCaller, Owning, Flags,
           overtaken = FALSE, Ending, Quitting,
           NEW c \in Callers, Call(c) \/ Continue(c), CallerKeeps
    PROVE  Quitting'
  <1>0. Types /\ UNCHANGED <<worker, current>>
    BY DEF Owning, CallerKeeps
  <1>1. CASE Release(c)
    <2>1. api'[c] \in {"clear", "clearOnly"}
      BY <1>0, <1>1 DEF Release, Begin, Types
    <2> QED BY <2>1 DEF Quitting, Clears
  <1>2. CASE ReleaseClear(c)
    <2>1. CASE mFinished
      BY <1>0, <2>1 DEF Ending, Quitting
    <2>2. CASE ~mFinished
      <3>1. OfferQuit
        BY <1>2, <2>2 DEF ReleaseClear
      <3>2. PICK q \in Requests :
              q = Obtained(<<>>) /\ q # current /\ \A i \in DOMAIN <<>> : <<>>[i] # q
        BY ObtainedIsFree
      <3>3. Put(<<>>, q, "quit", None, request[q].forResult)
        BY <3>1, <3>2 DEF OfferQuit
      <3>4. request'[q].what = "quit" /\ InQueue(q)'
        BY <1>0, <3>2, <3>3, PutIsQueued
      <3> QED BY <3>4 DEF Quitting, Quits, InHand
    <2> QED BY <2>1, <2>2
  <1>3. CASE ~Release(c) /\ ~ReleaseClear(c)
    <2>1. mIsRunning' = mIsRunning
      BY <1>3 DEF Call, Continue, AddSurface, RemoveSurface, CheckMasterSurface, RequestFrame,
         CaptureStillAsync, CaptureStill, AddOffer, RemoveOffer, Result, FindRequest,
         RemoveRequest, OfferDraw, ReleaseJoin, ReleaseHolder, runVars
    <2>2. \A d \in Callers : Clears(d) => Clears(d)'
      <3>1. CASE CaptureStillAsync(c) \/ CaptureStill(c) \/ ReleaseHolder(c)
        BY <1>0, <3>1 DEF CaptureStillAsync, CaptureStill, ReleaseHolder, NotifyHolder, Clears
      <3>2. CASE ~(CaptureStillAsync(c) \/ CaptureStill(c) \/ ReleaseHolder(c))
        <4>1. /\ api[c] \notin {"clear", "clearOnly"}
              /\ \E next : api' = [api EXCEPT ![c] = next]
          BY <1>3, <3>2 DEF Call, Continue, AddSurface, RemoveSurface, CheckMasterSurface,
             RequestFrame, Begin, BeginWith, AddOffer, RemoveOffer, Result, FindRequest,
             RemoveRequest, OfferDraw, ReleaseJoin, ApiGoto
        <4> QED BY <1>0, <4>1 DEF Clears, Types
      <3> QED BY <3>1, <3>2
    <2>3. \A q \in Requests : Quits(q) => Quits(q)'
      <3>1. CASE RemoveRequest(c)
        <4>1. /\ api[c] = "removeRequest" /\ request' = request
              /\ mRequestQueue' = Removed(mRequestQueue, mine[c])
          BY <3>1 DEF RemoveRequest
        <4>2. request[mine[c]].what = "draw"
          BY <4>1 DEF Owning, Finding, Found
        <4>3. \A q : InQueue(q) /\ request[q].what # "draw" => InQueue(q)'
          BY <1>0, <4>1, <4>2, RemovedKeepsOthers DEF InQueue
        <4> QED BY <1>0, <4>1, <4>3 DEF Quits, InHand
      <3>2. CASE CheckMasterSurface(c)
        <4>1. Put(mRequestQueue, Obtained(mRequestQueue), "result", None, "recreate")
          BY <3>2 DEF CheckMasterSurface, OfferForResult
        <4> QED BY <1>0, <4>1, OfferKeepsQuits
      <3>3. CASE UNCHANGED <<mRequestQueue, request>>
        BY <1>0, <3>3 DEF Quits, InHand, InQueue
      <3>4. ASSUME NEW what, NEW a, Offer(what, a)
            PROVE  \A q \in Requests : Quits(q) => Quits(q)'
        BY <1>0, <3>4, OfferKeepsQuits DEF Offer
      <3>5. \/ RemoveRequest(c) \/ CheckMasterSurface(c)
            \/ UNCHANGED <<mRequestQueue, request>>
            \/ \E what, a : Offer(what, a)
        <4>1. CASE Call(c)
          BY <1>3, <4>1 DEF Call, AddSurface, RemoveSurface, RequestFrame, CaptureStillAsync,
             CaptureStill, taskVars
        <4>2. CASE AddOffer(c) \/ RemoveOffer(c) \/ OfferDraw(c)
          BY <4>2 DEF AddOffer, RemoveOffer, OfferDraw, taskVars
        <4>3. CASE Result(c) \/ FindRequest(c) \/ ReleaseJoin(c) \/ ReleaseHolder(c)
          BY <4>3 DEF Result, FindRequest, ReleaseJoin, ReleaseHolder, taskVars
        <4> QED BY <1>3, <4>1, <4>2, <4>3 DEF Continue
      <3> QED BY <3>1, <3>2, <3>3, <3>4, <3>5
    <2> QED BY <1>0, <2>1, <2>2, <2>3, SameQuits
  <1> QED BY <1>1, <1>2, <1>3

\* So do the capture thread, the camera's frames and the master surface.
LEMMA OthersQuit ==
    ASSUME EndlessRequests, IsFiniteSet(Callers), Owning, overtaken = FALSE, Quitting,
           CaptureStep \/ OnFrameAvailable \/ MasterReleased
    PROVE  Quitting'
  <1>1. CASE CaptureStep
    <2>1. /\ UNCHANGED <<mRequestQueue, request, worker, current, mIsRunning>>
          /\ \/ api' = api
             \/ api' = [c \in Callers |-> IF api[c] = "stillWait" THEN "idle" ELSE api[c]]
      BY <1>1 DEF CaptureStep, CaptureBegin, CaptureTest, CaptureTake, CaptureWoken,
                  CaptureWrite, TakeFile, CaptureGoto, taskVars, runVars
    <2>2. \A c \in Callers : Clears(c) => Clears(c)'
      BY <2>1 DEF Clears
    <2>3. \A q \in Requests : Quits(q) => Quits(q)'
      BY <2>1 DEF Quits, InHand, InQueue
    <2> QED BY <2>1, <2>2, <2>3, SameQuits
  <1>2. CASE OnFrameAvailable
    <2>1. mIsRunning' /\ mIsRunning
      BY <1>2 DEF OnFrameAvailable, runVars
    <2> QED BY <2>1 DEF Quitting
  <1>3. CASE MasterReleased
    <2>1. UNCHANGED <<mRequestQueue, request, worker, current, api, mIsRunning>>
      BY <1>3 DEF MasterReleased, taskVars, runVars, callerVars
    <2> QED BY <2>1, SameQuits DEF Clears, Quits, InHand, InQueue
  <1> QED BY <1>1, <1>2, <1>3

\* A renderer that was released does not miss it: until the worker is at its end,
\* the quit message is queued or in its hands, or a release has still to send
\* it; who waits for the task to finish waits for that, and at the end no
\* surface is left (MessageTask.release, run, RendererTask.onStop).
ReleaseServed ==
    /\ (\E c \in Callers : api[c] = "join") => mIsRunning = FALSE
    /\ mIsRunning = FALSE =>
          \/ worker \in {"finish"} \cup AtEnd
          \/ \E c \in Callers : api[c] \in {"clear", "clearOnly"}
          \/ \E q \in Requests : InHand(q) /\ request[q].what = "quit"
    /\ worker \in AtEnd => mFinished = TRUE
    /\ worker = "ended" => mClients = {}

\* For any number of callers and pending requests, whatever is offered, removed
\* or released again in between: the safe part of ReleaseReturns.
THEOREM ReleaseAlwaysServed ==
    ASSUME EndlessRequests, IsFiniteSet(Callers), OneFrameCaller
    PROVE  Spec => []ReleaseServed
  <1>1. Init => Flags /\ Holder /\ Ending /\ Quitting
    BY DEF Init, TaskInit, Flags, Holder, Workers, Captures, Ending, Quitting, AtEnd
  <1>2. Owning /\ Holder /\ [Next]_vars => Holder'
    BY HolderStays
  <1>3. Owning /\ Flags /\ Ending /\ [Next]_vars => Ending'
    BY EndingStays DEF Owning
  <1>4. Owning /\ Flags /\ Holder /\ Ending /\ Quitting /\ [Next]_vars => Quitting'
    <2> SUFFICES ASSUME Owning, Flags, Holder, Ending, Quitting, [Next]_vars
                 PROVE  Quitting'
      OBVIOUS
    <2>1. CASE UNCHANGED vars
      <3>1. UNCHANGED <<mRequestQueue, request, worker, current, api, mIsRunning>>
        BY <2>1 DEF vars, taskVars, runVars, callerVars
      <3> QED BY <3>1, SameQuits DEF Clears, Quits, InHand, InQueue
    <2>2. CASE Next
      <3>1. overtaken = FALSE
        BY <2>2 DEF Next, Flags
      <3>2. CASE WorkerStep
        BY <3>1, <3>2, WorkerQuits
      <3>3. CASE CaptureStep \/ OnFrameAvailable \/ MasterReleased
        BY <3>1, <3>3, OthersQuit
      <3>4. ASSUME NEW c \in Callers, Call(c) \/ Continue(c), CallerKeeps
            PROVE  Quitting'
        BY <3>1, <3>4, CallersQuit
      <3> QED BY <2>2, <3>2, <3>3, <3>4 DEF Next
    <2> QED BY <2>1, <2>2
  <1>5. Ending /\ Quitting => ReleaseServed
    BY DEF Ending, Quitting, Clears, Quits, ReleaseServed
  <1> QED BY <1>1, <1>2, <1>3, <1>4, <1>5, FlagsStay, OwningIsInvariant, PTL DEF Spec
=============================================================================
