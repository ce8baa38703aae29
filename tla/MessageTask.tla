---------------------------- MODULE MessageTask -----------------------------
(***************************************************************************)
(* The queue of a MessageTask: a deque of Request objects that are pooled. *)
(* A Request is obtained from the pool or made, filled in, offered to the  *)
(* deque, taken by the worker thread and given back to the pool; nothing   *)
(* but this order keeps it from being in two places.  An object nobody     *)
(* refers to any more may be the next one that is made; Requests bounds    *)
(* the objects alive at a time.                                            *)
(***************************************************************************)
EXTENDS Integers, Sequences, FiniteSets, SequencesExt

CONSTANTS Requests,  \* Request objects
          Callers,   \* threads that call the task
          None       \* no object

ASSUME TaskAssumption == None \notin Requests

VARIABLES
    mRequestPool,                  \* how often each Request is in the pool
    mRequestQueue,                 \* sequence of Requests
    request,                       \* their contents
    mIsRunning, mFinished,
    worker, current,               \* pc of run and the Request it holds
    mine,                          \* the Request each caller refers to
    overtaken                      \* history: the worker took a Request that
                                   \* removeRequest had found and not yet removed
taskVars == <<mRequestPool, mRequestQueue, request>>
runVars  == <<mIsRunning, mFinished>>

\* Kinds of message; forResult is request_for_result.
Message(what, arg, forResult) == [what |-> what, arg |-> arg, forResult |-> forResult]
Blank == Message("none", None, "none")

TaskInit ==
    /\ mRequestPool = [q \in Requests |-> 0] /\ mRequestQueue = <<>>
    /\ request = [q \in Requests |-> Blank]
    /\ mIsRunning = TRUE /\ mFinished = FALSE
    /\ worker = "test" /\ current = None
    /\ mine = [c \in Callers |-> None]
    /\ overtaken = FALSE

\* The objects that the queue, the worker or a caller holds.
InUse == Cardinality((ToSet(mRequestQueue) \cup {current} \cup {mine[c] : c \in Callers}) \ {None})

\* obtain: a Request of the pool, or a new one, which may be an object that
\* nothing refers to any more.  Which one of the pool does not matter: what
\* they hold is overwritten.
Pooled == {q \in Requests : mRequestPool[q] > 0}
Unreferred(queue) ==
    Requests \ (Pooled \cup ToSet(queue) \cup {current} \cup {mine[c] : c \in Callers})
Obtained(queue) ==
    CHOOSE q \in (IF Pooled # {} THEN Pooled ELSE Unreferred(queue)) : TRUE

\* An obtained Request is filled in and put at the end of the queue.
Put(queue, q, what, arg, forResult) ==
    /\ mRequestPool' = [mRequestPool EXCEPT ![q] = IF @ > 0 THEN @ - 1 ELSE 0]
    /\ request' = [request EXCEPT ![q] = Message(what, arg, forResult)]
    /\ mRequestQueue' = Append(queue, q)

\* offer; obtain leaves request_for_result alone.
Offer(what, arg) ==
    LET q == Obtained(mRequestQueue) IN Put(mRequestQueue, q, what, arg, request[q].forResult)

\* release and releaseSelf: the queue is cleared, and the Requests in it
\* are not given back.
OfferQuit ==
    LET q == Obtained(<<>>) IN Put(<<>>, q, "quit", None, request[q].forResult)

\* offerAndWait: the caller keeps a reference.
OfferForResult(c, what) ==
    LET q == Obtained(mRequestQueue)
    IN  /\ Put(mRequestQueue, q, "result", None, what)
        /\ mine' = [mine EXCEPT ![c] = q]

\* The pool takes a Request.
GiveBack(q) == mRequestPool' = [mRequestPool EXCEPT ![q] = @ + 1]

\* remove(req) of the deque takes out the first Request that equals req.
Removed(queue, q) ==
    IF \E i \in DOMAIN queue : request[queue[i]] = request[q]
       THEN RemoveAt(queue, CHOOSE i \in DOMAIN queue :
                 /\ request[queue[i]] = request[q]
                 /\ \A j \in 1..(i - 1) : request[queue[j]] # request[q])
       ELSE queue

\* The deque, the pool and the worker: the places a Request can be in.
Places(q) ==
    mRequestPool[q]
      + Cardinality({i \in DOMAIN mRequestQueue : mRequestQueue[i] = q})
      + (IF current = q THEN 1 ELSE 0)

TaskTypeOK ==
    /\ mRequestPool \in [Requests -> Nat] /\ mRequestQueue \in Seq(Requests)
    /\ \A i \in DOMAIN mRequestQueue : request[mRequestQueue[i]].what # "none"
    /\ \A q \in Requests :
          /\ request[q].what \in {"none", "draw", "add", "remove", "recreate", "result", "quit"}
          /\ request[q].forResult \in {"none", "recreate"}
    /\ mIsRunning \in BOOLEAN /\ mFinished \in BOOLEAN
    /\ worker \in {"test", "take", "process", "recycle", "finish", "stop", "removeAll", "ended"}
    /\ current \in Requests \cup {None}
    /\ mine \in [Callers -> Requests \cup {None}]
    /\ overtaken \in BOOLEAN
=============================================================================
