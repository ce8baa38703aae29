------------------------------ MODULE FrameFeed ------------------------------
(***************************************************************************)
(* What uvc_stream_handle promises its user (stream.c): a mailbox of one   *)
(* frame.  The event thread publishes frames, numbered from 1; a listener  *)
(* takes the newest one if it has not taken it yet, and hands what it took *)
(* to the user, once.  Frames may be skipped, never repeated or reordered: *)
(* only a callback thread that passes over a broken frame may give its     *)
(* last one again, since it asks after its copy whether the frame is good  *)
(* and a good one may have come meanwhile.                                 *)
(***************************************************************************)
EXTENDS Naturals

VARIABLES newest,   \* the number of the last frame published, 0 when none is
          bad,      \* that frame is broken
          taken,    \* the number of the last frame copied for the user
          given,    \* the number of the last frame the user was given
          passed,   \* the listener has just passed over a broken frame
          using     \* the user is working on the frame given

feedVars == <<newest, bad, taken, given, passed, using>>

FeedInit ==
    /\ newest = 0 /\ taken = 0 /\ given = 0
    /\ bad = FALSE /\ passed = FALSE /\ using = FALSE

\* A new stream: nothing of an earlier one is left.
Open == FeedInit'

Publish ==
    /\ newest' = newest + 1 /\ bad' \in BOOLEAN
    /\ UNCHANGED <<taken, given, passed, using>>

Take ==
    /\ taken < newest /\ ~passed
    /\ taken' = newest
    /\ UNCHANGED <<newest, bad, given, passed, using>>

Pass ==
    /\ bad /\ ~using
    /\ passed' = TRUE
    /\ UNCHANGED <<newest, bad, taken, given, using>>

Give ==
    /\ ~using /\ (given < taken \/ passed)
    /\ given' = taken /\ passed' = FALSE /\ using' = TRUE
    /\ UNCHANGED <<newest, bad, taken>>

Drop == passed /\ passed' = FALSE /\ UNCHANGED <<newest, bad, taken, given, using>>

Finish == using /\ using' = FALSE /\ UNCHANGED <<newest, bad, taken, given, passed>>

FeedNext == Open \/ Publish \/ Take \/ Pass \/ Give \/ Drop \/ Finish

FeedSpec == FeedInit /\ [][FeedNext]_feedVars
=============================================================================
