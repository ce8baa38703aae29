----------------------------- MODULE MovieFile ------------------------------
(***************************************************************************)
(* What a recording promises to the platform's muxer and so to the file it *)
(* writes, one track per encoder: every track is added before the muxer    *)
(* starts, samples are written only between start and stop and only to a   *)
(* track whose encoder has not finished, and the muxer is stopped, which   *)
(* writes the index of the file, exactly when the last encoder finishes.   *)
(* A muxer that nobody refers to any more is lost: its file gets no index. *)
(***************************************************************************)
EXTENDS Naturals

CONSTANT Tracks

VARIABLES
    file,      \* "open", "started", "stopped" or "lost"
    added,     \* tracks the muxer knows
    finished,  \* tracks whose encoder has ended
    samples    \* samples written to each track

vars == <<file, added, finished, samples>>

Init ==
    /\ file = "open"
    /\ added = {} /\ finished = {}
    /\ samples = [t \in Tracks |-> 0]

AddTrack(t) ==
    /\ file = "open" /\ t \notin added
    /\ added' = added \cup {t}
    /\ UNCHANGED <<file, finished, samples>>

Start ==
    /\ file = "open" /\ added = Tracks
    /\ file' = "started"
    /\ UNCHANGED <<added, finished, samples>>

Write(t) ==
    /\ file = "started" /\ t \in added \ finished
    /\ samples' = [samples EXCEPT ![t] = @ + 1]
    /\ UNCHANGED <<file, added, finished>>

Finish(t) ==
    /\ t \notin finished
    /\ finished' = finished \cup {t}
    /\ file' = IF file = "started" /\ finished' = Tracks THEN "stopped" ELSE file
    /\ UNCHANGED <<added, samples>>

Lose ==
    /\ file \in {"open", "started"}
    /\ file' = "lost"
    /\ UNCHANGED <<added, finished, samples>>

Next ==
    \/ \E t \in Tracks : AddTrack(t) \/ Write(t) \/ Finish(t)
    \/ Start
    \/ Lose

Spec == Init /\ [][Next]_vars
=============================================================================
