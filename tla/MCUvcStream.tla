----------------------------- MODULE MCUvcStream -----------------------------
(* UvcStream for TLC. *)
EXTENDS UvcStream
=============================================================================
