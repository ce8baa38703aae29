---------------------------- MODULE MCUVCPreview ----------------------------
(***************************************************************************)
(* Small instances of UVCPreview.  Frames are interchangeable: two states  *)
(* whose pools, queues and slots are filled alike differ only by a         *)
(* permutation of the frames as long as no frame is owned twice, so the    *)
(* view keeps the shape of the ownership and whether it is exclusive.  It  *)
(* is used for invariants and action properties only.                      *)
(***************************************************************************)
EXTENDS UVCPreview

Shape == <<Cardinality(live), Cardinality(pool), Len(previewFrames),
           {s \in Slots : held[s] # NoFrame}, FrameOwnedOnce>>

ShapeView == <<Shape, flags, winVars, mFrameCallbackObj, modeVars, streaming,
               capture_thread, capture_sync, cb, pv, capVars, apiVars>>

=============================================================================
