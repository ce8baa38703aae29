--------------------------- MODULE MCCameraHandler ---------------------------
(* CameraHandler for TLC. *)
EXTENDS CameraHandler
=============================================================================
