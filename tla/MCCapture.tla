------------------------------ MODULE MCCapture ------------------------------
(* Capture for TLC.                                                           *)
EXTENDS Capture
=============================================================================
