------------------------------- MODULE MCForks -------------------------------
(* Forks for TLC.                                                             *)
EXTENDS Forks
=============================================================================
