------------------------------ MODULE MCSessions ------------------------------
(* Sessions for TLC: one session with observations and a transcript, and one  *)
(* with observations only.                                                    *)
EXTENDS Sessions, TLC

CONSTANTS a1, b1, A, B

MCSessionOf == (a1 :> A) @@ (b1 :> B)
=============================================================================
