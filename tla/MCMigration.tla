----------------------------- MODULE MCMigration -----------------------------
(***************************************************************************)
(* Migration for TLC: a Claude transcript and its sidecar, each with a     *)
(* path for either workspace, and a Codex rollout that stays in place; the *)
(* user moves the repository there and back.                               *)
(***************************************************************************)
EXTENDS Migration, TLC

CONSTANTS transcriptA, transcriptB, sidecarA, sidecarB, rollout, A, B, there, back

MCMain == sidecarA :> transcriptA @@ sidecarB :> transcriptB

MCRank == sidecarA :> 1 @@ transcriptA :> 2 @@ sidecarB :> 3 @@ transcriptB :> 4 @@ rollout :> 5

MCFrom == there :> A @@ back :> B

MCTo == there :> B @@ back :> A

ToA == transcriptA :> transcriptA @@ transcriptB :> transcriptA
         @@ sidecarA :> sidecarA @@ sidecarB :> sidecarA @@ rollout :> rollout

ToB == transcriptA :> transcriptB @@ transcriptB :> transcriptB
         @@ sidecarA :> sidecarB @@ sidecarB :> sidecarB @@ rollout :> rollout

MCDest == there :> ToB @@ back :> ToA

Symmetry == Permutations(Records)
=============================================================================
