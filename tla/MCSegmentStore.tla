--------------------------- MODULE MCSegmentStore ---------------------------
(* SegmentStore for TLC: ids and inodes are interchangeable. *)
EXTENDS SegmentStore, TLC

Symmetry == Permutations(Ids) \cup Permutations(Inodes)
=============================================================================
