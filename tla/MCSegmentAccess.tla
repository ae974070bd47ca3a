--------------------------- MODULE MCSegmentAccess ---------------------------
(* SegmentAccess for TLC.  The ids are told apart by Doomed, so only files    *)
(* are interchangeable.                                                      *)
EXTENDS SegmentAccess, TLC

Symmetry == Permutations(Inodes)
=============================================================================
