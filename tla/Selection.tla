------------------------------ MODULE Selection ------------------------------
(***************************************************************************)
(* The entries of a sequence at some of its places, in order.              *)
(*                                                                         *)
(* SelectSeq takes a test as an operator, of which nothing can be proved;  *)
(* this takes the places that pass it as a set.                            *)
(***************************************************************************)
EXTENDS Naturals, Sequences

Selection(seq, places) ==
    LET upTo[i \in 0 .. Len(seq)] ==
          IF i = 0 THEN <<>>
          ELSE IF i \in places THEN Append(upTo[i - 1], seq[i]) ELSE upTo[i - 1]
    IN upTo[Len(seq)]
=============================================================================
