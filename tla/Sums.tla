-------------------------------- MODULE Sums --------------------------------
(***************************************************************************)
(* The sum of the values of a function.                                    *)
(*                                                                         *)
(* MapThenSumSet takes the values as an operator, of which nothing can be  *)
(* proved; this takes them as a function.                                  *)
(***************************************************************************)
EXTENDS Naturals

SumOf(f) == LET sum[S \in SUBSET DOMAIN f] ==
                  IF S = {} THEN 0 ELSE LET i == CHOOSE i \in S : TRUE IN f[i] + sum[S \ {i}]
            IN sum[DOMAIN f]
=============================================================================
