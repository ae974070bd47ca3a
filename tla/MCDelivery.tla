---------------------------- MODULE MCDelivery ----------------------------
(* Delivery for TLC: two hooks, and an exporter whose batch repeats the      *)
(* observation of one of them.                                               *)
EXTENDS Delivery

CONSTANTS h1, h2, e1, o1, o2, o3

MCBatch == [c \in Clients |->
    CASE c = h1 -> <<o1>> [] c = h2 -> <<o2>> [] c = e1 -> <<o2, o3>>]
=============================================================================
