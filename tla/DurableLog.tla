----------------------------- MODULE DurableLog -----------------------------
(***************************************************************************)
(* What the segment store promises its callers, with no files in it.       *)
(*                                                                         *)
(* log holds the observation ids that survive whatever crash may come,     *)
(* acked those a caller was told are durable.  An answer is given only for *)
(* an id that is in the log by then, ids leave neither set, and an id may  *)
(* be answered any number of times (delivery is at least once).  This is   *)
(* docs/adr/004-delivery-recovery.md, lines 7-12, as a state machine.      *)
(***************************************************************************)
CONSTANT Ids            \* observation ids

VARIABLES log,          \* ids that no crash removes
          acked         \* ids answered Appended or Duplicate

vars == <<log, acked>>

Init ==
    /\ log = {}
    /\ acked = {}

\* The store makes some ids durable and answers nobody: a record that reached
\* the disk although its append failed, or was cut off by a crash.
Persist ==
    /\ \E S \in SUBSET Ids : log' = log \cup S
    /\ UNCHANGED acked

\* The store answers one request, which may carry several observations.
Acknowledge(batch) ==
    /\ \E S \in SUBSET Ids : log' = log \cup S
    /\ batch \subseteq log'
    /\ acked' = acked \cup batch

Next == Persist \/ \E batch \in SUBSET Ids : Acknowledge(batch)

Spec == Init /\ [][Next]_vars
=============================================================================
