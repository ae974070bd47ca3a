----------------------------- MODULE MCInsights -----------------------------
(* Insights for TLC: two agents, one of them in a directory below that of the   *)
(* other, and the turns that the reports treat differently.  Of the directives  *)
(* add, index and meant, each is similar to the next (two words of four), but   *)
(* the first is not to the last (one of five).  The longest comes first: add    *)
(* takes index into its cluster, which leaves meant alone.                      *)
EXTENDS Insights

Text(opening, chars, words) ==
    [opening |-> opening, asks |-> FALSE, chars |-> chars, command |-> "", tagged |-> FALSE,
     words |-> words, marks |-> {}, vague |-> 0]

NoText == Text("other", 0, {})

Model(name, date) == [name |-> name, date |-> date, synthetic |-> name = "<synthetic>"]

Turn(text, models, tools) ==
    [text |-> text, model |-> models[1], responses |-> models, tools |-> tools,
     aborted |-> FALSE, interrupts |-> 0, opens |-> TRUE]

MCTurns ==
    LET m == Model("m", "")
        dated == Model("m", "20250514")
        n == Model("n", "")
        add == Text("add", 90, {"add", "cache", "store"})
        index == [Text("other", 30, {"cache", "store", "index"}) EXCEPT !.vague = 1]
        meant == Text("i meant", 20, {"store", "index", "test"})
        compact == [Text("other", 8, {}) EXCEPT !.command = "/compact", !.tagged = TRUE]
        own == Text("[asa-internal]", 40, {"judge", "fix"})
    IN {Turn(add, <<m, n, NoModel>>, <<"Read", "Edit">>),
        [Turn(index, <<dated>>, <<>>) EXCEPT !.aborted = TRUE, !.interrupts = 2],
        [Turn(meant, <<n, m>>, <<"Bash">>) EXCEPT !.interrupts = 1],
        Turn(compact, <<Model("<synthetic>", "")>>, <<>>),
        Turn(own, <<n>>, <<"Read", "Edit">>),
        [Turn(NoText, <<m>>, <<"Read">>) EXCEPT !.opens = FALSE]}

MCStarts ==
    {[adapter |-> "claude", cwd |-> {<<"work">>}, named |-> TRUE],
     [adapter |-> "codex", cwd |-> {<<"work", "app">>}, named |-> TRUE]}
=============================================================================
