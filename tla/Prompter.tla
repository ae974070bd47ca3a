------------------------------ MODULE Prompter ------------------------------
(***************************************************************************)
(* asa prompter: how a user prompts, over the sessions in scope and by     *)
(* agent and week.  A rate is the pair of its numerator and denominator.   *)
(* The two correlation coefficients are left out.                          *)
(***************************************************************************)
EXTENDS Prompts

\* A correction here may also begin with "i meant" or "i said".
Corrects(text) == text.opening \in {"no", "i meant"}

\* The score of a prompt in tenths of a point.
Specificity(text) ==
    LET Tenths(test, n) == IF test THEN n ELSE 0
        score == 50 + Tenths("path" \in text.marks, 15) + Tenths("code" \in text.marks, 15)
                    + Tenths("list" \in text.marks, 10) + Tenths(text.opening = "add", 10)
                    + Tenths(text.chars \in 80 .. 2000, 10) - Tenths(text.chars < 20, 20)
                    - 10 * Min({text.vague, 3})
    IN Max({0, Min({100, score})})

Unanchored(text) == text.chars > 200 /\ text.marks \cap {"path", "code"} = {}

\* The prompts of a session, each marked if the next one corrects it.
PromptData(s) ==
    LET signals == Signals(s) IN
    [i \in DOMAIN signals |->
       signals[i] @@ [corrected |-> i < Len(signals) /\ Corrects(signals[i + 1].text)]]

\* Of Claude Code every record of an interrupt counts, of Codex every turn that
\* nothing completed; a reply after an interrupt makes a step one that is not aborted.
Interruptions(s) ==
    IF s.adapter = "claude" THEN Total(s.steps, LAMBDA p : p.interrupts)
    ELSE Count(s.steps, LAMBDA p : p.aborted)

\* Claude Code's prompts that have the tag of a command.
Commands(s) ==
    IF s.adapter = "claude" THEN Count(s.steps, LAMBDA p : p.text.tagged) ELSE 0

MeanSpecificity(data) == <<Total(data, LAMBDA x : Specificity(x.text)), Len(data)>>

SessionStats(s) ==
    LET data == PromptData(s) IN
    [adapter |-> s.adapter, id |-> s.id, started |-> s.started, prompts |-> Len(data),
     corrections |-> Count(data, LAMBDA x : Corrects(x.text)),
     interruptions |-> Interruptions(s), commands |-> Commands(s), pr_links |-> s.pr_links,
     chars |-> Total(data, LAMBDA x : x.text.chars), specificity |-> MeanSpecificity(data),
     vague |-> Total(data, LAMBDA x : x.text.vague),
     tokens |-> Total(data, LAMBDA x : x.tokens), tools |-> Total(data, LAMBDA x : x.tools)]

RoundedRatio(n, d) == IF d = 0 THEN 0 ELSE (n + d \div 2) \div d

\* Of the statistics of sessions and the prompts of the same ones.
Aggregate(stats, data) ==
    LET prompts == Len(data)
        chars == Total(stats, LAMBDA t : t.chars)
        corrections == Total(stats, LAMBDA t : t.corrections)
        interruptions == Total(stats, LAMBDA t : t.interruptions)
    IN [sessions |-> Len(stats), prompts |-> prompts, corrections |-> corrections,
        interruptions |-> interruptions, commands |-> Total(stats, LAMBDA t : t.commands),
        chars |-> chars, average_chars |-> RoundedRatio(chars, prompts),
        specificity |-> MeanSpecificity(data),
        vague_per_ten_tenths |-> RoundedRatio(100 * Total(stats, LAMBDA t : t.vague), prompts),
        correction_rate |-> <<corrections, prompts>>,
        interruption_rate |-> <<interruptions, prompts>>,
        tokens_per_kchar |-> RoundedRatio(1000 * Total(stats, LAMBDA t : t.tokens), chars),
        tools_per_prompt |-> <<Total(stats, LAMBDA t : t.tools), prompts>>,
        prompts_per_session |-> <<prompts, Len(stats)>>]

PickArchetype(totals, subagents) ==
    LET steering == <<totals.corrections + totals.interruptions, totals.prompts>>
        Below(ratio, n) == ratio[1] < n * ratio[2] \/ ratio[2] = 0
    IN IF totals.prompts = 0 THEN "Unknown"
       ELSE IF Above(steering, 1, 4) THEN "Micromanager"
       ELSE IF totals.average_chars > 700 /\ Below(totals.prompts_per_session, 4) THEN "Cannonballer"
       ELSE IF \/ Above(<<totals.commands, totals.prompts>>, 1, 4)
               \/ totals.sessions > 0 /\ ~Below(<<2 * subagents, totals.sessions>>, 3) THEN "Delegator"
       ELSE IF ~Below(totals.prompts_per_session, 8) /\ totals.average_chars < 300 THEN "Gardener"
       ELSE "Balanced Operator"

\* Each finding with the prompts that may be its examples, in order.
Lint(totals, data) ==
    LET Texts(Test(_)) == LET shown == SelectSeq(data, Test) IN
                          [i \in 1 .. Min({3, Len(shown)}) |-> shown[i].text]
        unanchored == Count(data, LAMBDA x : Unanchored(x.text))
        found ==
          (IF totals.vague_per_ten_tenths > 15
           THEN {<<"vague-filler", Texts(LAMBDA x : x.text.vague > 0)>>} ELSE {})
          \cup (IF Len(data) >= 5 /\ Above(<<unanchored, Len(data)>>, 3, 10)
                THEN {<<"unanchored-epics", Texts(LAMBDA x : Unanchored(x.text))>>} ELSE {})
          \cup (IF Above(totals.correction_rate, 15, 100)
                THEN {<<"correction-heavy", Texts(LAMBDA x : x.corrected)>>} ELSE {})
          \cup (IF Above(totals.interruption_rate, 15, 100) THEN {<<"interrupt-heavy", <<>>>>} ELSE {})
    IN IF found = {} THEN {<<"all-clear", <<>>>>} ELSE found

Workflow(sessions) ==
    [compacted |-> Count(sessions, LAMBDA s : s.compactions > 0),
     compactions |-> Total(sessions, LAMBDA s : s.compactions),
     linked |-> Count(sessions, LAMBDA s : s.pr_links > 0),
     untracked |-> Count(sessions, LAMBDA s : Len(s.steps) >= 10 /\ s.pr_links = 0)]

\* By the week in which the session of a prompt began.
SkillCurve(data) ==
    [week \in {WeekKey(data[i].at) : i \in DOMAIN data} |->
       LET of == SelectSeq(data, LAMBDA x : WeekKey(x.at) = week) IN
       [sessions |-> Cardinality({of[i].session : i \in DOMAIN of}), prompts |-> Len(of),
        correction_rate |-> <<Count(of, LAMBDA x : Corrects(x.text)), Len(of)>>,
        interruption_rate |-> <<Count(of, LAMBDA x : x.aborted), Len(of)>>,
        specificity |-> MeanSpecificity(of)]]

PrompterOf(sessions) ==
    LET stats == [i \in DOMAIN sessions |-> SessionStats(sessions[i])]
        all == FlattenSeq([i \in DOMAIN sessions |-> PromptData(sessions[i])])
        totals == Aggregate(stats, all)
    IN [totals |-> totals,
        per_agent |-> [a \in {stats[i].adapter : i \in DOMAIN stats} |->
                         Aggregate(SelectSeq(stats, LAMBDA t : t.adapter = a),
                                   SelectSeq(all, LAMBDA x : x.agent = a))],
        sessions |-> stats,
        archetype |-> PickArchetype(totals, Total(sessions, LAMBDA s : s.subagents)),
        lints |-> Lint(totals, all),
        workflow |-> Workflow(sessions),
        skill_curve |-> SkillCurve(all)]

AnalyzePrompter(scope) == PrompterOf(Included(scope))
=============================================================================
