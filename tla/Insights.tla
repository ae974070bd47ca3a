------------------------------ MODULE Insights ------------------------------
(***************************************************************************)
(* The transcripts of two agents, as users and ASA write them, and the     *)
(* reports over those that a command selects.  Sessions begin, go on, and  *)
(* are forked: a fork is a new transcript with the first steps of another, *)
(* their ids and their times.  Nothing tells a report which is which.      *)
(*                                                                         *)
(* `root' of a session and `typed' of a step are not in a transcript: they *)
(* name the session that was first forked and the prompt that was typed.   *)
(***************************************************************************)
EXTENDS Distill, Reports

CONSTANTS
    Starts,        \* the adapter and the directory of a new session, and whether its
                   \* agent gives steps an id of their own
    Turns,         \* what a step may hold, and whether a message or a started turn
                   \* opens it or only what follows one
    Offsets,       \* of the committers' clocks
    MaxSessions, MaxTime

\* Claude Code gives every record an id.
ASSUME InsightsAssumption ==
    /\ \A s \in Starts : /\ s.adapter \in {"claude", "codex"} /\ s.named \in BOOLEAN
                         /\ s.adapter = "claude" => s.named
    /\ \A t \in Turns : /\ t.text.opening \in Openings /\ t.text.chars \in Nat
                        /\ IsFiniteSet(t.text.words)
                        /\ t.responses \in Seq(Range(t.responses)) /\ t.interrupts \in Nat
                        /\ t.aborted \in BOOLEAN /\ (t.aborted => t.interrupts > 0)
                        /\ t.opens \in BOOLEAN /\ (t.opens \/ t.text.chars = 0)
    /\ Offsets \subseteq Int /\ {MaxSessions, MaxTime, DaysOfWeek} \subseteq Nat \ {0}

VARIABLES
    sessions,
    commits,       \* [at, offset]: those of the instruction files
    now

vars == <<sessions, commits, now>>

Init == sessions = <<>> /\ commits = <<>> /\ now = 1

Later == now < MaxTime /\ now' = now + 1
-----------------------------------------------------------------------------
(* The step that follows those of a session: its id is the parser's, its key that *)
(* of distill.                                                                     *)
Step(start, turn, steps) ==
    LET native == <<"native", now>>
        opened == {k \in DOMAIN steps : steps[k].opens}
    IN [text |-> turn.text, responses |-> turn.responses, tools |-> turn.tools,
        aborted |-> turn.aborted, interrupts |-> turn.interrupts, opens |-> turn.opens,
        model |-> IF turn.opens THEN turn.model ELSE NoModel, typed |-> now,
        id |-> IF start.named /\ turn.opens THEN native
               ELSE <<IF start.adapter = "claude" THEN "step" ELSE "turn", Len(steps)>>,
        key |-> IF start.named THEN native ELSE <<"turn", Cardinality(opened)>>]

\* A transcript may begin with a reply or a call that nothing opened a step for.
Begin(start, turn) ==
    /\ Later
    /\ Len(sessions) < MaxSessions
    /\ sessions' = Append(sessions,
         [adapter |-> start.adapter, cwd |-> start.cwd, named |-> start.named,
          id |-> Len(sessions) + 1, root |-> Len(sessions) + 1, started |-> now, updated |-> now,
          steps |-> <<Step(start, turn, <<>>)>>, subagents |-> 0, pr_links |-> 0, compactions |-> 0])
    /\ UNCHANGED commits

Resume(i, turn) ==
    /\ Later
    /\ turn.opens
    /\ sessions' = [sessions EXCEPT ![i].updated = now,
                                    ![i].steps = Append(@, Step(sessions[i], turn, @))]
    /\ UNCHANGED commits

\* A fork of session i that ends with its k-th step, one that was opened: the code
\* looks for nothing else.
Fork(i, k) ==
    /\ Later
    /\ Len(sessions) < MaxSessions
    /\ sessions[i].steps[k].opens
    /\ sessions' = Append(sessions, [sessions[i] EXCEPT !.id = Len(sessions) + 1, !.updated = now,
                                                        !.steps = SubSeq(@, 1, k)])
    /\ UNCHANGED commits

Commit(offset) ==
    /\ Later
    /\ commits' = Append(commits, [at |-> now, offset |-> offset])
    /\ UNCHANGED sessions

Next ==
    \/ \E start \in Starts, turn \in Turns : Begin(start, turn)
    \/ \E i \in DOMAIN sessions, turn \in Turns : Resume(i, turn)
    \/ \E i \in DOMAIN sessions : \E k \in DOMAIN sessions[i].steps : Fork(i, k)
    \/ \E offset \in Offsets : Commit(offset)

Spec == Init /\ [][Next]_vars
-----------------------------------------------------------------------------
(* The sessions of a command: those of an agent touched since a time, newest first. *)
SelectNativeSessions(agent, limit, since) ==
    LET touched == Selection(sessions, {i \in DOMAIN sessions : /\ agent \in {"all", sessions[i].adapter}
                                                                /\ sessions[i].updated >= since})
        found == Descending(touched, LAMBDA s : s.updated)
    IN SubSeq(found, 1, Min({limit, Len(found)}))

Scopes ==
    {SelectNativeSessions(agent, limit, since) :
       agent \in {"all"} \cup {s.adapter : s \in Starts}, limit \in 1 .. MaxSessions,
       since \in {0, now \div 2}}
-----------------------------------------------------------------------------
(* Properties *)

\* The directories that a report may be asked for: those above a session's too.
Repos == UNION {UNION {{SubSeq(path, 1, n) : n \in 1 .. Len(path)} : path \in s.cwd} : s \in Starts}

\* Whether the first prompt of a session is one of ASA's own.
IsOwn(s) ==
    LET prompts == {k \in DOMAIN s.steps : s.steps[k].text.chars > 0} IN
    prompts # {} /\ s.steps[Min(prompts)].text.opening = Sentinel

External(scope) == {i \in DOMAIN scope : ~IsOwn(scope[i])}

\* What was typed in the sessions of a scope, each prompt once.
Typed(scope) ==
    {<<p.typed, p.text>> : p \in {q \in UNION {ToSet(scope[i].steps) : i \in External(scope)} :
                                    q.text.chars > 0}}

\* Distill counts each prompt and each command that a user typed in the sessions
\* in scope once, however often they were forked, whichever of the copies are in
\* scope and whichever was touched last (docs/analysis.md, "Self-hygiene").
PromptsCountedOnce ==
    \A scope \in Scopes :
      LET report == DistillSessions(scope)
          commands == {x \in Typed(scope) : x[2].command # ""}
      IN /\ report.prompts = Cardinality(Typed(scope) \ commands)
         /\ \A c \in {x[2].command : x \in commands} :
              report.command_usage[c].count = Cardinality({x \in commands : x[2].command = c})

\* The same text typed in two sessions of which neither is a fork of the other is
\* reported as recurring, whatever was forked, and whatever other prompts are
\* similar to it and took it into their cluster.
RecurrencesReported ==
    \A scope \in Scopes : \A i, j \in External(scope) :
      scope[i].root # scope[j].root =>
        \A p \in ToSet(scope[i].steps), q \in ToSet(scope[j].steps) :
          p.text = q.text /\ p.text.chars >= 15 /\ p.text.command = "" /\ p.text.words # {} =>
            \E c \in ToSet(Recurring(WorkingClusters(Deduplicated(SignalsOf(Included(scope)))))) :
              \E x \in ToSet(c.members) : x.text = p.text

\* Sessions of ASA's own leave no trace: these reports are those of the other
\* sessions in scope alone (docs/analysis.md, "Self-hygiene").
OwnLeavesNoTrace ==
    \A scope \in Scopes :
      LET others == Selection(scope, External(scope)) IN
      others # scope =>
      /\ DistillSessions(scope) = DistillSessions(others)
      /\ AnalyzePrompter(scope) = AnalyzePrompter(others)
      /\ BuildIntentReport(scope) = BuildIntentReport(others)
      /\ \A repo \in Repos :
           BuildEfficacyReport(repo, scope, commits, 1) = BuildEfficacyReport(repo, others, commits, 1)

\* A commit is compared with the sessions nearest to it: as many as the window
\* holds, of the repository and what is below it, none of them farther from the
\* commit than one left out (docs/analysis.md, "project / efficacy / intents").
WindowsNearest ==
    \A scope \in Scopes : \A size \in 1 .. 2, repo \in Repos :
      LET report == BuildEfficacyReport(repo, scope, commits, size)
          In(k) == {i \in External(scope) : BelongsToRepo(scope[i].cwd, repo) /\ scope[i].started <= k}
          Distance(i, c) == IF scope[i].started < c THEN c - scope[i].started ELSE scope[i].started - c
          Nearest(all, c) == {near \in SUBSET all :
            /\ Cardinality(near) = Min({size, Cardinality(all)})
            /\ \A i \in near, j \in all \ near : Distance(i, c) <= Distance(j, c)}
          Measures(window, near) ==
            /\ window.sessions = Cardinality(near)
            /\ window.prompts = SumOf([i \in near |-> Len(Signals(scope[i]))])
            /\ window.interruption_rate[1] = SumOf([i \in near |-> Interruptions(scope[i])])
      IN \A n \in DOMAIN report :
           LET row == report[n]
               c == commits[row.commit].at
               before == In(c - 1)
               after == In(now) \ In(c - 1)
           IN /\ \E near \in Nearest(before, c) : Measures(row.before, near)
              /\ \E near \in Nearest(after, c) : Measures(row.after, near)

\* Of sessions that are not ASA's own, every response that names a model is in one
\* row of the models and in one week, whatever dates the names had, and the shares
\* of an agent's models make up a whole; and a project has those of every session
\* that was begun in it or below it, with a model or without.
CallsAddUp ==
    \A scope \in Scopes :
      LET others == Selection(scope, External(scope))
          report == BuildModelReport(others)
          answers == UNION {{<<i, x>> : x \in Responses(others[i])} : i \in DOMAIN others}
          Model(a) == ModelOf(others[a[1]], a[2])
          real == {a \in answers : Model(a) # NoModel /\ ~Model(a).synthetic}
      IN /\ \A key \in DOMAIN report.models :
              /\ report.models[key].calls =
                   Cardinality({a \in real : <<others[a[1]].adapter, Model(a).name>> = key})
              /\ report.models[key].share[2] = Cardinality({a \in real : others[a[1]].adapter = key[1]})
         /\ Cardinality(real) = SumOf([key \in DOMAIN report.models |-> report.models[key].calls])
         /\ {WeekKey(others[a[1]].started) : a \in real} \subseteq DOMAIN report.weekly
         /\ \A week \in DOMAIN report.weekly :
              SumOf(report.weekly[week]) =
                Cardinality({a \in real : WeekKey(others[a[1]].started) = week})
         /\ \A repo \in Repos :
              BuildProjectReport(repo, others).calls =
                Cardinality({a \in answers : BelongsToRepo(others[a[1]].cwd, repo)})

\* The kinds of prompts that recur.
Reported(all) ==
    {c.kind : c \in ToSet(DistillSessions(Descending(all, LAMBDA s : s.updated)).clusters)}

\* docs/analysis.md: a fork never fakes a recurrence of its own history.  Taking a
\* fork makes nothing recur that did not before.
ForkFakesNothing ==
    [][(\E i \in DOMAIN sessions : \E k \in DOMAIN sessions[i].steps : Fork(i, k)) =>
         Reported(sessions') \subseteq Reported(sessions)]_vars
=============================================================================
