------------------------------- MODULE Reports -------------------------------
(***************************************************************************)
(* asa intents, models, project and efficacy.                              *)
(***************************************************************************)
EXTENDS Prompter

\* The keywords of each intent, by one of each list, in the order of the rules.
Candidates == <<<<"bugfix", {"fix"}>>, <<"refactor", {"rename"}>>, <<"ops", {"deploy"}>>,
                <<"learning", {"explain"}>>, <<"research", {"compare"}>>, <<"feature", {"add"}>>>>

\* The first rule that has a word of the prompt; a prompt that begins as a
\* question is research unless one before that rule has.
ClassifyIntent(text) ==
    LET fits == {i \in DOMAIN Candidates :
                   \/ Candidates[i][2] \cap text.words # {}
                   \/ Candidates[i][1] = "research" /\ text.opening = "how"}
    IN IF fits = {} THEN "other" ELSE Candidates[Min(fits)][1]

IntentsOf(sessions) ==
    LET opened == SelectSeq(sessions, LAMBDA s : Signals(s) # <<>>)
        rows == [i \in DOMAIN opened |->
                   [session |-> opened[i].id, adapter |-> opened[i].adapter, cwd |-> opened[i].cwd,
                    intent |-> ClassifyIntent(Signals(opened[i])[1].text)]]
        ByIntent(group) == [intent \in {group[i].intent : i \in DOMAIN group} |->
                              Count(group, LAMBDA r : r.intent = intent)]
        In(path) == SelectSeq(rows, LAMBDA r : path \in r.cwd)
        shared == {path \in UNION {rows[i].cwd : i \in DOMAIN rows} : Len(In(path)) >= 2}
    IN [sessions |-> rows, by_intent |-> ByIntent(rows),
        by_repo |-> [path \in shared |->
          LET counts == ByIntent(In(path))
          IN [sessions |-> Len(In(path)), share |-> <<Max(Range(counts)), Len(In(path))>>,
              dominant |-> {intent \in DOMAIN counts : counts[intent] = Max(Range(counts))}]]]

BuildIntentReport(scope) == IntentsOf(Included(scope))
-----------------------------------------------------------------------------
(* Models *)

\* A model is [name, date]: the date that may end its name is not displayed.
DisplayModel(model) == model.name

NoModel == [name |-> "", date |-> "", synthetic |-> FALSE]

Responses(s) ==
    UNION {{<<k, r>> : r \in DOMAIN s.steps[k].responses} : k \in DOMAIN s.steps}

\* Claude Code's responses name their model, Codex names that of a turn.
ModelOf(s, x) ==
    IF s.adapter = "codex" THEN s.steps[x[1]].model ELSE s.steps[x[1]].responses[x[2]]

\* A turn of Codex counts for its model even if nothing answered in it.
Models(s) ==
    (IF s.adapter = "codex" THEN {s.steps[k].model : k \in DOMAIN s.steps}
     ELSE {ModelOf(s, x) : x \in Responses(s)}) \ {NoModel}

\* The calls of each model of a session, as the parser counts them.
ModelUsage(s) ==
    [model \in Models(s) |-> Cardinality({x \in Responses(s) : ModelOf(s, x) = model})]

\* The entries of the loop, one for each session and raw name of a model; the
\* agents' own "<synthetic>" replies are not of a model.
ModelEntries(scope) ==
    UNION {LET usage == ModelUsage(scope[i]) IN
           {[session |-> i, raw |-> model, key |-> <<scope[i].adapter, DisplayModel(model)>>,
             calls |-> usage[model], started |-> scope[i].started] :
              model \in {m \in DOMAIN usage : ~m.synthetic}} : i \in DOMAIN scope}

\* Mutant: a later session's calls replace those of an earlier one.
CallsOfLast(entries) ==
    IF entries = {} THEN 0
    ELSE (CHOOSE e \in entries : \A d \in entries : d.session <= e.session).calls

CallsOf(entries) == SumOf([e \in entries |-> e.calls])

\* Which of several equal maxima is named depends on the order of the names, here
\* left open: favorites and dominant models are the sets of the greatest.
BuildModelReport(scope) ==
    LET entries == ModelEntries(scope)
        Of(key) == {e \in entries : e.key = key}
        adapters == {e.key[1] : e \in entries}
        In(week, name) == {e \in entries : WeekKey(e.started) = week /\ e.key[2] = name}
        weekly == [week \in {WeekKey(e.started) : e \in entries} |->
                     [name \in {e.key[2] : e \in {d \in entries : WeekKey(d.started) = week}} |->
                        CallsOf(In(week, name))]]
        Greatest(calls) == {x \in DOMAIN calls : \A y \in DOMAIN calls : calls[x] >= calls[y]}
    IN [models |-> [key \in {e.key : e \in entries} |->
          [sessions |-> Cardinality(Of(key)), calls |-> CallsOf(Of(key)),
           share |-> <<CallsOf(Of(key)), CallsOf({e \in entries : e.key[1] = key[1]})>>,
           first |-> Min({e.started : e \in Of(key)}), last |-> Max({e.started : e \in Of(key)})]],
        favorites |-> [a \in adapters |->
          Greatest([name \in {e.key[2] : e \in {d \in entries : d.key[1] = a}} |->
                      CallsOf(Of(<<a, name>>))])],
        weekly |-> weekly,
        dominant |-> [week \in DOMAIN weekly |-> Greatest(weekly[week])]]
-----------------------------------------------------------------------------
(* Projects *)

\* A path is the sequence of its names; a session belongs to every directory above
\* the one it was begun in.
BelongsToRepo(cwd, repo) == \E path \in cwd : IsPrefix(repo, path)

BuildProjectReport(repo, scope) ==
    LET sessions == Selection(scope, {i \in DOMAIN scope : BelongsToRepo(scope[i].cwd, repo)})
        steps == FlattenSeq([i \in DOMAIN sessions |-> sessions[i].steps])
        tools == FlattenSeq([i \in DOMAIN steps |-> steps[i].tools])
        times == {sessions[i].started : i \in DOMAIN sessions}
    IN [sessions |-> Len(sessions), steps |-> Len(steps),
        per_agent |-> [a \in {sessions[i].adapter : i \in DOMAIN sessions} |->
                         Count(sessions, LAMBDA s : s.adapter = a)],
        first |-> IF times = {} THEN -1 ELSE Min(times), last |-> IF times = {} THEN -1 ELSE Max(times),
        calls |-> Total(sessions, LAMBDA s : Cardinality(Responses(s))), tool_calls |-> Len(tools),
        tools |-> [tool \in ToSet(tools) |-> Count(tools, LAMBDA t : t = tool)],
        subagents |-> Total(sessions, LAMBDA s : s.subagents),
        interruptions |-> Total(sessions, Interruptions),
        commands |-> Total(sessions, Commands), pr_links |-> Total(sessions, LAMBDA s : s.pr_links),
        compactions |-> Total(sessions, LAMBDA s : s.compactions)]
-----------------------------------------------------------------------------
(* Efficacy *)

\* The dates of the commits of CLAUDE.md and AGENTS.md as git writes them: in the
\* time of the committer's place, with an offset that no comparison looks at.
InstructionChanges(commits) ==
    Descending([i \in DOMAIN commits |-> [commit |-> i, date |-> commits[i].at + commits[i].offset]],
               LAMBDA c : -c.date)

EfficacyWindow(samples) ==
    LET prompts == Total(samples, LAMBDA x : x.prompts) IN
    [sessions |-> Len(samples), prompts |-> prompts,
     correction_rate |-> <<Total(samples, LAMBDA x : x.corrections), prompts>>,
     interruption_rate |-> <<Total(samples, LAMBDA x : x.interruptions), prompts>>]

SteeringSample(s) ==
    LET signals == Signals(s) IN
    [started |-> s.started, prompts |-> Len(signals),
     corrections |-> Count(signals, LAMBDA x : SignalKind(x.text) = "correction"),
     interruptions |-> Interruptions(s)]

\* Mutant: the window before a commit from its far end.
TakenLast(samples, size) ==
    EfficacyWindow(SubSeq(samples, Max({1, Len(samples) - size + 1}), Len(samples)))

Taken(samples, size) == EfficacyWindow(SubSeq(samples, 1, Min({size, Len(samples)})))

EfficacyOf(repo, sessions, commits, size) ==
    LET selected == Selection(sessions, {i \in DOMAIN sessions : BelongsToRepo(sessions[i].cwd, repo)})
        sorted == Descending(selected, LAMBDA s : -s.started)
        samples == [k \in DOMAIN sorted |-> SteeringSample(sorted[k])]
        changes == InstructionChanges(commits)
        Before(date) == Selection(samples, {k \in DOMAIN samples : samples[k].started < date})
        After(date) == Selection(samples, {k \in DOMAIN samples : samples[k].started >= date})
    IN [i \in DOMAIN changes |->
          [commit |-> changes[i].commit,
           before |-> Taken(Reverse(Before(changes[i].date)), size),
           after |-> Taken(After(changes[i].date), size)]]

BuildEfficacyReport(repo, scope, commits, size) == EfficacyOf(repo, Included(scope), commits, size)
=============================================================================
