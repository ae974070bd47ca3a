------------------------------- MODULE Distill -------------------------------
(***************************************************************************)
(* asa distill: what recurs across sessions.  Prompts of one kind with     *)
(* similar words form clusters, of which those that span two sessions are  *)
(* reported, with the commands and the sequences of tools that recur.      *)
(***************************************************************************)
EXTENDS Prompts

\* Mutant: the text alone tells prompts apart.
DeduplicatedByText(signals) ==
    Selection(signals, {i \in DOMAIN signals : \A j \in 1 .. i - 1 : signals[j].text # signals[i].text})

\* Mutant: the session does too.
DeduplicatedInSession(signals) ==
    Selection(signals, {i \in DOMAIN signals : \A j \in 1 .. i - 1 :
                          ~(/\ signals[j].step = signals[i].step /\ signals[j].text = signals[i].text
                            /\ signals[j].session = signals[i].session)})

\* A fork repeats the steps it was taken with: the first session that has a step
\* and its text keeps it.
Deduplicated(signals) ==
    Selection(signals, {i \in DOMAIN signals : \A j \in 1 .. i - 1 :
                          ~(signals[j].step = signals[i].step /\ signals[j].text = signals[i].text)})

JaccardAtLeast(a, b, percent) ==
    /\ a # {} /\ b # {}
    /\ Cardinality(a \cap b) * 100 >= Cardinality(a \cup b) * percent

Takes(c, text) == c.kind = SignalKind(text) /\ JaccardAtLeast(c.words, text.words, 45)

\* The longest prompts come first; each joins the first cluster of its kind whose
\* first prompt is similar to it, or begins another.
Place(clusters, x) ==
    LET fits == {i \in DOMAIN clusters : Takes(clusters[i], x.text)}
    IN IF fits = {}
       THEN Append(clusters, [kind |-> SignalKind(x.text), words |-> x.text.words, members |-> <<x>>])
       ELSE [clusters EXCEPT ![Min(fits)].members = Append(@, x)]

Eligible(text) == SignalKind(text) # "command" /\ text.chars >= 15 /\ text.words # {}

WorkingClusters(signals) ==
    LET eligible == Selection(signals, {i \in DOMAIN signals : Eligible(signals[i].text)})
        sorted == Descending(eligible, LAMBDA x : x.text.chars)
        upTo[n \in 0 .. Len(sorted)] == IF n = 0 THEN <<>> ELSE Place(upTo[n - 1], sorted[n])
    IN upTo[Len(sorted)]

SessionsOf(members) == {members[i].session : i \in DOMAIN members}

\* Repetition within a session is conversation.
Recurring(clusters) ==
    Selection(clusters, {k \in DOMAIN clusters : Cardinality(SessionsOf(clusters[k].members)) >= 2})

Finalized(c) ==
    LET times == {c.members[i].at : i \in DOMAIN c.members} IN
    [kind |-> c.kind, representative |-> c.members[1].text, count |-> Len(c.members),
     sessions |-> SessionsOf(c.members), agents |-> {c.members[i].agent : i \in DOMAIN c.members},
     tokens |-> Total(c.members, LAMBDA x : x.tokens),
     tools |-> Total(c.members, LAMBDA x : x.tools),
     first |-> Min(times), last |-> Max(times)]

ClusterSignals(signals) ==
    LET recurring == Recurring(WorkingClusters(signals)) IN
    Descending([i \in DOMAIN recurring |-> Finalized(recurring[i])], LAMBDA c : c.count)

CommandUsage(signals) ==
    LET used == {i \in DOMAIN signals : signals[i].text.command # ""} IN
    [command \in {signals[i].text.command : i \in used} |->
       LET uses == {i \in used : signals[i].text.command = command}
       IN [count |-> Cardinality(uses), sessions |-> Cardinality({signals[i].session : i \in uses})]]

Generic == {"exec", "wait", "shell", "local_shell", "Bash"}

\* The runs of two to four tools of one step that are seen three times and in two
\* sessions.  (Of more than twelve, the code reports twelve.)
MineToolSequences(scope) ==
    LET Places(tools) == {w \in (DOMAIN tools) \X (DOMAIN tools) : w[2] - w[1] \in 1 .. 3}
        seen == UNION {UNION {{<<scope[i].id, j, w, SubSeq(scope[i].steps[j].tools, w[1], w[2])>> :
                                 w \in Places(scope[i].steps[j].tools)} :
                              j \in DOMAIN scope[i].steps} : i \in DOMAIN scope}
        Of(tools) == {x \in seen : x[4] = tools}
    IN {[sequence |-> tools, count |-> Cardinality(Of(tools)), sessions |-> {x[1] : x \in Of(tools)}] :
          tools \in {run \in {x[4] : x \in seen} :
                       /\ Cardinality(Of(run)) >= 3
                       /\ Cardinality({x[1] : x \in Of(run)}) >= 2
                       /\ ~(ToSet(run) \subseteq Generic)}}

DistillOf(sessions) ==
    LET signals == Deduplicated(SignalsOf(sessions))
    IN [sessions |-> Len(sessions),
        prompts |-> Count(signals, LAMBDA x : SignalKind(x.text) # "command"),
        per_agent |-> [a \in {sessions[i].adapter : i \in DOMAIN sessions} |->
                         Count(sessions, LAMBDA s : s.adapter = a)],
        cwds |-> UNION {sessions[i].cwd : i \in DOMAIN sessions},
        clusters |-> ClusterSignals(signals),
        tool_sequences |-> MineToolSequences(sessions),
        command_usage |-> CommandUsage(signals)]

DistillSessions(scope) == DistillOf(Included(scope))
=============================================================================
