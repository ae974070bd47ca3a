----------------------------- MODULE Correlation -----------------------------
(***************************************************************************)
(* From the hooks of an agent to the turns of a session: how the input of  *)
(* a hook becomes an observation, how the observations of one session are  *)
(* grouped into turns, what a turn says of its tools and subagents, and    *)
(* how the turns are merged with those of the native transcript.           *)
(*                                                                         *)
(* An input is [event, turn, call, text]: the name of the event, the       *)
(* turn_id, the id of the tool call or subagent and the last message of a  *)
(* Stop.  0 is none.  An observation is an input with its id and the time  *)
(* when the hook saw it, at.                                               *)
(***************************************************************************)
EXTENDS Naturals, Sequences, FiniteSets

\* event_kind.
EventKind(event) ==
    CASE event = "UserPromptSubmit" -> "PromptSubmitted"
      [] event = "PreToolUse" -> "ToolStarted"
      [] event \in {"PostToolUse", "PostToolUseFailure"} -> "ToolCompleted"
      [] event = "SubagentStart" -> "SubagentStarted"
      [] event = "SubagentStop" -> "SubagentStopped"
      [] event = "Stop" -> "AgentStopped"
      [] OTHER -> "Other"

\* Mutant of ObservationId: the invocation is left out.
ObservationIdOfTurn(input) == [event |-> input.event, turn |-> input.turn, call |-> 0, text |-> input.text]

\* observation_id of an input without an id or a timestamp of its own: a hash
\* of the session, the event, the turn, the invocation and a Stop's message.
ObservationId(input) ==
    [event |-> input.event, turn |-> input.turn, call |-> input.call,
     text |-> IF input.event = "Stop" THEN input.text ELSE 0]

\* native_hook_to_observation_with_policy.
Observe(input, now) ==
    [id |-> ObservationId(input), event |-> input.event, kind |-> EventKind(input.event),
     turn |-> input.turn, call |-> input.call, at |-> now]
-----------------------------------------------------------------------------
(* Turns *)

NoTurn == <<"none", 0>>
Explicit(turn) == <<"native", turn>>
Derived(o) == <<"derived", o.id>>

\* Mutant of Grouped: the order of the store is kept.
GroupedAsStored(stored) == stored

\* The observations by time, in the order of the store where times are equal.
Grouped(stored) ==
    LET Before(i) == {j \in DOMAIN stored : \/ stored[j].at < stored[i].at
                                            \/ stored[j].at = stored[i].at /\ j < i}
    IN [n \in DOMAIN stored |-> stored[CHOOSE i \in DOMAIN stored : Cardinality(Before(i)) = n - 1]]

\* These open a turn when there is none.
Opens(o) == o.kind \in {"ToolStarted", "ToolCompleted", "AgentStopped", "SubagentStarted",
                        "SubagentStopped"}

\* Mutant of Joins: a turn_id counts only when there is no turn.
JoinsCurrent(current, o) ==
    IF current # NoTurn /\ o.kind # "PromptSubmitted" THEN current
    ELSE IF o.turn # 0 THEN Explicit(o.turn)
    ELSE IF o.kind = "PromptSubmitted" \/ Opens(o) THEN Derived(o) ELSE current

Joins(current, o) ==
    CASE o.turn # 0 -> Explicit(o.turn)
      [] o.turn = 0 /\ o.kind = "PromptSubmitted" -> Derived(o)
      [] o.turn = 0 /\ o.kind # "PromptSubmitted" /\ current = NoTurn /\ Opens(o) -> Derived(o)
      [] OTHER -> current

Leaves(o, turn) == IF o.kind = "AgentStopped" THEN NoTurn ELSE turn

\* The turn that each observation of a group joins.
TurnOf(group) ==
    LET current[i \in 0 .. Len(group)] ==
          IF i = 0 THEN NoTurn
          ELSE Leaves(group[i], Joins(current[i - 1], group[i]))
    IN [i \in DOMAIN group |-> Joins(current[i - 1], group[i])]

\* Mutant of Invocation: evidence is kept for each observation.
InvocationOfOne(o) == Derived(o)

Invocation(o) == IF o.call = 0 THEN Derived(o) ELSE <<"native", o.call>>

\* project_tool_spans and project_subagent_spans: starts and completions pair up.
Span(evidence, start, completion) ==
    LET starts == {o \in evidence : o.kind = start}
        completions == {o \in evidence : o.kind = completion}
        last == CHOOSE o \in completions : \A p \in completions : p.at <= o.at
    IN IF starts = {} \/ completions = {} THEN "incomplete"
       ELSE IF last.event = "PostToolUseFailure" THEN "error" ELSE "ok"

Spans(members, start, completion) ==
    LET evidence == {o \in members : o.kind \in {start, completion}}
    IN [inv \in {Invocation(o) : o \in evidence} |->
          Span({o \in evidence : Invocation(o) = inv}, start, completion)]

\* project_turn.
Turn(id, members) ==
    [id |-> id,
     completed |-> \E o \in members : o.kind = "AgentStopped",
     tools |-> Spans(members, "ToolStarted", "ToolCompleted"),
     subagents |-> Spans(members, "SubagentStarted", "SubagentStopped")]

\* project_observations, for one session.
Turns(stored) ==
    LET group == Grouped(stored)
        of == TurnOf(group)
    IN {Turn(id, {group[i] : i \in {j \in DOMAIN group : of[j] = id}}) :
          id \in {of[i] : i \in DOMAIN group} \ {NoTurn}}

\* Mutant of Merge: every observed turn is kept.
MergeAll(native, observed) == native \cup observed

\* project_native_session: an observed turn that has the id of a native one goes.
Merge(native, observed) ==
    native \cup {t \in observed : \A n \in native : n.id # t.id}
=============================================================================
