------------------------------- MODULE Capture -------------------------------
(***************************************************************************)
(* The hooks of one session.  An agent works in turns: a prompt, tools and *)
(* subagents that run at once, and a Stop, or an interrupt that no hook    *)
(* sees.  Each event runs a hook; what the hooks made of them reaches the  *)
(* store in any order, through the daemon or the spool, or never.          *)
(*                                                                         *)
(* Claude Code names no turn in its hooks and Codex does.  The agent waits *)
(* for a hook, so that the times of observations are in the order of the   *)
(* events; here the time is the place of the event.                        *)
(***************************************************************************)
EXTENDS Correlation, TLC

CONSTANTS Adapters, MaxEvents, Messages

ASSUME CaptureAssumption ==
    /\ Adapters \subseteq {"claude", "codex"} /\ Adapters # {}
    /\ MaxEvents \in Nat /\ Messages \subseteq Nat \ {0}

VARIABLES
    adapter,
    agent,     \* [turn, busy, running]: the number of turns, and the calls under way
    events,    \* the inputs of the hooks so far, each with the turn of the agent, of
    transit,   \* the events whose observation is on its way, perhaps for ever
    stored     \* the observations of the store, in its order

vars == <<adapter, agent, events, transit, stored>>

Init ==
    /\ adapter \in Adapters
    /\ agent = [turn |-> 0, busy |-> FALSE, running |-> {}]
    /\ events = <<>>
    /\ transit = {}
    /\ stored = <<>>
-----------------------------------------------------------------------------
(* The agent *)

\* An event of the turn of the agent.
Runs(event, call, text) ==
    /\ Len(events) < MaxEvents
    /\ events' = Append(events,
         [event |-> event, call |-> call, text |-> text, of |-> agent'.turn,
          turn |-> IF adapter = "codex" /\ event # "SessionStart" THEN agent'.turn ELSE 0])
    /\ transit' = transit \cup {Len(events')}
    /\ UNCHANGED <<adapter, stored>>

\* A session is resumed.
SessionStart ==
    /\ ~agent.busy
    /\ agent' = agent
    /\ Runs("SessionStart", 0, 0)

Prompt ==
    /\ ~agent.busy
    /\ agent' = [agent EXCEPT !.turn = @ + 1, !.busy = TRUE]
    /\ Runs("UserPromptSubmit", 0, 0)

CallStarts(event) ==
    /\ agent.busy
    /\ agent' = [agent EXCEPT !.running = @ \cup {<<event, Len(events) + 1, agent.turn>>}]
    /\ Runs(event, Len(events) + 1, 0)

\* A tool ends in its turn, and a subagent perhaps in a later one.
CallEnds(event, call) ==
    /\ agent.busy
    /\ call \in agent.running
    /\ call[1] = IF event = "SubagentStop" THEN "SubagentStart" ELSE "PreToolUse"
    /\ event # "SubagentStop" => call[3] = agent.turn
    /\ agent' = [agent EXCEPT !.running = @ \ {call}]
    /\ Runs(event, call[2], 0)

Stop(text) ==
    /\ agent.busy
    /\ \A call \in agent.running : call[1] = "PreToolUse" => call[3] # agent.turn
    /\ agent' = [agent EXCEPT !.busy = FALSE]
    /\ Runs("Stop", 0, text)

\* The user interrupts the agent.
Interrupt ==
    /\ agent.busy
    /\ agent' = [agent EXCEPT !.busy = FALSE]
    /\ UNCHANGED <<adapter, events, transit, stored>>
-----------------------------------------------------------------------------
(* The observations *)

\* The store keeps the first observation of an id.  A hook that is killed, or can
\* neither call nor spool, delivers nothing.
Deliver(i) ==
    LET o == Observe(events[i], i) IN
    /\ i \in transit
    /\ transit' = transit \ {i}
    /\ stored' = IF \E j \in DOMAIN stored : stored[j].id = o.id THEN stored ELSE Append(stored, o)
    /\ UNCHANGED <<adapter, agent, events>>

Failures == IF adapter = "claude" THEN {"PostToolUseFailure"} ELSE {}

Next ==
    \/ SessionStart
    \/ Prompt
    \/ \E event \in {"PreToolUse", "SubagentStart"} : CallStarts(event)
    \/ \E event \in {"PostToolUse", "SubagentStop"} \cup Failures, call \in agent.running :
         CallEnds(event, call)
    \/ \E text \in Messages : Stop(text)
    \/ Interrupt
    \/ \E i \in transit : Deliver(i)

Spec == Init /\ [][Next]_vars
-----------------------------------------------------------------------------
(* Properties *)

Stored == {stored[j] : j \in DOMAIN stored}

Latest(S) == CHOOSE o \in S : \A p \in S : p.at <= o.at
Earliest(S) == CHOOSE o \in S : \A p \in S : o.at <= p.at

\* What the turn of an observation should be, from the set S of observations.
ReferenceTurn(S, o) ==
    LET past == {p \in S : p.at <= o.at}
        stops == {p \in past \ {o} : p.kind = "AgentStopped"}
        since == {p \in past : \A s \in stops : s.at < p.at}
        named == {p \in since : p.kind = "PromptSubmitted" \/ p.turn # 0}
        opened == {p \in since : Opens(p)}
    IN IF named # {}
       THEN LET n == Latest(named) IN IF n.turn # 0 THEN Explicit(n.turn) ELSE Derived(n)
       ELSE IF opened # {} THEN Derived(Earliest(opened)) ELSE NoTurn

\* Whatever the order in which observations were stored, each belongs to the
\* turn that it names, or to that of the last prompt since the last Stop, or to
\* the first sign of work since then.
TurnsAsDefined ==
    LET group == Grouped(stored) IN
    \A i \in DOMAIN group : TurnOf(group)[i] = ReferenceTurn(Stored, group[i])

Seen(S) == {o \in Stored : o.event \in S}

\* Every call of which anything was stored is a span of one turn, and complete if
\* and only if both its ends were stored, although any number of calls ran at once
\* and any other event was lost or came late.  Only a subagent that ends in a later
\* turn can be split: it is then an incomplete span of two turns, once both its ends
\* are stored.  With Codex it always is, since both ends name their turn; with Claude
\* Code it is one complete span where no turn was seen to begin or end between them.
SpansPaired ==
    LET turns == Turns(stored) IN
    \A start \in {"PreToolUse", "SubagentStart"} : \A i \in DOMAIN events :
      LET tool == start = "PreToolUse"
          ends == IF tool THEN {"PostToolUse", "PostToolUseFailure"} ELSE {"SubagentStop"}
          seen == {o \in Seen({start} \cup ends) : o.call = i}
          spans(t) == IF tool THEN t.tools ELSE t.subagents
          holding == {t \in turns : <<"native", i>> \in DOMAIN spans(t)}
          crossed == \E j \in DOMAIN events : events[j].call = i /\ events[j].of # events[i].of
          split == Cardinality(holding) = 2
          both == Cardinality(seen) = 2
      IN events[i].event = start /\ seen # {} =>
         /\ Cardinality(holding) \in {1, 2}
         /\ split => crossed /\ both
         /\ adapter = "codex" /\ crossed /\ both => split
         /\ \A t \in holding : spans(t)[<<"native", i>>] =
              IF split \/ ~both THEN "incomplete"
              ELSE IF \E o \in seen : o.event = "PostToolUseFailure" THEN "error" ELSE "ok"

\* An observation that arrives is dropped only for one of the same event: a
\* later prompt of Claude Code, a Stop of it with the same message, or another
\* start of the session.
DeliveredKept ==
    \A i \in DOMAIN events \ transit :
      \/ \E o \in Stored : o.at = i
      \/ events[i].event = "SessionStart"
      \/ /\ adapter = "claude" /\ events[i].event \in {"UserPromptSubmit", "Stop"}
         /\ \E o \in Stored : o.event = events[i].event /\ events[o.at].text = events[i].text

\* A document is rebuilt as observations arrive, in any order.  Where the hooks
\* name their turns, partial evidence stays valid: a turn or a call never goes,
\* and what was complete stays complete (docs/v2-crash-matrix.md, "During
\* correlation").
EvidenceGrows ==
    [][adapter = "codex" =>
         \A t \in Turns(stored) : \E u \in Turns(stored') :
           /\ u.id = t.id
           /\ t.completed => u.completed
           /\ \A inv \in DOMAIN t.tools :
                inv \in DOMAIN u.tools /\ u.tools[inv] \in {t.tools[inv]} \cup
                  (IF t.tools[inv] = "incomplete" THEN {"ok", "error"} ELSE {})]_stored

\* What the native transcript has of the first n turns of the agent.
NativeTurns(n) ==
    {[id |-> IF adapter = "codex" THEN Explicit(t) ELSE <<"uuid", t>>,
      completed |-> TRUE,
      tools |-> [inv \in {<<"native", events[i].call>> :
                    i \in {j \in DOMAIN events : events[j].event = "PreToolUse" /\ events[j].of = t}}
                  |-> "ok"],
      subagents |-> <<>>] : t \in 1 .. n}

\* ADR 005: reconciliation deduplicates the overlapping facts of the transcript
\* and the observations.  There is one turn for each turn of the agent and one
\* call for each call, whenever the transcript was read and whatever of the
\* hooks has arrived.
CountedOnce ==
    \A n \in 0 .. agent.turn :
      LET merged == Merge(NativeTurns(n), Turns(stored)) IN
      /\ Cardinality(merged) <= agent.turn
      /\ \A t, u \in merged : t # u => DOMAIN t.tools \cap DOMAIN u.tools = {}

\* The same where the hooks name the turns that the transcript names.
CodexCountedOnce == adapter = "codex" => CountedOnce
=============================================================================
