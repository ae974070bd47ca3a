---------------------------- MODULE CodexTranscript ----------------------------
(***************************************************************************)
(* A transcript of Codex: how it is parsed into steps, how it is cut into  *)
(* a fork that ends at a step, and how a context fork is made.             *)
(*                                                                         *)
(* A record is [kind, id, total, error].  kind:                            *)
(*   meta       session_meta            started   task_started             *)
(*   message    user_message            complete  task_complete            *)
(*   tokens     token_count             compacted                          *)
(*   call       a function call         output    its output               *)
(*   other      anything else                                              *)
(* id is the turn_id of a started, the call_id of a call or an output, and *)
(* 0 is none; total is the running total of the session that a tokens has. *)
(***************************************************************************)
EXTENDS Naturals, Sequences, Selection

Codex(kind, id, total, error) == [kind |-> kind, id |-> id, total |-> total, error |-> error]

\* A step is named by its turn_id or by its position.
Native(id) == [by |-> "native", n |-> id]
Ordinal(n) == [by |-> "ordinal", n |-> n]

Empty == [steps |-> <<>>, current |-> 0, total |-> 0, start |-> 0, where |-> <<>>,
          compactions |-> 0, interruptions |-> 0]

\* The place of a call, by its id: the last call of that id.
Placed(where, id, at) ==
    [c \in DOMAIN where \cup {id} |-> IF c = id THEN at ELSE where[c]]

\* open_step.
OpenStep(p, id) ==
    [p EXCEPT !.current = Len(p.steps) + 1,
              !.steps = Append(@, [id |-> id, calls |-> 0, tools |-> <<>>, usage |-> 0,
                                   aborted |-> TRUE])]

\* Usage::difference saturates.
Difference(total, start) == IF total > start THEN total - start ELSE 0

\* close_codex_step.
CloseStep(p) ==
    IF p.current = 0 THEN p
    ELSE [p EXCEPT !.steps[p.current].usage = Difference(p.total, p.start),
                   !.interruptions = IF p.steps[p.current].aborted THEN @ + 1 ELSE @]

OnStarted(p, r) ==
    OpenStep([CloseStep(p) EXCEPT !.start = p.total],
             IF r.id = 0 THEN Ordinal(Len(p.steps)) ELSE Native(r.id))

OnComplete(p) ==
    IF p.current = 0 THEN p ELSE [p EXCEPT !.steps[p.current].aborted = FALSE]

OnTokens(p, r) ==
    [p EXCEPT !.total = r.total,
              !.steps = IF p.current = 0 THEN @ ELSE [p.steps EXCEPT ![p.current].calls = @ + 1]]

\* parse_codex_response_item: a call without a step opens one.
OnCall(p, r) ==
    LET q == IF p.current = 0 THEN OpenStep(p, Ordinal(Len(p.steps))) ELSE p
        i == q.current
    IN [q EXCEPT !.steps[i].tools = Append(@, [id |-> r.id, error |-> FALSE]),
                 !.where = Placed(@, r.id, <<i, Len(q.steps[i].tools) + 1>>)]

OnOutput(p, r) ==
    IF r.id \notin DOMAIN p.where THEN p
    ELSE LET at == p.where[r.id]
         IN [p EXCEPT !.steps[at[1]].tools[at[2]].error = r.error]

\* parse_codex, one record.
Take(p, r) ==
    CASE r.kind = "started" -> OnStarted(p, r)
      [] r.kind = "complete" -> OnComplete(p)
      [] r.kind = "tokens" -> OnTokens(p, r)
      [] r.kind = "call" -> OnCall(p, r)
      [] r.kind = "output" -> OnOutput(p, r)
      [] r.kind = "compacted" -> [p EXCEPT !.compactions = @ + 1]
      [] OTHER -> p

\* parse_codex: the last step is closed at the end.
Parse(records) ==
    LET after[i \in 0 .. Len(records)] ==
          IF i = 0 THEN Empty ELSE Take(after[i - 1], records[i])
    IN CloseStep(after[Len(records)])
-----------------------------------------------------------------------------
(* Forks *)

First(S, otherwise) == IF S = {} THEN otherwise ELSE CHOOSE i \in S : \A j \in S : i <= j

Starts(records) ==
    Selection([i \in DOMAIN records |-> i], {i \in DOMAIN records : records[i].kind = "started"})

\* The names that task_started number n answers to.
Names(records, starts, n) ==
    {Ordinal(n - 1)} \cup (IF records[starts[n]].id = 0 THEN {} ELSE {Native(records[starts[n]].id)})

Targets(records, id) ==
    {n \in DOMAIN Starts(records) : id \in Names(records, Starts(records), n)}

CanFork(records, id) == Targets(records, id) # {}

\* Mutant of ForkAt: the cut is at the target itself.
ForkAtShort(records, id) ==
    SubSeq(records, 1, Starts(records)[First(Targets(records, id), 0)] - 1)

\* fork_codex_at_step: up to the task_started that follows the target.
ForkAt(records, id) ==
    LET starts == Starts(records)
        n == First(Targets(records, id), 0)
    IN SubSeq(records, 1, IF n = Len(starts) THEN Len(records) ELSE starts[n + 1] - 1)

\* codex_steps.
StepName(records, starts, n) ==
    LET r == records[starts[n]] IN IF r.id = 0 THEN Ordinal(n - 1) ELSE Native(r.id)

KeptCount(starts, keep) == IF keep < Len(starts) THEN keep ELSE Len(starts)

\* The task_started whose turn_id is the name of the first kept step, and the
\* user_messages right before it.
TailStart(records, starts, keep) ==
    LET split == Len(starts) - KeptCount(starts, keep)
        at == IF KeptCount(starts, keep) = 0 THEN Len(records) + 1
              ELSE First({starts[n] : n \in {m \in DOMAIN starts :
                            /\ records[starts[m]].id # 0
                            /\ Native(records[starts[m]].id) = StepName(records, starts, split + 1)}},
                         Len(records) + 1)
    IN First({i \in 1 .. at : \A j \in i .. at - 1 : records[j].kind = "message"}, at)

Digest(records, keep) ==
    LET starts == Starts(records) IN
    [n \in 1 .. Len(starts) - KeptCount(starts, keep) |-> StepName(records, starts, n)]

CanCraft(records) ==
    Starts(records) # <<>> /\ \E i \in DOMAIN records : records[i].kind = "meta"

\* craft_codex: the session_meta, the digest with its prompts, the tail.
Craft(records, keep) ==
    <<Codex("meta", 0, 0, FALSE), Codex("other", 0, 0, FALSE)>>
      \o SubSeq(records, TailStart(records, Starts(records), keep), Len(records))
=============================================================================
