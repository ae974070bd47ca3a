---------------------------- MODULE ClaudeTranscript ----------------------------
(***************************************************************************)
(* A transcript of Claude Code: a sequence of records.  How it is parsed   *)
(* into steps, how it is cut into a fork that ends at a step, and how a    *)
(* context fork is made of a digest and its last steps.                    *)
(*                                                                         *)
(* A record is [kind, id, api, tool, error].  kind:                        *)
(*   prompt     a user record that somebody typed                          *)
(*   padded     one with a blank before its text: its first block of text  *)
(*              is blank, or it goes on with "[Request interrupted"        *)
(*   compact    the summary of a compaction, a user record too             *)
(*   hidden     a user record of the harness, a meta or side-chain record, *)
(*              or a record of a type that has no part here                *)
(*   interrupt  "[Request interrupted"                                     *)
(*   result     a user record with the result of a tool                    *)
(*   assistant  one block of a response of the API, perhaps a tool call    *)
(*   last-prompt                                                           *)
(* The parser joins the blocks of text of a record and takes prompt,       *)
(* padded and compact for the beginning of a step; the forks look at the   *)
(* first block, without the blanks around it, and take only prompt for     *)
(* one.  There is no record that the forks take for a prompt and the       *)
(* parser does not.                                                        *)
(* id is the uuid, api the id of the response, and 0 is none.  All records *)
(* of one response repeat its usage; here that is the number api itself.   *)
(***************************************************************************)
EXTENDS Naturals, Sequences, Selection

Claude(kind, id, api, tool, error) ==
    [kind |-> kind, id |-> id, api |-> api, tool |-> tool, error |-> error]

\* A step is named by the uuid of its prompt or by its position.
Native(id) == [by |-> "native", n |-> id]
Ordinal(n) == [by |-> "ordinal", n |-> n]

Empty == [steps |-> <<>>, current |-> 0, seen |-> {}, where |-> <<>>, usage |-> 0,
          compactions |-> 0, interruptions |-> 0]

\* The place of a call, by its id: the last call of that id.
Placed(where, id, at) ==
    [c \in DOMAIN where \cup {id} |-> IF c = id THEN at ELSE where[c]]

\* open_step.
OpenStep(p, id) ==
    [p EXCEPT !.current = Len(p.steps) + 1,
              !.steps = Append(@, [id |-> id, calls |-> 0, tools |-> <<>>, usage |-> 0,
                                   aborted |-> TRUE])]

\* Mutant of OnPrompt: the summary of a compaction takes the place of the steps.
OnPromptRestarts(p, r) ==
    LET q == OpenStep(IF r.kind = "compact" THEN [p EXCEPT !.steps = <<>>] ELSE p, Native(r.id)) IN
    [q EXCEPT !.steps[q.current].aborted = FALSE]

\* A user record with text opens a step, whatever blanks are before it; the
\* summary of a compaction has text.
OnPrompt(p, r) ==
    LET q == OpenStep(p, IF r.id = 0 THEN Ordinal(Len(p.steps)) ELSE Native(r.id)) IN
    [q EXCEPT !.steps[q.current].aborted = FALSE,
              !.compactions = IF r.kind = "compact" THEN @ + 1 ELSE @]

OnInterrupt(p) ==
    [p EXCEPT !.interruptions = @ + 1,
              !.steps = IF p.current = 0 THEN @ ELSE [@ EXCEPT ![p.current].aborted = TRUE]]

\* Mutant of OnAssistant: the usage of every record is added.
OnAssistantEach(p, r) ==
    LET q == IF p.current = 0 THEN OpenStep(p, Ordinal(Len(p.steps))) ELSE p
        i == q.current
    IN [q EXCEPT
          !.usage = @ + r.api,
          !.where = IF r.tool = 0 THEN @ ELSE Placed(@, r.tool, <<i, Len(q.steps[i].tools) + 1>>),
          !.steps[i] = [q.steps[i] EXCEPT
              !.aborted = FALSE, !.calls = @ + 1, !.usage = @ + r.api,
              !.tools = IF r.tool = 0 THEN @ ELSE Append(@, [id |-> r.tool, error |-> FALSE])]]

\* parse_claude_assistant.
OnAssistant(p, r) ==
    LET q == IF p.current = 0 THEN OpenStep(p, Ordinal(Len(p.steps))) ELSE p
        i == q.current
        fresh == r.api \notin p.seen
        tokens == IF fresh THEN r.api ELSE 0
    IN [q EXCEPT
          !.seen = @ \cup {r.api},
          !.usage = @ + tokens,
          !.where = IF r.tool = 0 THEN @ ELSE Placed(@, r.tool, <<i, Len(q.steps[i].tools) + 1>>),
          !.steps[i] = [q.steps[i] EXCEPT
              !.aborted = FALSE,
              !.calls = IF fresh THEN @ + 1 ELSE @,
              !.usage = @ + tokens,
              !.tools = IF r.tool = 0 THEN @ ELSE Append(@, [id |-> r.tool, error |-> FALSE])]]

\* Mutant of OnResult: an error, once seen, stays.
OnResultSticky(p, r) ==
    IF r.tool \notin DOMAIN p.where THEN p
    ELSE LET at == p.where[r.tool]
         IN [p EXCEPT !.steps[at[1]].tools[at[2]].error = @ \/ r.error]

\* apply_claude_tool_results: wherever the call is, the last result counts.
OnResult(p, r) ==
    IF r.tool \notin DOMAIN p.where THEN p
    ELSE LET at == p.where[r.tool]
         IN [p EXCEPT !.steps[at[1]].tools[at[2]].error = r.error]

\* parse_claude, one record.
Take(p, r) ==
    CASE r.kind \in {"prompt", "padded", "compact"} -> OnPrompt(p, r)
      [] r.kind = "interrupt" -> OnInterrupt(p)
      [] r.kind = "assistant" -> OnAssistant(p, r)
      [] r.kind = "result" -> OnResult(p, r)
      [] OTHER -> p

\* parse_claude.
Parse(records) ==
    LET after[i \in 0 .. Len(records)] ==
          IF i = 0 THEN Empty ELSE Take(after[i - 1], records[i])
    IN after[Len(records)]
-----------------------------------------------------------------------------
(* Forks *)

\* is_claude_prompt: neither a summary nor a record whose first text is blank or,
\* without the blanks before it, an interrupt.
IsPrompt(r) == r.kind = "prompt"

First(S, otherwise) == IF S = {} THEN otherwise ELSE CHOOSE i \in S : \A j \in S : i <= j

\* The first record that a fork at the record anchor leaves out.
CutAfter(records, anchor) ==
    First({i \in DOMAIN records : i > anchor /\ IsPrompt(records[i])}, Len(records) + 1)

Kept(records) ==
    Selection(records, {i \in DOMAIN records : records[i].kind # "last-prompt"})

Anchors(records, id) == {i \in DOMAIN records : records[i].id # 0 /\ Native(records[i].id) = id}

CanFork(records, id) == Anchors(records, id) # {}

\* fork_claude_at_step.
ForkAt(records, id) ==
    Kept(SubSeq(records, 1, CutAfter(records, First(Anchors(records, id), 0)) - 1))

\* claude_steps: the prompts, by their place.
Starts(records) ==
    Selection([i \in DOMAIN records |-> i], {i \in DOMAIN records : IsPrompt(records[i])})

StepName(records, starts, n) ==
    LET r == records[starts[n]] IN IF r.id = 0 THEN Ordinal(n - 1) ELSE Native(r.id)

KeptCount(starts, keep) == IF keep < Len(starts) THEN keep ELSE Len(starts)

\* Mutant of TailStart: one step is kept too few.
TailStartLater(records, starts, keep) ==
    LET split == Len(starts) - KeptCount(starts, keep) IN
    IF keep = 0 \/ split + 2 > Len(starts) THEN Len(records) + 1 ELSE starts[split + 2]

\* The tail begins at the record that has the name of the first kept step.
TailStart(records, starts, keep) ==
    LET split == Len(starts) - KeptCount(starts, keep) IN
    IF KeptCount(starts, keep) = 0 THEN Len(records) + 1
    ELSE First(Anchors(records, StepName(records, starts, split + 1)), Len(records) + 1)

\* build_digest of the steps that are not kept: their prompts, in order.
Digest(records, keep) ==
    LET starts == Starts(records) IN
    [n \in 1 .. Len(starts) - KeptCount(starts, keep) |-> StepName(records, starts, n)]

CanCraft(records) == Starts(records) # <<>>

\* craft_claude: a boundary, the digest as the summary of a compaction, the tail.
Craft(records, keep, summary) ==
    <<Claude("hidden", 0, 0, 0, FALSE), Claude("compact", summary, 0, 0, FALSE)>>
      \o Kept(SubSeq(records, TailStart(records, Starts(records), keep), Len(records)))
=============================================================================
