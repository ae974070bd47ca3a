-------------------------------- MODULE Forks --------------------------------
(***************************************************************************)
(* An agent writes a transcript, record by record.  Then asa makes one     *)
(* fork of it: the fork ends at a step (fork_native_session_at_step) or    *)
(* has a digest and the last steps (craft_context_fork).  The transcript   *)
(* of the fork is a new file in the same directory; for Claude Code the    *)
(* sidecar files of the session are copied to a new directory next to it.  *)
(*                                                                         *)
(* A record of a transcript has its place as its id where it has one, so   *)
(* ids differ.                                                             *)
(***************************************************************************)
EXTENDS Naturals, Sequences, FiniteSets, TLC, Sums

CONSTANTS MaxRecords, MaxKeep

ASSUME BoundsAssumption == MaxRecords \in Nat /\ MaxKeep \in Nat

C == INSTANCE ClaudeTranscript
X == INSTANCE CodexTranscript

VARIABLES
    adapter,   \* "claude" or "codex"
    records,   \* the transcript
    sidecars,  \* whether it has sidecar files
    run,       \* [pc, kind, arg, content]: the fork, and what its file will hold
    disk       \* [transcript, copy, durable]: the new files

vars == <<adapter, records, sidecars, run, disk>>

NoRun == [pc |-> "idle", kind |-> "none", arg |-> 0, content |-> <<>>]

\* durable: the directory entries that a power loss leaves.
NoFiles == [transcript |-> "absent", copy |-> "absent", durable |-> {}]

Entries == {"transcript", "copy"}
Parts == {"absent", "partial", "whole"}

Init ==
    /\ adapter \in {"claude", "codex"}
    /\ sidecars \in IF adapter = "claude" THEN BOOLEAN ELSE {FALSE}
    /\ records = <<>>
    /\ run = NoRun
    /\ disk = NoFiles
-----------------------------------------------------------------------------
(* The agent *)

Here == Len(records) + 1

Tools == {records[i].tool : i \in {j \in DOMAIN records : records[j].kind = "assistant"}} \ {0}

\* The last response may go on in another record.
LastApi ==
    LET S == {i \in DOMAIN records : records[i].kind = "assistant"} IN
    IF S = {} THEN {} ELSE {records[CHOOSE i \in S : \A j \in S : j <= i].api}

ClaudeRecords ==
    {C!Claude(kind, Here, 0, 0, FALSE) : kind \in {"prompt", "padded", "compact", "interrupt"}}
      \cup {C!Claude("last-prompt", 0, 0, 0, FALSE)}
      \cup {C!Claude("assistant", Here, api, tool, FALSE) :
              api \in LastApi \cup {Here}, tool \in {0, Here}}
      \cup {C!Claude("result", Here, 0, tool, error) :
              tool \in Tools, error \in BOOLEAN}

LastTotal ==
    LET S == {i \in DOMAIN records : records[i].kind = "tokens"} IN
    IF S = {} THEN 0 ELSE records[CHOOSE i \in S : \A j \in S : j <= i].total

Calls == {records[i].id : i \in {j \in DOMAIN records : records[j].kind = "call"}}

CodexRecords ==
    {X!Codex(kind, 0, 0, FALSE) : kind \in {"meta", "message", "complete", "compacted"}}
      \cup {X!Codex("started", id, 0, FALSE) : id \in {0, Here}}
      \cup {X!Codex("call", Here, 0, FALSE), X!Codex("tokens", 0, LastTotal + Here, FALSE)}
      \cup {X!Codex("output", id, 0, error) : id \in Calls, error \in BOOLEAN}

AgentWrites ==
    /\ run.pc = "idle" /\ Len(records) < MaxRecords
    /\ \E r \in IF adapter = "claude" THEN ClaudeRecords ELSE CodexRecords :
         records' = Append(records, r)
    /\ UNCHANGED <<adapter, sidecars, run, disk>>
-----------------------------------------------------------------------------
(* What is read from a transcript *)

Parse(recs) == IF adapter = "claude" THEN C!Parse(recs) ELSE X!Parse(recs)

Steps(recs) == Parse(recs).steps

StepIds == LET steps == Steps(records) IN {steps[i].id : i \in DOMAIN steps}

CanFork(id) == IF adapter = "claude" THEN C!CanFork(records, id) ELSE X!CanFork(records, id)

ForkAt(id) == IF adapter = "claude" THEN C!ForkAt(records, id) ELSE X!ForkAt(records, id)

CanCraft == IF adapter = "claude" THEN C!CanCraft(records) ELSE X!CanCraft(records)

\* The summary of a craft has an id that is not in use.
Craft(keep) ==
    IF adapter = "claude" THEN C!Craft(records, keep, Here) ELSE X!Craft(records, keep)
-----------------------------------------------------------------------------
(* The fork *)

\* The transcript is read and a new session id is drawn.
Begin(kind, arg, content) ==
    /\ run.pc = "idle"
    /\ run' = [pc |-> "writing", kind |-> kind, arg |-> arg, content |-> content]
    /\ UNCHANGED <<adapter, records, sidecars, disk>>

ForkAtStep(id) == CanFork(id) /\ Begin("step", id, ForkAt(id))

CraftContext(keep) == run.pc = "idle" /\ CanCraft /\ Begin("craft", keep, Craft(keep))

Goes(from, to) ==
    /\ run.pc = from
    /\ run' = [run EXCEPT !.pc = to]
    /\ UNCHANGED <<adapter, records, sidecars>>

\* write_new_jsonl: exclusive creation, the records, sync_all.
WriteTranscript ==
    /\ Goes("writing", IF adapter = "claude" /\ sidecars THEN "creating" ELSE "syncing")
    /\ disk' = [disk EXCEPT !.transcript = "whole"]

\* It is not removed again.
WriteFails ==
    /\ Goes("writing", "unwritten")
    /\ \E part \in {"absent", "partial"} : disk' = [disk EXCEPT !.transcript = part]

\* copy_claude_sidecars.
CreateCopy ==
    /\ Goes("creating", "copying")
    /\ disk' = [disk EXCEPT !.copy = "partial"]

CreateFails ==
    /\ Goes("creating", "cleaning")
    /\ UNCHANGED disk

CopySidecars ==
    /\ Goes("copying", "syncing")
    /\ disk' = [disk EXCEPT !.copy = "whole", !.durable = Entries]

\* Mutant of CopyFails: the copy is left where it is.
CopyFailsLeft ==
    /\ Goes("copying", "cleaning")
    /\ disk' = [disk EXCEPT !.durable = @ \cup {"transcript"}]

\* The copy is removed and the directory synced.
CopyFails ==
    /\ Goes("copying", "cleaning")
    /\ disk' = [disk EXCEPT !.copy = "absent", !.durable = @ \cup {"transcript"}]

\* The removal of the transcript is not synced.
RemoveTranscript ==
    /\ Goes("cleaning", "failed")
    /\ disk' = [disk EXCEPT !.transcript = "absent"]

\* sync_directory of the parent.
SyncFork ==
    /\ Goes("syncing", "done")
    /\ disk' = [disk EXCEPT !.durable = {e \in Entries : disk[e] # "absent"}]

SyncFails ==
    /\ Goes("syncing", "failed")
    /\ UNCHANGED disk

\* asa is killed.
Killed ==
    /\ run.pc \in {"writing", "creating", "copying", "cleaning", "syncing"}
    /\ run' = [run EXCEPT !.pc = "down"]
    /\ \/ UNCHANGED disk
       \/ run.pc = "writing" /\ disk' = [disk EXCEPT !.transcript = "partial"]
    /\ UNCHANGED <<adapter, records, sidecars>>

\* The machine stops.  What was never synced may be gone, and a removal that
\* was never synced may be undone.
PowerLoss ==
    /\ run.pc \notin {"idle", "down"}
    /\ run' = [run EXCEPT !.pc = IF @ = "done" THEN "done" ELSE "down"]
    /\ \E lost \in SUBSET Entries :
         disk' = [disk EXCEPT
           !.transcript = CASE "transcript" \notin lost -> @
                            [] "transcript" \in disk.durable -> "whole"
                            [] OTHER -> "absent",
           !.copy = CASE "copy" \notin lost -> @
                      [] "copy" \in disk.durable -> "whole"
                      [] OTHER -> "absent"]
    /\ UNCHANGED <<adapter, records, sidecars>>

Next ==
    \/ AgentWrites
    \/ run.pc = "idle" /\ \E id \in StepIds : ForkAtStep(id)
    \/ \E keep \in 0 .. MaxKeep : CraftContext(keep)
    \/ WriteTranscript
    \/ WriteFails
    \/ CreateCopy
    \/ CreateFails
    \/ CopySidecars
    \/ CopyFails
    \/ RemoveTranscript
    \/ SyncFork
    \/ SyncFails
    \/ Killed
    \/ PowerLoss

Spec == Init /\ [][Next]_vars
-----------------------------------------------------------------------------
(* Properties *)

Phases == {"idle", "writing", "creating", "copying", "cleaning", "syncing", "unwritten",
           "failed", "done", "down"}

\* A fork that succeeds has its transcript and its sidecars, whole, and keeps
\* them when the machine stops afterwards.  One that fails after its transcript
\* was written leaves all of it (the last sync failed) or nothing.
ForkAllOrNothing ==
    /\ run.pc = "done" =>
         /\ disk.transcript = "whole"
         /\ disk.copy = IF sidecars THEN "whole" ELSE "absent"
    /\ run.pc = "failed" =>
         \/ disk.transcript = "absent" /\ disk.copy = "absent"
         \/ disk.transcript = "whole" /\ (sidecars => disk.copy = "whole")

Kinds(recs, kind) == {i \in DOMAIN recs : recs[i].kind = kind}

\* What the session used outside its steps: for Codex the tokens before the
\* first task_started, unless a call had opened a step by then.
Outside ==
    LET opens == Kinds(records, "started") \cup Kinds(records, "call") IN
    IF adapter = "claude" \/ opens = {} \/ records[C!First(opens, 0)].kind = "call" THEN 0
    ELSE X!Parse(SubSeq(records, 1, C!First(opens, 0) - 1)).total

Used ==
    IF adapter = "claude"
    THEN LET apis == {records[i].api : i \in Kinds(records, "assistant")}
         IN SumOf([api \in apis |-> api])
    ELSE LastTotal

Idle == run.pc = "idle"

\* The steps of a transcript account for everything that it used, and each
\* response is counted once although several records repeat its usage, or
\* each running total once although it counts what went before.
UsageCountedOnce ==
    Idle => LET steps == Steps(records) IN
        steps # <<>> => SumOf([i \in DOMAIN steps |-> steps[i].usage]) + Outside = Used

\* Whatever stands between a call and its results, in whichever step they come,
\* the call has failed if its last result says so.
ErrorsAttributed ==
    Idle => LET steps == Steps(records) IN
      \A i \in DOMAIN steps : \A t \in DOMAIN steps[i].tools :
        LET tool == steps[i].tools[t]
            results == {j \in DOMAIN records :
                          \/ records[j].kind = "result" /\ records[j].tool = tool.id
                          \/ records[j].kind = "output" /\ records[j].id = tool.id}
        IN tool.error = (results # {} /\ records[CHOOSE j \in results :
                                           \A k \in results : k <= j].error)

\* While a transcript grows, its steps keep their names and all but the last
\* their calls, tools and usage: what was shown of a step stays true.
StepsStable ==
    [][records' # records =>
         LET before == Steps(records)
             after == Parse(records').steps
         IN /\ Len(before) <= Len(after)
            /\ \A i \in DOMAIN before : before[i].id = after[i].id
            /\ \A i \in 1 .. Len(before) - 1 :
                 /\ before[i].calls = after[i].calls
                 /\ before[i].usage = after[i].usage
                 /\ Len(before[i].tools) = Len(after[i].tools)]_vars

\* The names of steps are those of the forks: not if a call came before the
\* first task_started of a transcript without turn_ids.
Named(id) ==
    \/ adapter = "claude" \/ id.by = "native"
    \/ \A c \in Kinds(records, "call") : \E s \in Kinds(records, "started") : s < c

SameStep(a, b) ==
    /\ a.calls = b.calls /\ a.usage = b.usage
    /\ [t \in DOMAIN a.tools |-> a.tools[t].id] = [t \in DOMAIN b.tools |-> b.tools[t].id]

\* What the parser takes for a prompt and the forks do not.
Unseen(recs) == {i \in DOMAIN recs : recs[i].kind \in {"compact", "padded"}}

\* A fork at a step has the steps up to it, with all that they did and used.  No
\* step follows them but those of records that only the parser takes for prompts:
\* the summary of a compaction, or a prompt with blanks before it, between the
\* step and the next prompt that the forks see.  (Of what a Codex user typed next
\* see CutBeforePrompt.)
ForkEndsAtStep ==
    run.pc = "writing" /\ run.kind = "step" /\ Named(run.arg) =>
        LET before == Steps(records)
            after == Steps(run.content)
            last == CHOOSE i \in DOMAIN before : before[i].id = run.arg
        IN /\ Len(after) >= last
           /\ \A i \in 1 .. last : before[i].id = after[i].id /\ SameStep(before[i], after[i])
           /\ \A i \in last + 1 .. Len(after) :
                \E c \in Unseen(records) : after[i].id = C!Native(c)

\* docs/v2-operations.md: "The cut lands immediately before the next prompt/turn."
\* What was typed for the turns that a fork leaves out is not in it.
CutBeforePrompt ==
    run.pc = "writing" /\ run.kind = "step" =>
        \A i \in Kinds(records, "message") : \A s \in Kinds(records, "started") :
          i < s /\ s > Len(run.content) /\ (\A j \in i .. s - 1 : records[j].kind # "started") =>
            i > Len(run.content)

Prompts(recs) ==
    LET names == IF adapter = "claude" THEN C!Starts(recs) ELSE X!Starts(recs)
    IN [n \in DOMAIN names |-> IF adapter = "claude" THEN C!StepName(recs, names, n)
                               ELSE X!StepName(recs, names, n)]

Digest(keep) == IF adapter = "claude" THEN C!Digest(records, keep) ELSE X!Digest(records, keep)

\* A context fork loses no prompt: the digest has the earlier ones and the
\* transcript the others, with the calls of their steps.  A Codex step without
\* a turn_id cannot be the first to be kept.
CraftLosesNoStep ==
    run.pc = "writing" /\ run.kind = "craft" =>
        LET all == Prompts(records)
            digest == Digest(run.arg)
            kept == Prompts(run.content)
            before == Steps(records)
            after == Steps(run.content)
            first == Len(digest) + 1
        IN (first \in DOMAIN all => all[first].by = "native") =>
             /\ Len(digest) + Len(kept) = Len(all)
             /\ \A n \in DOMAIN digest : digest[n] = all[n]
             /\ \A n \in DOMAIN kept : all[Len(digest) + n].by = "native" =>
                  /\ kept[n] = all[Len(digest) + n]
                  /\ \E i \in DOMAIN before, j \in DOMAIN after :
                       /\ before[i].id = kept[n] /\ after[j].id = kept[n]
                       /\ before[i].tools = after[j].tools
=============================================================================
