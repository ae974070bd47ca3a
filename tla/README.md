# A formal model of the AI session analyzer

The Rust workspace under `crates/` (ASA V2) records what coding agents do. Hooks
of Claude Code and Codex hand observations to a daemon, which stores them in
append-only segments, projects them to session documents and feeds an
analytical database. Next to that it reads the agents' own transcripts: it parses
them into steps, forks them, moves them to another workspace and reports on them.
This directory models the parts whose correctness rests on the order of steps, on
crashes and on who does what at the same time, and the computations whose result
depends on what came before, checks them with TLC and proves the central results
with TLAPS.

Paths below are relative to `crates/`.

## Inventory

| Component | State | Operations | What is hard | What makes it correct | Modelled in |
| --- | --- | --- | --- | --- | --- |
| Segment store, writer (`asa-store/src/segment.rs`) | the active file, the sealed files, the handle and its lock, the set `seen` | `open` (create, lock, header, recovery), `append` (duplicate test, rotation, write, sync) | a crash or an error between any two system calls; what the page cache holds; retries after a crash | what was acknowledged can be read back; stored once; the next `open` succeeds; no frame is lost | `SegmentStore` |
| Segment store, readers and deletion (same file; callers in `asa-daemon/src/lib.rs`, `control.rs`, `asa-store/src/deletion.rs`) | the reader's list of names and its position; the deleter's lock, list and temporary file | `recover_observations`, `remove_session_observations` | both run next to the daemon; files are listed by name and opened later; the reader truncates | a read is complete; a deletion removes its session and nothing else | `SegmentAccess` |
| Delivery (`asa-cli/src/main.rs` `run_hook`, `asa-store/src/spool.rs`, `asa-daemon/src/lib.rs`) | the calls in flight, permits, the persistence queue, the worker's command, the spool, the projection token | call, admit, queue, append, answer, time out, spool, drain, project, stop, kill | timeouts racing answers, dropped handlers, bounded queues, crashes of either side | no finished hook's observation is lost; refused means not stored; acknowledged means stored and, in the end, projected; a stop completes | `Delivery` |
| Path migration (`asa-adapters/src/migration.rs`) | journal, backups, rewritten files | plan, apply, resume | crash between backup, write and journal | rerunning completes it; collisions change nothing; no record is lost | `Migration` |
| Projection, rebuilds and analytics (`asa-store/src/projection.rs`, `analytics.rs`, `asa-daemon/src/lib.rs`) | session documents; DuckDB rows and watermark; the owner of the database | rebuilds of three kinds by three processes; correlate turns, tools and subagents; merge with native transcripts | owner threads, a crash in a transaction, agents that write during a rebuild, evidence in any order | rows and watermark belong together; a rebuild is complete; documents are a function of the set of observations | `Sessions`, `Correlation`, `Capture` |
| Native checkpoints (`checkpoint.rs`) | the file of noted transcripts | save, match | the answer is computed and not used | a checkpoint is never ahead of its document | `Sessions` (saving) |
| Session deletion (`asa-store/src/deletion.rs`) | registry, spool, documents, rows | five steps in order | crashes, hooks and rebuilds between the steps; registry read-modify-write | a deleted session does not come back | `Sessions`, `SegmentAccess` |
| Native transcripts (`asa-analysis/src/parser.rs`) | none | records to steps, tools, errors and usage | records that repeat, that are cumulative, or come late | usage is counted once; errors go to their call; steps are stable | `ClaudeTranscript`, `CodexTranscript`, `Forks` |
| Fork and context craft (`asa-adapters/src/lib.rs`, `context_fork.rs`) | new transcripts and sidecar directories | fork at a step, craft, copy, sync, clean up | half-written forks; what belongs to a step | a fork is whole or absent, ends at its step, loses no step | the same |
| Hook adapters (`asa-adapters/src/lib.rs`) | none | payload to observation, identity, capture policy | identities that coincide | an observation is dropped only for its repetition | `Correlation`, `Capture` |
| Analysis and reports (`asa-analysis`) | none | distill, prompter, intents, models, project, efficacy | forks repeat history; ASA writes sessions itself; windows in time | each prompt and call is counted once; internal sessions leave no trace | `Prompts`, `Distill`, `Prompter`, `Reports`, `Insights` |
| Hook configuration (`asa-cli/src/hooks.rs`) | the agents' settings | install, uninstall, doctor | foreign handlers next to ours | idempotent; other handlers are kept | not modelled |
| Supervisor, token, privacy, other commands (`asa-cli`, `asa-core`) | service files, token file, privacy file | install, restart, create, evaluate | stale temporary files | | not modelled; the restarts are in `Delivery` |
| OTLP, semantic conventions (`asa-otel`, `asa-semconv`) | none | convert | none | a round trip | not modelled |
| TypeScript packages (`packages/`) | none | the V1 analysis | none | reference behaviour for V2 | not modelled |

Interaction: a hook process calls the OTLP receiver of the daemon, and falls
back to the spool directory. The receiver's handlers pass requests through a
channel to one thread that owns the `SegmentStore`, and wake the projection
worker through another channel; that worker, the control API and CLI commands
read the segment files directly. A deletion is a CLI process that shares
nothing with the daemon but the files and the lock on the active one.

## Modules

| Module | Models | Uses |
| --- | --- | --- |
| `DurableLog` | what the store promises: a set of ids that only grows, and answers for ids in it | |
| `SegmentStore` | `open` and `append`, one action per system call that matters | `DurableLog` (refinement) |
| `SegmentAccess` | the writer with readers and a deleter | `SegmentStore` |
| `SegmentProofs` | theorems about `SegmentStore` and `SegmentAccess` | `SegmentAccess` |
| `Delivery` | hooks, spool, receiver, workers, life cycle of the daemon | `DurableLog` (refinement) |
| `DeliveryProofs` | theorems about `Delivery` | `Delivery` |
| `Migration` | the agents' files, the journal, the backups and the run of `asa sessions migrate-path` | |
| `MigrationProofs` | theorems about `Migration` | `Migration` |
| `Sessions` | rebuilds, documents, rows, checkpoints, hooks and `delete_session` | |
| `SessionsProofs` | theorems about `Sessions` | `Sessions` |
| `Selection`, `Sums` | the entries of a sequence at some of its places; the sum of the values of a function | |
| `ClaudeTranscript`, `CodexTranscript` | how a transcript is parsed, cut at a step and crafted; no state | `Selection` |
| `Forks` | an agent that writes a transcript, and a fork of it | both transcript modules (`INSTANCE`), `Sums` |
| `ListFacts` | lemmas about least numbers, loops, selections and sums | `Selection`, `Sums` |
| `ForksProofs` | what the two parsers make of transcripts of any length; theorems about `Forks` | `Forks`, `ListFacts` |
| `Correlation` | from hook inputs to observations, turns and merged turns; no state | |
| `Capture` | an agent, its hooks and the delivery of their observations | `Correlation` |
| `CaptureProofs` | theorems about `Capture` | `Capture` |
| `Prompts`, `Distill`, `Prompter`, `Reports` | the reports as functions of the sessions in scope; no state | `Prompts` uses `Selection` and `Sums`, `Distill` and `Prompter` use `Prompts`, `Reports` uses `Prompter` |
| `Insights` | a history of sessions, forks and commits, and the reports over it | `Distill`, `Reports` |
| `InsightsProofs` | theorems about `Insights` | `Insights`, `ListFacts` |
| `MC...` | what TLC needs besides: symmetry, the batches of the clients, the paths of the agents' files, the turns of sessions | |

The modules compose by what each promises to the next. `SegmentStore` implements
`DurableLog`, and `Delivery` uses the store as the set of ids that `DurableLog` is;
`Sessions` takes the same set and adds what is derived from it, and what
`SegmentAccess` does file by file is its step `DeleteSegments`. What `Sessions`
keeps of a document is which observations and how much of a transcript it was built
from; `Correlation` and the transcript modules say what is built.

### SegmentStore

The disk is a set of inodes with a header, frames and the number of frames that
`sync_data` has covered, and the names that lead to them (`active`, `sealed`).
A frame is an observation id or `Torn`. The writer's `pc` names its next system
call; `fd` and `replacement` are the two handles of `append`, `seen` is the
in-memory set, `acked` is kept for the properties only. `append` holds both
mutexes throughout, so one request is in flight.

`Kill` keeps the page cache; `PowerLoss` keeps, of every file, what was synced
and any prefix of the rest, with or without part of one more frame. `Faults`
names the system calls that may fail while the process lives on.

Abstractions. Renames and creations are durable when they return and atomic (the
code syncs the directory of the active file, and not that of the sealed ones or
after the creation; what a file system that reorders them could do is not
modelled). Oversized observations and encoding errors return before anything
changes. An error of `sync_data` leaves the frame in place. A tear with frames
behind it is read either as a short tail or as an error. `SyncMagic` and the
`set_len` of `open` do not fail.

### SegmentAccess

A reader lists the sealed directory, then asks whether the active path exists,
reads the sealed files, opens the active path, meets its end and truncates the
file to the length it saw: six steps with the writer's between them. The deleter
opens and tries to lock the active path (if it exists), lists, and for each file
reads, writes the rest to a new file and renames that over the old one.
`WriterLocks` and `DeleterLocks` are the exclusive locks; locks belong to inodes,
names are looked up anew at each step. `Overlaps` says whether a start of the
daemon may overlap a deletion, whether a rotation may overlap a deletion or a read,
and whether a frame may be written between a reader's end and its truncation. With
none of them the properties hold, with any they do not (below).

### Delivery

`client[c]` is the calling process, `handler[c]` the export future of its call
(`permit`, `waiting`, `acked`, `errored`), `reply[c]` the response on the wire.
A call that the client gave up leaves its handler to run or to be dropped
(`Cancel`), and its request in the queue. `Persist` is the segment thread,
`Projector` the projection worker with its token, its read and its write as
separate steps. `Start`, the drain, `Serve`, `Stop` and `Exit` are `run`. The
store is a set of ids, which is what `DurableLog` allows and `SegmentStore`
implements; the documents are the set of ids they were built from.

### Migration

`disk[p]` is the file at a path: the set of its records, each an identity and
the workspace it names, or `None`. `Sources`, `Rewrite` and `Collides` are the
plan of `plan_claude` and `plan_codex` (affected transcripts and indexes, all
sidecars of an affected transcript) and its collision test; `Dest` is where the
slug of the workspace takes a file, and Codex's files stay. `journal[m]` is the
saved plan of a command line with its marks. `pc` follows one run through
`SaveJournal` or `Resume`, and for each operation in order `KeepBackup` or
`CreateBackup` and `WriteBackup`, then `Install`, `Remove` and `Mark`, to
`Finish`. `Interrupt` ends the run before any of these steps, be it a kill or an
error of the next step; a file that is there and may be incomplete is `Torn`.

Abstractions. A plan reads all files in one step. An atomic replacement (a
temporary file that is synced and renamed, for contents and journal) is one
step; temporary files left behind have names of their own and are not
modelled. A transcript goes to the directory of the whole workspace, not of a
sub-directory. A record's other fields are copied. A power loss keeps what the
run had done. After a migration the CLI spools an observation and rebuilds
documents and rows; that is not part of this model.

A finished journal is kept, and a later run of the same command takes it for its
own: a repository that was moved there, back and there again is not migrated the
third time, and the run reports what the first one did. In the model that run is
`Resume` followed by `Finish`.

### Sessions

`job[p]` is the rebuild that the daemon, a CLI command or a deletion is in: it reads
the store (`JobRead`), writes a document per session (`WriteObserved`), merges the
transcripts it has discovered (`Discover`, `MergeNative`, `SaveCheckpoints`), lists
the documents and replaces the rows in a transaction of the process that has the
database open (`JobList`, `JobOpen`, `Replace`, `Commit`). `del` is `delete_session`
with its five steps, and `hook` a hook that has passed the registry test and not yet
delivered. Any step may fail or be the last of its process (`JobFails`, `Killed`,
`DeleteStops`).

Abstractions. The store is the set of ids in it, a transcript its length, a document
the observations and the length it was built from. An open transaction is nothing
until it commits. `gone` is kept for the properties only. Left out: two writers of
documents at once, which share a temporary name (`NoWriter`); two deletions at once,
which read and write the registry without a lock; a registry that cannot be read,
which `retained_observations` takes for an empty one; spool directories that were
rejected; a `storage.rebuild` of the control API that overlaps the worker of the same
process; a transcript that names another session inside than its file does.

### ClaudeTranscript, CodexTranscript and Forks

A record has the kind, ids and numbers that the parser looks at; parsing is a function
`after[i]` of the first `i` records (`parse_claude`, `parse_codex`), and further operators cut
and rewrite records as `fork_native_session_at_step` and `craft_context_fork` do. Where the
code filters records it is `Selection`, by a set of places: the test of `SelectSeq` is an
operator, of which nothing can be proved. `Forks` lets an agent write a transcript record by
record and makes one fork of it: `ForkAtStep` or `CraftContext`, then `WriteTranscript` and,
for a Claude session with sidecars, `CreateCopy`, `CopySidecars`, and `SyncFork`; each may
fail, and `RemoveTranscript` cleans up. `disk.durable` says which directory entries a power
loss leaves.

Parser and forks have rules of their own for what a prompt of Claude Code is: the parser
joins the blocks of text of a record as they are, the forks look at the first block
without the blanks around it, and leave out summaries of compactions. So there are three
kinds of record that a parser takes for a prompt, `prompt`, `padded` (the first block is
blank, or what follows a blank is `[Request interrupted`) and `compact`, and the forks take
the first only (`IsPrompt`).

Abstractions. A record's id is its place. Titles, models, times, pull requests and
the wording of the digest are left out. A copy of the sidecars is absent, begun or
whole. Removing a file does not fail.

### Correlation and Capture

`Correlation` has the identity of an observation (`ObservationId`), the grouping of
the observations of a session by time, the turn each joins or opens (`TurnOf`), the
spans of tools and subagents in a turn, and `Merge` of observed and native turns.
`Capture` is an agent in which tools and subagents run at once (a subagent may end
in a later turn), which may be interrupted without a hook, and which may resume its
session; `Deliver` puts any observation that is under way into the store, so they
arrive in any order or never. A subagent that ends in a later turn has its two ends in two
turns: `SpansPaired` says when that splits it, see below.

Assumptions, from the agents' payloads in the fixtures: they give no `timestamp` and
no `event_id`; an agent waits for a hook, so times are in the order of events; Codex
names in its hooks the turns that its transcript names.

### Prompts, Distill, Prompter, Reports and Insights

The reports are functions of the sessions in scope. A text is what they tell apart
of it: its length, the class of its first words, the command it is, the set of its
significant words (on which Jaccard similarity is computed) and the marks that the
scores count; a rate is the pair of its numerator and denominator. The code reads each
transcript twice: the parser makes the steps, distill finds the prompts, under keys of
its own (`claude_prompts`, `codex_prompts`), and `Signals` joins the two where a key is
the id of a step. A step has a sequence of responses, each with its model or without, and
the number of its interrupts, which is not whether it was aborted. A path is a sequence
of names, and a session belongs to the directories above its own (`BelongsToRepo`), so it
may count in several projects; one without a directory is in none. `Insights` is the
history they look at: sessions begin, are resumed and forked, commits change the
instruction files, and `Scopes` are all selections that the agent, `--since` and
`--limit` make (`SelectNativeSessions`). A transcript may begin with a reply or a call
that opens a step without a prompt. Each action advances the clock. `root` of a
session and `typed` of a step name what no report can see and are there for the
properties.

Left out: the report of one session and the comparison of two, the correlation
coefficients, model switches, the file inventory, the cut to twelve tool sequences,
rendering. Records of Claude Code all have a `uuid` here. A fork is of a step that a
prompt or a started turn opened, and does not have the `user_message` of the next turn
that a fork of Codex keeps. Where the code breaks a tie by the order of a map the definition is the
set of possible answers.

## Runs

| Run | Bounds | Shows | Distinct states |
| --- | --- | --- | --- |
| `segment_kill` | 4 observations, 4 files, 2 frames each; kills; errors of sealing, creating and header sync | `AckedDurable`, `RecoverySucceeds`, `StoredOnce`, `StoredGrows` | 3.1 k |
| `segment_power` | 3 observations, 4 files, 2 frames; power losses; every error but a failing `write_all` | refinement of `DurableLog` | 12 k |
| `access` | 3 observations (one doomed), 4 files, one reader, a deletion; power losses, interrupted deletions, every error but of a write or its sync | `ReadComplete`, `OthersRetained`, `DeletionComplete`, `AccessTypeOK` | 0.82 M |
| `delivery_safe` | 2 hooks and an exporter with a batch of two, 2 permits, 2 places, errors, one kill | `NoneLost`, `RefusedLeavesNoTrace`, `FullBehindOrphans`, refinement of `DurableLog` | 2.1 M |
| `delivery_live` | a hook and an exporter, two kills, no errors | `SpoolDrains`, `DeliveredProjected`, `StopCompletes` | 17 k |
| `migration_resume` | a transcript and its sidecar with a path for either workspace, a rollout, 3 records that may lie anywhere, a move there and a move back | `RecordsKept`, `OriginalBackedUp`, `ResumeSucceeds`, `FinishedInFull` | 0.12 M |
| `sessions` | a session with a transcript of up to two records and one observation, another with one observation; three processes | `DeletedHidden`, `RowsMatchWatermark`, `RebuildComplete`, `CheckpointsTrail` | 1.5 M |
| `transcripts` | transcripts of up to five records, forks at any step, craft that keeps up to two steps | `UsageCountedOnce`, `ErrorsAttributed`, `StepsStable`, `ForkEndsAtStep`, `CraftLosesNoStep`, `ForkAllOrNothing` | 5.2 M |
| `capture` | both agents, five events, two last messages | `TurnsAsDefined`, `SpansPaired`, `DeliveredKept`, `CodexCountedOnce`, `EvidenceGrows` | 0.60 M |
| `insights` | four steps, three sessions, two agents, one in a directory below the other's, six kinds of turn, a committer in UTC | `PromptsCountedOnce`, `RecurrencesReported`, `OwnLeavesNoTrace`, `WindowsNearest`, `CallsAddUp` | 0.12 M |

Bounds. Two frames per file are the fewest with a frame before and after another,
four files allow a rotation, a crash in it and another one. Three clients with
two permits and two places are the fewest that meet a full queue, a refusal for
want of a permit and an orphaned request. `RoomToRotate` (a rotation starts only
while another file would be left) and `MaxKills` are the bounds written into
guards. Five paths are the fewest with files that move, that move with another
one, and that stay; with two migrations in opposite directions each one's
destinations are the other one's sources. A run of a migration may be interrupted
any number of times.

In `sessions` a second session shows what a deletion does to others, and a
transcript of two records one that grows during a rebuild. Five records make a step
with a call, its result, a compaction and another step, or one response in two
records and a second response; five events make a turn with a tool and a subagent at
once, or two turns and what comes late from the first. Four steps make two
sessions, a fork of the first and a prompt after it; the six kinds of turn are three
prompts, each similar to the next but the first not to the last, so that the longest takes
the second into its cluster and leaves the third alone; a command, an internal prompt, and
a reply or a call that nothing opened a step for. Among them are responses without a
model, of one model under two dated names and of two models in one step, two interrupts
in one step, and one that a reply follows.
`MaxLength`, `MaxRecords`, `MaxEvents`, `MaxSessions` and `MaxTime` are written into
guards. These models stop at their bounds, hence `CHECK_DEADLOCK FALSE`.

What the runs leave out, because a property fails with it. To see a counterexample,
change the constants of the configuration as said.

| Left out | What happens | Seen with |
| --- | --- | --- |
| kills and power losses in one behaviour | a frame is written, the process is killed before the sync, the restarted daemon answers the retry `Duplicate`, power is lost | `segment_kill` with `Crashes = {"kill", "power"}`: `AckedDurable` |
| errors of `write_all` | an append fails half-way, the next is acknowledged behind its remains | `segment_kill` with `Faults = {"write"}`, `SegmentLimit = 3`: `AckedDurable` |
| errors of writing the new header | a headless file is active and can be sealed | `segment_kill` with `"header"` in `Faults`: `RecoverySucceeds` |
| errors of `sync_data` | a frame is stored without being remembered, and its retry stores it twice | `segment_kill` with `"sync"` in `Faults`: `StoredOnce` |
| a start of the daemon during a deletion | it gets its lock on a file that is then replaced | `access` with `"start"` in `Overlaps`: `OthersRetained` |
| a rotation during a deletion or a read | the deleter's lock is on another file or on none; the reader misses the file that was active | `access` with `"rotation"` in `Overlaps`: `OthersRetained`, `ReadComplete` |
| a write before a reader's truncation | the frame is cut off, acknowledged or not | the run `reader_truncates` |
| an agent that writes, or a second migration, during a migration | the record is overwritten; the second one stops and backs up what is half-way | `migration_resume` with `"agent"` or `"migration"` in `Overlaps` |
| a run of a migration that ends inside the write of a backup | the next takes the partial backup for the whole and replaces the original | the run `migration_torn_backup` |
| a rebuild or a start of the daemon between two steps of a deletion | it has read the observations, or reads the spool, and writes the document again after it was removed; the registry is written last | `sessions` with `Overlaps = {"rebuild"}`: `DeletedHidden` |
| Claude Code in `CountedOnce` | no hook names its turn, so a merged document has each turn and each tool twice, once observed and once native | `capture` with `CountedOnce` |
| committers with an offset | dates are compared as strings, with the committer's offset in one of them | `insights` with `Offsets = {2}`: `WindowsNearest` |
| the next prompt in `ForkEndsAtStep` | a fork of a Codex session keeps the `user_message` that stands before the `task_started` at which it is cut | `transcripts` with `CutBeforePrompt` |
| Codex transcripts without `turn_id` | steps of different sessions are called `turn-0`, and equal prompts are taken for forks; after a step that nothing opened each prompt goes with the step before its own | `insights` with `named` false in `MCStarts`: `PromptsCountedOnce` |
| `ForkFakesNothing` | a session that repeats a prompt is forked between the two: the rest counts as recurring over two sessions | `insights` with `ForkFakesNothing` as a property |

`reader_truncates` and `migration_torn_backup` are runs of their own, each of a
statement that the repository makes (`docs/v2-crash-matrix.md:17` and
`docs/v2-operations.md`), and TLC finds each violated.

### Where code and documents differ

Met while the models were written; the first column is where to look.

- `asa-store/src/deletion.rs:59`: a daemon that starts, or a rebuild that runs, between
  the later steps of a deletion brings the document back for good; deleting the
  session of a migration (`asa:<id>`) removes no segment data (`docs/v2-operations.md:49-51`).
- `asa-store/src/projection.rs:507`: concurrent rebuilds share one temporary file per
  document (`docs/v2-crash-matrix.md:14`).
- `asa-daemon/src/lib.rs:171`: a rebuild after an acknowledgement writes observed
  documents over merged ones; native turns and usage are gone until the next full
  rebuild (`docs/adr/005-session-analytics.md:13-16`). `session.events` reads the
  segments without the registry.
- `asa-store/src/projection.rs:377`: a merged Claude document counts each turn and each
  tool twice (`docs/adr/005-session-analytics.md:12-13`); turns are ordered by id, not
  by time.
- `asa-adapters/src/lib.rs:492`: prompts of one Claude session have one identity, so
  the store drops all but the first as duplicates, and so with two Stops that have the
  same last message.
- `asa-adapters/src/lib.rs:633`: a Codex fork at a step keeps the `user_message` of the
  next one (`docs/v2-operations.md:117`), which its agent may then take for typed; a fork of
  a Claude session goes on through a prompt whose first block is blank or which is blanks
  and `[Request interrupted`, because the parser, but not the fork, takes it for one
  (`asa-analysis/src/parser.rs:97-101`, `461-476`); `turn-N` counts starts there and opened steps
  in the parser, which differ if a call precedes the first start; the parser opens a
  step for the summary of a compaction (`docs/formats.md:25-26`), forks do not.
- `asa-store/src/projection.rs:147-177`: a subagent that ends in a later turn is an
  incomplete span in each of two turns, although both its ends are stored
  (`docs/v2-crash-matrix.md:13`, `docs/v2-verification.md:36`: "one correlated child
  span"); with Claude Code it is one complete span if no turn was seen to begin or end in
  between.
- `asa-adapters/src/lib.rs:821`: a transcript that fails half-way through its write
  stays, as a shorter session; the removal of one whose sidecars failed is not synced.
- `asa-adapters/src/context_fork.rs:138`: a context fork of a Codex session without
  `turn_id` drops the steps it should keep (`docs/v2-operations.md:124-126`); the first
  kept step of any crafted Codex session counts all usage before it.
- `asa-analysis/src/distill.rs:111`: a fork can fake a recurrence
  (`docs/analysis.md:103-105`), sequences of tools are not deduplicated at all, and
  `turn-N` ids of different Codex sessions are taken for one step. Where a call precedes
  the first start, the parser's `turn-N` counts a step that `codex_prompts` does not
  (`distill.rs:222-236`, `parser.rs:304-321`), so each prompt is taken for that of the step
  before its own.
- `asa-analysis/src/reports.rs`: models and project reports include ASA's own sessions,
  and these take places of `--limit` (`docs/analysis.md:100-102`), so `CallsAddUp` speaks of
  reports over the others; a session counts in the project of every directory above its
  own (`reports.rs:621-627`); efficacy counts a
  session at the instant of a commit as after it (`docs/analysis.md:118-120`); a session
  that used a model under two dated names counts as two sessions of it. Summaries of
  compactions count as prompts.

## Fairness

Only `delivery_live` needs it: every task of the runtime,
the segment thread and the projection worker run (`WF` of `Handler(c)`,
`Persist`, `Projector`, `Exit`), and the supervisor starts the daemon
(`WF(Starting)`): launchd has `KeepAlive`, systemd `Restart=on-failure` and the
start at login (`asa-cli/src/supervisor.rs:249`, `269`). No fairness is assumed of
callers, of errors, stops and kills, nor of the order in which ready parties run.
The other models promise nothing in the end: a rebuild, a fork or a migration is
started by a command and may fail.

## Proofs

`SegmentProofs` holds for every number of observations, files and frames.
`TypeCorrect` needs no assumption. `AckedIsDurable` and `StoreImplementsLog`
assume `NoTornWrites` (no `write_all` stops half-way in a process that lives on)
and `OneCrashKind` (kills or power losses, not both); the first two counterexamples
above show that neither can be dropped.

`AckedDurable` is not inductive: an append is also answered from `seen`, `seen`
comes from what `open` read, and what is durable depends on where in a file the
tears are. The inductive invariant `IndInv` adds

- `Layout`: where handles and names point at each step; a new file is empty
  until it is installed, and a handle that is not on the active file is on a full one;
- `TearsAtTail`: a tear is the last thing in a file, and the file behind the
  handle has none, because every `open` truncates it;
- `SyncedPrefix`: `synced` never exceeds the length, and after a power loss and
  until the daemon serves, everything on disk is synced;
- `SeenDurable`: `seen` holds durable ids only.

The argument: every step keeps each durable frame and its predecessors in place
(`KeepsFrames`, one lemma per kind of step: `RecoverStep`, `WriteStep`,
`SyncStep`, `PowerLossStep`, `InstallStep`, and `DiskUntouched` for the rest),
hence `Durable` only grows (`DurableKept`), and what is added to `seen` and
`acked` is durable by then (`AnswersDurable`). The refinement follows with the
same invariant.

Three more theorems use it, each with the assumption that its counterexample above
asks for. `StoredIsKept` (no power loss): without power losses `Stored` is `Durable`,
so it grows too. `OpenSucceeds` (no power loss, no error of writing a header) adds
`Headers`: a listed file has its header, but for an active one that has just been
created and that the next `open` completes. `StoredAtMostOnce` (kills or power losses,
no error of a sync) adds `Remembers`: a process that serves has in `seen` every id it
could read back, sealed files included, but the one it is about to sync, and it
appends only what is not there. Most steps add no frame (`AddsNothing`, `OnceKept`);
`WriteOnce` is the one that does, `RecoverRemembers` fills `seen` again after a crash.

Its second half holds for any number of readers besides, and whatever session is
deleted. The four theorems (`ListsLead`, `OthersKept`, `DeletionRemoves`,
`ReadersMissNothing`) assume what `AckedIsDurable` does and `NoOverlaps`, that is
`Overlaps = {}`: the counterexamples above show why. The invariant `AccessInv` keeps
`DiskInv` of the store, because what readers and the deleter do to files is `Tidy`: a
file is left alone, loses its tear, or is a new one that is filled and synced, so no
complete frame goes (`TidyFile`, `TidyStep`), and no reader cuts off more than a tear
(`CutsValid`). `Serialised` is what the locks are for: a deleter that is past its
`try_lock` finds the daemon gone, or on a full file that an error in a rotation has left
behind, which the daemon does not write again without a rotation; all it can do then is
to answer from memory or to stop (`WriterStill`). `RewriteHolds` says that what is about
to replace a file is synced, known to nobody else and holds every frame that is retained
(`KeptFrames`); then `Retained`, the counterpart of `SeenDurable` and `AckedDurable` for
the other sessions, survives the renaming (`ReplaceKeeps`). The two action properties add
one invariant each: `Cleaned`, every listed file is still on the deleter's list or has
nothing of the session, and `AllSee`, what was stored when a reader began is in what it
has read or in a file it has still before it, which a renaming exchanges on its list
(`ReplaceSeen`).

`DeliveryProofs` holds for every set of callers and batches, every number of
permits, queue places and kills, and whatever subset of appends, spool reads,
spool writes and rebuilds may fail; it assumes only `DeliveryAssumptions`.
`DeliveryTypes` is inductive as it stands; its one step of interest is that the
persistence worker stays inside its batch. `NothingLost` and
`DeliveryImplementsLog` are not: the property speaks of callers that have
returned, and what it needs is true earlier, while the answer is on its way.
`IndInv` adds

- `AckStored`: an acknowledgement in a handler, in a response or with the caller
  stands for a batch that is stored, whoever has gone away meanwhile;
- `WorkStored`: the observations before `next` in the worker's batch are stored,
  and the entry the drain is about to remove is;
- `SpooledKept`: what a hook wrote to the spool is stored, pending or rejected.

Most steps pass an acknowledgement on or drop it, and remove no entry that is
not stored (`Quiet`, `QuietStep`); `AppendNext` and `DrainAppend` are the two
that create something and are proved apart. For the refinement, callers keep
their acknowledgements (`DeliveredStays`) and the log grows (`LogGrows`), so
every step is an `Acknowledge` of the abstract log, most often of nothing new.

`NothingOfRefused` and `RoomForAdmitted` start from `OneAnswer`: a call has a handler
or an answer, not both. For the first, a request is `Untouched` from the start until
the queue takes it or its caller gives up, and for ever if it is refused; nothing
becomes untouched again (`TouchedStays`), and as long as it is, it is not queued, not
with the worker and not in the spool, and only others can store its observations
(`NoTrace`). For the second, `QueueOrderly` says that a request is queued once and that
its handler waits if its caller does; so a full queue without an orphan would be an
injection of `QueueLimit` places into the permits other than the caller's own, of which
there are fewer than `Slots`, which is at most `QueueLimit` (`PermitsBounded`,
`FullQueue`).

`MigrationProofs` holds for any files, workspaces, destinations and command
lines. `MigrationTypes` needs no assumption. `NoRecordLost`, `AlwaysResumes` and
`FinishedMeansDone` assume `NoOverlaps` (no agent writes and no other migration
begins while one is unfinished), `ChangedIsBackedUp` in addition that no run ends
inside the write of a backup; without either the runs above find
counterexamples. None of the four properties is inductive, because each depends
on what an interrupted run may have left. `IndInv` says just that:

- `PlanSound`: a plan that is not saved yet agrees with the disk, and no
  destination is a source, another's destination or taken (`NoClash`);
- `InProgress`: an operation that is marked is done, and one that is not is
  `Pending`: its source is there and rewriting it gives the planned contents
  (which is also true of a file rewritten in place, `RewriteTwice`), or it is
  gone, was backed up, and the contents are at the destination;
- `Settled` and `Alone`: a finished journal leaves nothing to do, and one
  migration at most is unfinished, which is then the one that runs;
- `Stage`: what the steps of the current operation have established.

An operation's steps touch its own two paths, which `NoClash` keeps apart from
all others (`Apart`, `OthersKept`), so only the operation at hand has to be looked
at. No record is lost because rewriting keeps identities (`RewriteIds`) and a
source goes only when the contents are elsewhere (`LiveKept`, `LiveStep`);
resuming succeeds and finishing is complete because of `Pending` and `InProgress`.
`BackupsHold` is added for the backups: a backup holds its source until that is
changed.

`SessionsProofs` holds for any sessions, observations and lengths. `SessionsTypes` and
`WatermarkOfRows` need no assumption on overlaps: rows and watermark change in `Commit`
only, together. `DeletionIsFinal`, `RebuildsComplete` and `CheckpointsBehind` assume
`Overlaps = {}`, and the counterexample above shows that the first needs it. None of
the three is inductive, because what is written is read from a rebuild's memory:

- for `DeletedHidden` the invariant `Hidden` says that a registered session has no
  document and is in no list that a rebuild holds, that a session that is gone is
  registered, and (`Quiet`) that no rebuild is under way until a deletion has
  registered its session; hooks may then deliver and agents write without consequence;
- for `RebuildComplete` and `CheckpointsTrail` the invariant `Complete` says that one
  process at a time writes documents, that those it has done hold what it has read
  (`Progress`), and that a transcript is never shorter than when it was discovered.
  `OneStepComplete` is the argument for one step, `OtherProgress` that no other
  process disturbs it.

`CaptureProofs` holds for any number of events, turns and calls, and whatever is delivered,
lost or late. The functions it is about (`TurnOf`, the grouping by time) are recursive
functions over sequences. The library's induction theorems take an operator that no
prover here instantiates; what replaces them is `NonEmptyMin`: a set of numbers has a
least one, so if the definition and its characterisation differed anywhere there would be
a first place, and unfolding the function once there gives the contradiction
(`CurrentExists`, `TurnOfUnfolds`, `TurnOfCharacterised`). The invariant `Inv`
(`CaptureInvariant`) has four parts, all of which TLC checked first:

- `Named`: an event names the turn it is of exactly where the agent's hooks do;
- `TurnsInOrder`: the turns of the input do not overlap, each begins with its prompt and
  nothing but a new start of the session follows its `Stop`;
- `CallsPaired`: a call is known by the place of its start, ends once and later, and a
  tool ends in its own turn;
- `StoreFaithful`: what is stored or under way is the observation of an event, with its
  id and its time, and the store has each id once.

`TurnsByDefinition` sorts the stored observations by rank (`GroupedSorts`) and shows that
the loop finds for each the latest boundary before it, which the set alone determines
(`TurnOfReference`). For `EvidenceOnlyGrows` the turns with a name are the named
observations (`StoredEvidence`) and a span's fields are existential in them
(`SpanGrows`). `CodexCounts` counts spans and turns by a bijection with the calls and
turns of the input. `CallsPairUp` needs that between the two ends of a tool no prompt
lies (`PairedSpan`), which follows from `TurnsInOrder` and `CallsPaired`. The two ends of a
call are in one turn or, if a subagent's second end is of a later turn, perhaps in two,
which are then different and have one end each; with Codex each end is in the turn that
it names (`CrossedEnds`).

`ForksProofs` holds for transcripts of any length and whatever is kept of them. The parsers are
recursive functions over the records too, so a transcript is taken with its run, a state for
each prefix (`RunExists`, `RunUnique`), and what the state after `n` records says of those
records is shown for the least `n` at which it could fail. For Claude Code that is
`ClaudeSound` (each call that was placed is where `where` says, once, and has the error of its
last result so far) and `ClaudeCounted` (the steps' usage is the sum over the responses seen);
for Codex `CodexSound`, and `ClosedUsage`: a step that is closed is paid what the running total
rose since it began, so the differences telescope to the last total. Each kind of record is one
lemma about the state before and after (`ClaudeTakes`, `CodexTakes`). Sums over sets of steps
are taken apart by `SumsPlus`, which rests on `NonEmptyMin` again.

`Written`, the invariant of the machine, says that the agent's transcript is a proper one
(`ClaudeWritten`, `CodexWritten`: an id is a record's place, a result names a call that
was made, a running total only rises). `UsageCountedOnce` and `ErrorsAttributed` follow
from it by what the parsers do with such a transcript, and `StepsStable` because one
record more lets the list of steps grow (`ClaudeGrows`, `CodexGrows`). `ForkAllOrNothing`
needs instead what the files are in each phase of a fork (`FilesByPhase`): the transcript
is whole before the directory of the copy is made, and where the clean-up begins the
copy is gone already.

`ForkEndsAtStep` compares the steps of a transcript with those of the fork made from it, and
the cut is found by other rules than the steps. What brings the two together is an order of
names. For Claude Code the steps' names come from places in the order of the records
(`ClaudeNamed`): every prompt, padded or not, and every summary names one, an early answer at
most the first. For Codex the `n`-th `task_started` names the `n`-th step, or the one after it
if a call comes before any turn (`CodexNamed`); that these are the places which `Starts`
selects is shown along the run of the selection (`CodexStartsRun`). The cut is before the next
prompt that the forks see, so the prefix that is kept has the step, and only records that the
parser alone takes for prompts can name a step behind it; the records of the kind `last-prompt`
that are dropped from it say nothing to the parser (`ClaudeKept`, again by two runs side by
side). The rest of the transcript lets the steps grow without touching those before the last
(`Beginning`, from `ClaudeRunGrows` and `CodexRunGrows`), and where it opens a step at once the
last one of the prefix is closed as the fork's is. The invariant that ties the machine to this
is `Forked`: what is being written is the fork that was asked for, of a transcript to which
nothing is added meanwhile.

`CraftLosesNoStep` compares the steps of a transcript with those of one that has other
records before the same tail, so a parser begins in the middle of what the agent wrote: the
responses, calls and totals before the tail are unknown to it, and results come for calls
that it never saw. Two things have to be shown. The names: the steps that are kept are
those whose place is in the tail (`ClaudeTailStart`, `CodexTailStart`, `BackSplits`), and
as the tail has the same prompts in the same order, both lists are increasing over the
same places and so the same one by one (`Splits`, `CarriedOver`, `PlacesCarried`). The
calls: both parsers are run over the tail side by side. `Alike` relates two states: the
steps since the tail began have the same calls, and a call which the second parser knows
is at the same place in both, while one that only the first knows is in a step before the
tail. Every kind of record keeps it (`Together` with one lemma per effect: a step opened, a
call placed, a result noted, usage only; then `ClaudeFollows` and `CodexFollows`), and a
step that both open under one name has one number in both (`Marks`), so at the end each
kept prompt is `Carried` over. Where the name is not that of the agent's own id the kept
steps are numbered anew, which is why the property speaks of native names, and for Codex
it needs one for the first kept step, since the tail is found by it. `Crafted` is the
invariant of the machine, as `Forked` is for the other fork.

`InsightsProofs` holds for any number of sessions, of any length, and for any texts.
`NoTraceOfOwn` needs no assumption; `PromptsCounted` and `RecurrencesKept` assume `AllNamed`,
that every agent gives its steps an id of their own, which the counterexample above shows to be
needed. The invariant is `History`: the ids of named steps say when they were typed, and what
was typed at one time is in one session and in its forks only. To it belongs how a session is
`Joined`: the parser's ids and distill's keys of its steps are the same, or numbers that differ
by the one step that nothing opened; so the prompt of a step is that of the step `d` places on,
with one `d` for the whole session (`Shift`), none where the agent names its steps. A scope
holds sessions of the history (`ScopeFrom`), because a selection and a stable sort only move
what there is (`SelectionPlaces`, `OrderedPlaces`). ASA's own sessions are told by their first
prompt (`OwnIs`), so the others alone give the same list (`IncludedAgain`). `PromptsCounted` is
a bijection between what distill keeps and what was typed (`OnceIs`, `CountIs`). For
`RecurrencesKept` the clusters are taken with the loop that makes them: a cluster never changes
what it takes, so a text always goes to the first that takes it (`PlaceKeeps`, `ClustersAre`,
`FirstOne`), and what two unrelated sessions typed comes from sessions of different names
(`TextKept`).

`CallsInReports` needs no assumption either. A sum over a finite set is unfolded one
element at a time (`SumsPlus`), from which it may be taken group by group (`SumGrouped`)
or under other names (`SumRenamed`), and a sum of ones is a cardinality (`SumOnes`). The
responses that name a model are grouped by entries, a session and a raw name of a model
(`EntryCalls`), and the entries by rows, by weeks and by agents (`CallsWith`); so a dated
name beside a plain one adds to one row and is counted in it once. What is counted of a
project is what the sessions below it answered (`ProjectCalls`).

`NearestWindows` assumes that committers are in UTC, and the counterexample above shows why.
The list that a window is cut from is taken as a line (`IsLine`), which visits each session of
the repository, and of what is below it, once; a selection of it leads where the whole does
(`LineSelected`), the sort leads to later sessions (`LineOrdered`) and, before a commit, the
list is read backwards (`LineReversed`). So both lines lead away from the commit, and their
first sessions are the nearest (`TakenNearest`); the sums that the window reports are theirs by
`SumRenamed`. `Dated` says that no session in scope begins later than now.

Only model-checked: the three liveness properties of `delivery_live` under the fairness
they assume, which are beyond the prover. Every invariant and action property of the
passing runs is stated by a theorem. The type invariants of `SegmentStore`, `Delivery`,
`Migration` and `Sessions` are proved, so no run repeats them.

## Not modelled

- Hook configuration: install and uninstall read a settings file, change its JSON and
  replace it in one short process, with nothing of ASA's running at the same time.
- OTLP conversion, semantic conventions, capture policies, redaction and the answers
  to hooks: stateless, one value to another, with unit tests for each.
- launchd and systemd themselves (what they promise is in `Delivery`), the token file,
  authentication, privacy settings, arguments and output of commands, rendering.
- Wall-clock time in the delivery of observations: a budget is a step that may come at
  any point.
- `enforce-retention`, which calls the deletion of `Sessions` for each session whose
  `ended_at` is old enough.
- The TypeScript packages, the earlier implementation.
- The power failure of a file system that reorders renames; see `SegmentStore`.

What would come next: hook configuration, should it ever be changed by two processes.
