------------------------------- MODULE Sessions -------------------------------
(***************************************************************************)
(* What is derived from the stored observations and from the agents' own   *)
(* transcripts, and how a session is deleted.  A rebuild writes a document *)
(* per session, lists the documents and replaces the rows of the           *)
(* analytical database by them.  Three processes do so: the daemon (at its *)
(* start, after acknowledgements and for storage.rebuild), the CLI (`asa   *)
(* daemon rebuild`, `asa storage rebuild`) and, for the rows, a deletion.  *)
(* A deletion works in steps of which only the first is under the lock of  *)
(* the segment store; its last mark is an entry in a registry that hooks   *)
(* and rebuilds consult.                                                   *)
(*                                                                         *)
(* The store is the set of observations it holds (DurableLog), and a       *)
(* transcript is its length.                                               *)
(***************************************************************************)
EXTENDS Naturals, FiniteSets

CONSTANTS
    Ids,            \* observations
    SessionIds,     \* sessions
    Native,         \* the sessions that have a transcript of their own
    SessionOf,      \* SessionOf[o]: the session of an observation
    MaxLength,      \* bound on the length of a transcript
    NoSession,
    Overlaps        \* "rebuild": the daemon may start, and rebuilds run, while
                    \* a deletion is between two steps

ASSUME SessionsAssumptions ==
    /\ SessionOf \in [Ids -> SessionIds]
    /\ Native \subseteq SessionIds
    /\ MaxLength \in Nat
    /\ NoSession \notin SessionIds
    /\ Overlaps \subseteq {"rebuild"}

VARIABLES
    stored,         \* the observations in the segments
    spool,          \* the observations in the spool
    fired,          \* the observations some hook has been run for
    hook,           \* the observation of the hook that has passed its checks, if any
    length,         \* length[s]: the transcript of s, 0 when there is none
    registry,       \* the sessions marked as deleted
    doc,            \* doc[s]: the document of s
    rows,           \* the committed rows of session_summary
    mark,           \* the committed session_watermark
    checkpoints,    \* checkpoints[s]: the length noted for s, 0 when none
    owner,          \* the process whose owner thread has the database open
    daemon,         \* the life cycle of the daemon
    job,            \* job[p]: the rebuild a process is in
    del,            \* the run of delete_session
    gone            \* the sessions whose deletion has succeeded (not in the code)

hooks == <<spool, fired, hook>>
files == <<registry, doc, checkpoints>>
database == <<rows, mark, owner>>
vars == <<stored, hooks, length, files, database, daemon, job, del, gone>>

Processes == {"daemon", "cli", "delete"}
Of(s) == {o \in Ids : SessionOf[o] = s}
Documents == [obs : SUBSET Ids, native : Nat]
NoDoc == [obs |-> {}, native |-> 0]
NoDocs == [s \in SessionIds |-> NoDoc]
NoLengths == [s \in SessionIds |-> 0]

\* pc: the next step.  kind: rebuild_sessions, rebuild_observed, or the rows
\* alone.  obs: the observations recovered and retained; left: the sessions
\* still to do; refs: the transcripts discovered; done: the ones merged; list:
\* the documents listed, and then the rows inside the open transaction.
Jobs == [pc : {"idle", "read", "observed", "native", "list", "open", "replace", "commit"},
         kind : {"sessions", "observed", "rows"},
         obs : SUBSET Ids, left : SUBSET SessionIds, refs : [SessionIds -> Nat],
         done : SUBSET SessionIds, list : [SessionIds -> Documents]]

Idle == [pc |-> "idle", kind |-> "rows", obs |-> {}, left |-> {}, refs |-> NoLengths,
         done |-> {}, list |-> NoDocs]

Init ==
    /\ stored = {} /\ spool = {} /\ fired = {} /\ hook = {}
    /\ length = NoLengths /\ checkpoints = NoLengths
    /\ registry = {} /\ gone = {}
    /\ doc = NoDocs /\ rows = NoDocs /\ mark = {}
    /\ owner = {}
    /\ daemon = "down"
    /\ job = [p \in Processes |-> Idle]
    /\ del = [pc |-> "idle", session |-> NoSession]

\* Document writers use one temporary name per document, so no two of them run
\* at once here; and none runs during a deletion unless Overlaps says so.
NoWriter == \A p \in Processes : job[p].pc = "idle" \/ job[p].kind = "rows"
NoDeletion == del.pc = "idle" \/ "rebuild" \in Overlaps
-----------------------------------------------------------------------------
(* Hooks, agents and the daemon *)

\* run_hook: is_session_deleted is asked before anything is sent.
HookCheck(o) ==
    /\ hook = {} /\ o \notin fired
    /\ fired' = fired \cup {o}
    /\ hook' = IF SessionOf[o] \in registry THEN {} ELSE {o}
    /\ UNCHANGED <<stored, spool, length, files, database, daemon, job, del, gone>>

\* The daemon acknowledges it, or it goes to the spool, or that fails too.
HookSend ==
    /\ daemon = "serving" /\ hook # {}
    /\ stored' = stored \cup hook
    /\ hook' = {}
    /\ UNCHANGED <<spool, fired, length, files, database, daemon, job, del, gone>>

HookSpool ==
    /\ hook # {}
    /\ spool' \in {spool, spool \cup hook}
    /\ hook' = {}
    /\ UNCHANGED <<stored, fired, length, files, database, daemon, job, del, gone>>

\* The agent goes on writing its transcript, deleted here or not.
AgentWrites(s) ==
    /\ length[s] < MaxLength
    /\ length' = [length EXCEPT ![s] = @ + 1]
    /\ UNCHANGED <<stored, hooks, files, database, daemon, job, del, gone>>

\* run: the store is opened, the spool drained, and rebuild_sessions begins.
\* The lock is free: a deletion has it in DeleteSegments only.
DaemonStart ==
    /\ daemon = "down" /\ NoWriter /\ NoDeletion
    /\ stored' = stored \cup spool
    /\ spool' = {}
    /\ daemon' = "starting"
    /\ job' = [job EXCEPT !["daemon"] = [Idle EXCEPT !.pc = "read", !.kind = "sessions"]]
    /\ UNCHANGED <<fired, hook, length, files, database, del, gone>>

\* The receiver is served once that rebuild has ended (JobEnds).  Then the
\* worker rebuilds what is observed, or the control API the rows.
DaemonRebuilds(kind) ==
    /\ daemon = "serving" /\ job["daemon"].pc = "idle" /\ NoDeletion
    /\ \/ kind = "observed" /\ NoWriter
       \/ kind = "rows"
    /\ job' = [job EXCEPT !["daemon"] =
                  [Idle EXCEPT !.pc = IF kind = "rows" THEN "list" ELSE "read", !.kind = kind]]
    /\ UNCHANGED <<stored, hooks, length, files, database, daemon, del, gone>>

\* `asa daemon rebuild` and `asa storage rebuild`.
CliRebuilds(kind) ==
    /\ job["cli"].pc = "idle" /\ NoDeletion
    /\ \/ kind = "sessions" /\ NoWriter
       \/ kind = "rows"
    /\ job' = [job EXCEPT !["cli"] =
                  [Idle EXCEPT !.pc = IF kind = "rows" THEN "list" ELSE "read", !.kind = kind]]
    /\ UNCHANGED <<stored, hooks, length, files, database, daemon, del, gone>>
-----------------------------------------------------------------------------
(* A rebuild *)

Step(p, next) == job' = [job EXCEPT ![p] = next]

\* Mutant of JobRead: the registry is not consulted.
JobReadAll(p) ==
    /\ job[p].pc = "read"
    /\ Step(p, [job[p] EXCEPT !.pc = "observed", !.obs = stored,
                              !.left = {SessionOf[o] : o \in stored}])
    /\ UNCHANGED <<stored, hooks, length, files, database, daemon, del, gone>>

\* recover_observations, and what retained_observations keeps of them.
JobRead(p) ==
    /\ job[p].pc = "read"
    /\ LET kept == {o \in stored : SessionOf[o] \notin registry} IN
       Step(p, [job[p] EXCEPT !.pc = "observed", !.obs = kept,
                              !.left = {SessionOf[o] : o \in kept}])
    /\ UNCHANGED <<stored, hooks, length, files, database, daemon, del, gone>>

\* project_observations: the document of a session is written anew.
WriteObserved(p, s) ==
    /\ job[p].pc = "observed" /\ s \in job[p].left
    /\ doc' = [doc EXCEPT ![s] = [obs |-> job[p].obs \cap Of(s), native |-> 0]]
    /\ Step(p, [job[p] EXCEPT !.left = @ \ {s}])
    /\ UNCHANGED <<stored, hooks, length, registry, checkpoints, database, daemon, del, gone>>

\* discover_sessions notes the length of each transcript; rebuild_observed
\* leaves transcripts alone.
Discover(p) ==
    /\ job[p].pc = "observed" /\ job[p].left = {}
    /\ Step(p, IF job[p].kind = "observed" THEN [job[p] EXCEPT !.pc = "list"]
               ELSE [job[p] EXCEPT !.pc = "native", !.refs = length,
                                   !.left = {s \in SessionIds : length[s] > 0}])
    /\ UNCHANGED <<stored, hooks, length, files, database, daemon, del, gone>>

\* Mutant of MergeNative: the document that is there is not read.
MergeNativeAlone(p, s) ==
    /\ job[p].pc = "native" /\ s \in job[p].left
    /\ doc' = [doc EXCEPT ![s] = [obs |-> {}, native |-> length[s]]]
    /\ Step(p, [job[p] EXCEPT !.left = @ \ {s}, !.done = @ \cup {s}])
    /\ UNCHANGED <<stored, hooks, length, registry, checkpoints, database, daemon, del, gone>>

\* project_native_session: the transcript is read as long as it is now, and the
\* turns that were only observed are kept.  A deleted session is passed over,
\* and so is a transcript that cannot be read.
MergeNative(p, s) ==
    /\ job[p].pc = "native" /\ s \in job[p].left
    /\ \/ /\ s \notin registry
          /\ doc' = [doc EXCEPT ![s].native = length[s]]
          /\ Step(p, [job[p] EXCEPT !.left = @ \ {s}, !.done = @ \cup {s}])
       \/ /\ Step(p, [job[p] EXCEPT !.left = @ \ {s}])
          /\ UNCHANGED doc
    /\ UNCHANGED <<stored, hooks, length, registry, checkpoints, database, daemon, del, gone>>

\* Mutant of SaveCheckpoints: the length is looked up when it is saved.
SaveCheckpointsLate(p) ==
    /\ job[p].pc = "native" /\ job[p].left = {}
    /\ checkpoints' = [s \in SessionIds |-> IF s \in job[p].done THEN length[s] ELSE 0]
    /\ Step(p, [job[p] EXCEPT !.pc = "list"])
    /\ UNCHANGED <<stored, hooks, length, registry, doc, database, daemon, del, gone>>

\* save_checkpoints replaces the file by what this rebuild has merged.
SaveCheckpoints(p) ==
    /\ job[p].pc = "native" /\ job[p].left = {}
    /\ checkpoints' = [s \in SessionIds |-> IF s \in job[p].done THEN job[p].refs[s] ELSE 0]
    /\ Step(p, [job[p] EXCEPT !.pc = "list"])
    /\ UNCHANGED <<stored, hooks, length, registry, doc, database, daemon, del, gone>>

\* list_sessions.
JobList(p) ==
    /\ job[p].pc = "list"
    /\ Step(p, [Idle EXCEPT !.pc = IF p \in owner THEN "replace" ELSE "open",
                            !.kind = job[p].kind, !.list = doc])
    /\ UNCHANGED <<stored, hooks, length, files, database, daemon, del, gone>>
-----------------------------------------------------------------------------
(* The database *)

\* Connection::open in the owner thread: one process at a time has the file.
\* rebuild_sessions spawns that thread after it has listed the documents, the
\* others before, so there it may be first.
JobOpen(p) ==
    /\ owner = {}
    /\ owner' = {p}
    /\ \/ job[p].pc = "open" /\ Step(p, [job[p] EXCEPT !.pc = "replace"])
       \/ job[p].pc = "list" /\ job[p].kind # "sessions" /\ UNCHANGED job
    /\ UNCHANGED <<stored, hooks, length, files, rows, mark, daemon, del, gone>>

\* Mutant of Replace: there is no transaction.
ReplaceCommitted(p) ==
    /\ job[p].pc = "replace"
    /\ rows' = job[p].list
    /\ Step(p, [job[p] EXCEPT !.pc = "commit"])
    /\ UNCHANGED <<stored, hooks, length, files, mark, owner, daemon, del, gone>>

\* BEGIN, the DELETE of every row and an INSERT for each document: nothing that
\* another connection could see.
Replace(p) ==
    /\ job[p].pc = "replace"
    /\ Step(p, [job[p] EXCEPT !.pc = "commit"])
    /\ UNCHANGED <<stored, hooks, length, files, database, daemon, del, gone>>

\* What session_watermark digests: the sessions and their observations.
Watermark(table) == {<<s, table[s].obs>> : s \in {t \in SessionIds : table[t] # NoDoc}}

\* What the end of a rebuild means for its process: Drop shuts the owner thread
\* down, a daemon serves, and a deletion reports.
Ended(p, success) ==
    /\ Step(p, Idle)
    /\ owner' = owner \ {p}
    /\ daemon' = IF p = "daemon" /\ daemon = "starting"
                 THEN IF success THEN "serving" ELSE "down"
                 ELSE daemon
    /\ IF p = "delete"
       THEN /\ del' = [pc |-> "idle", session |-> NoSession]
            /\ gone' = IF success THEN gone \cup {del.session} ELSE gone
       ELSE UNCHANGED <<del, gone>>

\* The new watermark and COMMIT.
Commit(p) ==
    /\ job[p].pc = "commit"
    /\ rows' = job[p].list
    /\ mark' = Watermark(job[p].list)
    /\ Ended(p, TRUE)
    /\ UNCHANGED <<stored, hooks, length, files>>

\* A file cannot be read or written, the database is in use by another process
\* (Unavailable), or a statement fails (ROLLBACK).  A daemon that fails in its
\* first rebuild does not serve.
JobFails(p) ==
    /\ job[p].pc # "idle"
    /\ Ended(p, FALSE)
    /\ UNCHANGED <<stored, hooks, length, files, rows, mark>>

\* A process stops or dies; an open transaction is gone with it.
Killed(p) ==
    /\ IF p = "daemon" THEN daemon # "down" ELSE job[p].pc # "idle"
    /\ daemon' = IF p = "daemon" THEN "down" ELSE daemon
    /\ Step(p, Idle)
    /\ owner' = owner \ {p}
    /\ del' = IF p = "delete" THEN [pc |-> "idle", session |-> NoSession] ELSE del
    /\ UNCHANGED <<stored, hooks, length, files, rows, mark, gone>>

Job(p) ==
    \/ JobRead(p) \/ Discover(p) \/ SaveCheckpoints(p) \/ JobList(p)
    \/ JobOpen(p) \/ Replace(p) \/ Commit(p) \/ JobFails(p) \/ Killed(p)
    \/ \E s \in SessionIds : WriteObserved(p, s) \/ MergeNative(p, s)
-----------------------------------------------------------------------------
(* delete_session *)

\* remove_session_observations: under the lock, so not while a daemon lives.
DeleteSegments(s) ==
    /\ del.pc = "idle" /\ daemon = "down"
    /\ "rebuild" \in Overlaps \/ \A p \in Processes : job[p].pc = "idle"
    /\ stored' = stored \ Of(s)
    /\ del' = [pc |-> "spool", session |-> s]
    /\ UNCHANGED <<hooks, length, files, database, daemon, job, gone>>

\* remove_spooled_session.
DeleteSpooled ==
    /\ del.pc = "spool"
    /\ spool' = spool \ Of(del.session)
    /\ del' = [del EXCEPT !.pc = "document"]
    /\ UNCHANGED <<stored, fired, hook, length, files, database, daemon, job, gone>>

DeleteDocument ==
    /\ del.pc = "document"
    /\ doc' = [doc EXCEPT ![del.session] = NoDoc]
    /\ del' = [del EXCEPT !.pc = "registry"]
    /\ UNCHANGED <<stored, hooks, length, registry, checkpoints, database, daemon, job, gone>>

\* read_registry and write_registry, then the rows are rebuilt.
DeleteRegisters ==
    /\ del.pc = "registry"
    /\ registry' = registry \cup {del.session}
    /\ del' = [del EXCEPT !.pc = "rows"]
    /\ job' = [job EXCEPT !["delete"] = [Idle EXCEPT !.pc = "list", !.kind = "rows"]]
    /\ UNCHANGED <<stored, hooks, length, doc, checkpoints, database, daemon, gone>>

\* It dies, or a file cannot be read or written, before the rows are at hand.
DeleteStops ==
    /\ del.pc \in {"spool", "document", "registry"}
    /\ del' = [pc |-> "idle", session |-> NoSession]
    /\ UNCHANGED <<stored, hooks, length, files, database, daemon, job, gone>>

Delete ==
    \/ \E s \in SessionIds : DeleteSegments(s)
    \/ DeleteSpooled \/ DeleteDocument \/ DeleteRegisters \/ DeleteStops
-----------------------------------------------------------------------------
Next ==
    \/ \E o \in Ids : HookCheck(o)
    \/ HookSend \/ HookSpool
    \/ \E s \in Native : AgentWrites(s)
    \/ DaemonStart
    \/ \E kind \in {"observed", "rows"} : DaemonRebuilds(kind)
    \/ \E kind \in {"sessions", "rows"} : CliRebuilds(kind)
    \/ \E p \in Processes : Job(p)
    \/ Delete

Spec == Init /\ [][Next]_vars
-----------------------------------------------------------------------------
(* Properties *)

\* One process at a time has the database open: one whose rebuild is about to
\* list the documents or to replace the rows by them.
Owned ==
    /\ \A p, q \in owner : p = q
    /\ owner \subseteq {p \in Processes : job[p].pc \in {"list", "replace", "commit"}}
    /\ {p \in Processes : job[p].pc \in {"replace", "commit"}} \subseteq owner

\* The types of the variables; and who has the database open.
TypeOK ==
    /\ stored \subseteq Ids /\ spool \subseteq Ids /\ fired \subseteq Ids /\ hook \subseteq Ids
    /\ length \in [SessionIds -> Nat] /\ checkpoints \in [SessionIds -> Nat]
    /\ registry \subseteq SessionIds /\ gone \subseteq SessionIds
    /\ doc \in [SessionIds -> Documents] /\ rows \in [SessionIds -> Documents]
    /\ mark \subseteq (SessionIds \X SUBSET Ids)
    /\ Owned
    /\ daemon \in {"down", "starting", "serving"}
    /\ job \in [Processes -> Jobs]
    /\ del \in [pc : {"idle", "spool", "document", "registry", "rows"},
                session : SessionIds \cup {NoSession}]

\* Once a deletion has reported success its session has no document and no row,
\* for good: hooks that had passed their check may still deliver, the agent goes
\* on writing, the daemon restarts and everyone rebuilds.
DeletedHidden == \A s \in gone : doc[s] = NoDoc /\ rows[s] = NoDoc

\* The committed rows and the committed watermark come from one list, whatever
\* dies or fails inside a transaction.
RowsMatchWatermark == mark = Watermark(rows)

\* A rebuild lists the documents when they hold all that was retained when it
\* began, and all of each transcript it has merged.
RebuildComplete ==
    [][\A p \in Processes : JobList(p) /\ job[p].kind # "rows" /\ del.pc = "idle" =>
          /\ \A o \in job[p].obs : o \in doc[SessionOf[o]].obs
          /\ \A s \in job[p].done : doc[s].native >= job[p].refs[s]]_vars

\* A checkpoint that is saved never stands for more of a transcript than the
\* document has, so a rebuild that trusted it would miss nothing.
CheckpointsTrail ==
    [][\A s \in SessionIds :
          checkpoints'[s] # checkpoints[s] => checkpoints'[s] <= doc[s].native]_vars
=============================================================================
