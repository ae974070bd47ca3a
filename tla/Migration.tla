------------------------------ MODULE Migration ------------------------------
(***************************************************************************)
(* `asa sessions migrate-path old new` (asa-adapters/src/migration.rs).    *)
(*                                                                         *)
(* A migration reads the transcripts, sidecars and indexes of the agents   *)
(* and plans an operation for every file that names the old workspace:     *)
(* the rewritten contents, and the path they go to, which for Claude's     *)
(* files depends on the workspace.  The plan is saved in a journal; then   *)
(* each operation backs its source up, installs the contents, removes the  *)
(* source if it moved, and is marked in the journal.  A run that ends      *)
(* early is started again by the user and goes on from the journal.        *)
(*                                                                         *)
(* A file is the set of its records; a record is an identity and the       *)
(* workspace it names.  What else a record holds is copied as it is.       *)
(***************************************************************************)
EXTENDS Naturals, FiniteSets

CONSTANTS
    Paths,          \* paths of transcripts, sidecars and indexes
    Sidecars,       \* those that are a session's sidecars
    Main,           \* Main[s]: the transcript the sidecar s lies next to
    Rank,           \* Rank[p]: the place of p in the order of the operations
    Records,        \* record identities
    Roots,          \* workspaces
    NoRoot,         \* a record that names no workspace
    Migrations,     \* command lines: the pairs of an old and a new path
    From, To,       \* From[m], To[m]: that pair
    Dest,           \* Dest[m][p]: where m takes the file at p
    None,           \* no such file, journal, operation
    Torn,           \* a file that was created and not written to the end
    TornBackups,    \* may a run end while it writes a backup?
    Overlaps        \* what may happen while a migration is unfinished

\* "agent": an agent writes one of its files; "migration": another one begins.
ASSUME MigrationAssumptions ==
    /\ Sidecars \subseteq Paths
    /\ Main \in [Sidecars -> Paths \ Sidecars]
    /\ Rank \in [Paths -> Nat]
    /\ \A p, q \in Paths : Rank[p] = Rank[q] => p = q
    /\ From \in [Migrations -> Roots] /\ To \in [Migrations -> Roots]
    /\ \A m \in Migrations : From[m] # To[m]
    /\ Dest \in [Migrations -> [Paths -> Paths]]
    /\ \A m \in Migrations, p \in Paths : Dest[m][Dest[m][p]] = Dest[m][p]
    /\ NoRoot \notin Roots
    /\ None \notin Paths \cup Migrations
    /\ TornBackups \in BOOLEAN
    /\ Overlaps \subseteq {"agent", "migration"}

Contents == SUBSET [id : Records, root : Roots \cup {NoRoot}]

\* The new contents of the operations, by source.
Plans == [Paths -> {None} \cup Contents]

Journals == [contents : Plans, completed : SUBSET Paths, finished : BOOLEAN]

\* Neither is a file's contents, and None is no journal.
ASSUME FileAssumptions ==
    /\ None # Torn
    /\ \A c \in Contents : c # None /\ c # Torn
    /\ None \notin Journals

VARIABLES
    disk,           \* disk[p]: the file at p
    journal,        \* journal[m]: the saved journal of m
    backup,         \* backup[m][p]: the backup m has made of p
    run,            \* the migration that is running, with
    pc,             \*   its next step,
    plan,           \*   what it has planned and not saved,
    op,             \*   the source of the operation it works on
    held,           \*   and the bytes it has read for the backup
    outcome         \* how the last run ended

local == <<run, pc, plan, op, held>>
vars  == <<disk, journal, backup, local, outcome>>

Exists(p) == disk[p] # None

\* The records an agent can read.
Live == {i \in Records : \E p \in Paths : Exists(p) /\ \E r \in disk[p] : r.id = i}

\* rewrite_paths: every record that names the old workspace names the new one.
Renamed(m, r) == [id |-> r.id, root |-> IF r.root = From[m] THEN To[m] ELSE r.root]

Rewrite(m, c) == {Renamed(m, r) : r \in c}

\* rewrite_jsonl changed something.
Affected(m, p) == Exists(p) /\ \E r \in disk[p] : r.root = From[m]

\* plan_claude and plan_codex: affected transcripts and indexes, and all the
\* sidecars of an affected transcript.
Sources(m) ==
    {p \in Paths \ Sidecars : Affected(m, p)}
        \cup {s \in Sidecars : Exists(s) /\ Affected(m, Main[s])}

Collides(m) ==
    \/ \E p, q \in Sources(m) : p # q /\ Dest[m][p] = Dest[m][q]
    \/ \E p \in Sources(m) : Dest[m][p] # p /\ Exists(Dest[m][p])

\* Each record is in one file at most; a file without a record does not exist.
Init ==
    /\ \E place \in [Records -> Paths \cup {None}], root \in [Records -> Roots \cup {NoRoot}] :
          disk = [p \in Paths |->
                    LET here == {i \in Records : place[i] = p}
                    IN  IF here = {} THEN None
                        ELSE {[id |-> i, root |-> root[i]] : i \in here}]
    /\ journal = [m \in Migrations |-> None]
    /\ backup = [m \in Migrations |-> [p \in Paths |-> None]]
    /\ run = None
    /\ pc = "idle"
    /\ plan = None
    /\ op = None
    /\ held = None
    /\ outcome = "none"

Operations(m) == {p \in Paths : journal[m].contents[p] # None}

Unfinished(m) == journal[m] # None /\ ~journal[m].finished

End(how) ==
    /\ run' = None
    /\ pc' = "idle"
    /\ plan' = None
    /\ op' = None
    /\ held' = None
    /\ outcome' = how
-----------------------------------------------------------------------------
(* The agents *)

\* An agent appends a record to one of its files, or begins one.
AgentWrites(p) ==
    /\ "agent" \in Overlaps \/ (pc = "idle" /\ \A m \in Migrations : ~Unfinished(m))
    /\ \E i \in Records \ Live, r \in Roots \cup {NoRoot} :
          disk' = [disk EXCEPT ![p] = (IF @ = None THEN {} ELSE @) \cup {[id |-> i, root |-> r]}]
    /\ UNCHANGED <<journal, backup, local, outcome>>
-----------------------------------------------------------------------------
(* migrate_workspace_path: plan or resume *)

MayBegin(m) ==
    /\ pc = "idle"
    /\ "migration" \in Overlaps \/ \A n \in Migrations \ {m} : ~Unfinished(n)

\* Mutant of Plan: collisions are not looked for.
PlanUnchecked(m) ==
    /\ MayBegin(m)
    /\ journal[m] = None
    /\ run' = m
    /\ pc' = "planned"
    /\ plan' = [p \in Paths |-> IF p \in Sources(m) THEN Rewrite(m, disk[p]) ELSE None]
    /\ UNCHANGED <<disk, journal, backup, op, held, outcome>>

\* plan_workspace_path_migration, then validate_collisions: a refusal comes
\* before anything was written.
Plan(m) ==
    /\ MayBegin(m)
    /\ journal[m] = None
    /\ IF Collides(m)
       THEN /\ outcome' = "refused"
            /\ UNCHANGED local
       ELSE /\ run' = m
            /\ pc' = "planned"
            /\ plan' = [p \in Paths |-> IF p \in Sources(m) THEN Rewrite(m, disk[p]) ELSE None]
            /\ UNCHANGED <<op, held, outcome>>
    /\ UNCHANGED <<disk, journal, backup>>

SaveJournal ==
    /\ pc = "planned"
    /\ journal' = [journal EXCEPT ![run] =
                     [contents |-> plan, completed |-> {}, finished |-> FALSE]]
    /\ plan' = None
    /\ pc' = "next"
    /\ UNCHANGED <<disk, backup, run, op, held, outcome>>

\* The saved journal is taken as it is, the finished one too, and written again.
Resume(m) ==
    /\ MayBegin(m)
    /\ journal[m] # None
    /\ run' = m
    /\ pc' = "next"
    /\ UNCHANGED <<disk, journal, backup, plan, op, held, outcome>>
-----------------------------------------------------------------------------
(* apply_operation *)

Todo == Operations(run) \ journal[run].completed

IsNext(p) == p \in Todo /\ \A q \in Todo : Rank[p] <= Rank[q]

Target == Dest[run][op]

Planned == journal[run].contents[op]

\* Mutants of KeepBackup: a backup is taken for an installed file, or for an
\* operation that is done.
KeepBackupInstalled(p) ==
    /\ pc = "next" /\ IsNext(p)
    /\ backup[run][p] # None
    /\ op' = p
    /\ pc' = "remove"
    /\ UNCHANGED <<disk, journal, backup, run, plan, held, outcome>>

KeepBackupDone(p) ==
    /\ pc = "next" /\ IsNext(p)
    /\ backup[run][p] # None
    /\ op' = p
    /\ pc' = "mark"
    /\ UNCHANGED <<disk, journal, backup, run, plan, held, outcome>>

\* A backup that is there, whatever is in it, is not made again.
KeepBackup(p) ==
    /\ pc = "next" /\ IsNext(p)
    /\ backup[run][p] # None
    /\ op' = p
    /\ pc' = "install"
    /\ UNCHANGED <<disk, journal, backup, run, plan, held, outcome>>

\* Mutant of CreateBackup: nothing is read of a file that stays in its place.
CreateBackupMoved(p) ==
    /\ pc = "next" /\ IsNext(p)
    /\ backup[run][p] = None
    /\ IF Exists(p)
       THEN /\ backup' = [backup EXCEPT ![run][p] = Torn]
            /\ held' = IF Dest[run][p] = p THEN {} ELSE disk[p]
            /\ op' = p
            /\ pc' = "backup"
            /\ UNCHANGED <<run, plan, outcome>>
       ELSE End("stuck") /\ UNCHANGED backup
    /\ UNCHANGED <<disk, journal>>

\* The source is read, and the backup is created.
CreateBackup(p) ==
    /\ pc = "next" /\ IsNext(p)
    /\ backup[run][p] = None
    /\ IF Exists(p)
       THEN /\ backup' = [backup EXCEPT ![run][p] = Torn]
            /\ held' = disk[p]
            /\ op' = p
            /\ pc' = "backup"
            /\ UNCHANGED <<run, plan, outcome>>
       ELSE End("stuck") /\ UNCHANGED backup
    /\ UNCHANGED <<disk, journal>>

WriteBackup ==
    /\ pc = "backup"
    /\ backup' = [backup EXCEPT ![run][op] = held]
    /\ held' = None
    /\ pc' = "install"
    /\ UNCHANGED <<disk, journal, run, plan, op, outcome>>

\* A temporary file is written, synced and renamed, unless an earlier run has
\* done it; something else at the destination stops the run.
Install ==
    /\ pc = "install"
    /\ IF Target # op /\ Exists(Target)
       THEN /\ UNCHANGED disk
            /\ IF disk[Target] = Planned
               THEN pc' = "remove" /\ UNCHANGED <<run, plan, op, held, outcome>>
               ELSE End("stuck")
       ELSE /\ disk' = [disk EXCEPT ![Target] = Planned]
            /\ pc' = "remove"
            /\ UNCHANGED <<run, plan, op, held, outcome>>
    /\ UNCHANGED <<journal, backup>>

Remove ==
    /\ pc = "remove"
    /\ disk' = IF Target # op THEN [disk EXCEPT ![op] = None] ELSE disk
    /\ pc' = "mark"
    /\ UNCHANGED <<journal, backup, run, plan, op, held, outcome>>

\* The journal is replaced as a whole.
Mark ==
    /\ pc = "mark"
    /\ journal' = [journal EXCEPT ![run].completed = @ \cup {op}]
    /\ op' = None
    /\ pc' = "next"
    /\ UNCHANGED <<disk, backup, run, plan, held, outcome>>

Finish ==
    /\ pc = "next" /\ Todo = {}
    /\ journal' = [journal EXCEPT ![run].finished = TRUE]
    /\ End("done")
    /\ UNCHANGED <<disk, backup>>

\* The process dies between two steps, or the next one returns an error.
Interrupt ==
    /\ pc # "idle"
    /\ pc = "backup" => TornBackups
    /\ End("interrupted")
    /\ UNCHANGED <<disk, journal, backup>>
-----------------------------------------------------------------------------
Next ==
    \/ \E p \in Paths : AgentWrites(p) \/ KeepBackup(p) \/ CreateBackup(p)
    \/ \E m \in Migrations : Plan(m) \/ Resume(m)
    \/ SaveJournal
    \/ WriteBackup
    \/ Install
    \/ Remove
    \/ Mark
    \/ Finish
    \/ Interrupt

Spec == Init /\ [][Next]_vars
-----------------------------------------------------------------------------
(* Properties *)

\* Types: a journal's marks are among its operations, and a run that works on
\* an operation has saved it and not marked it.
TypeOK ==
    /\ disk \in [Paths -> {None} \cup Contents]
    /\ journal \in [Migrations -> {None} \cup Journals]
    /\ \A m \in Migrations : journal[m] # None =>
          journal[m].completed \subseteq Operations(m)
    /\ backup \in [Migrations -> [Paths -> {None, Torn} \cup Contents]]
    /\ pc \in {"idle", "planned", "next", "backup", "install", "remove", "mark"}
    /\ run \in {None} \cup Migrations
    /\ pc # "idle" => run # None
    /\ pc \in {"next", "backup", "install", "remove", "mark"} => journal[run] \in Journals
    /\ plan \in {None} \cup Plans
    /\ pc = "planned" => plan \in Plans
    /\ op \in {None} \cup Paths
    /\ pc \in {"backup", "install", "remove", "mark"} => op \in Todo
    /\ held \in {None} \cup Contents
    /\ pc = "backup" => held # None
    /\ outcome \in {"none", "refused", "stuck", "done", "interrupted"}

\* No step takes a record out of the agents' files, wherever a run ends and
\* whatever lies at the destinations (docs/v2-operations.md:62-64).
RecordsKept == [][Live \subseteq Live']_vars

\* A migration changes or removes a file only when its backup holds that file
\* (docs/v2-operations.md:66-68, "original per-file backups").
OriginalBackedUp ==
    [][\A p \in Paths :
          pc # "idle" /\ Exists(p) /\ disk'[p] # disk[p] => backup[run][p] = disk[p]]_vars

\* "Re-running the exact command resumes": what an earlier run left behind never
\* stops the next one (docs/v2-operations.md:68-69).
ResumeSucceeds == outcome # "stuck"

\* When the journal is finished, every operation is: its contents are where
\* they belong and its source is gone if it moved, whichever runs did the parts.
FinishedInFull ==
    [][\A m \in Migrations :
          (Unfinished(m) /\ ~Unfinished(m)') =>
             \A p \in Operations(m) :
                /\ disk[Dest[m][p]] = journal[m].contents[p]
                /\ Dest[m][p] # p => ~Exists(p)]_vars
=============================================================================
