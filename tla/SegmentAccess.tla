---------------------------- MODULE SegmentAccess ----------------------------
(***************************************************************************)
(* The segments have one writer, and two more parties that take neither of *)
(* its mutexes.  Readers run recover_observations while the daemon serves: *)
(* the projection worker, session.events of the control API and            *)
(* `asa daemon rebuild`.  The deleter runs remove_session_observations for *)
(* `asa sessions delete`, under a lock on the file the active path names.  *)
(*                                                                         *)
(* Files are listed by name and opened later.  The name of a sealed file   *)
(* always leads to the same inode unless the deleter replaces it, so a     *)
(* list of names is kept as a set of inodes that DeleteReplace updates.    *)
(***************************************************************************)
EXTENDS SegmentStore, FiniteSets

CONSTANTS
    Readers,        \* the readers that may run at the same time
    Doomed,         \* the observations of the session being deleted
    Overlaps        \* what may come together: "start", the daemon's and a
                    \* deletion; "rotation", the daemon's and a deletion or
                    \* read; "append", a write and the end of a read

ASSUME AccessAssumptions ==
    /\ Doomed \subseteq Ids
    /\ Overlaps \subseteq {"start", "rotation", "append"}

VARIABLES
    reader,         \* reader[r]: one run of recover_observations
    del             \* the run of remove_session_observations

access == <<reader, del>>

\* pc: the next step; todo: the sealed files still to read; last: the active
\* path is on the list; file: the inode the active path led to; end: the
\* valid_end found in it; got: the ids read; begun: what was stored at the
\* start (not in the code).
Reading == [pc : {"off", "exists", "sealed", "active", "scan", "cut"},
            todo : SUBSET Inodes, last : BOOLEAN, file : Inodes \cup {NoInode},
            end : Nat, got : SUBSET Ids, begun : SUBSET Ids]

NotReading == [pc |-> "off", todo |-> {}, last |-> FALSE, file |-> NoInode,
               end |-> 0, got |-> {}, begun |-> {}]

\* lock: the inode try_lock_exclusive took; target, temp: the file being
\* replaced and its rewrite.
Deleting == [pc : {"off", "lock", "list", "exists", "rewrite", "replace"},
             todo : SUBSET Inodes, last : BOOLEAN, lock : Inodes \cup {NoInode},
             target : Inodes \cup {NoInode}, temp : Inodes \cup {NoInode}]

NotDeleting == [pc |-> "off", todo |-> {}, last |-> FALSE, lock |-> NoInode,
                target |-> NoInode, temp |-> NoInode]

AccessInit ==
    /\ Init
    /\ reader = [r \in Readers |-> NotReading]
    /\ del = NotDeleting
-----------------------------------------------------------------------------
(* Locks *)

\* The exclusive locks of the daemon: on its handle once `open` has it, and on
\* the replacement before that becomes the handle.
WriterLocks(i) == (pc \notin {"down", "lock"} /\ i = fd) \/ i = replacement

\* The deleter's lock, which ends with its process.
DeleterLocks(i) == del.pc \notin {"off", "lock"} /\ i = del.lock

Rotating == pc \in {"seal", "rename", "create", "header", "headerSync"}
-----------------------------------------------------------------------------
(* recover_observations: a reader *)

\* segment_paths: the sealed directory is listed first.
ReadList(r) ==
    /\ reader[r].pc = "off"
    /\ "rotation" \in Overlaps \/ ~Rotating
    /\ reader' = [reader EXCEPT ![r] =
                    [NotReading EXCEPT !.pc = "exists", !.todo = sealed, !.begun = Stored]]
    /\ UNCHANGED <<vars, del>>

\* active.exists() decides whether the active path is read after them.
ReadExists(r) ==
    /\ reader[r].pc = "exists"
    /\ reader' = [reader EXCEPT ![r].pc = "sealed", ![r].last = (active # NoInode)]
    /\ UNCHANGED <<vars, del>>

\* Mutant of ReadSealed: the ids of a sealed file are not collected.
ReadSealedSkips(r) ==
    /\ reader[r].pc = "sealed"
    /\ \E i \in reader[r].todo :
          reader' = [reader EXCEPT ![r].todo = @ \ {i}]
    /\ UNCHANGED <<vars, del>>

\* recover_file on a sealed file, which nobody writes.
ReadSealed(r) ==
    /\ reader[r].pc = "sealed"
    /\ \E i \in reader[r].todo :
          /\ HasMagic(i)
          /\ reader' = [reader EXCEPT ![r].todo = @ \ {i},
                                      ![r].got = @ \cup IdsUpTo(i, Len(frames[i]))]
    /\ UNCHANGED <<vars, del>>

\* A file that cannot be parsed, or an active path that is gone, ends the run.
ReadFails(r) ==
    /\ \/ reader[r].pc = "sealed" /\ \E i \in reader[r].todo : ~Parses(i)
       \/ reader[r].pc = "active" /\ active = NoInode
       \/ reader[r].pc = "scan" /\ ~Parses(reader[r].file)
    /\ reader' = [reader EXCEPT ![r] = NotReading]
    /\ UNCHANGED <<vars, del>>

\* The sealed files are read: on to the active path, or done without it.
ReadSealedDone(r) ==
    /\ reader[r].pc = "sealed"
    /\ reader[r].todo = {}
    /\ reader' = [reader EXCEPT ![r] =
                    IF @.last THEN [@ EXCEPT !.pc = "active"] ELSE NotReading]
    /\ UNCHANGED <<vars, del>>

\* The active path is opened for reading and writing, without a lock.
ReadOpen(r) ==
    /\ reader[r].pc = "active"
    /\ active # NoInode
    /\ reader' = [reader EXCEPT ![r].pc = "scan", ![r].file = active]
    /\ UNCHANGED <<vars, del>>

\* The reader meets the end of the file, or a tear, and knows valid_end.
\* Without "append" in Overlaps nothing is written from here to ReadCut.
ReadScan(r) ==
    /\ reader[r].pc = "scan"
    /\ "append" \in Overlaps \/ pc # "write"
    /\ LET i == reader[r].file IN
       /\ HasMagic(i)
       /\ \E n \in 0..Len(frames[i]) :
             /\ ValidEnd(i, n)
             /\ reader' = [reader EXCEPT ![r].pc = "cut", ![r].end = n,
                                         ![r].got = @ \cup IdsUpTo(i, n)]
    /\ UNCHANGED <<vars, del>>

\* The file is given the length of its first n frames: bytes past it are gone,
\* and missing ones are zeros, which no frame begins with.
SetLength(i, n) ==
    /\ frames' = [frames EXCEPT ![i] =
          [k \in 1..n |-> IF k <= Len(frames[i]) THEN frames[i][k] ELSE Torn]]
    /\ synced' = [synced EXCEPT ![i] = IF @ > n THEN n ELSE @]

\* set_len(valid_end), by which time the writer may have gone on.
ReadCut(r) ==
    /\ reader[r].pc = "cut"
    /\ SetLength(reader[r].file, reader[r].end)
    /\ reader' = [reader EXCEPT ![r] = NotReading]
    /\ UNCHANGED <<header, names, writer, acked, del>>

Read(r) == ReadList(r) \/ ReadExists(r) \/ ReadSealed(r) \/ ReadFails(r)
            \/ ReadSealedDone(r) \/ ReadOpen(r) \/ ReadScan(r) \/ ReadCut(r)
-----------------------------------------------------------------------------
(* remove_session_observations: the deleter *)

\* The active path is opened, if there is one to lock.  Without "start" or
\* "rotation" in Overlaps no deletion begins while the daemon does either.
DeleteOpen ==
    /\ del.pc = "off"
    /\ "start" \in Overlaps \/ pc # "lock"
    /\ "rotation" \in Overlaps \/ ~Rotating
    /\ del' = [NotDeleting EXCEPT !.pc = IF active = NoInode THEN "list" ELSE "lock",
                                  !.lock = active]
    /\ UNCHANGED <<vars, reader>>

\* Mutant of DeleteLock: the result of try_lock_exclusive is ignored.
DeleteLockIgnored ==
    /\ del.pc = "lock"
    /\ del' = [del EXCEPT !.pc = "list"]
    /\ UNCHANGED <<vars, reader>>

\* try_lock_exclusive: the deletion fails when the daemon has the lock.
DeleteLock ==
    /\ del.pc = "lock"
    /\ del' = IF WriterLocks(del.lock) THEN NotDeleting ELSE [del EXCEPT !.pc = "list"]
    /\ UNCHANGED <<vars, reader>>

\* Mutant of DeleteList: the sealed files are left out.
DeleteListActive ==
    /\ del.pc = "list"
    /\ del' = [del EXCEPT !.pc = "exists"]
    /\ UNCHANGED <<vars, reader>>

DeleteList ==
    /\ del.pc = "list"
    /\ del' = [del EXCEPT !.pc = "exists", !.todo = sealed]
    /\ UNCHANGED <<vars, reader>>

DeleteExists ==
    /\ del.pc = "exists"
    /\ del' = [del EXCEPT !.pc = "rewrite", !.last = (active # NoInode)]
    /\ UNCHANGED <<vars, reader>>

\* The next file of the list: the active path comes last.
NextFile(i) ==
    /\ i \in Inodes
    /\ i \in del.todo \/ (del.todo = {} /\ del.last /\ i = active)

\* Mutant of Done: the file stays on the list.
DoneNot(i) == del

\* The list without i.
Done(i) == IF i \in del.todo THEN [del EXCEPT !.todo = @ \ {i}] ELSE [del EXCEPT !.last = FALSE]

\* The frames of s that are not of the session, in their order: each goes to
\* the place that those up to it leave.
KeptAt(s) == {k \in 1..Len(s) : s[k] \notin Doomed}

Place(s, k) == Cardinality({j \in KeptAt(s) : j <= k})

Kept(s) ==
    [n \in 1..Cardinality(KeptAt(s)) |-> s[CHOOSE k \in KeptAt(s) : Place(s, k) = n]]

\* recover_file and write_segment: what is retained goes to a new, synced file
\* that nothing names yet.  The partial tail of the active file is cut off.
DeleteRewrite ==
    /\ del.pc = "rewrite"
    /\ \E i \in Inodes : NextFile(i) /\ HasMagic(i) /\ \E n \in 0..Len(frames[i]) :
          /\ ValidEnd(i, n)
          /\ LET read == SubSeq(frames[i], 1, n)
                 kept == Kept(read)
                 cut == [frames EXCEPT ![i] = IF i = active THEN read ELSE @] IN
             IF kept = read
             THEN /\ frames' = cut
                  /\ synced' = [synced EXCEPT ![i] = IF @ > Len(cut[i]) THEN Len(cut[i]) ELSE @]
                  /\ del' = Done(i)
                  /\ UNCHANGED header
             ELSE \E j \in Inodes :
                  /\ Fresh(j)
                  /\ frames' = [cut EXCEPT ![j] = kept]
                  /\ synced' = [synced EXCEPT ![i] = IF @ > Len(cut[i]) THEN Len(cut[i]) ELSE @,
                                              ![j] = Len(kept)]
                  /\ header' = [header EXCEPT ![j] = "synced"]
                  /\ del' = [del EXCEPT !.pc = "replace", !.target = i, !.temp = j]
    /\ UNCHANGED <<names, writer, acked, reader>>

\* A file that cannot be parsed, or an active path that is gone, ends it.
DeleteFails ==
    /\ del.pc = "rewrite"
    /\ \/ \E i \in Inodes : NextFile(i) /\ ~Parses(i)
       \/ del.todo = {} /\ del.last /\ active = NoInode
    /\ del' = NotDeleting
    /\ UNCHANGED <<vars, reader>>

\* rename(temporary, path): whatever the path names now is replaced.
DeleteReplace ==
    /\ del.pc = "replace"
    /\ IF del.target \in del.todo
       THEN /\ sealed' = (sealed \ {del.target}) \cup {del.temp}
            /\ reader' = [r \in Readers |->
                 [reader[r] EXCEPT !.todo =
                    IF del.target \in @ THEN (@ \ {del.target}) \cup {del.temp} ELSE @]]
            /\ UNCHANGED active
       ELSE active' = del.temp /\ UNCHANGED <<sealed, reader>>
    /\ del' = [Done(del.target) EXCEPT !.pc = "rewrite", !.target = NoInode, !.temp = NoInode]
    /\ UNCHANGED <<disk, writer, acked>>

\* The list is empty: the lock is dropped and the deletion has succeeded.
DeleteEnd ==
    /\ del.pc = "rewrite"
    /\ del.todo = {} /\ ~del.last
    /\ del' = NotDeleting
    /\ UNCHANGED <<vars, reader>>

\* The deleting process dies; a rewrite it had not renamed stays unnamed.
DeleteKilled ==
    /\ del.pc # "off"
    /\ del' = NotDeleting
    /\ UNCHANGED <<vars, reader>>

Delete == DeleteOpen \/ DeleteLock \/ DeleteList \/ DeleteExists \/ DeleteRewrite
            \/ DeleteFails \/ DeleteReplace \/ DeleteEnd \/ DeleteKilled
-----------------------------------------------------------------------------
(* The daemon, next to them *)

\* Without "start" in Overlaps nobody starts the daemon during a deletion.
WriterOpens ==
    /\ "start" \in Overlaps \/ del.pc = "off"
    /\ OpenActive

\* lock_exclusive waits for the deleter.
WriterLocksActive ==
    /\ ~DeleterLocks(fd)
    /\ LockActive

WriterRecovers == WriteMagic \/ SyncMagic \/ Recover \/ RecoverFails

WriterBegins(o) ==
    /\ AppendBegin(o)
    /\ \/ "rotation" \in Overlaps
       \/ del.pc = "off" /\ \A r \in Readers : reader[r].pc = "off"
       \/ ~Full
    /\ "append" \in Overlaps \/ \A r \in Readers : reader[r].pc # "cut"

Writer ==
    \/ WriterOpens \/ WriterLocksActive \/ WriterRecovers
    \/ \E o \in Ids : AppendDuplicate(o) \/ WriterBegins(o)
    \/ AppendStep
    \/ Kill

\* A power loss ends every process.
Outage ==
    /\ PowerLoss
    /\ reader' = [r \in Readers |-> NotReading]
    /\ del' = NotDeleting

AccessNext ==
    \/ Writer /\ UNCHANGED access
    \/ Outage
    \/ \E r \in Readers : Read(r)
    \/ Delete

AccessSpec == AccessInit /\ [][AccessNext]_<<vars, access>>
-----------------------------------------------------------------------------
(* Properties *)

\* Types, and what the lists of names rest on: a listed sealed path exists.
AccessTypeOK ==
    /\ TypeOK
    /\ reader \in [Readers -> Reading]
    /\ del \in Deleting
    /\ del.todo \subseteq sealed
    /\ \A r \in Readers : reader[r].todo \subseteq sealed

\* No deletion, read or restart takes an acknowledged observation of another
\* session away, in whatever order their steps come.  deletion.rs:59: "The segment lock
\* makes deletion fail safely while the daemon is active."
OthersRetained == (acked \ Doomed) \subseteq Durable

\* When a deletion reports success no listed file holds an observation of the
\* session, earlier deletions that died half-way included.
DeletionComplete == [][DeleteEnd => Stored' \cap Doomed = {}]_<<vars, access>>

\* A reader that succeeds has read everything that was stored when it began but
\* for a session being deleted, while the writer appends and restarts and the
\* deleter replaces files next to it.
ReadComplete ==
    [][\A r \in Readers :
          (ReadCut(r) \/ (ReadSealedDone(r) /\ ~reader[r].last))
             => reader[r].begun \ Doomed \subseteq reader[r].got]_<<vars, access>>
=============================================================================
