---------------------------- MODULE SegmentStore ----------------------------
(***************************************************************************)
(* asa-store/src/segment.rs: the append-only segment of one daemon.        *)
(*                                                                         *)
(* The store is a directory entry active/observations.seg, a directory of  *)
(* sealed segments and the inodes both name.  Each inode holds a header    *)
(* (the eight bytes of MAGIC) and a sequence of frames; a frame is the id  *)
(* of the observation it encodes, or Torn for bytes that are only part of  *)
(* one.  The writer follows `open` and `append` one system call at a time, *)
(* because a crash or an I/O error can come between any two of them.       *)
(*                                                                         *)
(* SegmentStore.append holds the mutexes `seen` and `file` from its first  *)
(* line to its last, so there is one writer and one request in flight.     *)
(* Readers and the deleter, which take neither mutex, are in module        *)
(* SegmentAccess.                                                          *)
(***************************************************************************)
EXTENDS Naturals, Sequences

CONSTANTS
    Ids,            \* observation ids
    NoId,           \* no request is in flight
    Torn,           \* part of a frame
    Inodes,         \* files the directory entries can name: bounds rotations
    NoInode,        \* a directory entry or a handle that names no file
    SegmentLimit,   \* MAX_SEGMENT_BYTES, in frames
    Crashes,        \* subset of {"kill", "power"}: how the process may end
    Faults          \* subset of the writer's steps that may return an error

\* The steps of `append` that touch the disk and can fail while the process
\* lives on: a full disk, an I/O error, a file table at its limit.
FaultPoints == {"seal", "create", "header", "headerSync", "write", "sync"}

ASSUME SegmentAssumptions ==
    /\ NoId \notin Ids
    /\ Torn \notin Ids
    /\ NoInode \notin Inodes
    /\ SegmentLimit \in Nat \ {0}
    /\ Crashes \subseteq {"kill", "power"}
    /\ Faults \subseteq FaultPoints

VARIABLES
    header,         \* header[i]: "absent", "torn", "unsynced" or "synced"
    frames,         \* frames[i]: the frames written to inode i, as read back
    synced,         \* synced[i]: how many of them sync_data has covered
    active,         \* the inode active/observations.seg names
    sealed,         \* the inodes the sealed directory names
    fd,             \* SegmentStore.file
    replacement,    \* the local `replacement` of a rotation
    pc,             \* the writer's next step
    req,            \* the observation being appended
    seen,           \* SegmentStore.seen
    acked           \* ids some append answered Ok for (not in the code)

disk   == <<header, frames, synced>>
names  == <<active, sealed>>
writer == <<fd, replacement, pc, req, seen>>
vars   == <<disk, names, writer, acked>>
-----------------------------------------------------------------------------
(* Reading a segment *)

\* The files recovery lists: the sealed ones, and the active one if it exists.
Named == sealed \cup ({active} \ {NoInode})

\* An inode nothing names or holds, and that was never written.
Fresh(i) ==
    /\ i \in Inodes \ (Named \cup {fd, replacement})
    /\ header[i] = "absent"
    /\ frames[i] = <<>>

HasMagic(i) == header[i] \in {"unsynced", "synced"}

\* The first n frames of i are complete.
Intact(i, n) == \A k \in 1..n : frames[i][k] # Torn

\* n is where recover_file stops in i: the end of the file or the first tear.
ValidEnd(i, n) ==
    /\ n \in 0..Len(frames[i])
    /\ Intact(i, n)
    /\ n < Len(frames[i]) => frames[i][n + 1] = Torn

\* Nothing follows the partial frame of i, if it has one.  When something
\* does, the bytes after the tear are taken for its rest: the checksum fails,
\* or the length runs past the end of the file.
TornOnlyAtTail(i) == Len(frames[i]) > 0 => Intact(i, Len(frames[i]) - 1)

Parses(i) == HasMagic(i) /\ TornOnlyAtTail(i)

\* The ids recover_file returns for i when it looks at the first n frames.
IdsUpTo(i, n) == {frames[i][k] : k \in {j \in 1..n : Intact(i, j)}}

Stored == UNION {IdsUpTo(i, Len(frames[i])) : i \in Named}

\* The frames of i that no crash of the configured kinds takes away: a killed
\* process leaves the page cache to its successor, a power loss only what
\* sync_data has covered.
DurableLength(i) ==
    IF "power" \in Crashes THEN synced[i] ELSE Len(frames[i])

Durable == UNION {IdsUpTo(i, DurableLength(i)) : i \in Named}
-----------------------------------------------------------------------------
Init ==
    /\ header = [i \in Inodes |-> "absent"]
    /\ frames = [i \in Inodes |-> <<>>]
    /\ synced = [i \in Inodes |-> 0]
    /\ active = NoInode
    /\ sealed = {}
    /\ fd = NoInode
    /\ replacement = NoInode
    /\ pc = "down"
    /\ req = NoId
    /\ seen = {}
    /\ acked = {}

\* What the process held in memory is gone; the lock goes with the handle.
Stop ==
    /\ fd' = NoInode
    /\ replacement' = NoInode
    /\ pc' = "down"
    /\ req' = NoId
    /\ seen' = {}
-----------------------------------------------------------------------------
(* SegmentStore::open *)

\* OpenOptions.create(true): the entry is created when it does not exist.
OpenActive ==
    /\ pc = "down"
    /\ \E i \in Inodes :
          /\ i = active \/ (active = NoInode /\ Fresh(i))
          /\ active' = i
          /\ fd' = i
    /\ pc' = "lock"
    /\ UNCHANGED <<disk, sealed, replacement, req, seen, acked>>

LockActive ==
    /\ pc = "lock"
    /\ pc' = "magic"
    /\ UNCHANGED <<disk, names, fd, replacement, req, seen, acked>>

\* An empty file gets its header; a failed write ends `open`.
WriteMagic ==
    /\ pc = "magic"
    /\ \/ /\ header[fd] = "absent"
          /\ header' = [header EXCEPT ![fd] = "unsynced"]
          /\ pc' = "magicSync"
          /\ UNCHANGED <<fd, replacement, req, seen>>
       \/ /\ header[fd] = "absent"
          /\ "header" \in Faults
          /\ \E h \in {"absent", "torn"} : header' = [header EXCEPT ![fd] = h]
          /\ Stop
       \/ /\ header[fd] # "absent"
          /\ pc' = "recover"
          /\ UNCHANGED <<header, fd, replacement, req, seen>>
    /\ UNCHANGED <<frames, synced, names, acked>>

SyncMagic ==
    /\ pc = "magicSync"
    /\ header' = [header EXCEPT ![fd] = "synced"]
    /\ pc' = "recover"
    /\ UNCHANGED <<frames, synced, names, fd, replacement, req, seen, acked>>

\* Mutants of TruncateActive: the tail stays; the last complete frame goes too.
TruncateActiveNot == UNCHANGED <<frames, synced>>

TruncateActiveEarly ==
    \E n \in 0..Len(frames[active]) :
        /\ \E m \in 0..Len(frames[active]) : ValidEnd(active, m) /\ n = IF m = 0 THEN 0 ELSE m - 1
        /\ frames' = [frames EXCEPT ![active] = SubSeq(@, 1, n)]
        /\ synced' = [synced EXCEPT ![active] = IF @ > n THEN n ELSE @]

\* recover_file on the active segment: set_len(valid_end).
TruncateActive ==
    \E n \in 0..Len(frames[active]) :
        /\ ValidEnd(active, n)
        /\ frames' = [frames EXCEPT ![active] = SubSeq(@, 1, n)]
        /\ synced' = [synced EXCEPT ![active] = IF @ > n THEN n ELSE @]

\* Mutant of Recover: the sealed segments are left out of `seen`.
RecoverActiveOnly ==
    /\ pc = "recover"
    /\ \A i \in Named : HasMagic(i)
    /\ TruncateActive
    /\ seen' = IdsUpTo(active, Len(frames[active]))
    /\ pc' = "idle"
    /\ UNCHANGED <<header, names, fd, replacement, req, acked>>

\* recover_observations reads every segment and fills `seen`.  A tear with
\* frames behind it is read as a short tail or as an error, as the sizes of
\* the frames decide: Recover and RecoverFails are then both possible.
Recover ==
    /\ pc = "recover"
    /\ \A i \in Named : HasMagic(i)
    /\ TruncateActive
    /\ seen' = Stored
    /\ pc' = "idle"
    /\ UNCHANGED <<header, names, fd, replacement, req, acked>>

RecoverFails ==
    /\ pc = "recover"
    /\ \E i \in Named : ~Parses(i)
    /\ Stop
    /\ UNCHANGED <<disk, names, acked>>
-----------------------------------------------------------------------------
(* SegmentStore::append *)

\* The length of the file behind the handle, header aside, decides.
Full == Len(frames[fd]) + 1 > SegmentLimit /\ Len(frames[fd]) > 0

\* Bound: a rotation starts only while another file would be left for `open`.
RoomToRotate == \E i, j \in Inodes : i # j /\ Fresh(i) /\ Fresh(j)

\* An append that returns Err: the handle and the seen ids stay.
Fail ==
    /\ pc' = "idle"
    /\ req' = NoId
    /\ replacement' = NoInode
    /\ UNCHANGED <<fd, seen>>

\* The identity is known already: answered without touching the disk.
AppendDuplicate(o) ==
    /\ pc = "idle"
    /\ o \in seen
    /\ acked' = acked \cup {o}
    /\ UNCHANGED <<disk, names, writer>>

\* Mutant of AppendBegin: the id is remembered before it is stored.
AppendBeginRemembers(o) ==
    /\ pc = "idle"
    /\ o \notin seen
    /\ Full => RoomToRotate
    /\ req' = o
    /\ seen' = seen \cup {o}
    /\ pc' = IF Full THEN "seal" ELSE "write"
    /\ UNCHANGED <<disk, names, fd, replacement, acked>>

AppendBegin(o) ==
    /\ pc = "idle"
    /\ o \notin seen
    /\ Full => RoomToRotate
    /\ req' = o
    /\ pc' = IF Full THEN "seal" ELSE "write"
    /\ UNCHANGED <<disk, names, fd, replacement, seen, acked>>

\* sync_data on the handle before the file is sealed.
SealSync ==
    /\ pc = "seal"
    /\ \/ /\ synced' = [synced EXCEPT ![fd] = Len(frames[fd])]
          /\ pc' = "rename"
          /\ UNCHANGED <<fd, replacement, req, seen>>
       \/ /\ "seal" \in Faults
          /\ Fail
          /\ UNCHANGED synced
    /\ UNCHANGED <<header, frames, names, acked>>

\* rename(path, sealed): it moves whatever the path names, and fails when an
\* earlier rotation left no file under it.
SealRename ==
    /\ pc = "rename"
    /\ \/ /\ active # NoInode
          /\ sealed' = sealed \cup {active}
          /\ active' = NoInode
          /\ pc' = "create"
          /\ UNCHANGED <<fd, replacement, req, seen>>
       \/ /\ active = NoInode
          /\ Fail
          /\ UNCHANGED names
    /\ UNCHANGED <<disk, acked>>

\* The directory sync, create_new and lock_exclusive of the new file.
CreateReplacement ==
    /\ pc = "create"
    /\ \/ \E i \in Inodes :
             /\ Fresh(i)
             /\ active = NoInode
             /\ active' = i
             /\ replacement' = i
             /\ pc' = "header"
             /\ UNCHANGED <<fd, req, seen>>
       \/ /\ "create" \in Faults \/ active # NoInode
          /\ Fail
          /\ UNCHANGED active
    /\ UNCHANGED <<disk, sealed, acked>>

WriteReplacementMagic ==
    /\ pc = "header"
    /\ \/ /\ header' = [header EXCEPT ![replacement] = "unsynced"]
          /\ pc' = "headerSync"
          /\ UNCHANGED <<fd, replacement, req, seen>>
       \/ /\ "header" \in Faults
          /\ \E h \in {"absent", "torn"} : header' = [header EXCEPT ![replacement] = h]
          /\ Fail
    /\ UNCHANGED <<frames, synced, names, acked>>

\* The header is synced and the handle replaced, which unlocks the old file.
InstallReplacement ==
    /\ pc = "headerSync"
    /\ \/ /\ header' = [header EXCEPT ![replacement] = "synced"]
          /\ fd' = replacement
          /\ replacement' = NoInode
          /\ pc' = "write"
          /\ UNCHANGED <<req, seen>>
       \/ /\ "headerSync" \in Faults
          /\ Fail
          /\ UNCHANGED header
    /\ UNCHANGED <<frames, synced, names, acked>>

\* write_all(frame): an error can leave part of the frame behind.
WriteFrame ==
    /\ pc = "write"
    /\ \/ /\ frames' = [frames EXCEPT ![fd] = Append(@, req)]
          /\ pc' = "sync"
          /\ UNCHANGED <<fd, replacement, req, seen>>
       \/ /\ "write" \in Faults
          /\ \/ UNCHANGED frames
             \/ frames' = [frames EXCEPT ![fd] = Append(@, Torn)]
          /\ Fail
    /\ UNCHANGED <<header, synced, names, acked>>

\* sync_data, then the id is remembered and the caller answered.
SyncFrame ==
    /\ pc = "sync"
    /\ \/ /\ synced' = [synced EXCEPT ![fd] = Len(frames[fd])]
          /\ seen' = seen \cup {req}
          /\ acked' = acked \cup {req}
          /\ pc' = "idle"
          /\ req' = NoId
          /\ UNCHANGED <<fd, replacement>>
       \/ /\ "sync" \in Faults
          /\ Fail
          /\ UNCHANGED <<synced, acked>>
    /\ UNCHANGED <<header, frames, names>>
-----------------------------------------------------------------------------
(* The end of the process *)

\* An abort, a kill or an orderly exit.  The page cache survives; a write
\* that was under way may have stopped half-way.
Kill ==
    /\ "kill" \in Crashes
    /\ pc # "down"
    /\ Stop
    /\ \/ UNCHANGED frames
       \/ /\ pc = "write"
          /\ frames' = [frames EXCEPT ![fd] = Append(@, Torn)]
    /\ UNCHANGED <<header, synced, names, acked>>

\* The frames and headers that wait for a sync.
DirtyFrames == {i \in Inodes : synced[i] < Len(frames[i])}
DirtyHeaders == {i \in Inodes : header[i] = "unsynced"}

\* What has not been synced survives up to some point, perhaps in the middle
\* of a frame.  What is found on disk afterwards is on disk.
PowerLoss ==
    /\ "power" \in Crashes
    /\ Stop
    /\ \E keep \in [DirtyFrames -> 0..SegmentLimit], tear \in SUBSET DirtyFrames,
          found \in [DirtyHeaders -> {"absent", "torn", "synced"}] :
          /\ \A i \in DirtyFrames :
                /\ synced[i] <= keep[i]
                /\ keep[i] <= Len(frames[i])
                /\ i \in tear => keep[i] < Len(frames[i])
          /\ frames' = [i \in Inodes |->
                IF i \in tear THEN Append(SubSeq(frames[i], 1, keep[i]), Torn)
                ELSE IF i \in DirtyFrames THEN SubSeq(frames[i], 1, keep[i])
                ELSE frames[i]]
          /\ synced' = [i \in Inodes |-> Len(frames'[i])]
          /\ header' = [i \in Inodes |->
                IF i \in DirtyHeaders THEN found[i] ELSE header[i]]
    /\ UNCHANGED <<names, acked>>
-----------------------------------------------------------------------------
Open == OpenActive \/ LockActive \/ WriteMagic \/ SyncMagic \/ Recover \/ RecoverFails

Rotate == SealSync \/ SealRename \/ CreateReplacement \/ WriteReplacementMagic
            \/ InstallReplacement

AppendStep == Rotate \/ WriteFrame \/ SyncFrame

Next ==
    \/ Open
    \/ \E o \in Ids : AppendDuplicate(o) \/ AppendBegin(o)
    \/ AppendStep
    \/ Kill
    \/ PowerLoss

Spec == Init /\ [][Next]_vars
-----------------------------------------------------------------------------
(* Properties *)

\* Types: handles, names and a file's frames stay what the system calls can
\* make of them.
TypeOK ==
    /\ header \in [Inodes -> {"absent", "torn", "unsynced", "synced"}]
    /\ frames \in [Inodes -> Seq(Ids \cup {Torn})]
    /\ synced \in [Inodes -> Nat]
    /\ active \in Inodes \cup {NoInode}
    /\ sealed \in SUBSET Inodes
    /\ fd \in Inodes \cup {NoInode}
    /\ replacement \in Inodes \cup {NoInode}
    /\ pc \in {"down", "lock", "magic", "magicSync", "recover", "idle", "seal", "rename",
               "create", "header", "headerSync", "write", "sync"}
    /\ req \in Ids \cup {NoId}
    /\ seen \in SUBSET Ids
    /\ acked \in SUBSET Ids

\* Every id an append answered Ok for can be read back from a file recovery
\* lists, whatever crash of the configured kinds comes next: `append` answers
\* after sync_data, and a retry that finds the id in `seen` is told Duplicate.
AckedDurable == acked \subseteq Durable

\* Whenever the process dies, the next `open` succeeds: every listed segment
\* has its header and at most a torn tail, but for an active file that `open`
\* would give its header first.  One bad segment makes recovery return Err
\* for all of them.
RecoverySucceeds ==
    \A i \in Named : Parses(i) \/ (i = active /\ header[i] = "absent")

\* An observation is stored at most once, across all segments, through
\* crashes between the write and the answer and the retries after them.
StoredOnce ==
    \A i, j \in Named : \A k \in 1..Len(frames[i]), l \in 1..Len(frames[j]) :
        frames[i][k] = frames[j][l] /\ frames[i][k] # Torn => i = j /\ k = l

\* No step loses a complete frame: rotation moves it, recovery truncates only
\* the incomplete active tail (docs/v2-crash-matrix.md, line 17).
StoredGrows == [][Stored \subseteq Stored']_vars

DL == INSTANCE DurableLog WITH log <- Durable

\* The store implements the abstract log, with what is durable as its contents:
\* append answers for ids in it, and no step or crash takes one out.
ImplementsDurableLog == DL!Spec
=============================================================================
