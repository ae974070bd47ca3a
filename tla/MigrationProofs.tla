--------------------------- MODULE MigrationProofs ---------------------------
(***************************************************************************)
(* A migration loses no record, completes what it says it has completed,   *)
(* can always be taken up again, and changes only what it has backed up:   *)
(* for any files, workspaces and command lines, wherever its runs end.     *)
(***************************************************************************)
EXTENDS Migration, TLAPS

\* What the theorems assume of the user: no agent works on its files and no
\* other migration begins while one is unfinished.
NoOverlaps == Overlaps = {}

\* No operation's destination is another one's, or a source.
NoClash(m, c) ==
    \A p \in Paths : c[p] # None =>
        /\ Dest[m][p] # p => c[Dest[m][p]] = None
        /\ \A q \in Paths : c[q] # None /\ q # p => Dest[m][q] # Dest[m][p]

\* A plan that was not saved yet agrees with the disk.
PlanSound ==
    pc = "planned" =>
        /\ journal[run] = None
        /\ NoClash(run, plan)
        /\ \A p \in Paths : plan[p] # None =>
              /\ Exists(p) /\ plan[p] = Rewrite(run, disk[p])
              /\ Dest[run][p] # p => ~Exists(Dest[run][p])

\* An operation that is not marked can still be done, or was done.
Pending(m, p) ==
    /\ Exists(p) => Rewrite(m, disk[p]) = journal[m].contents[p]
    /\ ~Exists(p) =>
          /\ backup[m][p] # None
          /\ Dest[m][p] # p
          /\ disk[Dest[m][p]] = journal[m].contents[p]
    /\ Dest[m][p] # p /\ Exists(Dest[m][p]) => disk[Dest[m][p]] = journal[m].contents[p]

Done(m, p) ==
    /\ disk[Dest[m][p]] = journal[m].contents[p]
    /\ Dest[m][p] # p => ~Exists(p)

\* What holds of an unfinished migration, running or not.
InProgress ==
    \A m \in Migrations : Unfinished(m) =>
        /\ NoClash(m, journal[m].contents)
        /\ \A p \in Operations(m) :
              IF p \in journal[m].completed THEN Done(m, p) ELSE Pending(m, p)

\* A finished journal leaves nothing to do.
Settled ==
    \A m \in Migrations : journal[m] # None /\ journal[m].finished =>
        Operations(m) \subseteq journal[m].completed

\* One migration is unfinished at most, and no other one runs then.
Alone ==
    \A m \in Migrations : Unfinished(m) =>
        /\ pc # "idle" => run = m
        /\ \A n \in Migrations : Unfinished(n) => n = m

\* How far the operation has come.
Stage ==
    /\ pc \in {"install", "remove", "mark"} => backup[run][op] # None
    /\ pc \in {"remove", "mark"} => disk[Target] = Planned
    /\ pc = "mark" => (Target # op => ~Exists(op))

Sound == PlanSound /\ InProgress /\ Settled /\ Alone /\ Stage

IndInv == TypeOK /\ Sound

\* A backup holds its source until the source is changed.
BackupsHold ==
    /\ \A m \in Migrations : journal[m] = None => \A p \in Paths : backup[m][p] = None
    /\ pc = "backup" => held = disk[op]
    /\ \A m \in Migrations : Unfinished(m) =>
          \A p \in Operations(m) \ journal[m].completed :
             /\ Exists(p)
             /\ backup[m][p] # None
             /\ ~(pc = "backup" /\ op = p)
             => \/ backup[m][p] = disk[p]
                \/ Dest[m][p] = p /\ disk[p] = journal[m].contents[p]
-----------------------------------------------------------------------------
(* Rewriting *)

LEMMA Constants ==
    /\ None # Torn
    /\ None \notin Paths /\ None \notin Migrations
    /\ \A c \in Contents : c # None /\ c # Torn
    /\ {} \in Contents
    /\ \A m \in Migrations : From[m] \in Roots /\ To[m] \in Roots /\ From[m] # To[m]
    /\ \A m \in Migrations, p \in Paths :
          Dest[m][p] \in Paths /\ Dest[m][Dest[m][p]] = Dest[m][p]
  <1>1. \A m \in Migrations : From[m] \in Roots /\ To[m] \in Roots /\ From[m] # To[m]
    BY MigrationAssumptions
  <1>2. ASSUME NEW m \in Migrations, NEW p \in Paths
        PROVE  Dest[m][p] \in Paths /\ Dest[m][Dest[m][p]] = Dest[m][p]
    BY MigrationAssumptions
  <1>3. None \notin Paths /\ None \notin Migrations
    BY MigrationAssumptions
  <1>4. None # Torn /\ {} \in Contents /\ \A c \in Contents : c # None /\ c # Torn
    BY FileAssumptions DEF Contents
  <1> QED
    BY <1>1, <1>2, <1>3, <1>4

LEMMA RewriteContents ==
    ASSUME NEW m \in Migrations, NEW c \in Contents
    PROVE  Rewrite(m, c) \in Contents
  <1>1. ASSUME NEW r \in c
        PROVE  Renamed(m, r) \in [id : Records, root : Roots \cup {NoRoot}]
    <2>1. r \in [id : Records, root : Roots \cup {NoRoot}]
      BY DEF Contents
    <2> QED
      BY <2>1, Constants DEF Renamed
  <1> QED
    BY <1>1 DEF Rewrite, Contents

\* The records of a file are those of the rewritten file.
LEMMA RewriteIds ==
    ASSUME NEW m \in Migrations, NEW c \in Contents, NEW i
    PROVE  (\E r \in Rewrite(m, c) : r.id = i) <=> (\E r \in c : r.id = i)
  <1>1. \A r \in c : Renamed(m, r).id = r.id
    BY DEF Renamed
  <1> QED
    BY <1>1 DEF Rewrite

\* A migration can be applied twice.
LEMMA RewriteTwice ==
    ASSUME NEW m \in Migrations, NEW c \in Contents
    PROVE  Rewrite(m, Rewrite(m, c)) = Rewrite(m, c)
  <1>1. ASSUME NEW r PROVE Renamed(m, Renamed(m, r)) = Renamed(m, r)
    BY Constants DEF Renamed
  <1> QED
    BY <1>1 DEF Rewrite
-----------------------------------------------------------------------------
(* Types *)

\* A journal is well formed.
LEMMA JournalTypes ==
    ASSUME TypeOK, NEW m \in Migrations, journal[m] # None
    PROVE  /\ journal[m] \in Journals
           /\ journal[m].contents \in Plans
           /\ journal[m].completed \subseteq Operations(m)
           /\ journal[m].finished \in BOOLEAN
           /\ \A p \in Operations(m) : journal[m].contents[p] \in Contents
  BY DEF TypeOK, Journals, Plans, Operations

\* A running migration has a saved journal, and its operation is in it.
LEMMA JournalKnown ==
    ASSUME TypeOK, pc \in {"next", "backup", "install", "remove", "mark"}
    PROVE  /\ run \in Migrations
           /\ journal[run] \in Journals /\ journal[run] # None
           /\ journal[run].completed \subseteq Operations(run)
           /\ pc # "next" => op \in Operations(run) /\ op \notin journal[run].completed
  <1>1. run \in Migrations /\ journal[run] \in Journals
    BY DEF TypeOK
  <1>2. journal[run] # None
    BY <1>1, FileAssumptions
  <1> QED
    BY <1>1, <1>2 DEF TypeOK, Todo

\* Every step keeps the types.
LEMMA TypeStep == TypeOK /\ [Next]_vars => TypeOK'
  <1> SUFFICES ASSUME TypeOK, [Next]_vars PROVE TypeOK'
    OBVIOUS
  <1> USE DEF local
  <1>1. ASSUME NEW p \in Paths, AgentWrites(p) PROVE TypeOK'
    <2>1. disk' \in [Paths -> {None} \cup Contents]
      BY <1>1, Constants DEF AgentWrites, TypeOK, Contents
    <2> QED
      BY <1>1, <2>1 DEF AgentWrites, TypeOK, Todo, Operations
  <1>2. ASSUME NEW m \in Migrations, Plan(m) PROVE TypeOK'
    <2>1. [p \in Paths |-> IF p \in Sources(m) THEN Rewrite(m, disk[p]) ELSE None] \in Plans
      BY RewriteContents DEF TypeOK, Plans, Sources, Affected, Exists
    <2>2. CASE Collides(m)
      BY <1>2, <2>2 DEF Plan, MayBegin, TypeOK, Operations
    <2>3. CASE ~Collides(m)
      BY <1>2, <2>1, <2>3, Constants DEF Plan, MayBegin, TypeOK, Operations
    <2> QED
      BY <2>2, <2>3
  <1>3. CASE SaveJournal
    <2>1. [contents |-> plan, completed |-> {}, finished |-> FALSE] \in Journals
      BY <1>3 DEF SaveJournal, TypeOK, Journals
    <2> QED
      BY <1>3, <2>1 DEF SaveJournal, TypeOK, Operations
  <1>4. ASSUME NEW m \in Migrations, Resume(m) PROVE TypeOK'
    BY <1>4, Constants DEF Resume, MayBegin, TypeOK, Todo, Operations
  <1>5. ASSUME NEW p \in Paths, KeepBackup(p) PROVE TypeOK'
    BY <1>5 DEF KeepBackup, IsNext, TypeOK, Todo, Operations
  <1>6. ASSUME NEW p \in Paths, CreateBackup(p) PROVE TypeOK'
    <2>1. CASE Exists(p)
      <3>1. disk[p] \in Contents /\ p \in Todo
        BY <1>6, <2>1 DEF CreateBackup, IsNext, Exists, TypeOK
      <3>2. backup' \in [Migrations -> [Paths -> {None, Torn} \cup Contents]]
        BY <1>6, <2>1 DEF CreateBackup, TypeOK
      <3> QED
        BY <1>6, <2>1, <3>1, <3>2 DEF CreateBackup, Exists, TypeOK, Todo, Operations
    <2>2. CASE ~Exists(p)
      BY <1>6, <2>2 DEF CreateBackup, End, TypeOK, Operations
    <2> QED
      BY <2>1, <2>2
  <1>7. CASE WriteBackup
    BY <1>7, Constants DEF WriteBackup, TypeOK, Todo, Operations
  <1>8. CASE Install
    <2>1. CASE UNCHANGED disk /\ End("stuck") /\ UNCHANGED <<journal, backup>>
      BY <2>1 DEF End, TypeOK, Operations
    <2>2. CASE UNCHANGED disk /\ pc' = "remove"
               /\ UNCHANGED <<journal, backup, run, plan, op, held, outcome>>
      BY <1>8, <2>2 DEF Install, TypeOK, Todo, Operations
    <2>3. CASE disk' = [disk EXCEPT ![Target] = Planned] /\ pc' = "remove"
               /\ UNCHANGED <<journal, backup, run, plan, op, held, outcome>>
      <3>1. Planned \in Contents
        BY <1>8, JournalTypes DEF Install, Planned, Todo, Operations, TypeOK, Journals, Plans
      <3>2. disk' \in [Paths -> {None} \cup Contents]
        BY <2>3, <3>1 DEF TypeOK
      <3> QED
        BY <1>8, <2>3, <3>2 DEF Install, TypeOK, Todo, Operations
    <2> QED
      BY <1>8, <2>1, <2>2, <2>3 DEF Install
  <1>9. CASE Remove
    BY <1>9 DEF Remove, Target, TypeOK, Todo, Operations
  <1>10. CASE Mark
    <2>1. run \in Migrations /\ journal[run] \in Journals /\ op \in Operations(run)
      BY <1>10 DEF Mark, TypeOK, Todo
    <2>2. journal' = [journal EXCEPT ![run] = [journal[run] EXCEPT !.completed = @ \cup {op}]]
      BY <1>10 DEF Mark
    <2>3. [journal[run] EXCEPT !.completed = @ \cup {op}] \in Journals
      BY <2>1 DEF Journals, Operations
    <2>4. journal' \in [Migrations -> {None} \cup Journals]
      BY <2>1, <2>2, <2>3 DEF TypeOK
    <2>5. \A m \in Migrations : journal'[m] # None =>
             journal'[m].completed \subseteq {p \in Paths : journal'[m].contents[p] # None}
      <3> SUFFICES ASSUME NEW m \in Migrations, journal'[m] # None
                   PROVE  journal'[m].completed \subseteq {p \in Paths : journal'[m].contents[p] # None}
        OBVIOUS
      <3>1. CASE m # run
        BY <2>2, <3>1 DEF TypeOK, Operations
      <3>2. CASE m = run
        <4>1. /\ journal'[run].contents = journal[run].contents
              /\ journal'[run].completed = journal[run].completed \cup {op}
          BY <2>1, <2>2 DEF TypeOK, Journals
        <4>2. journal[run].completed \subseteq Operations(run)
          BY <1>10, JournalKnown DEF Mark
        <4> QED
          BY <2>1, <3>2, <4>1, <4>2 DEF Operations
      <3> QED
        BY <3>1, <3>2
    <2> QED
      BY <1>10, <2>1, <2>2, <2>3, <2>4, <2>5 DEF Mark, TypeOK, Operations
  <1>11. CASE Finish
    <2>1. run \in Migrations /\ journal[run] \in Journals
      BY <1>11 DEF Finish, TypeOK
    <2>2. journal' = [journal EXCEPT ![run] = [journal[run] EXCEPT !.finished = TRUE]]
      BY <1>11 DEF Finish
    <2>3. [journal[run] EXCEPT !.finished = TRUE] \in Journals
      BY <2>1 DEF Journals
    <2>4. journal' \in [Migrations -> {None} \cup Journals]
      BY <2>1, <2>2, <2>3 DEF TypeOK
    <2>5. \A m \in Migrations : journal'[m] # None =>
             journal'[m].completed \subseteq {p \in Paths : journal'[m].contents[p] # None}
      <3> SUFFICES ASSUME NEW m \in Migrations, journal'[m] # None
                   PROVE  journal'[m].completed \subseteq {p \in Paths : journal'[m].contents[p] # None}
        OBVIOUS
      <3>1. CASE m # run
        BY <2>2, <3>1 DEF TypeOK, Operations
      <3>2. CASE m = run
        <4>1. /\ journal'[run].contents = journal[run].contents
              /\ journal'[run].completed = journal[run].completed
          BY <2>1, <2>2 DEF TypeOK, Journals
        <4>2. journal[run].completed \subseteq Operations(run)
          BY <1>11, JournalKnown DEF Finish
        <4> QED
          BY <2>1, <3>2, <4>1, <4>2 DEF Operations
      <3> QED
        BY <3>1, <3>2
    <2> QED
      BY <1>11, <2>4, <2>5 DEF Finish, End, TypeOK, Operations
  <1>12. CASE Interrupt
    BY <1>12 DEF Interrupt, End, TypeOK, Operations
  <1>13. CASE UNCHANGED vars
    BY <1>13 DEF vars, TypeOK, Todo, Operations
  <1> QED
    BY <1>1, <1>2, <1>3, <1>4, <1>5, <1>6, <1>7, <1>8, <1>9, <1>10, <1>11, <1>12, <1>13
       DEF Next

\* Every variable keeps its type, the marks of a journal stay among its
\* operations, and a run applies an operation it has not marked
\* (migration.rs:187-195).
THEOREM MigrationTypes == Spec => []TypeOK
  <1>1. Init => TypeOK
    <2> SUFFICES ASSUME Init PROVE TypeOK
      OBVIOUS
    <2>1. disk \in [Paths -> {None} \cup Contents]
      BY DEF Init, Contents
    <2> QED
      BY <2>1 DEF Init, TypeOK
  <1> QED
    BY <1>1, TypeStep, PTL DEF Spec
-----------------------------------------------------------------------------
(* The invariant *)

\* Two operations of a plan have nothing to do with each other.
LEMMA Apart ==
    ASSUME NEW m \in Migrations, NEW c, NoClash(m, c),
           NEW p \in Paths, NEW q \in Paths, c[p] # None, c[q] # None, p # q
    PROVE  q # Dest[m][p] /\ Dest[m][q] # Dest[m][p] /\ Dest[m][q] # p
  BY DEF NoClash

\* A step that writes no journal and none of the files keeps what is in
\* progress.
LEMMA FilesKept ==
    ASSUME InProgress, Settled, UNCHANGED <<disk, journal>>,
           \A m \in Migrations, p \in Paths : backup[m][p] # None => backup'[m][p] # None
    PROVE  InProgress' /\ Settled'
  BY DEF InProgress, Settled, Unfinished, Operations, NoClash, Done, Pending, Exists

\* Nor does a step that touches only the files of one operation disturb the
\* others.
LEMMA OthersKept ==
    ASSUME TypeOK, InProgress, UNCHANGED <<journal, backup>>,
           NEW m \in Migrations, Unfinished(m), NEW p \in Operations(m),
           \A q \in Paths : q # p /\ q # Dest[m][p] => disk'[q] = disk[q],
           NEW q \in Operations(m), q # p
    PROVE  IF q \in journal'[m].completed THEN Done(m, q)' ELSE Pending(m, q)'
  <1>1. NoClash(m, journal[m].contents)
    BY DEF InProgress
  <1>2. q # Dest[m][p] /\ Dest[m][q] # Dest[m][p] /\ Dest[m][q] # p
    BY <1>1, Apart DEF Operations
  <1>3. disk'[q] = disk[q] /\ disk'[Dest[m][q]] = disk[Dest[m][q]]
    BY <1>2, Constants DEF Operations
  <1>4. IF q \in journal[m].completed THEN Done(m, q) ELSE Pending(m, q)
    BY DEF InProgress
  <1> QED
    BY <1>3, <1>4 DEF Done, Pending, Exists

\* An operation that is worked on belongs to the one unfinished migration.
LEMMA AtWork ==
    ASSUME IndInv, pc \in {"backup", "install", "remove", "mark"}
    PROVE  /\ run \in Migrations /\ Unfinished(run)
           /\ op \in Operations(run) /\ op \notin journal[run].completed
           /\ op \in Paths /\ Target \in Paths
           /\ Planned = journal[run].contents[op] /\ Planned \in Contents
           /\ NoClash(run, journal[run].contents)
           /\ Pending(run, op)
           /\ \A m \in Migrations : Unfinished(m) => m = run
  <1>1. /\ run \in Migrations /\ journal[run] \in Journals /\ journal[run] # None
        /\ op \in Operations(run) /\ op \notin journal[run].completed
    BY JournalKnown DEF IndInv
  <1>2. Unfinished(run)
    BY <1>1 DEF IndInv, Sound, Settled, Unfinished, Journals
  <1>3. op \in Paths /\ Target \in Paths
    BY <1>1, Constants DEF Operations, Target
  <1>4. Planned \in Contents
    BY <1>1, JournalTypes DEF IndInv, Planned
  <1>5. NoClash(run, journal[run].contents) /\ Pending(run, op)
    BY <1>1, <1>2 DEF IndInv, Sound, InProgress
  <1>6. \A m \in Migrations : Unfinished(m) => m = run
    BY <1>1, <1>2 DEF IndInv, Sound, Alone
  <1> QED
    BY <1>1, <1>2, <1>3, <1>4, <1>5, <1>6 DEF Planned

\* What is in progress when the files of the current operation have changed.
LEMMA OperationStep ==
    ASSUME IndInv, pc \in {"install", "remove"}, UNCHANGED <<journal, backup, run, op>>,
           \A q \in Paths : q # op /\ q # Target => disk'[q] = disk[q],
           Pending(run, op)'
    PROVE  InProgress' /\ Settled'
  <1>1. Settled'
    BY DEF IndInv, Sound, Settled, Operations
  <1>2. \A m \in Migrations : Unfinished(m)' => m = run
    BY AtWork DEF Unfinished
  <1>3. NoClash(run, journal[run].contents)'
    BY AtWork DEF NoClash
  <1>4. \A q \in Operations(run) :
           IF q \in journal'[run].completed THEN Done(run, q)' ELSE Pending(run, q)'
    <2> SUFFICES ASSUME NEW q \in Operations(run)
                 PROVE  IF q \in journal'[run].completed THEN Done(run, q)' ELSE Pending(run, q)'
      OBVIOUS
    <2>1. CASE q = op
      BY <2>1, AtWork
    <2>2. CASE q # op
      BY <2>2, AtWork, OthersKept DEF IndInv, Sound, Target
    <2> QED
      BY <2>1, <2>2
  <1>5. Operations(run)' = Operations(run)
    BY DEF Operations
  <1>6. InProgress'
    BY <1>2, <1>3, <1>4, <1>5 DEF InProgress, Done, Pending, Exists
  <1> QED
    BY <1>1, <1>6
-----------------------------------------------------------------------------
(* The steps *)

\* The end of a run that writes no file and no journal.
LEMMA EndSound ==
    ASSUME IndInv, UNCHANGED <<disk, journal, backup>>, NEW how, End(how)
    PROVE  Sound'
  <1>1. InProgress' /\ Settled'
    BY FilesKept DEF IndInv, Sound
  <1>2. PlanSound' /\ Stage'
    BY DEF End, PlanSound, Stage
  <1>3. Alone'
    BY DEF IndInv, Sound, End, Alone, Unfinished
  <1> QED
    BY <1>1, <1>2, <1>3 DEF Sound

\* A fresh plan is sound, because collisions were refused.
LEMMA PlanStep ==
    ASSUME IndInv, NoOverlaps, NEW m \in Migrations, Plan(m)
    PROVE  Sound'
  <1> USE DEF local
  <1>1. InProgress' /\ Settled'
    BY FilesKept DEF IndInv, Sound, Plan
  <1>2. pc = "idle" /\ \A n \in Migrations : ~Unfinished(n)
    BY DEF Plan, MayBegin, NoOverlaps, Unfinished
  <1>3. Alone'
    BY <1>2 DEF Plan, Alone, Unfinished
  <1>4. Stage'
    BY <1>2 DEF Plan, Stage
  <1>5. PlanSound'
    <2>1. CASE Collides(m)
      BY <1>2, <2>1 DEF Plan, PlanSound
    <2>2. CASE ~Collides(m)
      <3>1. /\ run' = m /\ journal' = journal /\ disk' = disk /\ journal[m] = None
            /\ plan' = [p \in Paths |-> IF p \in Sources(m) THEN Rewrite(m, disk[p]) ELSE None]
        BY <2>2 DEF Plan
      <3>2. \A p \in Paths : plan'[p] # None =>
               p \in Sources(m) /\ Exists(p) /\ plan'[p] = Rewrite(m, disk[p])
        BY <3>1 DEF Sources, Affected
      <3>3. \A p \in Sources(m) : Dest[m][p] # p => ~Exists(Dest[m][p])
        BY <2>2 DEF Collides
      <3>4. \A p \in Paths : plan'[p] # None /\ Dest[m][p] # p => plan'[Dest[m][p]] = None
        BY <3>2, <3>3, Constants
      <3>5. \A p, q \in Paths : plan'[p] # None /\ plan'[q] # None /\ q # p =>
               Dest[m][q] # Dest[m][p]
        BY <2>2, <3>2 DEF Collides
      <3>6. NoClash(m, plan')
        BY <3>4, <3>5 DEF NoClash
      <3> QED
        BY <3>1, <3>2, <3>3, <3>6 DEF PlanSound, NoClash, Exists
    <2> QED
      BY <2>1, <2>2
  <1> QED
    BY <1>1, <1>3, <1>4, <1>5 DEF Sound

\* The saved journal is the plan.
LEMMA SaveStep ==
    ASSUME IndInv, SaveJournal
    PROVE  Sound'
  <1> DEFINE saved == [contents |-> plan, completed |-> {}, finished |-> FALSE]
  <1>1. /\ pc = "planned" /\ run \in Migrations /\ journal[run] = None
        /\ journal' = [journal EXCEPT ![run] = saved]
        /\ UNCHANGED <<disk, backup, run>> /\ pc' = "next"
    BY DEF SaveJournal, IndInv, TypeOK, Sound, PlanSound
  <1>2. \A m \in Migrations : ~Unfinished(m)
    BY <1>1 DEF IndInv, Sound, Alone, Unfinished
  <1>3. journal'[run] = saved /\ \A m \in Migrations : m # run => journal'[m] = journal[m]
    BY <1>1 DEF IndInv, TypeOK
  <1>4. \A m \in Migrations : Unfinished(m)' => m = run
    BY <1>2, <1>3 DEF Unfinished
  <1>5. Settled'
    <2> SUFFICES ASSUME NEW m \in Migrations, journal'[m] # None, journal'[m].finished
                 PROVE  Operations(m)' \subseteq journal'[m].completed
      BY DEF Settled
    <2>1. m # run
      BY <1>3
    <2> QED
      BY <1>3, <2>1 DEF IndInv, Sound, Settled, Operations
  <1>6. Alone' /\ Stage' /\ PlanSound'
    BY <1>1, <1>4 DEF Alone, Stage, PlanSound
  <1>7. NoClash(run, plan) /\ \A p \in Paths : plan[p] # None =>
              /\ Exists(p) /\ plan[p] = Rewrite(run, disk[p])
              /\ Dest[run][p] # p => ~Exists(Dest[run][p])
    BY <1>1 DEF IndInv, Sound, PlanSound
  <1>8. journal'[run].contents = plan /\ journal'[run].completed = {}
    BY <1>3
  <1>9. InProgress'
    BY <1>1, <1>4, <1>7, <1>8 DEF InProgress, Operations, NoClash, Pending, Exists
  <1> QED
    BY <1>5, <1>6, <1>9 DEF Sound

\* The contents are in their place after that, and the operation can still be
\* taken up by another run.
LEMMA InstallStep ==
    ASSUME IndInv, Install
    PROVE  Sound'
  <1>1. CASE UNCHANGED disk /\ End("stuck")
    BY <1>1, EndSound DEF Install
  <1>2. CASE pc' = "remove" /\ UNCHANGED <<run, plan, op, held, outcome>>
    <2>1. pc = "install" /\ UNCHANGED <<journal, backup, run, op>>
      BY <1>2 DEF Install
    <2>2. /\ \/ disk' = disk /\ disk[Target] = Planned
             \/ /\ disk' = [disk EXCEPT ![Target] = Planned]
                /\ Target = op \/ ~Exists(Target)
      BY <1>2, <2>1 DEF Install, End
    <2>3. disk'[Target] = Planned /\ \A q \in Paths : q # Target => disk'[q] = disk[q]
      BY <2>1, <2>2, AtWork DEF IndInv, TypeOK
    <2>4. Pending(run, op)'
      <3>1. Pending(run, op) /\ Planned = journal[run].contents[op]
        BY <2>1, AtWork
      <3>2. CASE Target # op
        BY <2>1, <2>3, <3>1, <3>2, AtWork DEF Pending, Exists, Target
      <3>3. CASE Target = op
        <4>1. Exists(op) /\ Planned = Rewrite(run, disk[op])
          BY <3>1, <3>3 DEF Pending, Target
        <4>2. Rewrite(run, Planned) = Planned
          BY <2>1, <4>1, AtWork, RewriteTwice DEF IndInv, TypeOK, Exists
        <4>3. Planned # None
          BY <2>1, AtWork, Constants
        <4> QED
          BY <2>1, <2>3, <3>1, <3>3, <4>2, <4>3 DEF Pending, Exists, Target
      <3> QED
        BY <3>2, <3>3
    <2>5. InProgress' /\ Settled'
      BY <2>1, <2>3, <2>4, OperationStep
    <2>6. Stage'
      BY <1>2, <2>1, <2>3 DEF IndInv, Sound, Stage, Target, Planned
    <2>7. Alone' /\ PlanSound'
      BY <1>2, <2>1 DEF IndInv, Sound, Alone, PlanSound, Unfinished
    <2> QED
      BY <2>5, <2>6, <2>7 DEF Sound
  <1> QED
    BY <1>1, <1>2 DEF Install

\* A source is removed only when its contents are elsewhere.
LEMMA RemoveStep ==
    ASSUME IndInv, Remove
    PROVE  Sound'
  <1>1. pc = "remove" /\ pc' = "mark" /\ UNCHANGED <<journal, backup, run, op>>
    BY DEF Remove
  <1>2. disk[Target] = Planned /\ backup[run][op] # None
    BY <1>1 DEF IndInv, Sound, Stage
  <1>3. disk' = IF Target # op THEN [disk EXCEPT ![op] = None] ELSE disk
    BY DEF Remove
  <1>4. /\ \A q \in Paths : q # op => disk'[q] = disk[q]
        /\ disk'[Target] = Planned
        /\ Target # op => disk'[op] = None
        /\ Target = op => disk' = disk
    BY <1>1, <1>2, <1>3, AtWork DEF IndInv, TypeOK
  <1>5. Pending(run, op)'
    BY <1>1, <1>2, <1>4, AtWork DEF Pending, Exists, Target
  <1>6. InProgress' /\ Settled'
    BY <1>1, <1>4, <1>5, OperationStep
  <1>7. Stage'
    BY <1>1, <1>2, <1>4 DEF Stage, Target, Planned, Exists
  <1>8. Alone' /\ PlanSound'
    BY <1>1 DEF IndInv, Sound, Alone, PlanSound, Unfinished
  <1> QED
    BY <1>6, <1>7, <1>8 DEF Sound

\* What is marked is done.
LEMMA MarkStep ==
    ASSUME IndInv, Mark
    PROVE  Sound'
  <1>1. /\ pc = "mark" /\ pc' = "next" /\ UNCHANGED <<disk, backup, run>>
        /\ journal' = [journal EXCEPT ![run] = [journal[run] EXCEPT !.completed = @ \cup {op}]]
    BY DEF Mark
  <1>2. run \in Migrations /\ journal[run] \in Journals
    BY <1>1, JournalKnown DEF IndInv
  <1>3. /\ journal'[run].contents = journal[run].contents
        /\ journal'[run].completed = journal[run].completed \cup {op}
        /\ journal'[run].finished = journal[run].finished
        /\ \A m \in Migrations : m # run => journal'[m] = journal[m]
    BY <1>1, <1>2 DEF IndInv, TypeOK, Journals
  <1>4. \A m \in Migrations : Unfinished(m)' => m = run
    BY <1>1, <1>3, AtWork DEF Unfinished
  <1>5. Done(run, op)
    BY <1>1, AtWork DEF IndInv, Sound, Stage, Done, Target
  <1>6. InProgress'
    <2>1. Operations(run)' = Operations(run) /\ NoClash(run, journal[run].contents)'
      BY <1>1, <1>3, AtWork DEF Operations, NoClash
    <2>2. \A p \in Operations(run) :
             IF p \in journal[run].completed THEN Done(run, p) ELSE Pending(run, p)
      BY <1>1, AtWork DEF IndInv, Sound, InProgress
    <2>3. \A p \in Operations(run) :
             IF p \in journal'[run].completed THEN Done(run, p)' ELSE Pending(run, p)'
      BY <1>1, <1>3, <1>5, <2>2 DEF Done, Pending, Exists
    <2> SUFFICES ASSUME NEW m \in Migrations, Unfinished(m)'
                 PROVE  /\ NoClash(m, journal[m].contents)'
                        /\ \A p \in Operations(m)' :
                              IF p \in journal'[m].completed THEN Done(m, p)' ELSE Pending(m, p)'
      BY DEF InProgress
    <2>4. m = run
      BY <1>4
    <2> QED
      BY <1>1, <2>1, <2>3, <2>4
  <1>7. Settled'
    BY <1>1, <1>3, AtWork DEF IndInv, Sound, Settled, Operations, Unfinished
  <1>8. Alone' /\ PlanSound' /\ Stage'
    BY <1>1, <1>4 DEF Alone, PlanSound, Stage
  <1> QED
    BY <1>6, <1>7, <1>8 DEF Sound

\* The journal is finished when nothing is left to do.
LEMMA FinishStep ==
    ASSUME IndInv, Finish
    PROVE  Sound'
  <1>1. /\ pc = "next" /\ pc' = "idle" /\ UNCHANGED <<disk, backup>>
        /\ journal' = [journal EXCEPT ![run] = [journal[run] EXCEPT !.finished = TRUE]]
    BY DEF Finish, End
  <1>2. run \in Migrations /\ journal[run] \in Journals /\ journal[run] # None
    BY <1>1, JournalKnown DEF IndInv
  <1>3. /\ journal'[run].contents = journal[run].contents
        /\ journal'[run].completed = journal[run].completed
        /\ journal'[run].finished
        /\ \A m \in Migrations : m # run => journal'[m] = journal[m]
    BY <1>1, <1>2 DEF IndInv, TypeOK, Journals
  <1>4. \A m \in Migrations : ~Unfinished(m)'
    BY <1>1, <1>3 DEF IndInv, Sound, Alone, Unfinished
  <1>5. Operations(run) \subseteq journal[run].completed
    BY DEF Finish, Todo
  <1>6. Settled'
    <2> SUFFICES ASSUME NEW m \in Migrations, journal'[m] # None, journal'[m].finished
                 PROVE  Operations(m)' \subseteq journal'[m].completed
      BY DEF Settled
    <2>1. CASE m = run
      BY <1>3, <1>5, <2>1 DEF Operations
    <2>2. CASE m # run
      BY <1>3, <2>2 DEF IndInv, Sound, Settled, Operations
    <2> QED
      BY <2>1, <2>2
  <1>7. InProgress' /\ Alone'
    BY <1>4 DEF InProgress, Alone
  <1>8. PlanSound' /\ Stage'
    BY <1>1 DEF PlanSound, Stage
  <1> QED
    BY <1>6, <1>7, <1>8 DEF Sound

\* The invariant is inductive.
LEMMA IndStep == NoOverlaps /\ IndInv /\ [Next]_vars => IndInv'
  <1> SUFFICES ASSUME NoOverlaps, IndInv, [Next]_vars PROVE Sound'
    BY TypeStep DEF IndInv
  <1> USE DEF local
  <1>1. ASSUME NEW p \in Paths, AgentWrites(p) PROVE Sound'
    <2>1. /\ pc = "idle" /\ \A m \in Migrations : ~Unfinished(m)
          /\ UNCHANGED <<journal, pc>>
      BY <1>1 DEF AgentWrites, NoOverlaps
    <2> QED
      BY <2>1 DEF IndInv, Sound, PlanSound, InProgress, Settled, Alone, Stage, Unfinished, Operations
  <1>2. ASSUME NEW m \in Migrations, Plan(m) PROVE Sound'
    BY <1>2, PlanStep
  <1>3. CASE SaveJournal
    BY <1>3, SaveStep
  <1>4. ASSUME NEW m \in Migrations, Resume(m) PROVE Sound'
    <2>1. InProgress' /\ Settled'
      BY <1>4, FilesKept DEF IndInv, Sound, Resume
    <2>2. Alone'
      BY <1>4 DEF IndInv, Sound, Alone, Resume, MayBegin, NoOverlaps, Unfinished
    <2>3. PlanSound' /\ Stage'
      BY <1>4 DEF Resume, PlanSound, Stage
    <2> QED
      BY <2>1, <2>2, <2>3 DEF Sound
  <1>5. ASSUME NEW p \in Paths, KeepBackup(p) PROVE Sound'
    <2>1. InProgress' /\ Settled'
      BY <1>5, FilesKept DEF IndInv, Sound, KeepBackup
    <2>2. Alone' /\ PlanSound' /\ Stage'
      BY <1>5 DEF IndInv, Sound, Alone, PlanSound, Stage, KeepBackup, Unfinished
    <2> QED
      BY <2>1, <2>2 DEF Sound
  <1>6. ASSUME NEW p \in Paths, CreateBackup(p) PROVE Sound'
    <2>1. CASE ~Exists(p)
      BY <1>6, <2>1, EndSound DEF CreateBackup
    <2>2. CASE Exists(p)
      <3>1. /\ pc = "next" /\ pc' = "backup" /\ UNCHANGED <<disk, journal, run>>
            /\ backup' = [backup EXCEPT ![run][p] = Torn]
        BY <1>6, <2>2 DEF CreateBackup
      <3>2. \A m \in Migrations, q \in Paths : backup[m][q] # None => backup'[m][q] # None
        BY <3>1, Constants DEF IndInv, TypeOK
      <3>3. InProgress' /\ Settled'
        BY <3>1, <3>2, FilesKept DEF IndInv, Sound
      <3>4. Alone' /\ PlanSound' /\ Stage'
        BY <3>1 DEF IndInv, Sound, Alone, PlanSound, Stage, Unfinished
      <3> QED
        BY <3>3, <3>4 DEF Sound
    <2> QED
      BY <2>1, <2>2
  <1>7. CASE WriteBackup
    <2>1. /\ pc = "backup" /\ pc' = "install" /\ UNCHANGED <<disk, journal, run, op>>
          /\ backup' = [backup EXCEPT ![run][op] = held] /\ held # None
      BY <1>7 DEF WriteBackup, IndInv, TypeOK
    <2>2. \A m \in Migrations, q \in Paths : backup[m][q] # None => backup'[m][q] # None
      BY <2>1 DEF IndInv, TypeOK
    <2>3. InProgress' /\ Settled'
      BY <2>1, <2>2, FilesKept DEF IndInv, Sound
    <2>4. backup'[run][op] # None
      BY <2>1, AtWork DEF IndInv, TypeOK
    <2>5. Alone' /\ PlanSound' /\ Stage'
      BY <2>1, <2>4 DEF IndInv, Sound, Alone, PlanSound, Stage, Unfinished
    <2> QED
      BY <2>3, <2>5 DEF Sound
  <1>8. CASE Install
    BY <1>8, InstallStep
  <1>9. CASE Remove
    BY <1>9, RemoveStep
  <1>10. CASE Mark
    BY <1>10, MarkStep
  <1>11. CASE Finish
    BY <1>11, FinishStep
  <1>12. CASE Interrupt
    BY <1>12, EndSound DEF Interrupt
  <1>13. CASE UNCHANGED vars
    <2>1. InProgress' /\ Settled'
      BY <1>13, FilesKept DEF IndInv, Sound, vars
    <2>2. Alone' /\ PlanSound' /\ Stage'
      BY <1>13 DEF IndInv, Sound, Alone, PlanSound, Stage, Unfinished, NoClash, Exists,
                   Target, Planned, vars
    <2> QED
      BY <2>1, <2>2 DEF Sound
  <1> QED
    BY <1>1, <1>2, <1>3, <1>4, <1>5, <1>6, <1>7, <1>8, <1>9, <1>10, <1>11, <1>12, <1>13
       DEF Next

LEMMA InitInv == Init => IndInv
  <1> SUFFICES ASSUME Init PROVE IndInv
    OBVIOUS
  <1>1. disk \in [Paths -> {None} \cup Contents]
    BY DEF Init, Contents
  <1>2. TypeOK
    BY <1>1 DEF Init, TypeOK
  <1>3. \A m \in Migrations : journal[m] = None
    BY DEF Init
  <1>4. pc = "idle"
    BY DEF Init
  <1> QED
    BY <1>2, <1>3, <1>4
       DEF IndInv, Sound, PlanSound, InProgress, Settled, Alone, Stage, Unfinished

\* The invariant holds of every reachable state.
LEMMA Invariance == ASSUME NoOverlaps PROVE Spec => []IndInv
  <1>1. IndInv /\ [Next]_vars => IndInv'
    BY IndStep
  <1> QED
    BY <1>1, InitInv, PTL DEF Spec
-----------------------------------------------------------------------------
(* What the invariant gives *)

\* Replacing a file by its rewritten contents, or removing one whose rewritten
\* contents are elsewhere, takes no record away.
LEMMA LiveKept ==
    ASSUME TypeOK,
           \A p \in Paths : Exists(p) =>
              \E q \in Paths : /\ disk'[q] # None
                               /\ \A r \in disk[p] : \E s \in disk'[q] : s.id = r.id
    PROVE  Live \subseteq Live'
  <1> SUFFICES ASSUME NEW i \in Live PROVE i \in Live'
    OBVIOUS
  <1>1. PICK p \in Paths : Exists(p) /\ \E r \in disk[p] : r.id = i
    BY DEF Live
  <1>2. PICK q \in Paths : /\ disk'[q] # None
                           /\ \A r \in disk[p] : \E s \in disk'[q] : s.id = r.id
    BY <1>1
  <1>3. \E s \in disk'[q] : s.id = i
    BY <1>1, <1>2
  <1> QED
    BY <1>2, <1>3 DEF Live, Exists

\* The contents of an operation hold every record of its source.
LEMMA PlannedHolds ==
    ASSUME IndInv, pc \in {"backup", "install", "remove", "mark"}, Exists(op)
    PROVE  \A r \in disk[op] : \E s \in Planned : s.id = r.id
  <1>1. Planned = Rewrite(run, disk[op]) /\ run \in Migrations /\ disk[op] \in Contents
    BY AtWork DEF Pending, Exists, IndInv, TypeOK
  <1> QED
    BY <1>1, RewriteIds

LEMMA LiveStep == IndInv /\ [Next]_vars => Live \subseteq Live'
  <1> SUFFICES ASSUME IndInv, [Next]_vars PROVE Live \subseteq Live'
    OBVIOUS
  <1>1. CASE UNCHANGED disk
    BY <1>1 DEF Live, Exists
  <1>2. ASSUME NEW p \in Paths, AgentWrites(p) PROVE Live \subseteq Live'
    <2>1. PICK i \in Records, w \in Roots \cup {NoRoot} :
             disk' = [disk EXCEPT ![p] =
                        (IF @ = None THEN {} ELSE @) \cup {[id |-> i, root |-> w]}]
      BY <1>2 DEF AgentWrites
    <2> DEFINE r == [id |-> i, root |-> w]
    <2>2. \A q \in Paths : q # p => disk'[q] = disk[q]
      BY <2>1 DEF IndInv, TypeOK
    <2>3. disk'[p] = (IF disk[p] = None THEN {} ELSE disk[p]) \cup {r}
      BY <2>1 DEF IndInv, TypeOK
    <2>4. disk'[p] \in Contents
      BY <2>1, <2>3 DEF IndInv, TypeOK, Contents
    <2>5. disk'[p] # None /\ (Exists(p) => disk[p] \subseteq disk'[p])
      BY <2>3, <2>4, Constants DEF Exists
    <2> QED
      BY <2>2, <2>5, LiveKept DEF IndInv, Exists
  <1>3. CASE Install
    <2>1. pc = "install" /\ (disk' = disk \/ disk' = [disk EXCEPT ![Target] = Planned])
      BY <1>3 DEF Install
    <2>2. CASE disk' = disk
      BY <1>1, <2>2
    <2>3. CASE disk' # disk
      <3>1. disk' = [disk EXCEPT ![Target] = Planned] /\ (Target # op => ~Exists(Target))
        BY <1>3, <2>3 DEF Install, End
      <3>2. Planned # None /\ Target \in Paths /\ op \in Paths
        BY <2>1, AtWork, Constants
      <3>3. disk'[Target] = Planned /\ \A q \in Paths : q # Target => disk'[q] = disk[q]
        BY <3>1, <3>2 DEF IndInv, TypeOK
      <3>4. Target = op /\ Exists(op) => \A r \in disk[op] : \E s \in Planned : s.id = r.id
        BY <2>1, PlannedHolds
      <3> QED
        BY <3>1, <3>2, <3>3, <3>4, LiveKept DEF IndInv, Exists
    <2> QED
      BY <2>2, <2>3
  <1>4. CASE Remove
    <2>1. pc = "remove" /\ disk' = IF Target # op THEN [disk EXCEPT ![op] = None] ELSE disk
      BY <1>4 DEF Remove
    <2>2. CASE Target = op
      BY <1>1, <2>1, <2>2
    <2>3. CASE Target # op
      <3>1. disk[Target] = Planned /\ Planned # None /\ Target \in Paths /\ op \in Paths
        BY <2>1, AtWork, Constants DEF IndInv, Sound, Stage
      <3>2. disk'[Target] = Planned /\ \A q \in Paths : q # op => disk'[q] = disk[q]
        BY <2>1, <2>3, <3>1 DEF IndInv, TypeOK
      <3>3. Exists(op) => \A r \in disk[op] : \E s \in Planned : s.id = r.id
        BY <2>1, PlannedHolds
      <3> QED
        BY <3>1, <3>2, <3>3, LiveKept DEF IndInv, Exists
    <2> QED
      BY <2>2, <2>3
  <1>5. Next => \/ UNCHANGED disk \/ Install \/ Remove
                \/ \E p \in Paths : AgentWrites(p)
    BY DEF Next, KeepBackup, CreateBackup, Plan, Resume, SaveJournal, WriteBackup, Mark,
           Finish, Interrupt
  <1> QED
    BY <1>1, <1>2, <1>3, <1>4, <1>5 DEF vars

\* No record leaves the agents' files, however the runs of a migration end and
\* whatever its files are: a record is renamed with its file, and a source is
\* removed after its contents are elsewhere (migration.rs:509-535).
THEOREM NoRecordLost == ASSUME NoOverlaps PROVE Spec => RecordsKept
  <1>1. IndInv /\ [Next]_vars => [Live \subseteq Live']_vars
    BY LiveStep
  <1> QED
    BY <1>1, Invariance, PTL DEF Spec, RecordsKept

\* A run is never stopped by what an earlier one left: a source that is gone has
\* its backup, and an occupied destination holds the contents that belong there
\* (migration.rs:509-535).
THEOREM AlwaysResumes == ASSUME NoOverlaps PROVE Spec => []ResumeSucceeds
  <1>1. Init => ResumeSucceeds
    BY DEF Init, ResumeSucceeds
  <1>2. IndInv /\ ResumeSucceeds /\ [Next]_vars => ResumeSucceeds'
    <2> SUFFICES ASSUME IndInv, ResumeSucceeds, [Next]_vars PROVE outcome' # "stuck"
      BY DEF ResumeSucceeds
    <2>1. ASSUME NEW p \in Paths, CreateBackup(p) PROVE outcome' # "stuck"
      <3>1. pc = "next" /\ p \in Operations(run) /\ p \notin journal[run].completed
            /\ backup[run][p] = None
        BY <2>1 DEF CreateBackup, IsNext, Todo
      <3>2. run \in Migrations /\ journal[run] \in Journals /\ journal[run] # None
        BY <3>1, JournalKnown DEF IndInv
      <3>3. Unfinished(run)
        BY <3>1, <3>2 DEF IndInv, Sound, Settled, Unfinished, Journals
      <3>4. Exists(p)
        BY <3>1, <3>2, <3>3 DEF IndInv, Sound, InProgress, Pending
      <3> QED
        BY <2>1, <3>4 DEF CreateBackup, ResumeSucceeds
    <2>2. CASE Install
      <3>1. Target # op /\ Exists(Target) => disk[Target] = Planned
        BY <2>2, AtWork DEF Install, Pending, Target
      <3> QED
        BY <2>2, <3>1 DEF Install, ResumeSucceeds
    <2>3. CASE outcome' = outcome \/ outcome' \in {"refused", "done", "interrupted"}
      BY <2>3 DEF ResumeSucceeds
    <2>4. Next => \/ outcome' = outcome \/ outcome' \in {"refused", "done", "interrupted"}
                  \/ Install \/ \E p \in Paths : CreateBackup(p)
      BY DEF Next, AgentWrites, KeepBackup, Plan, Resume, SaveJournal, WriteBackup, Remove,
             Mark, Finish, Interrupt, End
    <2> QED
      BY <2>1, <2>2, <2>3, <2>4 DEF vars
  <1>3. IndInv /\ ResumeSucceeds => ResumeSucceeds
    OBVIOUS
  <1> QED
    BY <1>1, <1>2, Invariance, PTL DEF Spec

\* A journal is finished only with every operation done, by whichever run
\* (migration.rs:187-196).
THEOREM FinishedMeansDone == ASSUME NoOverlaps PROVE Spec => FinishedInFull
  <1> DEFINE Full(m) == \A p \in Operations(m) :
                           /\ disk[Dest[m][p]] = journal[m].contents[p]
                           /\ Dest[m][p] # p => ~Exists(p)
             Settles == \A m \in Migrations : Unfinished(m) /\ ~Unfinished(m)' => Full(m)
  <1>1. IndInv /\ [Next]_vars => [Settles]_vars
    <2> SUFFICES ASSUME IndInv, Next, NEW m \in Migrations, Unfinished(m), ~Unfinished(m)'
                 PROVE  Full(m)
      OBVIOUS
    <2>1. Next => \/ UNCHANGED journal \/ Finish \/ SaveJournal \/ Mark
      BY DEF Next, AgentWrites, KeepBackup, CreateBackup, Plan, Resume, WriteBackup, Install,
             Remove, Interrupt
    <2>2. CASE UNCHANGED journal
      BY <2>2 DEF Unfinished
    <2>3. CASE SaveJournal
      <3>1. journal' = [journal EXCEPT ![run] =
                          [contents |-> plan, completed |-> {}, finished |-> FALSE]]
        BY <2>3 DEF SaveJournal
      <3>2. journal'[m] # None /\ ~journal'[m].finished
        <4>1. CASE m # run
          BY <3>1, <4>1 DEF Unfinished, IndInv, TypeOK
        <4>2. CASE m = run
          BY <2>3, <4>2 DEF SaveJournal, Unfinished, IndInv, Sound, PlanSound
        <4> QED
          BY <4>1, <4>2
      <3> QED
        BY <3>2 DEF Unfinished
    <2>4. CASE Mark
      <3>1. journal' = [journal EXCEPT ![run] = [journal[run] EXCEPT !.completed = @ \cup {op}]]
        BY <2>4 DEF Mark
      <3>2. run \in Migrations /\ journal[run] \in Journals
        BY <2>4, JournalKnown DEF IndInv, Mark
      <3>3. journal'[run] \in Journals /\ journal'[run].finished = journal[run].finished
        <4>1. op \in Paths
          BY <2>4, AtWork DEF Mark
        <4> QED
          BY <3>1, <3>2, <4>1 DEF IndInv, TypeOK, Journals
      <3>4. journal'[m] # None /\ ~journal'[m].finished
        BY <3>1, <3>2, <3>3, FileAssumptions DEF Unfinished, IndInv, TypeOK
      <3> QED
        BY <3>4 DEF Unfinished
    <2>5. CASE Finish
      <3>1. /\ pc = "next" /\ Operations(run) \subseteq journal[run].completed
        BY <2>5 DEF Finish, Todo
      <3>2. m = run
        BY <3>1 DEF IndInv, Sound, Alone
      <3>3. \A p \in Operations(m) : Done(m, p)
        BY <3>1, <3>2 DEF IndInv, Sound, InProgress
      <3> QED
        BY <3>3 DEF Done
    <2> QED
      BY <2>1, <2>2, <2>3, <2>4, <2>5
  <1>2. FinishedInFull <=> [][Settles]_vars
    BY DEF FinishedInFull
  <1> QED
    BY <1>1, <1>2, Invariance, PTL DEF Spec
-----------------------------------------------------------------------------
(* Backups *)

\* When no run ends between the creation of a backup and its last byte, a
\* backup that is there is that of the source.
LEMMA BackupStep ==
    ASSUME NoOverlaps, ~TornBackups, IndInv, BackupsHold, [Next]_vars
    PROVE  BackupsHold'
  <1> SUFFICES ASSUME Next PROVE BackupsHold'
    BY DEF BackupsHold, Unfinished, Operations, Exists, vars, local
  <1> USE DEF local
  <1>1. ASSUME NEW p \in Paths, AgentWrites(p) PROVE BackupsHold'
    BY <1>1 DEF AgentWrites, NoOverlaps, BackupsHold, Unfinished
  <1>2. ASSUME NEW m \in Migrations, Plan(m) \/ Resume(m) PROVE BackupsHold'
    <2>1. UNCHANGED <<disk, journal, backup>> /\ pc = "idle" /\ pc' # "backup"
      BY <1>2 DEF Plan, Resume, MayBegin
    <2> QED
      BY <2>1 DEF BackupsHold, Unfinished, Operations, Exists
  <1>3. CASE SaveJournal
    <2>1. /\ pc = "planned" /\ pc' = "next" /\ UNCHANGED <<disk, backup>>
          /\ run \in Migrations /\ journal[run] = None
          /\ \A m \in Migrations : m # run => journal'[m] = journal[m]
      BY <1>3 DEF SaveJournal, IndInv, TypeOK, Sound, PlanSound
    <2>2. \A m \in Migrations : Unfinished(m)' => m = run
      BY <2>1 DEF IndInv, Sound, Alone, Unfinished
    <2>3. \A p \in Paths : backup[run][p] = None
      BY <2>1 DEF BackupsHold
    <2>4. \A m \in Migrations : journal'[m] = None => journal[m] = None
      BY <2>1
    <2> QED
      BY <2>1, <2>2, <2>3, <2>4 DEF BackupsHold, Operations
  <1>4. CASE pc' # "backup" /\ pc # "backup" /\ UNCHANGED <<disk, journal, backup>>
    BY <1>4 DEF BackupsHold, Unfinished, Operations, Exists
  <1>5. ASSUME NEW p \in Paths, CreateBackup(p) PROVE BackupsHold'
    <2>1. CASE ~Exists(p)
      BY <1>4, <1>5, <2>1 DEF CreateBackup, End
    <2>2. CASE Exists(p)
      <3>1. /\ pc = "next" /\ pc' = "backup" /\ held' = disk[p] /\ op' = p
            /\ UNCHANGED <<disk, journal, run>>
            /\ backup' = [backup EXCEPT ![run][p] = Torn]
        BY <1>5, <2>2 DEF CreateBackup
      <3>2. run \in Migrations /\ journal[run] # None
        BY <3>1, JournalKnown DEF IndInv
      <3>3. \A m \in Migrations, q \in Paths :
               ~(m = run /\ q = p) => backup'[m][q] = backup[m][q]
        BY <3>1 DEF IndInv, TypeOK
      <3>4. \A m \in Migrations : Unfinished(m) => m = run
        BY <3>1 DEF IndInv, Sound, Alone
      <3> QED
        BY <3>1, <3>2, <3>3, <3>4 DEF BackupsHold, Unfinished, Operations, Exists
    <2> QED
      BY <2>1, <2>2
  <1>6. CASE WriteBackup
    <2>1. /\ pc = "backup" /\ pc' = "install" /\ UNCHANGED <<disk, journal, run, op>>
          /\ backup' = [backup EXCEPT ![run][op] = held] /\ held = disk[op]
      BY <1>6 DEF WriteBackup, BackupsHold
    <2>2. /\ run \in Migrations /\ journal[run] # None /\ op \in Paths
          /\ \A m \in Migrations : Unfinished(m) => m = run
      BY <2>1, AtWork DEF Unfinished
    <2>3. /\ backup'[run][op] = disk[op]
          /\ \A m \in Migrations, q \in Paths :
               ~(m = run /\ q = op) => backup'[m][q] = backup[m][q]
      BY <2>1, <2>2 DEF IndInv, TypeOK
    <2> QED
      BY <2>1, <2>2, <2>3 DEF BackupsHold, Unfinished, Operations, Exists
  <1>7. CASE (Install \/ Remove) /\ disk' # disk
    <2>1. /\ pc \in {"install", "remove"} /\ pc' # "backup"
          /\ UNCHANGED <<journal, backup, run, op>>
      BY <1>7 DEF Install, Remove, End
    <2>2. /\ run \in Migrations /\ \A m \in Migrations : Unfinished(m) => m = run
          /\ NoClash(run, journal[run].contents)
          /\ op \in Operations(run) /\ op \in Paths /\ Target \in Paths
      BY <2>1, AtWork
    <2>3. \A q \in Paths : q # op /\ q # Target => disk'[q] = disk[q]
      BY <1>7, <2>2 DEF Install, Remove, End, IndInv, TypeOK
    <2>4. \A q \in Operations(run) : q # op => q # Target
      BY <2>2, Apart DEF Operations, Target
    <2>5. \/ disk'[op] = disk[op]
          \/ disk'[op] = None
          \/ Dest[run][op] = op /\ disk'[op] = journal[run].contents[op]
      <3>1. CASE Install
        BY <1>7, <2>2, <3>1 DEF Install, End, Target, Planned, IndInv, TypeOK
      <3>2. CASE Remove
        BY <1>7, <2>2, <3>2 DEF Remove, IndInv, TypeOK
      <3> QED
        BY <1>7, <3>1, <3>2
    <2>6. \A m \in Migrations : journal'[m] = None => \A p \in Paths : backup'[m][p] = None
      BY <2>1 DEF BackupsHold
    <2>7. ASSUME NEW q \in Operations(run) \ journal[run].completed,
                 disk'[q] # None, backup[run][q] # None, Unfinished(run)
          PROVE  \/ backup[run][q] = disk'[q]
                 \/ Dest[run][q] = q /\ disk'[q] = journal[run].contents[q]
      <3>1. CASE q = op
        BY <2>1, <2>2, <2>5, <2>7, <3>1 DEF BackupsHold, Exists
      <3>2. CASE q # op
        <4>1. disk'[q] = disk[q]
          BY <2>3, <2>4, <3>2 DEF Operations
        <4> QED
          BY <2>1, <2>2, <2>7, <4>1 DEF BackupsHold, Exists
      <3> QED
        BY <3>1, <3>2
    <2> QED
      BY <2>1, <2>2, <2>6, <2>7 DEF BackupsHold, Unfinished, Operations, Exists
  <1>8. CASE Mark \/ Finish
    <2>1. /\ pc \in {"mark", "next"} /\ pc' # "backup" /\ UNCHANGED <<disk, backup>>
      BY <1>8 DEF Mark, Finish, End
    <2>2. /\ run \in Migrations /\ journal[run] \in Journals /\ journal[run] # None
          /\ pc = "mark" => op \in Paths
      BY <2>1, JournalKnown, AtWork DEF IndInv
    <2>3. \/ /\ journal' = [journal EXCEPT ![run] = [journal[run] EXCEPT !.completed = @ \cup {op}]]
             /\ op \in Paths
          \/ journal' = [journal EXCEPT ![run] = [journal[run] EXCEPT !.finished = TRUE]]
      BY <1>8, <2>2 DEF Mark, Finish
    <2>4. /\ \A m \in Migrations : m # run => journal'[m] = journal[m]
          /\ journal'[run].contents = journal[run].contents
          /\ journal[run].completed \subseteq journal'[run].completed
          /\ ~journal'[run].finished => ~journal[run].finished
          /\ journal'[run] \in Journals
      <3>1. CASE journal' = [journal EXCEPT ![run] =
                               [journal[run] EXCEPT !.completed = @ \cup {op}]] /\ op \in Paths
        BY <2>2, <3>1 DEF IndInv, TypeOK, Journals
      <3>2. CASE journal' = [journal EXCEPT ![run] = [journal[run] EXCEPT !.finished = TRUE]]
        BY <2>2, <3>2 DEF IndInv, TypeOK, Journals
      <3> QED
        BY <2>2, <2>3, <3>1, <3>2
    <2>5. \A m \in Migrations : Unfinished(m)' => m = run /\ Unfinished(run)
      BY <2>1, <2>2, <2>4 DEF IndInv, Sound, Alone, Unfinished
    <2>6. \A m \in Migrations : journal'[m] = None => \A p \in Paths : backup'[m][p] = None
      <3>1. journal'[run] # None
        BY <2>4, FileAssumptions
      <3> QED
        BY <2>1, <2>4, <3>1 DEF BackupsHold
    <2> QED
      BY <2>1, <2>4, <2>5, <2>6 DEF BackupsHold, Operations, Exists
  <1>9. CASE Interrupt
    BY <1>4, <1>9 DEF Interrupt, End
  <1>10. ASSUME NEW p \in Paths, KeepBackup(p) PROVE BackupsHold'
    BY <1>4, <1>10 DEF KeepBackup
  <1>11. CASE (Install \/ Remove) /\ disk' = disk
    BY <1>4, <1>11 DEF Install, Remove, End
  <1> QED
    BY <1>1, <1>2, <1>3, <1>5, <1>6, <1>7, <1>8, <1>9, <1>10, <1>11 DEF Next

\* A file is changed or removed only with its backup made, as long as no run
\* ends inside the write of a backup (migration.rs:509-535); the run
\* MigrationTornBackup shows what happens when one does.
THEOREM ChangedIsBackedUp ==
    ASSUME NoOverlaps, ~TornBackups
    PROVE  Spec => OriginalBackedUp
  <1> DEFINE Changes == \A p \in Paths :
                pc # "idle" /\ Exists(p) /\ disk'[p] # disk[p] => backup[run][p] = disk[p]
  <1>1. Init => BackupsHold
    BY DEF Init, BackupsHold, Unfinished
  <1>2. IndInv /\ BackupsHold /\ [Next]_vars => BackupsHold'
    BY BackupStep
  <1>3. IndInv /\ BackupsHold /\ [Next]_vars => [Changes]_vars
    <2> SUFFICES ASSUME IndInv, BackupsHold, Next,
                        NEW p \in Paths, pc # "idle", Exists(p), disk'[p] # disk[p]
                 PROVE  backup[run][p] = disk[p]
      OBVIOUS
    <2>1. Install \/ Remove
      BY DEF Next, AgentWrites, NoOverlaps, KeepBackup, CreateBackup, Plan, Resume,
             SaveJournal, WriteBackup, Mark, Finish, Interrupt
    <2>2. pc \in {"install", "remove"}
      BY <2>1 DEF Install, Remove
    <2>3. /\ run \in Migrations /\ Unfinished(run) /\ op \in Paths /\ Target \in Paths
          /\ op \in Operations(run) \ journal[run].completed
          /\ Planned = journal[run].contents[op]
          /\ backup[run][op] # None
      BY <2>2, AtWork DEF IndInv, Sound, Stage
    <2>4. p = op /\ (Target = op => disk'[p] = Planned)
      <3>1. CASE Install
        BY <2>3, <3>1 DEF Install, End, Exists, IndInv, TypeOK
      <3>2. CASE Remove
        BY <2>3, <3>2 DEF Remove, IndInv, TypeOK
      <3> QED
        BY <2>1, <3>1, <3>2
    <2>5. \/ backup[run][op] = disk[op]
          \/ Dest[run][op] = op /\ disk[op] = journal[run].contents[op]
      BY <2>2, <2>3, <2>4 DEF BackupsHold
    <2> QED
      BY <2>3, <2>4, <2>5 DEF Target
  <1>4. OriginalBackedUp <=> [][Changes]_vars
    BY DEF OriginalBackedUp
  <1> QED
    BY <1>1, <1>2, <1>3, <1>4, Invariance, PTL DEF Spec
=============================================================================
