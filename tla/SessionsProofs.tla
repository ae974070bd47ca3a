---------------------------- MODULE SessionsProofs ----------------------------
(***************************************************************************)
(* Proofs about Sessions, for any number of sessions and observations and  *)
(* for transcripts of any length.                                          *)
(***************************************************************************)
EXTENDS Sessions, TLAPS

\* The types, with what ties a deletion to its session and to its rebuild,
\* and a rebuild of the daemon to its life.
Types ==
    /\ TypeOK
    /\ del.pc # "idle" => del.session \in SessionIds
    /\ job["delete"].pc # "idle" => del.pc = "rows"
    /\ daemon = "down" => job["daemon"].pc = "idle"

LEMMA IdleTyped == Idle \in Jobs /\ NoDocs \in [SessionIds -> Documents]
  BY DEF Idle, Jobs, NoDocs, NoDoc, NoLengths, Documents

LEMMA StepTyped ==
    ASSUME Types, NEW p \in Processes, NEW next \in Jobs, Step(p, next)
    PROVE  /\ job' \in [Processes -> Jobs]
           /\ job'[p] = next
           /\ \A q \in Processes \ {p} : job'[q] = job[q]
  BY DEF Types, TypeOK, Owned, Step

\* A step of a rebuild that leaves the database alone.
LEMMA StepInside ==
    ASSUME Types, NEW p \in Processes, NEW next \in Jobs, Step(p, next),
           next.pc \in {"replace", "commit"} => p \in owner,
           p \in owner => next.pc \in {"list", "replace", "commit"},
           job[p].pc # "idle",
           UNCHANGED <<owner, del, daemon>>
    PROVE  /\ job' \in [Processes -> Jobs]
           /\ Owned'
           /\ del'.pc # "idle" => del'.session \in SessionIds
           /\ job'["delete"].pc # "idle" => del'.pc = "rows"
           /\ daemon' = "down" => job'["daemon"].pc = "idle"
  <1>1. /\ job' \in [Processes -> Jobs]
        /\ job'[p] = next
        /\ \A q \in Processes \ {p} : job'[q] = job[q]
    BY StepTyped
  <1> QED
    BY <1>1 DEF Types, TypeOK, Owned, Processes

LEMMA EndTyped ==
    ASSUME Types, NEW p \in Processes, NEW success \in BOOLEAN, job[p].pc # "idle",
           Ended(p, success)
    PROVE  /\ job' \in [Processes -> Jobs]
           /\ Owned'
           /\ del'.pc # "idle" => del'.session \in SessionIds
           /\ job'["delete"].pc # "idle" => del'.pc = "rows"
           /\ daemon' = "down" => job'["daemon"].pc = "idle"
           /\ del' \in [pc : {"idle", "spool", "document", "registry", "rows"},
                        session : SessionIds \cup {NoSession}]
           /\ gone' \subseteq SessionIds
           /\ daemon' \in {"down", "starting", "serving"}
  <1>1. /\ job' \in [Processes -> Jobs]
        /\ job'[p] = Idle
        /\ \A q \in Processes \ {p} : job'[q] = job[q]
    BY StepTyped, IdleTyped DEF Ended
  <1>2. Owned'
    BY <1>1 DEF Ended, Types, TypeOK, Owned, Idle
  <1>3. CASE p = "delete"
    BY <1>1, <1>2, <1>3 DEF Ended, Types, TypeOK, Owned, Idle, Processes
  <1>4. CASE p # "delete"
    BY <1>1, <1>2, <1>4 DEF Ended, Types, TypeOK, Owned, Processes, Idle
  <1> QED
    BY <1>3, <1>4

LEMMA TypesInit == Init => Types
  BY SessionsAssumptions, IdleTyped
     DEF Init, Types, TypeOK, Owned, Idle, NoDocs, NoDoc, NoLengths, Documents, Processes

\* What a new rebuild starts from.
LEMMA BeginTyped ==
    ASSUME Types, NEW p \in Processes, job[p].pc = "idle",
           NEW pc \in {"read", "list"}, NEW kind \in {"sessions", "observed", "rows"},
           Step(p, [Idle EXCEPT !.pc = pc, !.kind = kind]),
           UNCHANGED owner
    PROVE  /\ job' \in [Processes -> Jobs]
           /\ Owned'
           /\ \A q \in Processes \ {p} : job'[q] = job[q]
  <1> DEFINE next == [Idle EXCEPT !.pc = pc, !.kind = kind]
  <1>1. next \in Jobs /\ next.pc = pc
    BY IdleTyped DEF Jobs, Idle
  <1> HIDE DEF next
  <1>2. Step(p, next)
    BY DEF next
  <1>3. /\ job' \in [Processes -> Jobs]
        /\ job'[p] = next
        /\ \A q \in Processes \ {p} : job'[q] = job[q]
    BY <1>1, <1>2, StepTyped
  <1> QED
    BY <1>1, <1>3 DEF Types, TypeOK, Owned, Processes

LEMMA JobTypes ==
    ASSUME Types, NEW p \in Processes, Job(p)
    PROVE  Types'
  <1> USE DEF hooks, files, database
  <1>j. job \in [Processes -> Jobs] /\ job[p] \in Jobs
    BY DEF Types, TypeOK, Owned
  <1>1. CASE JobRead(p)
    <2> DEFINE kept == {o \in stored : SessionOf[o] \notin registry}
               left == {SessionOf[o] : o \in kept}
               next == [job[p] EXCEPT !.pc = "observed", !.obs = kept, !.left = left]
    <2>k. kept \in SUBSET Ids
      BY DEF Types, TypeOK, Owned
    <2>l. left \in SUBSET SessionIds
      BY <2>k, SessionsAssumptions
    <2> HIDE DEF kept, left
    <2>1. next \in Jobs /\ next.pc = "observed"
      BY <1>j, <2>k, <2>l DEF Jobs
    <2>2. Step(p, next) /\ job[p].pc = "read" /\ UNCHANGED <<owner, del, daemon>>
      BY <1>1 DEF JobRead, kept, left
    <2> HIDE DEF next
    <2> QED
      BY <1>1, <2>1, <2>2, StepInside DEF JobRead, Types, TypeOK, Owned
  <1>2. CASE Discover(p)
    <2> DEFINE next == IF job[p].kind = "observed" THEN [job[p] EXCEPT !.pc = "list"]
                       ELSE [job[p] EXCEPT !.pc = "native", !.refs = length,
                                           !.left = {s \in SessionIds : length[s] > 0}]
    <2>1. next \in Jobs /\ next.pc \in {"list", "native"}
      BY <1>j DEF Jobs, Types, TypeOK, Owned
    <2>2. Step(p, next) /\ job[p].pc = "observed" /\ UNCHANGED <<owner, del, daemon>>
      BY <1>2 DEF Discover
    <2> HIDE DEF next
    <2> QED
      BY <1>2, <2>1, <2>2, StepInside DEF Discover, Types, TypeOK, Owned
  <1>3. CASE SaveCheckpoints(p)
    <2> DEFINE next == [job[p] EXCEPT !.pc = "list"]
    <2>1. next \in Jobs /\ next.pc = "list"
      BY <1>j DEF Jobs
    <2>2. Step(p, next) /\ job[p].pc = "native" /\ UNCHANGED <<owner, del, daemon>>
      BY <1>3 DEF SaveCheckpoints
    <2>3. checkpoints' \in [SessionIds -> Nat]
      BY <1>3, <1>j DEF SaveCheckpoints, Jobs
    <2> HIDE DEF next
    <2> QED
      BY <1>3, <2>1, <2>2, <2>3, StepInside DEF SaveCheckpoints, Types, TypeOK, Owned
  <1>4. CASE JobList(p)
    <2> DEFINE next == [Idle EXCEPT !.pc = IF p \in owner THEN "replace" ELSE "open",
                                    !.kind = job[p].kind, !.list = doc]
    <2>1. next \in Jobs /\ next.pc = (IF p \in owner THEN "replace" ELSE "open")
      BY <1>j, IdleTyped DEF Jobs, Idle, Types, TypeOK, Owned
    <2>2. Step(p, next) /\ job[p].pc = "list" /\ UNCHANGED <<owner, del, daemon>>
      BY <1>4 DEF JobList
    <2> HIDE DEF next
    <2> QED
      BY <1>4, <2>1, <2>2, StepInside DEF JobList, Types, TypeOK, Owned
  <1>5. CASE JobOpen(p)
    <2> DEFINE next == [job[p] EXCEPT !.pc = "replace"]
    <2>1. next \in Jobs /\ next.pc = "replace"
      BY <1>j DEF Jobs
    <2>2. CASE job[p].pc = "open" /\ Step(p, next)
      <3> HIDE DEF next
      <3>1. /\ job' \in [Processes -> Jobs]
            /\ job'[p] = next
            /\ \A q \in Processes \ {p} : job'[q] = job[q]
        BY <2>1, <2>2, StepTyped
      <3>2. Owned'
        BY <1>5, <2>1, <3>1 DEF JobOpen, Types, TypeOK, Owned
      <3> QED
        BY <1>5, <2>1, <2>2, <3>1, <3>2 DEF JobOpen, Types, TypeOK, Processes
    <2>3. CASE job[p].pc = "list" /\ UNCHANGED job
      <3>1. Owned'
        BY <1>5, <2>3 DEF JobOpen, Types, TypeOK, Owned
      <3> QED
        BY <1>5, <2>3, <3>1 DEF JobOpen, Types, TypeOK
    <2> QED
      BY <1>5, <2>2, <2>3 DEF JobOpen
  <1>6. CASE Replace(p)
    <2> DEFINE next == [job[p] EXCEPT !.pc = "commit"]
    <2>1. next \in Jobs /\ next.pc = "commit"
      BY <1>j DEF Jobs
    <2>2. Step(p, next) /\ job[p].pc = "replace" /\ UNCHANGED <<owner, del, daemon>>
      BY <1>6 DEF Replace
    <2> HIDE DEF next
    <2> QED
      BY <1>6, <2>1, <2>2, StepInside DEF Replace, Types, TypeOK, Owned
  <1>7. CASE Commit(p)
    <2>1. rows' \in [SessionIds -> Documents] /\ mark' \subseteq (SessionIds \X SUBSET Ids)
      BY <1>7, <1>j DEF Commit, Watermark, Jobs, Documents
    <2>2. job[p].pc # "idle" /\ Ended(p, TRUE)
      BY <1>7 DEF Commit
    <2> QED
      BY <1>7, <2>1, <2>2, EndTyped DEF Commit, Types, TypeOK, Owned
  <1>8. CASE JobFails(p)
    <2>1. job[p].pc # "idle" /\ Ended(p, FALSE)
      BY <1>8 DEF JobFails
    <2> QED
      BY <1>8, <2>1, EndTyped DEF JobFails, Types, TypeOK, Owned
  <1>9. CASE Killed(p)
    <2>1. Step(p, Idle)
      BY <1>9 DEF Killed
    <2>2. /\ job' \in [Processes -> Jobs]
          /\ job'[p] = Idle
          /\ \A q \in Processes \ {p} : job'[q] = job[q]
      BY <2>1, IdleTyped, StepTyped
    <2>3. Owned'
      BY <1>9, <2>2 DEF Killed, Types, TypeOK, Owned, Idle
    <2> QED
      BY <1>9, <2>2, <2>3 DEF Killed, Types, TypeOK, Owned, Idle, Processes
  <1>10. ASSUME NEW s \in SessionIds, WriteObserved(p, s)
         PROVE  Types'
    <2> DEFINE next == [job[p] EXCEPT !.left = @ \ {s}]
    <2>1. next \in Jobs /\ next.pc = "observed"
      BY <1>10, <1>j DEF Jobs, WriteObserved
    <2>2. Step(p, next) /\ job[p].pc = "observed" /\ UNCHANGED <<owner, del, daemon>>
      BY <1>10 DEF WriteObserved
    <2>3. doc' \in [SessionIds -> Documents]
      BY <1>10, <1>j DEF WriteObserved, Types, TypeOK, Owned, Documents, Of
    <2> HIDE DEF next
    <2> QED
      BY <1>10, <2>1, <2>2, <2>3, StepInside DEF WriteObserved, Types, TypeOK, Owned
  <1>11. ASSUME NEW s \in SessionIds, MergeNative(p, s)
         PROVE  Types'
    <2> DEFINE skipped == [job[p] EXCEPT !.left = @ \ {s}]
               merged  == [job[p] EXCEPT !.left = @ \ {s}, !.done = @ \cup {s}]
    <2>1. /\ skipped \in Jobs /\ skipped.pc = "native"
          /\ merged \in Jobs /\ merged.pc = "native"
      BY <1>11, <1>j DEF Jobs, MergeNative
    <2>2. /\ Step(p, skipped) \/ Step(p, merged)
          /\ job[p].pc = "native" /\ UNCHANGED <<owner, del, daemon>>
      BY <1>11 DEF MergeNative
    <2>3. doc' \in [SessionIds -> Documents]
      <3>1. /\ doc \in [SessionIds -> Documents] /\ doc[s] \in Documents
            /\ length[s] \in Nat
        BY DEF Types, TypeOK, Owned
      <3>2. [doc[s] EXCEPT !.native = length[s]] \in Documents
        BY <3>1 DEF Documents
      <3>3. doc' = doc \/ doc' = [doc EXCEPT ![s] = [doc[s] EXCEPT !.native = length[s]]]
        BY <1>11 DEF MergeNative
      <3> QED
        BY <3>1, <3>2, <3>3
    <2> HIDE DEF skipped, merged
    <2> QED
      BY <1>11, <2>1, <2>2, <2>3, StepInside DEF MergeNative, Types, TypeOK, Owned
  <1> QED
    BY <1>1, <1>2, <1>3, <1>4, <1>5, <1>6, <1>7, <1>8, <1>9, <1>10, <1>11 DEF Job

LEMMA TypesStep == Types /\ [Next]_vars => Types'
  <1> SUFFICES ASSUME Types, [Next]_vars
               PROVE  Types'
    OBVIOUS
  <1> USE DEF hooks, files, database
  <1>1. CASE UNCHANGED vars
    BY <1>1 DEF vars, Types, TypeOK, Owned
  <1>2. ASSUME NEW o \in Ids, HookCheck(o)
        PROVE  Types'
    BY <1>2 DEF HookCheck, Types, TypeOK, Owned
  <1>3. CASE HookSend \/ HookSpool
    BY <1>3 DEF HookSend, HookSpool, Types, TypeOK, Owned
  <1>4. ASSUME NEW s \in Native, AgentWrites(s)
        PROVE  Types'
    <2>1. length' \in [SessionIds -> Nat]
      BY <1>4, SessionsAssumptions DEF AgentWrites, Types, TypeOK, Owned
    <2> QED
      BY <1>4, <2>1 DEF AgentWrites, Types, TypeOK, Owned
  <1>5. CASE DaemonStart
    <2>1. job["daemon"].pc = "idle"
      BY <1>5 DEF DaemonStart, Types
    <2> QED
      BY <1>5, <2>1, BeginTyped DEF DaemonStart, Step, Types, TypeOK, Owned, Processes
  <1>6. ASSUME NEW kind \in {"observed", "rows"}, DaemonRebuilds(kind)
        PROVE  Types'
    <2>1. PICK pc \in {"read", "list"} :
            Step("daemon", [Idle EXCEPT !.pc = pc, !.kind = kind])
      BY <1>6 DEF DaemonRebuilds, Step
    <2>2. job["daemon"].pc = "idle" /\ UNCHANGED owner
      BY <1>6 DEF DaemonRebuilds
    <2>3. /\ job' \in [Processes -> Jobs]
          /\ Owned'
          /\ job'["delete"] = job["delete"]
      BY <2>1, <2>2, BeginTyped DEF Processes
    <2> QED
      BY <1>6, <2>3 DEF DaemonRebuilds, Types, TypeOK, Owned
  <1>7. ASSUME NEW kind \in {"sessions", "rows"}, CliRebuilds(kind)
        PROVE  Types'
    <2>1. PICK pc \in {"read", "list"} :
            Step("cli", [Idle EXCEPT !.pc = pc, !.kind = kind])
      BY <1>7 DEF CliRebuilds, Step
    <2>2. job["cli"].pc = "idle" /\ UNCHANGED owner
      BY <1>7 DEF CliRebuilds
    <2>3. /\ job' \in [Processes -> Jobs]
          /\ Owned'
          /\ job'["delete"] = job["delete"] /\ job'["daemon"] = job["daemon"]
      BY <2>1, <2>2, BeginTyped DEF Processes
    <2> QED
      BY <1>7, <2>3 DEF CliRebuilds, Types, TypeOK, Owned
  <1>8. ASSUME NEW p \in Processes, Job(p)
        PROVE  Types'
    BY <1>8, JobTypes
  <1>9. ASSUME NEW s \in SessionIds, DeleteSegments(s)
        PROVE  Types'
    <2>1. job["delete"].pc = "idle"
      BY <1>9 DEF DeleteSegments, Types
    <2> QED
      BY <1>9, <2>1 DEF DeleteSegments, Types, TypeOK, Owned
  <1>10. CASE DeleteSpooled \/ DeleteStops
    BY <1>10 DEF DeleteSpooled, DeleteStops, Types, TypeOK, Owned
  <1>11. CASE DeleteDocument
    BY <1>11, IdleTyped DEF DeleteDocument, Types, TypeOK, Owned, NoDocs
  <1>12. CASE DeleteRegisters
    <2>1. job["delete"].pc = "idle" /\ UNCHANGED owner
      BY <1>12 DEF DeleteRegisters, Types
    <2>2. /\ job' \in [Processes -> Jobs]
          /\ Owned'
          /\ job'["daemon"] = job["daemon"]
      BY <1>12, <2>1, BeginTyped DEF DeleteRegisters, Step, Processes
    <2> QED
      BY <1>12, <2>2 DEF DeleteRegisters, Types, TypeOK, Owned
  <1> QED
    BY <1>1, <1>2, <1>3, <1>4, <1>5, <1>6, <1>7, <1>8, <1>9, <1>10, <1>11, <1>12 DEF Next, Delete

\* The types, for every instance.
THEOREM SessionsTypes == Spec => []TypeOK
  <1>1. Types => TypeOK
    BY DEF Types
  <1> QED
    BY <1>1, TypesInit, TypesStep, PTL DEF Spec
-----------------------------------------------------------------------------
(***************************************************************************)
(* A deleted session stays hidden.  Its document is removed before it is   *)
(* registered, and no rebuild is in progress in between, so a registered   *)
(* session has no document; a rebuild that begins later neither keeps its  *)
(* observations nor merges its transcript, so it never lists it either.    *)
(***************************************************************************)
Quiet == del.pc \in {"spool", "document", "registry"} => \A p \in Processes : job[p].pc = "idle"

Hidden ==
    /\ \A p \in Processes : job[p].pc = "idle" => job[p] = Idle
    /\ gone \subseteq registry
    /\ \A s \in registry : doc[s] = NoDoc
    /\ \A s \in gone : rows[s] = NoDoc
    /\ \A p \in Processes : \A s \in registry :
          job[p].list[s] = NoDoc /\ (job[p].pc = "observed" => s \notin job[p].left)
    /\ del.pc = "registry" => doc[del.session] = NoDoc
    /\ del.pc = "rows" => del.session \in registry
    /\ Quiet

LEMMA HiddenInit == Init => Hidden
  BY DEF Init, Hidden, Quiet, NoDocs

\* A step that begins a rebuild while no deletion is in progress.
LEMMA BeginHidden ==
    ASSUME Types, Hidden, Overlaps = {}, NEW p \in Processes, job[p].pc = "idle", NoDeletion,
           NEW pc \in {"read", "list"}, NEW kind \in {"sessions", "observed", "rows"},
           Step(p, [Idle EXCEPT !.pc = pc, !.kind = kind]),
           UNCHANGED <<gone, registry, doc, rows, del>>
    PROVE  Hidden'
  <1> DEFINE next == [Idle EXCEPT !.pc = pc, !.kind = kind]
  <1>1. next \in Jobs /\ next.pc = pc /\ next.list = NoDocs
    BY IdleTyped DEF Jobs, Idle
  <1> HIDE DEF next
  <1>2. Step(p, next)
    BY DEF next
  <1>3. /\ job' \in [Processes -> Jobs]
        /\ job'[p] = next
        /\ \A q \in Processes \ {p} : job'[q] = job[q]
    BY <1>1, <1>2, StepTyped
  <1>4. \A s \in registry : NoDocs[s] = NoDoc
    BY DEF NoDocs, Types, TypeOK, Owned
  <1> QED
    BY <1>1, <1>3, <1>4 DEF Hidden, Quiet, NoDeletion

\* A step of a rebuild that keeps what was listed.
LEMMA InsideHidden ==
    ASSUME Types, Hidden, NEW p \in Processes, NEW next \in Jobs, Step(p, next),
           job[p].pc # "idle", next.pc # "idle",
           \A s \in registry : next.list[s] = NoDoc,
           \A s \in registry : next.pc = "observed" => s \notin next.left,
           \A s \in registry : doc'[s] = NoDoc,
           UNCHANGED <<gone, registry, rows, del>>
    PROVE  Hidden'
  <1>1. /\ job' \in [Processes -> Jobs]
        /\ job'[p] = next
        /\ \A q \in Processes \ {p} : job'[q] = job[q]
    BY StepTyped
  <1>2. del.pc \notin {"spool", "document", "registry"}
    BY DEF Hidden, Quiet, Idle
  <1> QED
    BY <1>1, <1>2 DEF Hidden, Quiet

LEMMA EndHidden ==
    ASSUME Types, Hidden, NEW p \in Processes, NEW success \in BOOLEAN, job[p].pc # "idle",
           Ended(p, success), UNCHANGED <<registry, doc>>,
           rows' = rows \/ rows' = job[p].list,
           p = "delete" /\ success => rows' = job[p].list
    PROVE  Hidden'
  <1>1. /\ job' \in [Processes -> Jobs]
        /\ job'[p] = Idle
        /\ \A q \in Processes \ {p} : job'[q] = job[q]
    BY StepTyped, IdleTyped DEF Ended
  <1>2. del.pc \notin {"spool", "document", "registry"}
    BY DEF Hidden, Quiet, Idle
  <1>3. \A s \in registry : NoDocs[s] = NoDoc
    BY DEF NoDocs, Types, TypeOK, Owned
  <1>4. CASE p = "delete"
    <2>1. del.session \in registry /\ del' = [pc |-> "idle", session |-> NoSession]
      BY <1>4 DEF Ended, Hidden, Types
    <2>2. gone' \subseteq registry /\ \A s \in gone' : rows'[s] = NoDoc
      BY <1>4, <2>1 DEF Ended, Hidden
    <2> QED
      BY <1>1, <1>3, <2>1, <2>2 DEF Hidden, Quiet, Idle
  <1>5. CASE p # "delete"
    BY <1>1, <1>2, <1>3, <1>5 DEF Ended, Hidden, Quiet, Idle
  <1> QED
    BY <1>4, <1>5

LEMMA JobHidden ==
    ASSUME Types, Hidden, NEW p \in Processes, Job(p)
    PROVE  Hidden'
  <1> USE DEF hooks, files, database
  <1>j. job \in [Processes -> Jobs] /\ job[p] \in Jobs
    BY DEF Types, TypeOK, Owned
  <1>h. \A s \in registry : /\ doc[s] = NoDoc
                            /\ job[p].list[s] = NoDoc
                            /\ job[p].pc = "observed" => s \notin job[p].left
    BY DEF Hidden
  <1>1. CASE JobRead(p)
    <2> DEFINE kept == {o \in stored : SessionOf[o] \notin registry}
               left == {SessionOf[o] : o \in kept}
               next == [job[p] EXCEPT !.pc = "observed", !.obs = kept, !.left = left]
    <2>k. kept \in SUBSET Ids
      BY DEF Types, TypeOK, Owned
    <2>l. left \in SUBSET SessionIds /\ \A s \in registry : s \notin left
      BY <2>k, SessionsAssumptions
    <2> HIDE DEF kept, left
    <2>1. next \in Jobs /\ next.pc = "observed" /\ next.left = left /\ next.list = job[p].list
      BY <1>j, <2>k, <2>l DEF Jobs
    <2>2. Step(p, next) /\ job[p].pc # "idle" /\ UNCHANGED <<doc, gone, registry, rows, del>>
      BY <1>1 DEF JobRead, kept, left
    <2> HIDE DEF next
    <2> QED
      BY <1>h, <2>l, <2>1, <2>2, InsideHidden
  <1>2. CASE Discover(p)
    <2> DEFINE next == IF job[p].kind = "observed" THEN [job[p] EXCEPT !.pc = "list"]
                       ELSE [job[p] EXCEPT !.pc = "native", !.refs = length,
                                           !.left = {s \in SessionIds : length[s] > 0}]
    <2>1. next \in Jobs /\ next.pc \in {"list", "native"} /\ next.list = job[p].list
      BY <1>j DEF Jobs, Types, TypeOK, Owned
    <2>2. Step(p, next) /\ job[p].pc # "idle" /\ UNCHANGED <<doc, gone, registry, rows, del>>
      BY <1>2 DEF Discover
    <2> HIDE DEF next
    <2> QED
      BY <1>h, <2>1, <2>2, InsideHidden
  <1>3. CASE SaveCheckpoints(p)
    <2> DEFINE next == [job[p] EXCEPT !.pc = "list"]
    <2>1. next \in Jobs /\ next.pc = "list" /\ next.list = job[p].list
      BY <1>j DEF Jobs
    <2>2. Step(p, next) /\ job[p].pc # "idle" /\ UNCHANGED <<doc, gone, registry, rows, del>>
      BY <1>3 DEF SaveCheckpoints
    <2> HIDE DEF next
    <2> QED
      BY <1>h, <2>1, <2>2, InsideHidden
  <1>4. CASE JobList(p)
    <2> DEFINE next == [Idle EXCEPT !.pc = IF p \in owner THEN "replace" ELSE "open",
                                    !.kind = job[p].kind, !.list = doc]
    <2>1. next \in Jobs /\ next.pc = (IF p \in owner THEN "replace" ELSE "open") /\ next.list = doc
      BY <1>j, IdleTyped DEF Jobs, Idle, Types, TypeOK, Owned
    <2>2. Step(p, next) /\ job[p].pc # "idle" /\ UNCHANGED <<doc, gone, registry, rows, del>>
      BY <1>4 DEF JobList
    <2> HIDE DEF next
    <2> QED
      BY <1>h, <2>1, <2>2, InsideHidden
  <1>5. CASE JobOpen(p) \/ Replace(p)
    <2>1. CASE UNCHANGED job
      BY <1>5, <2>1 DEF JobOpen, Replace, Hidden, Quiet
    <2>2. ASSUME NEW pc \in {"replace", "commit"}, Step(p, [job[p] EXCEPT !.pc = pc])
          PROVE  Hidden'
      <3> DEFINE next == [job[p] EXCEPT !.pc = pc]
      <3>1. next \in Jobs /\ next.pc = pc /\ next.list = job[p].list
        BY <1>j DEF Jobs
      <3>2. job[p].pc # "idle" /\ UNCHANGED <<doc, gone, registry, rows, del>>
        BY <1>5 DEF JobOpen, Replace
      <3>3. Step(p, next)
        BY <2>2
      <3> HIDE DEF next
      <3> QED
        BY <1>h, <3>1, <3>2, <3>3, InsideHidden
    <2> QED
      BY <1>5, <2>1, <2>2 DEF JobOpen, Replace
  <1>6. CASE Commit(p)
    BY <1>6, EndHidden DEF Commit
  <1>7. CASE JobFails(p)
    BY <1>7, EndHidden DEF JobFails
  <1>8. CASE Killed(p)
    <2>1. /\ job' \in [Processes -> Jobs]
          /\ job'[p] = Idle
          /\ \A q \in Processes \ {p} : job'[q] = job[q]
      BY <1>8, StepTyped, IdleTyped DEF Killed
    <2>2. \A s \in registry : NoDocs[s] = NoDoc
      BY DEF NoDocs, Types, TypeOK, Owned
    <2>3. Quiet'
      BY <1>8, <2>1 DEF Killed, Hidden, Quiet
    <2> QED
      BY <1>8, <2>1, <2>2, <2>3 DEF Killed, Hidden, Idle
  <1>9. ASSUME NEW s \in SessionIds, WriteObserved(p, s)
        PROVE  Hidden'
    <2> DEFINE next == [job[p] EXCEPT !.left = @ \ {s}]
    <2>1. next \in Jobs /\ next.pc = job[p].pc /\ next.left \subseteq job[p].left /\ next.list = job[p].list
      BY <1>j DEF Jobs
    <2>2. Step(p, next) /\ job[p].pc = "observed" /\ UNCHANGED <<gone, registry, rows, del>>
      BY <1>9 DEF WriteObserved
    <2>3. \A t \in registry : doc'[t] = NoDoc
      BY <1>9, <1>h DEF WriteObserved, Types, TypeOK, Owned
    <2> HIDE DEF next
    <2> QED
      BY <1>h, <2>1, <2>2, <2>3, InsideHidden
  <1>10. ASSUME NEW s \in SessionIds, MergeNative(p, s)
         PROVE  Hidden'
    <2> DEFINE skipped == [job[p] EXCEPT !.left = @ \ {s}]
               merged  == [job[p] EXCEPT !.left = @ \ {s}, !.done = @ \cup {s}]
    <2>1. /\ skipped \in Jobs /\ skipped.pc = "native" /\ skipped.list = job[p].list
          /\ merged \in Jobs /\ merged.pc = "native" /\ merged.list = job[p].list
      BY <1>10, <1>j DEF Jobs, MergeNative
    <2>2. /\ Step(p, skipped) \/ Step(p, merged)
          /\ job[p].pc # "idle" /\ UNCHANGED <<gone, registry, rows, del>>
      BY <1>10 DEF MergeNative
    <2>3. \A t \in registry : doc'[t] = NoDoc
      BY <1>10, <1>h DEF MergeNative, Types, TypeOK, Owned
    <2> HIDE DEF skipped, merged
    <2> QED
      BY <1>h, <2>1, <2>2, <2>3, InsideHidden
  <1> QED
    BY <1>1, <1>2, <1>3, <1>4, <1>5, <1>6, <1>7, <1>8, <1>9, <1>10 DEF Job

LEMMA HiddenStep ==
    ASSUME Overlaps = {}, Types, Hidden, [Next]_vars
    PROVE  Hidden'
  <1> USE DEF hooks, files, database
  <1>1. CASE UNCHANGED vars
    BY <1>1 DEF vars, Hidden, Quiet
  <1>2. CASE (\E o \in Ids : HookCheck(o)) \/ HookSend \/ HookSpool
              \/ \E s \in Native : AgentWrites(s)
    BY <1>2 DEF HookCheck, HookSend, HookSpool, AgentWrites, Hidden, Quiet
  <1>3. CASE DaemonStart
    BY <1>3, BeginHidden DEF DaemonStart, Step, Types, Processes
  <1>4. ASSUME NEW kind \in {"observed", "rows"}, DaemonRebuilds(kind)
        PROVE  Hidden'
    <2>1. PICK pc \in {"read", "list"} :
            Step("daemon", [Idle EXCEPT !.pc = pc, !.kind = kind])
      BY <1>4 DEF DaemonRebuilds, Step
    <2> QED
      BY <1>4, <2>1, BeginHidden DEF DaemonRebuilds, Processes
  <1>5. ASSUME NEW kind \in {"sessions", "rows"}, CliRebuilds(kind)
        PROVE  Hidden'
    <2>1. PICK pc \in {"read", "list"} :
            Step("cli", [Idle EXCEPT !.pc = pc, !.kind = kind])
      BY <1>5 DEF CliRebuilds, Step
    <2> QED
      BY <1>5, <2>1, BeginHidden DEF CliRebuilds, Processes
  <1>6. ASSUME NEW p \in Processes, Job(p)
        PROVE  Hidden'
    BY <1>6, JobHidden
  <1>7. ASSUME NEW s \in SessionIds, DeleteSegments(s)
        PROVE  Hidden'
    <2>1. \A p \in Processes : job[p].pc = "idle"
      BY <1>7 DEF DeleteSegments
    <2> QED
      BY <1>7, <2>1 DEF DeleteSegments, Hidden, Quiet
  <1>8. CASE DeleteSpooled \/ DeleteStops
    BY <1>8 DEF DeleteSpooled, DeleteStops, Hidden, Quiet, Types, TypeOK, Owned
  <1>9. CASE DeleteDocument
    BY <1>9 DEF DeleteDocument, Hidden, Quiet, Types, TypeOK, Owned
  <1>10. CASE DeleteRegisters
    <2> DEFINE next == [Idle EXCEPT !.pc = "list", !.kind = "rows"]
    <2>1. next \in Jobs /\ next.pc = "list" /\ next.list = NoDocs
      BY IdleTyped DEF Jobs, Idle
    <2> HIDE DEF next
    <2>2. Step("delete", next)
      BY <1>10 DEF DeleteRegisters, Step, next
    <2>3. /\ job'["delete"] = next
          /\ \A q \in Processes \ {"delete"} : job'[q] = job[q]
      BY <2>1, <2>2, StepTyped DEF Processes
    <2>4. \A q \in Processes : job[q] = Idle
      BY <1>10 DEF DeleteRegisters, Hidden, Quiet
    <2>5. \A q \in Processes : job'[q].list = NoDocs /\ job'[q].pc # "observed"
      BY <2>1, <2>3, <2>4 DEF Idle
    <2>6. del.session \in SessionIds /\ doc[del.session] = NoDoc
      BY <1>10 DEF DeleteRegisters, Hidden, Types
    <2>7. \A s \in SessionIds : NoDocs[s] = NoDoc
      BY DEF NoDocs
    <2>8. registry' = registry \cup {del.session} /\ registry' \subseteq SessionIds
      BY <1>10, <2>6 DEF DeleteRegisters, Types, TypeOK, Owned
    <2>9. \A q \in Processes : job'[q].pc = "idle" => job'[q] = Idle
      BY <2>1, <2>3, <2>4
    <2>10. UNCHANGED <<doc, rows, gone>> /\ del'.pc = "rows" /\ del'.session = del.session
      BY <1>10 DEF DeleteRegisters, Types, TypeOK, Owned
    <2> QED
      BY <2>5, <2>6, <2>7, <2>8, <2>9, <2>10 DEF Hidden, Quiet
  <1> QED
    BY <1>1, <1>2, <1>3, <1>4, <1>5, <1>6, <1>7, <1>8, <1>9, <1>10 DEF Next, Delete

\* A session whose deletion has succeeded has no document and no row again,
\* if no rebuild begins or is under way during a deletion.
THEOREM DeletionIsFinal ==
    ASSUME Overlaps = {}
    PROVE  Spec => []DeletedHidden
  <1>1. Init => Types /\ Hidden
    BY TypesInit, HiddenInit
  <1>2. Types /\ Hidden /\ [Next]_vars => (Types /\ Hidden)'
    BY TypesStep, HiddenStep
  <1>3. Types /\ Hidden => DeletedHidden
    BY DEF Hidden, DeletedHidden
  <1> QED
    BY <1>1, <1>2, <1>3, PTL DEF Spec
-----------------------------------------------------------------------------
(* The rows and their watermark *)

\* The committed watermark is that of the committed rows, at every moment.
THEOREM WatermarkOfRows == Spec => []RowsMatchWatermark
  <1> USE DEF hooks, files, database
  <1>1. Init => RowsMatchWatermark
    <2>1. SUFFICES ASSUME Init
                   PROVE  {<<s, rows[s].obs>> : s \in {t \in SessionIds : rows[t] # NoDoc}} = {}
      BY DEF RowsMatchWatermark, Watermark, Init
    <2>2. \A s \in SessionIds : rows[s] = NoDoc
      BY <2>1 DEF Init, NoDocs
    <2> QED
      BY <2>2
  <1>2. RowsMatchWatermark /\ [Next]_vars => RowsMatchWatermark'
    <2> SUFFICES ASSUME RowsMatchWatermark, [Next]_vars
                 PROVE  RowsMatchWatermark'
      OBVIOUS
    <2>1. CASE \E p \in Processes : Commit(p)
      BY <2>1 DEF Commit, RowsMatchWatermark
    <2>2. CASE UNCHANGED <<rows, mark>>
      BY <2>2 DEF RowsMatchWatermark, Watermark
    <2>3. (\E p \in Processes : Commit(p)) \/ UNCHANGED <<rows, mark>>
      BY DEF Next, Job, Delete, vars, HookCheck, HookSend, HookSpool, AgentWrites, DaemonStart,
             DaemonRebuilds, CliRebuilds, JobRead, WriteObserved, Discover, MergeNative,
             SaveCheckpoints, JobList, JobOpen, Replace, JobFails, Killed,
             DeleteSegments, DeleteSpooled, DeleteDocument, DeleteRegisters, DeleteStops
    <2> QED
      BY <2>1, <2>2, <2>3
  <1> QED
    BY <1>1, <1>2, PTL DEF Spec
-----------------------------------------------------------------------------
(***************************************************************************)
(* What a rebuild lists.  One process at a time writes documents, and none *)
(* is removed meanwhile, so what a rebuild has written is still there when *)
(* it goes on: the observations it has kept, and of each transcript it has *)
(* merged at least the length it had when it was discovered.               *)
(***************************************************************************)
Writes(p) == job[p].pc # "idle" /\ job[p].kind # "rows"

Progress(p) ==
    /\ job[p].pc \in {"read", "observed", "native"} => job[p].kind # "rows"
    /\ job[p].pc \in {"read", "observed"} => job[p].done = {}
    /\ job[p].pc = "observed" =>
          \A o \in job[p].obs : SessionOf[o] \in job[p].left \/ o \in doc[SessionOf[o]].obs
    /\ job[p].pc \in {"native", "list"} /\ job[p].kind # "rows" =>
          /\ \A o \in job[p].obs : o \in doc[SessionOf[o]].obs
          /\ \A s \in job[p].done : doc[s].native >= job[p].refs[s]
    /\ job[p].pc = "native" => \A s \in SessionIds : job[p].refs[s] <= length[s]

Complete ==
    /\ \A p, q \in Processes : p # q /\ Writes(p) => ~Writes(q)
    /\ \A p \in Processes : Progress(p)

LEMMA CompleteInit == Init => Complete
  BY DEF Init, Complete, Writes, Progress, Idle

\* A process that writes no document keeps its progress when nobody else does,
\* and a transcript only grows.
LEMMA OtherProgress ==
    ASSUME Types, NEW q \in Processes, Progress(q), job'[q] = job[q],
           doc' = doc \/ ~Writes(q),
           \A s \in SessionIds : length'[s] \in Nat /\ length[s] <= length'[s]
    PROVE  Progress(q)'
  <1>1. job[q] \in Jobs /\ length \in [SessionIds -> Nat]
    BY DEF Types, TypeOK, Owned
  <1>2. job[q].refs \in [SessionIds -> Nat]
    BY <1>1 DEF Jobs
  <1>3. CASE doc' = doc
    BY <1>1, <1>2, <1>3 DEF Progress
  <1>4. CASE ~Writes(q)
    BY <1>1, <1>2, <1>4 DEF Progress, Writes
  <1> QED
    BY <1>3, <1>4

\* A step of one rebuild, which keeps its own progress.
LEMMA OneStepComplete ==
    ASSUME Types, Complete, NEW p \in Processes, NEW next \in Jobs, Step(p, next),
           next.pc # "idle" /\ next.kind # "rows" => Writes(p),
           doc' = doc \/ Writes(p),
           Progress(p)',
           UNCHANGED length
    PROVE  Complete'
  <1>1. /\ job' \in [Processes -> Jobs]
        /\ job'[p] = next
        /\ \A q \in Processes \ {p} : job'[q] = job[q]
    BY StepTyped
  <1>2. ASSUME NEW q \in Processes, q # p
        PROVE  Progress(q)'
    <2>1. doc' = doc \/ ~Writes(q)
      BY <1>2 DEF Complete
    <2>2. \A s \in SessionIds : length'[s] \in Nat /\ length[s] <= length'[s]
      BY DEF Types, TypeOK, Owned
    <2>3. Progress(q) /\ job'[q] = job[q]
      BY <1>1, <1>2 DEF Complete
    <2> QED
      BY <2>1, <2>2, <2>3, OtherProgress
  <1>3. \A q \in Processes : Writes(q)' => Writes(q)
    BY <1>1 DEF Writes
  <1> QED
    BY <1>2, <1>3 DEF Complete

LEMMA JobComplete ==
    ASSUME Types, Complete, NEW p \in Processes, Job(p)
    PROVE  Complete'
  <1> USE DEF hooks, files, database
  <1>j. /\ job \in [Processes -> Jobs] /\ job[p] \in Jobs
        /\ length \in [SessionIds -> Nat] /\ doc \in [SessionIds -> Documents]
    BY DEF Types, TypeOK, Owned
  <1>h. Progress(p)
    BY DEF Complete
  <1>1. CASE JobRead(p)
    <2> DEFINE kept == {o \in stored : SessionOf[o] \notin registry}
               left == {SessionOf[o] : o \in kept}
               next == [job[p] EXCEPT !.pc = "observed", !.obs = kept, !.left = left]
    <2>k. kept \in SUBSET Ids
      BY DEF Types, TypeOK, Owned
    <2>l. left \in SUBSET SessionIds /\ \A o \in kept : SessionOf[o] \in left
      BY <2>k, SessionsAssumptions
    <2> HIDE DEF kept, left
    <2>1. /\ next \in Jobs /\ next.pc = "observed" /\ next.kind = job[p].kind
          /\ next.obs = kept /\ next.left = left /\ next.done = job[p].done
      BY <1>j, <2>k, <2>l DEF Jobs
    <2>2. Step(p, next) /\ job[p].pc = "read" /\ UNCHANGED <<doc, length>>
      BY <1>1 DEF JobRead, kept, left
    <2> HIDE DEF next
    <2>3. job'[p] = next
      BY <2>1, <2>2, StepTyped
    <2>4. Progress(p)' /\ Writes(p)
      BY <1>h, <2>l, <2>1, <2>2, <2>3 DEF Progress, Writes
    <2> QED
      BY <2>1, <2>2, <2>4, OneStepComplete
  <1>2. CASE Discover(p) /\ job[p].kind = "observed"
    <2> DEFINE next == [job[p] EXCEPT !.pc = "list"]
    <2>1. /\ next \in Jobs /\ next.pc = "list" /\ next.kind = job[p].kind
          /\ next.obs = job[p].obs /\ next.done = job[p].done
      BY <1>j DEF Jobs
    <2>2. /\ Step(p, next) /\ job[p].pc = "observed" /\ job[p].left = {}
          /\ UNCHANGED <<doc, length>>
      BY <1>2 DEF Discover
    <2> HIDE DEF next
    <2>3. job'[p] = next
      BY <2>1, <2>2, StepTyped
    <2>4. Progress(p)' /\ Writes(p)
      BY <1>h, <2>1, <2>2, <2>3 DEF Progress, Writes
    <2> QED
      BY <2>1, <2>2, <2>4, OneStepComplete
  <1>3. CASE Discover(p) /\ job[p].kind # "observed"
    <2> DEFINE found == {s \in SessionIds : length[s] > 0}
               next == [job[p] EXCEPT !.pc = "native", !.refs = length, !.left = found]
    <2>1. /\ next \in Jobs /\ next.pc = "native" /\ next.kind = job[p].kind
          /\ next.obs = job[p].obs /\ next.done = job[p].done /\ next.refs = length
      BY <1>j DEF Jobs
    <2>2. /\ Step(p, next) /\ job[p].pc = "observed" /\ job[p].left = {}
          /\ UNCHANGED <<doc, length>>
      BY <1>3 DEF Discover
    <2> HIDE DEF next
    <2>3. job'[p] = next
      BY <2>1, <2>2, StepTyped
    <2>4. Progress(p)' /\ Writes(p)
      BY <1>h, <1>j, <2>1, <2>2, <2>3 DEF Progress, Writes
    <2> QED
      BY <2>1, <2>2, <2>4, OneStepComplete
  <1>4. CASE SaveCheckpoints(p)
    <2> DEFINE next == [job[p] EXCEPT !.pc = "list"]
    <2>1. /\ next \in Jobs /\ next.pc = "list" /\ next.kind = job[p].kind
          /\ next.obs = job[p].obs /\ next.done = job[p].done /\ next.refs = job[p].refs
      BY <1>j DEF Jobs
    <2>2. Step(p, next) /\ job[p].pc = "native" /\ UNCHANGED <<doc, length>>
      BY <1>4 DEF SaveCheckpoints
    <2> HIDE DEF next
    <2>3. job'[p] = next
      BY <2>1, <2>2, StepTyped
    <2>4. Progress(p)' /\ Writes(p)
      BY <1>h, <2>1, <2>2, <2>3 DEF Progress, Writes
    <2> QED
      BY <2>1, <2>2, <2>4, OneStepComplete
  <1>5. CASE JobList(p)
    <2> DEFINE next == [Idle EXCEPT !.pc = IF p \in owner THEN "replace" ELSE "open",
                                    !.kind = job[p].kind, !.list = doc]
    <2>1. next \in Jobs /\ next.pc = (IF p \in owner THEN "replace" ELSE "open") /\ next.kind = job[p].kind
      BY <1>j, IdleTyped DEF Jobs, Idle
    <2>2. Step(p, next) /\ job[p].pc = "list" /\ UNCHANGED <<doc, length>>
      BY <1>5 DEF JobList
    <2> HIDE DEF next
    <2>3. job'[p] = next
      BY <2>1, <2>2, StepTyped
    <2>4. Progress(p)' /\ (next.kind # "rows" => Writes(p))
      BY <2>1, <2>2, <2>3 DEF Progress, Writes
    <2> QED
      BY <2>1, <2>2, <2>4, OneStepComplete
  <1>6. CASE JobOpen(p) \/ Replace(p)
    <2>1. CASE UNCHANGED job
      <3>1. UNCHANGED <<doc, length>>
        BY <1>6 DEF JobOpen, Replace
      <3>2. \A q \in Processes : Progress(q)'
        BY <1>j, <2>1, <3>1, OtherProgress DEF Complete
      <3> QED
        BY <2>1, <3>2 DEF Complete, Writes
    <2>2. ASSUME NEW pc \in {"replace", "commit"}, Step(p, [job[p] EXCEPT !.pc = pc])
          PROVE  Complete'
      <3> DEFINE next == [job[p] EXCEPT !.pc = pc]
      <3>1. next \in Jobs /\ next.pc = pc /\ next.kind = job[p].kind
        BY <1>j DEF Jobs
      <3>2. job[p].pc # "idle" /\ UNCHANGED <<doc, length>>
        BY <1>6 DEF JobOpen, Replace
      <3>3. Step(p, next)
        BY <2>2
      <3> HIDE DEF next
      <3>4. job'[p] = next
        BY <3>1, <3>3, StepTyped
      <3>5. Progress(p)' /\ (next.kind # "rows" => Writes(p))
        BY <3>1, <3>2, <3>4 DEF Progress, Writes
      <3> QED
        BY <3>1, <3>2, <3>3, <3>5, OneStepComplete
    <2> QED
      BY <1>6, <2>1, <2>2 DEF JobOpen, Replace
  <1>7. CASE Commit(p) \/ JobFails(p) \/ Killed(p)
    <2>1. Step(p, Idle) /\ UNCHANGED <<doc, length>>
      BY <1>7 DEF Commit, JobFails, Killed, Ended
    <2>2. job'[p] = Idle
      BY <2>1, IdleTyped, StepTyped
    <2>3. Progress(p)' /\ Idle.pc = "idle"
      BY <2>2 DEF Progress, Idle
    <2> QED
      BY <2>1, <2>3, IdleTyped, OneStepComplete
  <1>8. ASSUME NEW s \in SessionIds, WriteObserved(p, s)
        PROVE  Complete'
    <2> DEFINE next == [job[p] EXCEPT !.left = @ \ {s}]
    <2>1. /\ next \in Jobs /\ next.pc = job[p].pc /\ next.kind = job[p].kind
          /\ next.obs = job[p].obs /\ next.done = job[p].done
          /\ next.left = job[p].left \ {s} /\ job[p].obs \subseteq Ids
      BY <1>j DEF Jobs
    <2>2. /\ Step(p, next) /\ job[p].pc = "observed" /\ UNCHANGED length
          /\ doc' = [doc EXCEPT ![s] = [obs |-> job[p].obs \cap Of(s), native |-> 0]]
      BY <1>8 DEF WriteObserved
    <2> HIDE DEF next
    <2>3. job'[p] = next
      BY <2>1, <2>2, StepTyped
    <2>4. \A o \in job[p].obs : SessionOf[o] \in next.left \/ o \in doc'[SessionOf[o]].obs
      <3> SUFFICES ASSUME NEW o \in job[p].obs, SessionOf[o] \notin next.left
                   PROVE  o \in doc'[SessionOf[o]].obs
        OBVIOUS
      <3>1. o \in Ids /\ SessionOf[o] \in SessionIds
        BY <2>1, SessionsAssumptions
      <3>2. CASE SessionOf[o] = s
        BY <1>j, <2>2, <3>1, <3>2 DEF Of
      <3>3. CASE SessionOf[o] # s
        BY <1>h, <1>j, <2>1, <2>2, <3>1, <3>3 DEF Progress
      <3> QED
        BY <3>2, <3>3
    <2>5. Progress(p)' /\ Writes(p)
      BY <1>h, <2>1, <2>2, <2>3, <2>4 DEF Progress, Writes
    <2> QED
      BY <2>1, <2>2, <2>5, OneStepComplete
  <1>9. ASSUME NEW s \in SessionIds, MergeNative(p, s)
        PROVE  Complete'
    <2>1. /\ job[p].pc = "native" /\ UNCHANGED length /\ length[s] \in Nat
          /\ doc[s] \in Documents /\ job[p].refs \in [SessionIds -> Nat]
          /\ job[p].done \subseteq SessionIds /\ job[p].obs \subseteq Ids
      BY <1>9, <1>j DEF MergeNative, Jobs
    <2>2. Writes(p)
      BY <1>h, <2>1 DEF Progress, Writes
    <2>3. CASE Step(p, [job[p] EXCEPT !.left = @ \ {s}]) /\ UNCHANGED doc
      <3> DEFINE next == [job[p] EXCEPT !.left = @ \ {s}]
      <3>1. /\ next \in Jobs /\ next.pc = job[p].pc /\ next.kind = job[p].kind
            /\ next.obs = job[p].obs /\ next.done = job[p].done /\ next.refs = job[p].refs
        BY <1>j DEF Jobs
      <3> HIDE DEF next
      <3>2. Step(p, next)
        BY <2>3 DEF next
      <3>3. job'[p] = next
        BY <3>1, <3>2, StepTyped
      <3>4. Progress(p)'
        BY <1>h, <2>1, <2>2, <2>3, <3>1, <3>3 DEF Progress, Writes
      <3> QED
        BY <2>1, <2>2, <3>1, <3>2, <3>4, OneStepComplete
    <2>4. CASE /\ Step(p, [job[p] EXCEPT !.left = @ \ {s}, !.done = @ \cup {s}])
               /\ doc' = [doc EXCEPT ![s].native = length[s]]
      <3> DEFINE next == [job[p] EXCEPT !.left = @ \ {s}, !.done = @ \cup {s}]
      <3>1. /\ next \in Jobs /\ next.pc = job[p].pc /\ next.kind = job[p].kind
            /\ next.obs = job[p].obs /\ next.done = job[p].done \cup {s}
            /\ next.refs = job[p].refs
        BY <1>j DEF Jobs
      <3> HIDE DEF next
      <3>2. Step(p, next)
        BY <2>4 DEF next
      <3>3. job'[p] = next
        BY <3>1, <3>2, StepTyped
      <3>4. /\ doc'[s].native = length[s]
            /\ \A t \in SessionIds : doc'[t].obs = doc[t].obs
            /\ \A t \in SessionIds \ {s} : doc'[t] = doc[t]
        BY <1>j, <2>1, <2>4 DEF Documents
      <3>5. \A o \in next.obs : o \in doc'[SessionOf[o]].obs
        BY <1>h, <2>1, <2>2, <3>1, <3>4, SessionsAssumptions DEF Progress, Writes
      <3>6. \A t \in next.done : doc'[t].native >= next.refs[t]
        <4> SUFFICES ASSUME NEW t \in next.done
                     PROVE  doc'[t].native >= next.refs[t]
          OBVIOUS
        <4>1. CASE t = s
          BY <1>h, <2>1, <3>1, <3>4, <4>1 DEF Progress
        <4>2. CASE t # s
          BY <1>h, <2>1, <2>2, <3>1, <3>4, <4>2 DEF Progress, Writes
        <4> QED
          BY <4>1, <4>2
      <3>7. Progress(p)'
        BY <1>h, <2>1, <2>2, <3>1, <3>3, <3>5, <3>6 DEF Progress, Writes
      <3> QED
        BY <2>1, <2>2, <3>1, <3>2, <3>7, OneStepComplete
    <2> QED
      BY <1>9, <2>3, <2>4 DEF MergeNative
  <1> QED
    BY <1>1, <1>2, <1>3, <1>4, <1>5, <1>6, <1>7, <1>8, <1>9 DEF Job

\* A step that begins a rebuild: a writer only when there is none.
LEMMA BeginComplete ==
    ASSUME Types, Complete, NEW p \in Processes, job[p].pc = "idle",
           NEW pc \in {"read", "list"}, NEW kind \in {"sessions", "observed", "rows"},
           kind = "rows" => pc = "list",
           kind = "rows" \/ NoWriter,
           Step(p, [Idle EXCEPT !.pc = pc, !.kind = kind]),
           pc = "list" => kind = "rows",
           UNCHANGED <<doc, length>>
    PROVE  Complete'
  <1> DEFINE next == [Idle EXCEPT !.pc = pc, !.kind = kind]
  <1>1. next \in Jobs /\ next.pc = pc /\ next.kind = kind /\ next.done = {}
    BY IdleTyped DEF Jobs, Idle
  <1> HIDE DEF next
  <1>2. /\ job' \in [Processes -> Jobs]
        /\ job'[p] = next
        /\ \A q \in Processes \ {p} : job'[q] = job[q]
    BY <1>1, StepTyped DEF next
  <1>3. Progress(p)'
    BY <1>1, <1>2 DEF Progress
  <1>4. ASSUME NEW q \in Processes, q # p
        PROVE  Progress(q)'
    <2>1. \A s \in SessionIds : length'[s] \in Nat /\ length[s] <= length'[s]
      BY DEF Types, TypeOK, Owned
    <2> QED
      BY <1>2, <1>4, <2>1, OtherProgress DEF Complete
  <1>5. CASE kind = "rows"
    BY <1>1, <1>2, <1>3, <1>4, <1>5 DEF Complete, Writes
  <1>6. CASE NoWriter
    BY <1>1, <1>2, <1>3, <1>4, <1>6 DEF Complete, Writes, NoWriter
  <1> QED
    BY <1>5, <1>6

LEMMA CompleteStep ==
    ASSUME Overlaps = {}, Types, Hidden, Complete, [Next]_vars
    PROVE  Complete'
  <1> USE DEF hooks, files, database
  <1>t. length \in [SessionIds -> Nat]
    BY DEF Types, TypeOK, Owned
  <1>1. CASE UNCHANGED <<doc, job>> /\ \A s \in SessionIds :
                length'[s] \in Nat /\ length[s] <= length'[s]
    <2>1. \A q \in Processes : Progress(q)'
      BY <1>1, OtherProgress DEF Complete
    <2> QED
      BY <1>1, <2>1 DEF Complete, Writes
  <1>2. CASE UNCHANGED <<doc, job, length>>
    BY <1>t, <1>1, <1>2
  <1>3. ASSUME NEW s \in Native, AgentWrites(s)
        PROVE  Complete'
    <2>1. \A t \in SessionIds : length'[t] \in Nat /\ length[t] <= length'[t]
      BY <1>t, <1>3, SessionsAssumptions DEF AgentWrites
    <2> QED
      BY <1>1, <1>3, <2>1 DEF AgentWrites
  <1>4. CASE DaemonStart
    BY <1>4, BeginComplete DEF DaemonStart, Step, Types, Processes
  <1>5. ASSUME NEW kind \in {"observed", "rows"}, DaemonRebuilds(kind)
        PROVE  Complete'
    <2> DEFINE pc == IF kind = "rows" THEN "list" ELSE "read"
    <2>1. Step("daemon", [Idle EXCEPT !.pc = pc, !.kind = kind])
      BY <1>5 DEF DaemonRebuilds, Step
    <2> QED
      BY <1>5, <2>1, BeginComplete DEF DaemonRebuilds, Processes
  <1>6. ASSUME NEW kind \in {"sessions", "rows"}, CliRebuilds(kind)
        PROVE  Complete'
    <2> DEFINE pc == IF kind = "rows" THEN "list" ELSE "read"
    <2>1. Step("cli", [Idle EXCEPT !.pc = pc, !.kind = kind])
      BY <1>6 DEF CliRebuilds, Step
    <2> QED
      BY <1>6, <2>1, BeginComplete DEF CliRebuilds, Processes
  <1>7. ASSUME NEW p \in Processes, Job(p)
        PROVE  Complete'
    BY <1>7, JobComplete
  <1>8. CASE DeleteDocument
    <2>1. \A q \in Processes : ~Writes(q)
      BY <1>8 DEF DeleteDocument, Hidden, Quiet, Writes
    <2>2. UNCHANGED <<job, length>>
      BY <1>8 DEF DeleteDocument
    <2>3. \A q \in Processes : Progress(q)'
      BY <1>t, <2>1, <2>2, OtherProgress DEF Complete
    <2> QED
      BY <2>1, <2>2, <2>3 DEF Complete, Writes
  <1>9. CASE DeleteRegisters
    BY <1>9, BeginComplete DEF DeleteRegisters, Step, Types, Processes
  <1>10. \/ UNCHANGED <<doc, job, length>>
         \/ (\E s \in Native : AgentWrites(s)) \/ DaemonStart
         \/ (\E kind \in {"observed", "rows"} : DaemonRebuilds(kind))
         \/ (\E kind \in {"sessions", "rows"} : CliRebuilds(kind))
         \/ (\E p \in Processes : Job(p)) \/ DeleteDocument \/ DeleteRegisters
    BY DEF Next, vars, Delete, HookCheck, HookSend, HookSpool, DeleteSegments, DeleteSpooled,
           DeleteStops
  <1> QED
    BY <1>2, <1>3, <1>4, <1>5, <1>6, <1>7, <1>8, <1>9, <1>10

\* A rebuild lists its documents when they hold what it has kept and merged, if
\* no rebuild begins or is under way during a deletion.
THEOREM RebuildsComplete ==
    ASSUME Overlaps = {}
    PROVE  Spec => RebuildComplete
  <1>1. Init => Types /\ Hidden /\ Complete
    BY TypesInit, HiddenInit, CompleteInit
  <1>2. Types /\ Hidden /\ Complete /\ [Next]_vars => (Types /\ Hidden /\ Complete)'
    BY TypesStep, HiddenStep, CompleteStep
  <1>3. Types /\ Hidden /\ Complete /\ [Next]_vars =>
          [\A p \in Processes : JobList(p) /\ job[p].kind # "rows" /\ del.pc = "idle" =>
              /\ \A o \in job[p].obs : o \in doc[SessionOf[o]].obs
              /\ \A s \in job[p].done : doc[s].native >= job[p].refs[s]]_vars
    BY DEF Complete, Progress, JobList
  <1> QED
    BY <1>1, <1>2, <1>3, PTL DEF Spec, RebuildComplete

\* A saved checkpoint is never ahead of its document, under the same assumption.
THEOREM CheckpointsBehind ==
    ASSUME Overlaps = {}
    PROVE  Spec => CheckpointsTrail
  <1> USE DEF hooks, files, database
  <1>1. Init => Types /\ Hidden /\ Complete
    BY TypesInit, HiddenInit, CompleteInit
  <1>2. Types /\ Hidden /\ Complete /\ [Next]_vars => (Types /\ Hidden /\ Complete)'
    BY TypesStep, HiddenStep, CompleteStep
  <1>3. ASSUME Types, Complete, NEW p \in Processes, SaveCheckpoints(p)
        PROVE  \A s \in SessionIds : checkpoints'[s] <= doc[s].native
    <2> SUFFICES ASSUME NEW s \in SessionIds
                 PROVE  checkpoints'[s] <= doc[s].native
      OBVIOUS
    <2>1. Progress(p) /\ job[p].pc = "native" /\ doc[s].native \in Nat
      BY <1>3 DEF Complete, SaveCheckpoints, Types, TypeOK, Owned, Documents
    <2>2. checkpoints'[s] = IF s \in job[p].done THEN job[p].refs[s] ELSE 0
      BY <1>3 DEF SaveCheckpoints
    <2>3. job[p].refs[s] \in Nat
      BY <1>3 DEF Types, TypeOK, Owned, Jobs
    <2> QED
      BY <2>1, <2>2, <2>3 DEF Progress
  <1>4. Types /\ Hidden /\ Complete /\ [Next]_vars =>
          [\A s \in SessionIds :
              checkpoints'[s] # checkpoints[s] => checkpoints'[s] <= doc[s].native]_vars
    <2> SUFFICES ASSUME Types, Complete, [Next]_vars
                 PROVE  \A s \in SessionIds :
                           checkpoints'[s] # checkpoints[s] => checkpoints'[s] <= doc[s].native
      OBVIOUS
    <2>1. (\E p \in Processes : SaveCheckpoints(p)) \/ UNCHANGED checkpoints
      BY DEF Next, Job, Delete, vars, HookCheck, HookSend, HookSpool, AgentWrites, DaemonStart,
             DaemonRebuilds, CliRebuilds, JobRead, WriteObserved, Discover, MergeNative,
             JobList, JobOpen, Replace, Commit, JobFails, Killed,
             DeleteSegments, DeleteSpooled, DeleteDocument, DeleteRegisters, DeleteStops
    <2> QED
      BY <1>3, <2>1
  <1> QED
    BY <1>1, <1>2, <1>4, PTL DEF Spec, CheckpointsTrail
=============================================================================
