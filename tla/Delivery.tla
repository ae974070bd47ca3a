------------------------------ MODULE Delivery ------------------------------
(***************************************************************************)
(* How an observation gets from a hook to the segments.                    *)
(*                                                                         *)
(* A hook process calls the daemon and waits at most HOOK_ACK_BUDGET; when *)
(* it has no acknowledgement by then it writes a spool entry (asa-cli      *)
(* main.rs:1505-1578, asa-store spool.rs).  The daemon (asa-daemon lib.rs) *)
(* drains the spool and rebuilds the projections before it serves.  Each   *)
(* call it admits is an export handler holding one of Slots permits; the   *)
(* handlers hand their requests through a bounded queue to the one thread  *)
(* that owns the segment store and wait for its answer; an answered handler*)
(* wakes the projection worker through a channel that holds one token.     *)
(*                                                                         *)
(* The store is what SegmentStore implements: a set of ids that only grows.*)
(***************************************************************************)
EXTENDS Naturals, Sequences, FiniteSets

CONSTANTS
    Ids,            \* observation ids
    Clients,        \* processes that make one export call each
    Hooks,          \* those of them that are hooks and have a spool to fall back on
    Batch,          \* Batch[c]: the observations of the request of c
    NoClient,       \* the persistence worker has no command
    Slots,          \* permits of ingestion_slots
    QueueLimit,     \* capacity of the persistence channel
    Faults,         \* what may return an error
    MaxKills        \* bound: how often the daemon is killed

\* "append": SegmentStore::append; "read": reading a spool entry; "spool":
\* writing one; "project": a projection rebuild.
ASSUME DeliveryAssumptions ==
    /\ Batch \in [Clients -> Seq(Ids) \ {<<>>}]
    /\ Hooks \subseteq Clients
    /\ \A h \in Hooks : Len(Batch[h]) = 1
    /\ NoClient \notin Clients
    /\ Slots \in Nat \ {0}
    /\ QueueLimit \in Nat \ {0}
    /\ Slots <= QueueLimit
    /\ Faults \subseteq {"append", "read", "spool", "project"}
    /\ MaxKills \in Nat

VARIABLES
    client,         \* client[c]: where the calling process is
    reply,          \* reply[c]: the response on its way to c
    handler,        \* handler[c]: the export future of the call of c
    queue,          \* the persistence channel
    current,        \* the command the persistence worker holds
    next,           \* the index of the observation it appends next
    log,            \* ids in the segments
    spool,          \* the hooks whose entry is in spool/pending
    rejected,       \* the hooks whose entry was moved to spool/rejected
    daemon,         \* the phase of `run`
    todo,           \* the spool entries drain_spool has listed and not removed
    entry,          \* the one of them it has appended
    notified,       \* the token in the projection channel
    projector,      \* the projection worker
    snapshot,       \* the ids its rebuild has read
    projected,      \* ids in the projected documents
    kills           \* bounds Kill

callers == <<client, reply>>
worker  == <<current, next>>
files   == <<spool, rejected>>
project == <<notified, projector, snapshot, projected>>
vars    == <<callers, handler, queue, worker, log, files, daemon, todo, entry, project, kills>>

IdsOf(c) == {Batch[c][k] : k \in 1..Len(Batch[c])}

IdsIn(C) == UNION {IdsOf(c) : c \in C}

Permits == {c \in Clients : handler[c] # "none"}

Accepting == daemon \in {"serving", "stopping"}

Init ==
    /\ client = [c \in Clients |-> "idle"]
    /\ reply = [c \in Clients |-> "none"]
    /\ handler = [c \in Clients |-> "none"]
    /\ queue = <<>>
    /\ current = NoClient
    /\ next = 1
    /\ log = {}
    /\ spool = {}
    /\ rejected = {}
    /\ daemon = "down"
    /\ todo = {}
    /\ entry = NoClient
    /\ notified = FALSE
    /\ projector = "idle"
    /\ snapshot = {}
    /\ projected = {}
    /\ kills = 0
-----------------------------------------------------------------------------
(* The calling process: run_hook, send_observation *)

Send(c) ==
    /\ client[c] = "idle"
    /\ client' = [client EXCEPT ![c] = "calling"]
    /\ UNCHANGED <<reply, handler, queue, worker, log, files, daemon, todo, entry, project, kills>>

\* The response arrives in time.
Receive(c) ==
    /\ client[c] = "called"
    /\ reply[c] # "none"
    /\ client' = [client EXCEPT ![c] = reply[c]]
    /\ reply' = [reply EXCEPT ![c] = "none"]
    /\ UNCHANGED <<handler, queue, worker, log, files, daemon, todo, entry, project, kills>>

\* No connection, or the budget is over: the call fails on this side only.
GiveUp(c) ==
    /\ client[c] \in {"calling", "called"}
    /\ client' = [client EXCEPT ![c] = "failed"]
    /\ UNCHANGED <<reply, handler, queue, worker, log, files, daemon, todo, entry, project, kills>>

\* Anything but an acknowledgement: spool_observation syncs a temporary file
\* and renames it.  An error leaves the observation nowhere.
Spool(h) ==
    /\ client[h] \in {"failed", "refused"}
    /\ \/ /\ spool' = spool \cup {h}
          /\ client' = [client EXCEPT ![h] = "spooled"]
       \/ /\ "spool" \in Faults
          /\ client' = [client EXCEPT ![h] = "lost"]
          /\ UNCHANGED spool
    /\ UNCHANGED <<reply, handler, queue, worker, log, rejected, daemon, todo, entry, project, kills>>

\* The agent kills its hook before it has returned.
Die(h) ==
    /\ client[h] \in {"calling", "called", "failed", "refused"}
    /\ client' = [client EXCEPT ![h] = "lost"]
    /\ UNCHANGED <<reply, handler, queue, worker, log, files, daemon, todo, entry, project, kills>>
-----------------------------------------------------------------------------
(* The export handler *)

\* try_acquire_owned: a permit, or RESOURCE_EXHAUSTED.
Admit(c) ==
    /\ Accepting
    /\ client[c] = "calling"
    /\ client' = [client EXCEPT ![c] = "called"]
    /\ IF Cardinality(Permits) < Slots
       THEN /\ handler' = [handler EXCEPT ![c] = "permit"]
            /\ UNCHANGED reply
       ELSE /\ reply' = [reply EXCEPT ![c] = "refused"]
            /\ UNCHANGED handler
    /\ UNCHANGED <<queue, worker, log, files, daemon, todo, entry, project, kills>>

\* Mutants of Enqueue: the permit goes back as soon as the request is queued;
\* the request is queued although the call is refused.
EnqueueReleases(c) ==
    /\ handler[c] = "permit"
    /\ handler' = [handler EXCEPT ![c] = "none"]
    /\ IF Len(queue) < QueueLimit
       THEN queue' = Append(queue, c) /\ UNCHANGED reply
       ELSE reply' = [reply EXCEPT ![c] = "refused"] /\ UNCHANGED queue
    /\ UNCHANGED <<client, worker, log, files, daemon, todo, entry, project, kills>>

EnqueueRefused(c) ==
    /\ handler[c] = "permit"
    /\ queue' = Append(queue, c)
    /\ IF Len(queue) < QueueLimit
       THEN /\ handler' = [handler EXCEPT ![c] = "waiting"]
            /\ UNCHANGED reply
       ELSE /\ reply' = [reply EXCEPT ![c] = "refused"]
            /\ handler' = [handler EXCEPT ![c] = "none"]
    /\ UNCHANGED <<client, worker, log, files, daemon, todo, entry, project, kills>>

\* try_send: the queue takes the request, or it is refused.
Enqueue(c) ==
    /\ handler[c] = "permit"
    /\ IF Len(queue) < QueueLimit
       THEN /\ queue' = Append(queue, c)
            /\ handler' = [handler EXCEPT ![c] = "waiting"]
            /\ UNCHANGED reply
       ELSE /\ reply' = [reply EXCEPT ![c] = "refused"]
            /\ handler' = [handler EXCEPT ![c] = "none"]
            /\ UNCHANGED queue
    /\ UNCHANGED <<client, worker, log, files, daemon, todo, entry, project, kills>>

\* The worker has answered: try_send wakes the projection worker unless a token
\* waits already, and the response goes out.
Respond(c) ==
    /\ handler[c] \in {"acked", "errored"}
    /\ handler' = [handler EXCEPT ![c] = "none"]
    /\ IF handler[c] = "acked"
       THEN /\ reply' = [reply EXCEPT ![c] = "delivered"]
            /\ notified' = TRUE
       ELSE /\ reply' = [reply EXCEPT ![c] = "failed"]
            /\ UNCHANGED notified
    /\ UNCHANGED <<client, queue, worker, log, files, daemon, todo, entry, projector,
                   snapshot, projected, kills>>

\* The caller has gone away: the future is dropped where it waits, its permit
\* with it.  What it queued stays in the queue.
Cancel(c) ==
    /\ handler[c] \in {"waiting", "acked", "errored"}
    /\ client[c] # "called"
    /\ handler' = [handler EXCEPT ![c] = "none"]
    /\ UNCHANGED <<callers, queue, worker, log, files, daemon, todo, entry, project, kills>>
-----------------------------------------------------------------------------
(* The persistence worker *)

Take ==
    /\ current = NoClient
    /\ queue # <<>>
    /\ current' = Head(queue)
    /\ next' = 1
    /\ queue' = Tail(queue)
    /\ UNCHANGED <<callers, handler, log, files, daemon, todo, entry, project, kills>>

\* Mutant of Answer: the handler hears nothing.
AnswerNobody(a) ==
    /\ current' = NoClient
    /\ next' = 1
    /\ UNCHANGED handler

\* The answer reaches the handler if it is still there.
Answer(a) ==
    /\ handler' = [handler EXCEPT ![current] = IF @ = "waiting" THEN a ELSE @]
    /\ current' = NoClient
    /\ next' = 1

\* Mutant of AppendNext: the answer goes out with the first observation.
AppendFirst ==
    /\ current # NoClient
    /\ log' = log \cup {Batch[current][next]}
    /\ Answer("acked")
    /\ UNCHANGED <<callers, queue, files, daemon, todo, entry, project, kills>>

\* append of one observation of the batch: Appended and Duplicate are both Ok.
AppendNext ==
    /\ current # NoClient
    /\ log' = log \cup {Batch[current][next]}
    /\ IF next < Len(Batch[current])
       THEN /\ next' = next + 1
            /\ UNCHANGED <<handler, current>>
       ELSE Answer("acked")
    /\ UNCHANGED <<callers, queue, files, daemon, todo, entry, project, kills>>

\* try_for_each stops at the first error.  The frame may have been written.
AppendFails ==
    /\ current # NoClient
    /\ "append" \in Faults
    /\ log' \in {log, log \cup {Batch[current][next]}}
    /\ Answer("errored")
    /\ UNCHANGED <<callers, queue, files, daemon, todo, entry, project, kills>>

Persist == Take \/ AppendNext \/ AppendFails
-----------------------------------------------------------------------------
(* The projection worker: rebuild_observed, one run at a time *)

Wake ==
    /\ projector = "idle"
    /\ notified
    /\ notified' = FALSE
    /\ projector' = "woken"
    /\ UNCHANGED <<callers, handler, queue, worker, log, files, daemon, todo, entry, snapshot,
                   projected, kills>>

ReadLog ==
    /\ projector = "woken"
    /\ snapshot' = log
    /\ projector' = "read"
    /\ UNCHANGED <<callers, handler, queue, worker, log, files, daemon, todo, entry, notified,
                   projected, kills>>

\* Mutant of WriteDocuments: tokens that came during the rebuild are dropped.
WriteDocumentsClears ==
    /\ projector = "read"
    /\ projected' = snapshot
    /\ projector' = "idle"
    /\ notified' = FALSE
    /\ UNCHANGED <<callers, handler, queue, worker, log, files, daemon, todo, entry, snapshot,
                   kills>>

\* The documents are written, or the rebuild fails and is only logged.
WriteDocuments ==
    /\ projector = "read"
    /\ \/ projected' = snapshot
       \/ "project" \in Faults /\ UNCHANGED projected
    /\ projector' = "idle"
    /\ UNCHANGED <<callers, handler, queue, worker, log, files, daemon, todo, entry, notified,
                   snapshot, kills>>

Projector == Wake \/ ReadLog \/ WriteDocuments
-----------------------------------------------------------------------------
(* `run`: start and stop *)

\* Mutant of Start: the spool is not listed.
StartUnlisted ==
    /\ daemon = "down"
    /\ daemon' = "draining"
    /\ UNCHANGED <<callers, handler, queue, worker, log, files, todo, entry, project, kills>>

\* SegmentStore::open, and the list of pending entries.
Start ==
    /\ daemon = "down"
    /\ daemon' = "draining"
    /\ todo' = spool
    /\ UNCHANGED <<callers, handler, queue, worker, log, files, entry, project, kills>>

\* Mutant of DrainAppend: an append error does not end the drain.
DrainAppendOrNot(h) ==
    /\ daemon = "draining" /\ entry = NoClient
    /\ h \in todo
    /\ log' \in {log, log \cup IdsOf(h)}
    /\ entry' = h
    /\ UNCHANGED <<callers, handler, queue, worker, files, daemon, todo, project, kills>>

\* drain_spool, the next entry: it is appended first and removed after that.
\* The names are sorted by time; the model takes the entries in any order.
DrainAppend(h) ==
    /\ daemon = "draining" /\ entry = NoClient
    /\ h \in todo
    /\ log' = log \cup IdsOf(h)
    /\ entry' = h
    /\ UNCHANGED <<callers, handler, queue, worker, files, daemon, todo, project, kills>>

DrainUnlink ==
    /\ daemon = "draining" /\ entry # NoClient
    /\ spool' = spool \ {entry}
    /\ todo' = todo \ {entry}
    /\ entry' = NoClient
    /\ UNCHANGED <<callers, handler, queue, worker, log, rejected, daemon, project, kills>>

\* An entry that cannot be read or parsed is moved aside.
DrainReject(h) ==
    /\ daemon = "draining" /\ entry = NoClient
    /\ h \in todo
    /\ "read" \in Faults
    /\ spool' = spool \ {h}
    /\ rejected' = rejected \cup {h}
    /\ todo' = todo \ {h}
    /\ UNCHANGED <<callers, handler, queue, worker, log, daemon, entry, project, kills>>

\* rebuild_sessions runs once the spool is empty, then the receiver opens.
Serve ==
    /\ daemon = "draining" /\ todo = {}
    /\ projected' = log
    /\ daemon' = "serving"
    /\ UNCHANGED <<callers, handler, queue, worker, log, files, todo, entry, notified,
                   projector, snapshot, kills>>

\* An error of the drain or of the rebuild ends the daemon before it serves.
StartFails ==
    /\ daemon = "draining" /\ entry = NoClient
    /\ \/ todo # {} /\ "append" \in Faults
       \/ todo = {} /\ "project" \in Faults
    /\ daemon' = "down"
    /\ todo' = {}
    /\ UNCHANGED <<callers, handler, queue, worker, log, files, entry, project, kills>>

\* The cancellation token: the receiver finishes the calls it has.
Stop ==
    /\ daemon = "serving"
    /\ daemon' = "stopping"
    /\ UNCHANGED <<callers, handler, queue, worker, log, files, todo, entry, project, kills>>

\* The receiver is gone and the channels are closed: both workers have run
\* dry and `run` returns.
Exit ==
    /\ daemon = "stopping"
    /\ Permits = {}
    /\ queue = <<>> /\ current = NoClient
    /\ projector = "idle" /\ ~notified
    /\ daemon' = "down"
    /\ UNCHANGED <<callers, handler, queue, worker, log, files, todo, entry, project, kills>>

\* The daemon is killed: its memory is gone.  A response already sent may
\* still arrive.
Kill ==
    /\ daemon # "down"
    /\ kills < MaxKills
    /\ kills' = kills + 1
    /\ daemon' = "down"
    /\ handler' = [c \in Clients |-> "none"]
    /\ queue' = <<>>
    /\ current' = NoClient
    /\ next' = 1
    /\ todo' = {}
    /\ entry' = NoClient
    /\ notified' = FALSE
    /\ projector' = "idle"
    /\ snapshot' = {}
    /\ UNCHANGED <<callers, log, files, projected>>
-----------------------------------------------------------------------------
Hook(h) == Spool(h) \/ Die(h)

Call(c) == Send(c) \/ Receive(c) \/ GiveUp(c)

Handler(c) == Enqueue(c) \/ Respond(c)

Starting == Start \/ (\E h \in Hooks : DrainAppend(h)) \/ DrainUnlink \/ Serve

Next ==
    \/ \E c \in Clients : Call(c) \/ Admit(c) \/ Handler(c) \/ Cancel(c)
    \/ \E h \in Hooks : Hook(h) \/ DrainReject(h)
    \/ Persist
    \/ Projector
    \/ Starting
    \/ StartFails
    \/ Stop
    \/ Exit
    \/ Kill

Spec == Init /\ [][Next]_vars

\* The runtime runs every task, thread and blocking job it has, and the
\* supervisor starts the daemon again (KeepAlive; Restart=on-failure and the
\* start at login).  No caller owes a step, and no error, stop or kill is owed.
FairSpec ==
    /\ Spec
    /\ \A c \in Clients : WF_vars(Handler(c))
    /\ WF_vars(Persist)
    /\ WF_vars(Projector)
    /\ WF_vars(Starting)
    /\ WF_vars(Exit)
-----------------------------------------------------------------------------
(* Properties *)

\* Types: the persistence worker stays inside the batch it works on.
TypeOK ==
    /\ client \in [Clients -> {"idle", "calling", "called", "delivered", "refused", "failed",
                               "spooled", "lost"}]
    /\ reply \in [Clients -> {"none", "delivered", "refused", "failed"}]
    /\ handler \in [Clients -> {"none", "permit", "waiting", "acked", "errored"}]
    /\ queue \in Seq(Clients)
    /\ current \in Clients \cup {NoClient}
    /\ next \in Nat
    /\ current # NoClient => next \in 1..Len(Batch[current])
    /\ log \in SUBSET Ids
    /\ spool \in SUBSET Hooks
    /\ rejected \in SUBSET Hooks
    /\ daemon \in {"down", "draining", "serving", "stopping"}
    /\ todo \in SUBSET Hooks
    /\ entry \in Hooks \cup {NoClient}
    /\ notified \in BOOLEAN
    /\ projector \in {"idle", "woken", "read"}
    /\ snapshot \in SUBSET Ids
    /\ projected \in SUBSET Ids
    /\ kills \in 0..MaxKills

\* A hook that ran to its end has left its observation somewhere: in the
\* segments, in a pending spool entry or in a rejected one, whatever was
\* killed, lost, timed out or answered late in between.
NoneLost ==
    \A h \in Hooks : client[h] \in {"delivered", "spooled"} =>
        IdsOf(h) \subseteq log \/ h \in spool \/ h \in rejected

\* A request refused for want of a permit or of room in the queue leaves no
\* trace (docs/v2-crash-matrix.md, lines 21-23): unless another client sent an
\* observation or a spool entry carries it, it is never stored.
RefusedLeavesNoTrace ==
    \A c \in Clients : client[c] = "refused" =>
        IdsOf(c) \cap log \subseteq IdsIn(Clients \ {c})

\* There is a permit for every place in the queue, so a call that was admitted
\* finds the queue full only behind requests whose callers have gone.
FullBehindOrphans ==
    Len(queue) = QueueLimit /\ (\E c \in Clients : handler[c] = "permit")
        => \E k \in 1..Len(queue) : client[queue[k]] # "called"

Acked == IdsIn({c \in Clients : client[c] = "delivered"})

DL == INSTANCE DurableLog WITH acked <- Acked

\* The service as a whole keeps the promise of the abstract log: a batch is
\* acknowledged as one, and only when all of it is stored.
ImplementsDurableLog == DL!Spec

\* A pending entry is drained once the daemon is restarted, unless the start
\* fails.
SpoolDrains ==
    \A h \in Hooks : (h \in spool /\ daemon = "down") ~> (h \notin spool)

\* What was acknowledged reaches the documents: a rebuild that had read the
\* log too early is followed by another, and a restart rebuilds.
DeliveredProjected ==
    \A c \in Clients : client[c] = "delivered" ~> IdsOf(c) \subseteq projected

\* The daemon comes to its end once it is told to stop: no handler waits for
\* an answer that never comes, and both workers run dry.
StopCompletes == daemon = "stopping" ~> daemon = "down"
=============================================================================
