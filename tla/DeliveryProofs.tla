--------------------------- MODULE DeliveryProofs ---------------------------
(***************************************************************************)
(* No finished hook's observation is lost, what is acknowledged is stored, *)
(* what is refused is not, and whoever is admitted has a place in the      *)
(* queue, for any number of callers, permits, queue places and kills, and  *)
(* whatever steps of the daemon and of the drain return errors.            *)
(***************************************************************************)
EXTENDS Delivery, FiniteSetTheorems, TLAPS

\* An acknowledgement is good wherever it is on its way: with the handler, in
\* the response or with the caller.
AckStored ==
    \A c \in Clients :
        handler[c] = "acked" \/ reply[c] = "delivered" \/ client[c] = "delivered"
            => IdsOf(c) \subseteq log

\* The persistence worker has stored what lies before `next` in its batch, the
\* drain what it is about to remove.
WorkStored ==
    /\ current # NoClient => \A k \in 1..next - 1 : Batch[current][k] \in log
    /\ entry # NoClient => IdsOf(entry) \subseteq log

\* Where the observation of a hook that fell back on the spool can be.
SpooledKept ==
    \A h \in Hooks : client[h] = "spooled" =>
        IdsOf(h) \subseteq log \/ h \in spool \/ h \in rejected

Kept == AckStored /\ WorkStored /\ SpooledKept

IndInv == TypeOK /\ Kept
-----------------------------------------------------------------------------
(* Types *)

\* Every batch is made of ids and has a first one.
LEMMA BatchIds ==
    ASSUME NEW c \in Clients
    PROVE  /\ Batch[c] \in Seq(Ids)
           /\ Len(Batch[c]) \in Nat \ {0}
           /\ \A k \in 1..Len(Batch[c]) : Batch[c][k] \in Ids
           /\ IdsOf(c) \subseteq Ids
  <1>1. Batch[c] \in Seq(Ids) /\ Batch[c] # <<>>
    BY DeliveryAssumptions
  <1>2. Len(Batch[c]) \in Nat \ {0} /\ \A k \in 1..Len(Batch[c]) : Batch[c][k] \in Ids
    BY <1>1
  <1> QED
    BY <1>1, <1>2 DEF IdsOf

\* A hook is a client, and NoClient is none.
LEMMA HooksCall == Hooks \subseteq Clients /\ NoClient \notin Clients
  BY DeliveryAssumptions

\* The type invariant is inductive on its own.
LEMMA TypeStep == TypeOK /\ [Next]_vars => TypeOK'
  <1> SUFFICES ASSUME TypeOK, [Next]_vars PROVE TypeOK'
    OBVIOUS
  <1> USE DEF callers, worker, files, project
  <1>1. ASSUME NEW c \in Clients, Call(c) PROVE TypeOK'
    BY <1>1 DEF Call, Send, Receive, GiveUp, TypeOK
  <1>2. ASSUME NEW c \in Clients, Admit(c) PROVE TypeOK'
    BY <1>2 DEF Admit, TypeOK
  <1>3. ASSUME NEW c \in Clients, Handler(c) PROVE TypeOK'
    <2>1. Append(queue, c) \in Seq(Clients)
      BY DEF TypeOK
    <2>2. CASE Enqueue(c)
      BY <2>1, <2>2 DEF Enqueue, TypeOK
    <2>3. CASE Respond(c)
      BY <2>3 DEF Respond, TypeOK
    <2> QED
      BY <1>3, <2>2, <2>3 DEF Handler
  <1>4. ASSUME NEW c \in Clients, Cancel(c) PROVE TypeOK'
    BY <1>4 DEF Cancel, TypeOK
  <1>5. ASSUME NEW h \in Hooks, Hook(h) \/ DrainReject(h) PROVE TypeOK'
    BY <1>5, DeliveryAssumptions DEF Hook, Spool, Die, DrainReject, TypeOK
  <1>6. CASE Take
    <2>1. Head(queue) \in Clients /\ Tail(queue) \in Seq(Clients)
      BY <1>6 DEF Take, TypeOK
    <2>2. 1 \in 1..Len(Batch[Head(queue)])
      BY <2>1, BatchIds
    <2> QED
      BY <1>6, <2>1, <2>2 DEF Take, TypeOK
  <1>7. CASE AppendNext
    <2>1. Batch[current][next] \in Ids
      BY <1>7, BatchIds DEF AppendNext, TypeOK
    <2>2. next < Len(Batch[current]) => next + 1 \in 1..Len(Batch[current])
      BY <1>7, BatchIds DEF AppendNext, TypeOK
    <2> QED
      BY <1>7, <2>1, <2>2 DEF AppendNext, Answer, TypeOK
  <1>8. CASE AppendFails
    <2>1. Batch[current][next] \in Ids
      BY <1>8, BatchIds DEF AppendFails, TypeOK
    <2> QED
      BY <1>8, <2>1 DEF AppendFails, Answer, TypeOK
  <1>9. CASE Projector
    BY <1>9 DEF Projector, Wake, ReadLog, WriteDocuments, TypeOK
  <1>10. CASE Start \/ Serve \/ DrainUnlink
    BY <1>10 DEF Start, Serve, DrainUnlink, TypeOK
  <1>11. ASSUME NEW h \in Hooks, DrainAppend(h) PROVE TypeOK'
    <2>1. IdsOf(h) \subseteq Ids
      BY BatchIds, DeliveryAssumptions
    <2> QED
      BY <1>11, <2>1 DEF DrainAppend, TypeOK
  <1>12. CASE StartFails \/ Stop \/ Exit
    BY <1>12 DEF StartFails, Stop, Exit, TypeOK
  <1>13. CASE Kill
    <2>1. kills' \in 0..MaxKills
      BY <1>13, DeliveryAssumptions DEF Kill, TypeOK
    <2>2. /\ queue' \in Seq(Clients)
          /\ handler' \in [Clients -> {"none", "permit", "waiting", "acked", "errored"}]
      BY <1>13 DEF Kill
    <2> QED
      BY <1>13, <2>1, <2>2 DEF Kill, TypeOK
  <1>14. CASE UNCHANGED vars
    BY <1>14 DEF vars, TypeOK
  <1> QED
    BY <1>1, <1>2, <1>3, <1>4, <1>5, <1>6, <1>7, <1>8, <1>9, <1>10, <1>11, <1>12, <1>13,
       <1>14 DEF Next, Persist, Starting

LEMMA InitTypes == Init => TypeOK
  <1> SUFFICES ASSUME Init PROVE TypeOK
    OBVIOUS
  <1>1. kills \in 0..MaxKills
    BY DeliveryAssumptions DEF Init
  <1>2. current # NoClient => next \in 1..Len(Batch[current])
    BY DEF Init
  <1>3. queue \in Seq(Clients)
    BY DEF Init
  <1>4. client \in [Clients -> {"idle", "calling", "called", "delivered", "refused", "failed",
                                "spooled", "lost"}]
    BY DEF Init
  <1>5. reply \in [Clients -> {"none", "delivered", "refused", "failed"}]
    BY DEF Init
  <1>6. handler \in [Clients -> {"none", "permit", "waiting", "acked", "errored"}]
    BY DEF Init
  <1> QED
    BY <1>1, <1>2, <1>3, <1>4, <1>5, <1>6 DEF Init, TypeOK

\* Every variable keeps its type; in particular the persistence worker never
\* reads past the end of its batch (lib.rs:206-212).
THEOREM DeliveryTypes == Spec => []TypeOK
  BY InitTypes, TypeStep, PTL DEF Spec
-----------------------------------------------------------------------------
(* Nothing is lost *)

\* The segments never lose an id.
LEMMA LogGrows == TypeOK /\ [Next]_vars => log \subseteq log'
  BY DEF Next, vars, callers, Call, Send, Receive, GiveUp, Admit, Handler, Enqueue, Respond,
         Cancel, Hook, Spool, Die, DrainReject, Persist, Take, AppendNext, AppendFails,
         Projector, Wake, ReadLog, WriteDocuments, Starting, Start, DrainAppend, DrainUnlink,
         Serve, StartFails, Stop, Exit, Kill

\* What most steps do: no acknowledgement but one that is passed on, no work
\* but a new start or an end, and no entry that leaves its places.
Quiet ==
    /\ \A c \in Clients : handler'[c] = "acked" => handler[c] = "acked"
    /\ \A c \in Clients : reply'[c] = "delivered" => reply[c] = "delivered" \/ handler[c] = "acked"
    /\ \A c \in Clients : client'[c] = "delivered" =>
          client[c] = "delivered" \/ reply[c] = "delivered"
    /\ UNCHANGED <<current, next>> \/ current' = NoClient \/ next' = 1
    /\ entry' = entry \/ entry' = NoClient
    /\ \A h \in Hooks : client'[h] = "spooled" => client[h] = "spooled" \/ h \in spool'
    /\ \A h \in spool : h \in spool' \/ h \in rejected' \/ IdsOf(h) \subseteq log
    /\ rejected \subseteq rejected'

\* Such a step keeps the invariant.
LEMMA QuietStep ==
    ASSUME IndInv, log \subseteq log', Quiet
    PROVE  Kept'
  <1>1. AckStored'
    BY DEF IndInv, Kept, AckStored, IdsOf, Quiet
  <1>2. WorkStored'
    BY DEF IndInv, Kept, WorkStored, IdsOf, Quiet
  <1>3. SpooledKept'
    BY DEF IndInv, Kept, SpooledKept, IdsOf, Quiet
  <1> QED
    BY <1>1, <1>2, <1>3 DEF Kept

\* An acknowledgement comes when the whole batch is stored.
LEMMA AppendStores ==
    ASSUME IndInv, AppendNext
    PROVE  Kept'
  <1>1. /\ current # NoClient /\ current \in Clients /\ next \in 1..Len(Batch[current])
        /\ log' = log \cup {Batch[current][next]}
        /\ UNCHANGED <<client, reply, spool, rejected, entry>>
    BY DEF AppendNext, IndInv, TypeOK, callers, files
  <1>2. Len(Batch[current]) \in Nat \ {0}
    BY <1>1, BatchIds
  <1>3. \A k \in 1..next : Batch[current][k] \in log'
    <2> SUFFICES ASSUME NEW k \in 1..next PROVE Batch[current][k] \in log'
      OBVIOUS
    <2>1. k = next \/ k \in 1..next - 1
      BY <1>1, <1>2
    <2> QED
      BY <1>1, <2>1 DEF IndInv, Kept, WorkStored
  <1>4. CASE next < Len(Batch[current])
    <2>1. next' = next + 1 /\ current' = current /\ handler' = handler
      BY <1>4 DEF AppendNext
    <2>2. 1..next' - 1 = 1..next
      BY <2>1, <1>1, <1>2
    <2> QED
      BY <1>1, <1>3, <2>1, <2>2 DEF IndInv, Kept, AckStored, WorkStored, SpooledKept, IdsOf
  <1>5. CASE ~(next < Len(Batch[current]))
    <2>1. /\ handler' = [handler EXCEPT ![current] = IF @ = "waiting" THEN "acked" ELSE @]
          /\ current' = NoClient
      BY <1>5 DEF AppendNext, Answer
    <2>2. IdsOf(current) \subseteq log'
      <3>1. next = Len(Batch[current])
        BY <1>1, <1>2, <1>5
      <3> QED
        BY <1>3, <3>1 DEF IdsOf
    <2>3. AckStored'
      <3> SUFFICES ASSUME NEW c \in Clients,
                          handler'[c] = "acked" \/ reply'[c] = "delivered" \/ client'[c] = "delivered"
                   PROVE  IdsOf(c) \subseteq log'
        BY DEF AckStored, IdsOf
      <3>1. CASE c = current
        BY <2>2, <3>1
      <3>2. CASE c # current
        <4>1. handler'[c] = handler[c]
          BY <2>1, <3>2 DEF IndInv, TypeOK
        <4> QED
          BY <1>1, <4>1 DEF IndInv, Kept, AckStored
      <3> QED
        BY <3>1, <3>2
    <2> QED
      BY <1>1, <2>1, <2>3 DEF IndInv, Kept, WorkStored, SpooledKept, IdsOf
  <1> QED
    BY <1>4, <1>5

\* The invariant is inductive.
LEMMA IndStep == IndInv /\ [Next]_vars => IndInv'
  <1> SUFFICES ASSUME IndInv, [Next]_vars PROVE Kept'
    BY TypeStep DEF IndInv
  <1> USE DEF callers, worker, files, project
  <1>1. TypeOK' /\ log \subseteq log' /\ TypeOK
    BY TypeStep, LogGrows DEF IndInv
  <1>2. ASSUME NEW c \in Clients, Call(c) PROVE Kept'
    <2>1. Quiet
      BY <1>1, <1>2, HooksCall DEF Call, Send, Receive, GiveUp, TypeOK, Quiet
    <2> QED
      BY <1>1, <2>1, QuietStep
  <1>3. ASSUME NEW c \in Clients, Admit(c) PROVE Kept'
    <2>1. Quiet
      BY <1>1, <1>3 DEF Admit, TypeOK, Quiet
    <2> QED
      BY <1>1, <2>1, QuietStep
  <1>4. ASSUME NEW c \in Clients, Handler(c) PROVE Kept'
    <2>1. Quiet
      BY <1>1, <1>4 DEF Handler, Enqueue, Respond, TypeOK, Quiet
    <2> QED
      BY <1>1, <2>1, QuietStep
  <1>5. ASSUME NEW c \in Clients, Cancel(c) PROVE Kept'
    <2>1. Quiet
      BY <1>1, <1>5 DEF Cancel, TypeOK, Quiet
    <2> QED
      BY <1>1, <2>1, QuietStep
  <1>6. ASSUME NEW h \in Hooks, Hook(h) PROVE Kept'
    <2>1. Quiet
      BY <1>1, <1>6, DeliveryAssumptions DEF Hook, Spool, Die, TypeOK, Quiet
    <2> QED
      BY <1>1, <2>1, QuietStep
  <1>7. ASSUME NEW h \in Hooks, DrainReject(h) PROVE Kept'
    <2>1. Quiet
      BY <1>1, <1>7 DEF DrainReject, TypeOK, Quiet
    <2> QED
      BY <1>1, <2>1, QuietStep
  <1>8. CASE Take
    <2>1. Quiet
      BY <1>1, <1>8 DEF Take, TypeOK, Quiet
    <2> QED
      BY <1>1, <2>1, QuietStep
  <1>9. CASE AppendNext
    BY <1>9, AppendStores
  <1>10. CASE AppendFails
    <2>1. Quiet
      BY <1>1, <1>10 DEF AppendFails, Answer, TypeOK, Quiet
    <2> QED
      BY <1>1, <2>1, QuietStep
  <1>11. CASE Projector
    <2>1. Quiet
      BY <1>1, <1>11 DEF Projector, Wake, ReadLog, WriteDocuments, TypeOK, Quiet
    <2> QED
      BY <1>1, <2>1, QuietStep
  <1>12. CASE Start \/ Serve
    <2>1. Quiet
      BY <1>1, <1>12 DEF Start, Serve, TypeOK, Quiet
    <2> QED
      BY <1>1, <2>1, QuietStep
  <1>13. CASE DrainUnlink
    <2>1. IdsOf(entry) \subseteq log
      BY <1>13 DEF DrainUnlink, IndInv, Kept, WorkStored
    <2>2. Quiet
      BY <1>1, <1>13, <2>1 DEF DrainUnlink, TypeOK, Quiet
    <2> QED
      BY <1>1, <2>2, QuietStep
  <1>14. ASSUME NEW h \in Hooks, DrainAppend(h) PROVE Kept'
    <2>1. /\ IdsOf(h) \subseteq log' /\ entry' = h
          /\ UNCHANGED <<client, reply, handler, current, next, spool, rejected>>
      BY <1>14 DEF DrainAppend
    <2> QED
      BY <1>1, <2>1 DEF IndInv, Kept, AckStored, WorkStored, SpooledKept, IdsOf
  <1>15. CASE StartFails \/ Stop \/ Exit
    <2>1. Quiet
      BY <1>1, <1>15 DEF StartFails, Stop, Exit, TypeOK, Quiet
    <2> QED
      BY <1>1, <2>1, QuietStep
  <1>16. CASE Kill
    <2>1. Quiet
      BY <1>1, <1>16 DEF Kill, TypeOK, Quiet
    <2> QED
      BY <1>1, <2>1, QuietStep
  <1>17. CASE UNCHANGED vars
    <2>1. Quiet
      BY <1>1, <1>17 DEF vars, TypeOK, Quiet
    <2> QED
      BY <1>1, <2>1, QuietStep
  <1> QED
    BY <1>2, <1>3, <1>4, <1>5, <1>6, <1>7, <1>8, <1>9, <1>10, <1>11, <1>12, <1>13, <1>14,
       <1>15, <1>16, <1>17 DEF Next, Persist, Starting

\* Nothing is answered, stored or spooled at the start.
LEMMA InitInv == Init => IndInv
  BY InitTypes, HooksCall DEF Init, IndInv, Kept, AckStored, WorkStored, SpooledKept

\* A hook that ran to its end has left its observation in the segments, in a
\* pending spool entry or in a rejected one (main.rs:1540-1547, spool.rs:53-71).
THEOREM NothingLost == Spec => []NoneLost
  <1>1. IndInv => NoneLost
    BY DeliveryAssumptions DEF IndInv, Kept, AckStored, SpooledKept, NoneLost
  <1> QED
    BY <1>1, InitInv, IndStep, PTL DEF Spec
-----------------------------------------------------------------------------
(* The service implements the abstract log *)

\* A caller that was acknowledged stays acknowledged.
LEMMA DeliveredStays ==
    TypeOK /\ [Next]_vars =>
        \A c \in Clients : client[c] = "delivered" => client'[c] = "delivered"
  <1> SUFFICES ASSUME TypeOK, [Next]_vars, NEW d \in Clients, client[d] = "delivered"
               PROVE  client'[d] = "delivered"
    OBVIOUS
  <1>1. ASSUME NEW c \in Clients, Call(c) \/ Admit(c) PROVE client'[d] = "delivered"
    BY <1>1 DEF Call, Send, Receive, GiveUp, Admit, TypeOK
  <1>2. ASSUME NEW h \in Hooks, Hook(h) PROVE client'[d] = "delivered"
    BY <1>2, HooksCall DEF Hook, Spool, Die, TypeOK
  <1>3. CASE UNCHANGED client
    BY <1>3
  <1>4. \/ \E c \in Clients : Call(c) \/ Admit(c)
        \/ \E h \in Hooks : Hook(h)
        \/ UNCHANGED client
    BY DEF Next, vars, callers, Handler, Enqueue, Respond, Cancel, DrainReject, Persist, Take,
           AppendNext, AppendFails, Projector, Wake, ReadLog, WriteDocuments, Starting, Start,
           DrainAppend, DrainUnlink, Serve, StartFails, Stop, Exit, Kill
  <1> QED
    BY <1>1, <1>2, <1>3, <1>4

\* Every step is an acknowledgement of the abstract log: of nothing new, but
\* when a caller receives its response.
LEMMA StepImplements == IndInv /\ [Next]_vars => [DL!Next]_(DL!vars)
  <1> SUFFICES ASSUME IndInv, [Next]_vars PROVE DL!Next
    OBVIOUS
  <1>1. IndInv'
    BY IndStep
  <1>2. log \subseteq log' /\ log' \subseteq Ids
    BY <1>1, LogGrows DEF IndInv, TypeOK
  <1>3. Acked \subseteq Acked'
    BY DeliveredStays DEF IndInv, Acked, IdsIn, IdsOf
  <1>4. Acked' \subseteq log'
    BY <1>1 DEF IndInv, Kept, AckStored, Acked, IdsIn
  <1>5. DL!Acknowledge(Acked')
    <2>1. log' = log \cup log' /\ Acked' = Acked \cup Acked'
      BY <1>2, <1>3
    <2> QED
      BY <1>2, <1>4, <2>1 DEF DL!Acknowledge
  <1> QED
    BY <1>2, <1>4, <1>5 DEF DL!Next

\* The daemon with its hooks, queues and spool keeps the promise of the
\* abstract log: a request is acknowledged as a whole, after all of it is
\* stored, and nothing stored is lost (docs/adr/004-delivery-recovery.md,
\* lines 7-12; asa-daemon lib.rs:201-216, 241-268).
THEOREM DeliveryImplementsLog == Spec => ImplementsDurableLog
  <1>1. Init => DL!Init
    BY HooksCall DEF Init, DL!Init, Acked, IdsIn
  <1> QED
    BY <1>1, InitInv, IndStep, StepImplements, PTL DEF Spec, ImplementsDurableLog, DL!Spec
-----------------------------------------------------------------------------
(* What is refused leaves no trace *)

\* Whose request the daemon has not taken over: it was not sent, it waits for
\* its place in the queue, or it was refused.
Untouched(c) ==
    \/ client[c] \in {"idle", "calling", "refused"}
    \/ client[c] = "called" /\ (handler[c] = "permit" \/ reply[c] = "refused")

Queued(c) == \E k \in 1..Len(queue) : queue[k] = c

\* A call has a handler or an answer, once it is admitted.
OneAnswer ==
    \A c \in Clients :
        /\ client[c] \in {"idle", "calling"} => handler[c] = "none" /\ reply[c] = "none"
        /\ handler[c] # "none" => reply[c] = "none" /\ client[c] # "refused"

NoTrace ==
    \A c \in Clients : Untouched(c) =>
        /\ ~Queued(c)
        /\ c # current
        /\ c \notin spool
        /\ c \notin todo
        /\ IdsOf(c) \cap log \subseteq IdsIn(Clients \ {c})

\* No step answers a call that still has its handler.
LEMMA OneAnswerStep == TypeOK /\ OneAnswer /\ [Next]_vars => OneAnswer'
  <1> SUFFICES ASSUME TypeOK, OneAnswer, [Next]_vars PROVE OneAnswer'
    OBVIOUS
  <1> USE DEF callers, worker, files, project
  <1>1. ASSUME NEW c \in Clients, Call(c) \/ Admit(c) PROVE OneAnswer'
    BY <1>1 DEF Call, Send, Receive, GiveUp, Admit, TypeOK, OneAnswer
  <1>2. ASSUME NEW c \in Clients, Handler(c) \/ Cancel(c) PROVE OneAnswer'
    BY <1>2 DEF Handler, Enqueue, Respond, Cancel, TypeOK, OneAnswer
  <1>3. ASSUME NEW h \in Hooks, Hook(h) PROVE OneAnswer'
    BY <1>3, HooksCall DEF Hook, Spool, Die, TypeOK, OneAnswer
  <1>4. CASE AppendNext \/ AppendFails
    BY <1>4 DEF AppendNext, AppendFails, Answer, TypeOK, OneAnswer
  <1>5. CASE Kill
    BY <1>5 DEF Kill, TypeOK, OneAnswer
  <1>6. CASE UNCHANGED <<client, reply, handler>>
    BY <1>6 DEF OneAnswer
  <1>7. \/ \E c \in Clients : Call(c) \/ Admit(c) \/ Handler(c) \/ Cancel(c)
        \/ \E h \in Hooks : Hook(h)
        \/ AppendNext \/ AppendFails \/ Kill
        \/ UNCHANGED <<client, reply, handler>>
    BY DEF Next, vars, DrainReject, Persist, Take, Projector, Wake, ReadLog, WriteDocuments,
           Starting, Start, DrainAppend, DrainUnlink, Serve, StartFails, Stop, Exit
  <1> QED
    BY <1>1, <1>2, <1>3, <1>4, <1>5, <1>6, <1>7

\* Nothing becomes untouched again.
LEMMA TouchedStays ==
    ASSUME TypeOK, OneAnswer, [Next]_vars, NEW d \in Clients, Untouched(d)'
    PROVE  Untouched(d)
  <1> USE DEF callers, worker, files, project
  <1>1. ASSUME NEW c \in Clients, Call(c) \/ Admit(c) PROVE Untouched(d)
    BY <1>1 DEF Call, Send, Receive, GiveUp, Admit, TypeOK, Untouched
  <1>2. ASSUME NEW c \in Clients, Handler(c) \/ Cancel(c) PROVE Untouched(d)
    BY <1>2 DEF Handler, Enqueue, Respond, Cancel, TypeOK, Untouched
  <1>3. ASSUME NEW h \in Hooks, Hook(h) PROVE Untouched(d)
    BY <1>3, HooksCall DEF Hook, Spool, Die, TypeOK, Untouched
  <1>4. CASE AppendNext \/ AppendFails
    BY <1>4 DEF AppendNext, AppendFails, Answer, TypeOK, Untouched
  <1>5. CASE Kill
    BY <1>5 DEF Kill, TypeOK, Untouched
  <1>6. CASE UNCHANGED <<client, reply, handler>>
    BY <1>6 DEF Untouched
  <1>7. \/ \E c \in Clients : Call(c) \/ Admit(c) \/ Handler(c) \/ Cancel(c)
        \/ \E h \in Hooks : Hook(h)
        \/ AppendNext \/ AppendFails \/ Kill
        \/ UNCHANGED <<client, reply, handler>>
    BY DEF Next, vars, DrainReject, Persist, Take, Projector, Wake, ReadLog, WriteDocuments,
           Starting, Start, DrainAppend, DrainUnlink, Serve, StartFails, Stop, Exit
  <1> QED
    BY <1>1, <1>2, <1>3, <1>4, <1>5, <1>6, <1>7

\* What a queue holds after a step.
LEMMA QueueStep ==
    ASSUME TypeOK, [Next]_vars, NEW d \in Clients, Queued(d)'
    PROVE  Queued(d) \/ (Enqueue(d) /\ handler'[d] = "waiting")
  <1> USE DEF callers, worker, files, project
  <1>0. queue \in Seq(Clients) /\ handler \in [Clients -> {"none", "permit", "waiting", "acked", "errored"}]
    BY DEF TypeOK
  <1>1. CASE UNCHANGED queue
    BY <1>1 DEF Queued
  <1>2. CASE Take
    <2>1. PICK k \in 1..Len(queue') : queue'[k] = d
      BY DEF Queued
    <2>2. queue # <<>> /\ queue' = Tail(queue)
      BY <1>2 DEF Take
    <2>3. k + 1 \in 1..Len(queue) /\ queue[k + 1] = d
      BY <1>0, <2>1, <2>2
    <2> QED
      BY <2>3 DEF Queued
  <1>3. ASSUME NEW c \in Clients, Enqueue(c), queue' = Append(queue, c),
               handler' = [handler EXCEPT ![c] = "waiting"]
        PROVE  Queued(d) \/ (Enqueue(d) /\ handler'[d] = "waiting")
    <2>1. PICK k \in 1..Len(queue') : queue'[k] = d
      BY DEF Queued
    <2>2. CASE k \in 1..Len(queue)
      BY <1>0, <1>3, <2>1, <2>2 DEF Queued
    <2>3. CASE k \notin 1..Len(queue)
      <3>1. c = d
        BY <1>0, <1>3, <2>1, <2>3
      <3> QED
        BY <1>0, <1>3, <3>1
    <2> QED
      BY <2>2, <2>3
  <1>4. CASE Kill
    <2>1. Len(queue') = 0
      BY <1>4 DEF Kill
    <2> QED
      BY <2>1 DEF Queued
  <1>5. \/ UNCHANGED queue
        \/ Take \/ Kill
        \/ \E c \in Clients : /\ Enqueue(c) /\ queue' = Append(queue, c)
                              /\ handler' = [handler EXCEPT ![c] = "waiting"]
    BY DEF Next, vars, Call, Send, Receive, GiveUp, Admit, Handler, Enqueue, Respond,
           Cancel, Hook, Spool, Die, DrainReject, Persist, AppendNext, AppendFails,
           Projector, Wake, ReadLog, WriteDocuments, Starting, Start, DrainAppend, DrainUnlink,
           Serve, StartFails, Stop, Exit
  <1> QED
    BY <1>1, <1>2, <1>3, <1>4, <1>5

\* What the worker and the drain put into the segments is somebody else's.
LEMMA OthersStored ==
    ASSUME TypeOK, [Next]_vars, NEW d \in Clients, d # current, d \notin todo
    PROVE  log' \subseteq log \cup IdsIn(Clients \ {d})
  <1> USE DEF callers, worker, files, project
  <1>1. CASE AppendNext \/ AppendFails
    <2>1. current \in Clients \ {d} /\ next \in 1..Len(Batch[current])
      BY <1>1 DEF AppendNext, AppendFails, TypeOK
    <2>2. Batch[current][next] \in IdsIn(Clients \ {d})
      BY <2>1 DEF IdsIn, IdsOf
    <2> QED
      BY <1>1, <2>2 DEF AppendNext, AppendFails
  <1>2. ASSUME NEW h \in Hooks, DrainAppend(h) PROVE log' \subseteq log \cup IdsIn(Clients \ {d})
    <2>1. h \in Clients \ {d}
      BY <1>2, HooksCall DEF DrainAppend
    <2>2. IdsOf(h) \subseteq IdsIn(Clients \ {d})
      BY <2>1 DEF IdsIn
    <2> QED
      BY <1>2, <2>2 DEF DrainAppend
  <1>3. CASE UNCHANGED log
    BY <1>3
  <1>4. AppendNext \/ AppendFails \/ (\E h \in Hooks : DrainAppend(h)) \/ UNCHANGED log
    BY DEF Next, vars, Call, Send, Receive, GiveUp, Admit, Handler, Enqueue, Respond,
           Cancel, Hook, Spool, Die, DrainReject, Persist, Take,
           Projector, Wake, ReadLog, WriteDocuments, Starting, Start, DrainUnlink,
           Serve, StartFails, Stop, Exit, Kill
  <1> QED
    BY <1>1, <1>2, <1>3, <1>4

\* The worker takes from the queue, the drain from the spool, and the spool
\* holds what its hook has written there.
LEMMA TakenFrom ==
    ASSUME TypeOK, [Next]_vars, NEW d \in Clients
    PROVE  /\ d = current' => d = current \/ Queued(d)
           /\ d \in todo' => d \in todo \/ d \in spool
           /\ d \in spool' => d \in spool \/ client'[d] = "spooled"
  <1> USE DEF callers, worker, files, project
  <1>1. d = current' => d = current \/ Queued(d)
    <2>1. CASE Take
      <3>1. queue # <<>> /\ current' = Head(queue) /\ queue \in Seq(Clients)
        BY <2>1 DEF Take, TypeOK
      <3>2. 1 \in 1..Len(queue) /\ current' = queue[1]
        BY <3>1
      <3> QED
        BY <3>2 DEF Queued
    <2>2. CASE current' = current \/ current' = NoClient
      BY <2>2, HooksCall
    <2>3. Take \/ current' = current \/ current' = NoClient
      BY DEF Next, vars, Call, Send, Receive, GiveUp, Admit, Handler, Enqueue, Respond,
             Cancel, Hook, Spool, Die, DrainReject, Persist, AppendNext, AppendFails, Answer,
             Projector, Wake, ReadLog, WriteDocuments, Starting, Start, DrainAppend, DrainUnlink,
             Serve, StartFails, Stop, Exit, Kill
    <2> QED
      BY <2>1, <2>2, <2>3
  <1>2. todo' \subseteq todo \cup spool
    BY DEF Next, vars, Call, Send, Receive, GiveUp, Admit, Handler, Enqueue, Respond,
           Cancel, Hook, Spool, Die, DrainReject, Persist, Take, AppendNext, AppendFails, Answer,
           Projector, Wake, ReadLog, WriteDocuments, Starting, Start, DrainAppend, DrainUnlink,
           Serve, StartFails, Stop, Exit, Kill
  <1>3. d \in spool' => d \in spool \/ client'[d] = "spooled"
    <2>1. ASSUME NEW h \in Hooks, Spool(h) PROVE d \in spool' => d \in spool \/ client'[d] = "spooled"
      BY <2>1, HooksCall DEF Spool, TypeOK
    <2>2. (\E h \in Hooks : Spool(h)) \/ spool' \subseteq spool
      BY DEF Next, vars, Call, Send, Receive, GiveUp, Admit, Handler, Enqueue, Respond,
             Cancel, Hook, Die, DrainReject, Persist, Take, AppendNext, AppendFails, Answer,
             Projector, Wake, ReadLog, WriteDocuments, Starting, Start, DrainAppend, DrainUnlink,
             Serve, StartFails, Stop, Exit, Kill
    <2> QED
      BY <2>1, <2>2
  <1> QED
    BY <1>1, <1>2, <1>3

\* What was untouched and stays so gains nothing in the queue, with the worker,
\* in the spool or in the segments.
LEMMA NoTraceStep == TypeOK /\ OneAnswer /\ NoTrace /\ [Next]_vars => NoTrace'
  <1> SUFFICES ASSUME TypeOK, OneAnswer, NoTrace, [Next]_vars,
                      NEW d \in Clients, Untouched(d)'
               PROVE  /\ ~Queued(d)' /\ d # current' /\ d \notin spool' /\ d \notin todo'
                      /\ IdsOf(d) \cap log' \subseteq IdsIn(Clients \ {d})
    BY DEF NoTrace, IdsOf, IdsIn
  <1>1. Untouched(d)
    BY TouchedStays
  <1>2. /\ ~Queued(d) /\ d # current /\ d \notin spool /\ d \notin todo
        /\ IdsOf(d) \cap log \subseteq IdsIn(Clients \ {d})
    BY <1>1 DEF NoTrace
  <1>3. ~Queued(d)'
    <2> SUFFICES ASSUME Enqueue(d), handler'[d] = "waiting" PROVE FALSE
      BY <1>2, QueueStep
    <2>1. handler[d] = "permit" /\ client' = client /\ OneAnswer'
      BY OneAnswerStep DEF Enqueue, callers
    <2>2. reply'[d] = "none" /\ client'[d] \notin {"idle", "calling", "refused"}
      BY <2>1 DEF OneAnswer
    <2> QED
      BY <2>2 DEF Untouched
  <1>4. d # current' /\ d \notin spool' /\ d \notin todo'
    BY <1>2, TakenFrom DEF Untouched
  <1>5. IdsOf(d) \cap log' \subseteq IdsIn(Clients \ {d})
    BY <1>2, OthersStored
  <1> QED
    BY <1>3, <1>4, <1>5

\* A request that finds no permit or no room in the queue is never stored, but
\* for what others send or a spool entry carries (lib.rs:227-250).
THEOREM NothingOfRefused == Spec => []RefusedLeavesNoTrace
  <1>1. Init => OneAnswer
    BY DEF Init, OneAnswer
  <1>2. Init => NoTrace
    BY HooksCall DEF Init, NoTrace, Queued
  <1>3. NoTrace => RefusedLeavesNoTrace
    BY DEF NoTrace, RefusedLeavesNoTrace, Untouched
  <1> QED
    BY <1>1, <1>2, <1>3, InitTypes, TypeStep, OneAnswerStep, NoTraceStep, PTL DEF Spec
-----------------------------------------------------------------------------
(* There is a permit for every place in the queue *)

\* A request is queued once, while its handler waits if its caller does, and
\* no more by the time the worker has it.
QueueOrderly ==
    /\ \A c \in Clients : client[c] \in {"idle", "calling"} \/ handler[c] = "permit" =>
          ~Queued(c) /\ c # current
    /\ \A c \in Clients : Queued(c) =>
          c # current /\ (client[c] = "called" => handler[c] = "waiting")
    /\ \A j, k \in 1..Len(queue) : queue[j] = queue[k] => j = k

PermitsBounded == IsFiniteSet(Permits) /\ Cardinality(Permits) <= Slots

\* A handler queues its request once and then waits, or goes with its caller.
LEMMA OrderlyStep ==
    ASSUME TypeOK, OneAnswer, QueueOrderly, [Next]_vars
    PROVE  QueueOrderly'
  <1> USE DEF callers, worker, files, project
  <1>0. /\ client \in [Clients -> {"idle", "calling", "called", "delivered", "refused", "failed",
                                   "spooled", "lost"}]
        /\ handler \in [Clients -> {"none", "permit", "waiting", "acked", "errored"}]
        /\ queue \in Seq(Clients)
        /\ NoClient \notin Clients
    BY HooksCall DEF TypeOK
  <1>1. ASSUME NEW c \in Clients, Call(c) \/ Admit(c) PROVE QueueOrderly'
    <2>1. queue' = queue /\ current' = current
      BY <1>1 DEF Call, Send, Receive, GiveUp, Admit
    <2> QED
      BY <1>0, <1>1, <2>1 DEF Call, Send, Receive, GiveUp, Admit, QueueOrderly, Queued,
                              OneAnswer, TypeOK
  <1>2. ASSUME NEW c \in Clients, Enqueue(c) PROVE QueueOrderly'
    <2>1. CASE queue' = queue
      BY <1>0, <1>2, <2>1 DEF Enqueue, QueueOrderly, Queued
    <2>2. CASE queue' # queue
      <3>1. /\ handler[c] = "permit" /\ handler' = [handler EXCEPT ![c] = "waiting"]
            /\ queue' = Append(queue, c) /\ UNCHANGED <<client, current>>
        BY <1>2, <2>2 DEF Enqueue
      <3>2. /\ Len(queue') = Len(queue) + 1 /\ queue'[Len(queue) + 1] = c
            /\ \A k \in 1..Len(queue) : queue'[k] = queue[k]
            /\ Len(queue) \in Nat
        BY <1>0, <3>1
      <3>3. ~Queued(c) /\ c # current /\ client[c] \notin {"idle", "calling"}
        BY <3>1 DEF QueueOrderly, OneAnswer
      <3>4. \A d \in Clients : Queued(d)' <=> Queued(d) \/ d = c
        BY <3>2 DEF Queued
      <3>5. \A j, k \in 1..Len(queue') : queue'[j] = queue'[k] => j = k
        <4> SUFFICES ASSUME NEW j \in 1..Len(queue'), NEW k \in 1..Len(queue'), queue'[j] = queue'[k]
                     PROVE  j = k
          OBVIOUS
        <4>1. CASE j \in 1..Len(queue) /\ k \in 1..Len(queue)
          BY <3>2, <4>1 DEF QueueOrderly
        <4>2. CASE j \notin 1..Len(queue)
          BY <3>2, <3>3, <4>2 DEF Queued
        <4>3. CASE k \notin 1..Len(queue)
          BY <3>2, <3>3, <4>3 DEF Queued
        <4> QED
          BY <4>1, <4>2, <4>3
      <3>6. \A d \in Clients : d # c => handler'[d] = handler[d]
        BY <1>0, <3>1
      <3>7. handler'[c] = "waiting"
        BY <1>0, <3>1
      <3>8. \A d \in Clients : client'[d] \in {"idle", "calling"} \/ handler'[d] = "permit" =>
               ~Queued(d)' /\ d # current'
        BY <3>1, <3>3, <3>4, <3>6, <3>7 DEF QueueOrderly
      <3>9. \A d \in Clients : Queued(d)' =>
               d # current' /\ (client'[d] = "called" => handler'[d] = "waiting")
        BY <3>1, <3>3, <3>4, <3>6, <3>7 DEF QueueOrderly
      <3> QED
        BY <3>5, <3>8, <3>9 DEF QueueOrderly
    <2> QED
      BY <2>1, <2>2
  <1>3. ASSUME NEW c \in Clients, Respond(c) \/ Cancel(c) PROVE QueueOrderly'
    BY <1>0, <1>3 DEF Respond, Cancel, QueueOrderly, Queued
  <1>4. CASE Take
    <2>1. /\ queue # <<>> /\ current' = Head(queue) /\ queue' = Tail(queue)
          /\ UNCHANGED <<client, handler>>
      BY <1>4 DEF Take
    <2>2. /\ Len(queue) \in Nat \ {0} /\ Len(queue') = Len(queue) - 1
          /\ \A k \in 1..Len(queue') : k + 1 \in 1..Len(queue) /\ queue'[k] = queue[k + 1]
          /\ 1 \in 1..Len(queue) /\ current' = queue[1]
      BY <1>0, <2>1
    <2>3. \A d \in Clients : Queued(d)' => Queued(d) /\ d # current'
      <3> SUFFICES ASSUME NEW d \in Clients, NEW k \in 1..Len(queue'), queue'[k] = d
                   PROVE  Queued(d) /\ d # current'
        BY DEF Queued
      <3>1. k + 1 \in 1..Len(queue) /\ queue[k + 1] = d /\ k + 1 # 1
        BY <2>2
      <3> QED
        BY <2>2, <3>1 DEF Queued, QueueOrderly
    <2>4. \A d \in Clients : d = current' => Queued(d)
      BY <2>2 DEF Queued
    <2>5. \A j, k \in 1..Len(queue') : queue'[j] = queue'[k] => j = k
      BY <2>2 DEF QueueOrderly
    <2> QED
      BY <2>1, <2>3, <2>4, <2>5 DEF QueueOrderly
  <1>5. CASE AppendNext \/ AppendFails
    <2>1. /\ UNCHANGED <<client, queue>> /\ current' \in {current, NoClient}
          /\ \A d \in Clients : d # current => handler'[d] = handler[d]
          /\ \A d \in Clients : handler'[d] = "permit" => handler[d] = "permit"
      BY <1>0, <1>5 DEF AppendNext, AppendFails, Answer
    <2> QED
      BY <1>0, <2>1 DEF QueueOrderly, Queued
  <1>6. CASE Kill
    <2>1. Len(queue') = 0 /\ current' = NoClient
      BY <1>6 DEF Kill
    <2> QED
      BY <1>0, <2>1 DEF QueueOrderly, Queued
  <1>7. ASSUME NEW h \in Hooks, Hook(h) PROVE QueueOrderly'
    <2>1. /\ UNCHANGED <<handler, queue, current>>
          /\ \A d \in Clients : client'[d] = client[d] \/ client'[d] \in {"spooled", "lost"}
      BY <1>0, <1>7, HooksCall DEF Hook, Spool, Die
    <2> QED
      BY <2>1 DEF QueueOrderly, Queued
  <1>8. CASE UNCHANGED <<client, handler, queue, current>>
    BY <1>8 DEF QueueOrderly, Queued
  <1>9. \/ \E c \in Clients : Call(c) \/ Admit(c) \/ Enqueue(c) \/ Respond(c) \/ Cancel(c)
        \/ \E h \in Hooks : Hook(h)
        \/ Take \/ AppendNext \/ AppendFails \/ Kill
        \/ UNCHANGED <<client, handler, queue, current>>
    BY DEF Next, vars, Handler, DrainReject, Persist, Projector, Wake, ReadLog, WriteDocuments,
           Starting, Start, DrainAppend, DrainUnlink, Serve, StartFails, Stop, Exit
  <1> QED
    BY <1>1, <1>2, <1>3, <1>4, <1>5, <1>6, <1>7, <1>8, <1>9

\* Only an admission takes a permit, and only one that is free.
LEMMA BoundedStep == TypeOK /\ PermitsBounded /\ [Next]_vars => PermitsBounded'
  <1> SUFFICES ASSUME TypeOK, PermitsBounded, [Next]_vars PROVE PermitsBounded'
    OBVIOUS
  <1> USE DEF callers, worker, files, project
  <1>1. CASE Permits' \subseteq Permits
    <2>1. IsFiniteSet(Permits') /\ Cardinality(Permits') <= Cardinality(Permits)
      BY <1>1, FS_Subset DEF PermitsBounded
    <2>2. Cardinality(Permits') \in Nat /\ Cardinality(Permits) \in Nat
      BY <2>1, FS_CardinalityType DEF PermitsBounded
    <2> QED
      BY <2>1, <2>2, DeliveryAssumptions DEF PermitsBounded
  <1>2. ASSUME NEW c \in Clients, Admit(c), Cardinality(Permits) < Slots PROVE PermitsBounded'
    <2>1. Permits' = Permits \cup {c}
      BY <1>2 DEF Admit, TypeOK, Permits
    <2>2. IsFiniteSet(Permits \cup {c}) /\ Cardinality(Permits \cup {c}) <= Cardinality(Permits) + 1
      <3>1. Cardinality(Permits) \in Nat
        BY FS_CardinalityType DEF PermitsBounded
      <3>2. /\ IsFiniteSet(Permits \cup {c})
            /\ Cardinality(Permits \cup {c}) =
                  IF c \in Permits THEN Cardinality(Permits) ELSE Cardinality(Permits) + 1
        BY FS_AddElement, Zenon DEF PermitsBounded
      <3> QED
        BY <3>1, <3>2
    <2>3. Cardinality(Permits) \in Nat /\ Cardinality(Permits \cup {c}) \in Nat
      BY <2>2, FS_CardinalityType DEF PermitsBounded
    <2>4. Cardinality(Permits \cup {c}) <= Slots
      BY <1>2, <2>2, <2>3, DeliveryAssumptions
    <2> QED
      BY <2>1, <2>2, <2>4, Zenon DEF PermitsBounded
  <1>3. (\E c \in Clients : Admit(c) /\ Cardinality(Permits) < Slots) \/ Permits' \subseteq Permits
    <2>1. ASSUME NEW c \in Clients, Admit(c), ~(Cardinality(Permits) < Slots)
          PROVE  Permits' \subseteq Permits
      BY <2>1 DEF Admit, Permits
    <2>2. ASSUME NEW c \in Clients, Handler(c) \/ Cancel(c) PROVE Permits' \subseteq Permits
      BY <2>2 DEF Handler, Enqueue, Respond, Cancel, TypeOK, Permits
    <2>3. CASE AppendNext \/ AppendFails
      BY <2>3 DEF AppendNext, AppendFails, Answer, TypeOK, Permits
    <2>4. CASE Kill
      BY <2>4 DEF Kill, Permits
    <2>5. CASE UNCHANGED handler
      BY <2>5 DEF Permits
    <2>6. \/ \E c \in Clients : Admit(c) \/ Handler(c) \/ Cancel(c)
          \/ AppendNext \/ AppendFails \/ Kill
          \/ UNCHANGED handler
      BY DEF Next, vars, Call, Send, Receive, GiveUp, Hook, Spool, Die, DrainReject, Persist,
             Take, Projector, Wake, ReadLog, WriteDocuments, Starting, Start, DrainAppend,
             DrainUnlink, Serve, StartFails, Stop, Exit
    <2> QED
      BY <2>1, <2>2, <2>3, <2>4, <2>5, <2>6
  <1> QED
    BY <1>1, <1>2, <1>3

\* Were all of a full queue's callers waiting, each would hold a permit, and
\* with the one of the call at hand there would be more than there are.
LEMMA FullQueue ==
    ASSUME TypeOK, QueueOrderly, PermitsBounded
    PROVE  FullBehindOrphans
  <1> SUFFICES ASSUME Len(queue) = QueueLimit, NEW c \in Clients, handler[c] = "permit",
                      \A k \in 1..Len(queue) : client[queue[k]] = "called"
               PROVE  FALSE
    BY DEF FullBehindOrphans
  <1> DEFINE Others == Permits \ {c}
  <1>1. /\ queue \in Seq(Clients) /\ QueueLimit \in Nat /\ Slots \in Nat /\ Slots <= QueueLimit
        /\ \A k \in 1..Len(queue) : queue[k] \in Clients
    BY DeliveryAssumptions DEF TypeOK
  <1>2. \A k \in 1..Len(queue) : queue[k] \in Others
    <2> SUFFICES ASSUME NEW k \in 1..Len(queue) PROVE queue[k] \in Others
      OBVIOUS
    <2>1. Queued(queue[k]) /\ queue[k] \in Clients
      BY <1>1 DEF Queued
    <2>2. handler[queue[k]] = "waiting"
      BY <2>1 DEF QueueOrderly
    <2> QED
      BY <2>1, <2>2 DEF Permits
  <1>3. IsFiniteSet(Others) /\ Cardinality(Others) = Cardinality(Permits) - 1
    BY FS_RemoveElement DEF PermitsBounded, Permits
  <1>4. Cardinality(1..Len(queue)) <= Cardinality(Others)
    <2>1. queue \in [1..Len(queue) -> Others]
      BY <1>1, <1>2
    <2>2. queue \in Injection(1..Len(queue), Others)
      BY <2>1 DEF Injection, IsInjective, QueueOrderly
    <2> QED
      BY <1>3, <2>2, FS_Injection
  <1>5. Cardinality(1..Len(queue)) = QueueLimit
    BY <1>1, FS_Interval
  <1>6. Cardinality(Permits) \in Nat /\ Cardinality(Permits) <= Slots
    BY FS_CardinalityType DEF PermitsBounded
  <1> QED
    BY <1>1, <1>3, <1>4, <1>5, <1>6

\* A call that was admitted finds the queue full only behind requests whose
\* callers have gone: their handlers gave the permits back (lib.rs:227-251).
THEOREM RoomForAdmitted == Spec => []FullBehindOrphans
  <1>1. Init => OneAnswer /\ QueueOrderly
    BY HooksCall DEF Init, OneAnswer, QueueOrderly, Queued
  <1>2. Init => PermitsBounded
    <2> SUFFICES ASSUME Init PROVE PermitsBounded
      OBVIOUS
    <2>1. Permits = {}
      BY DEF Init, Permits
    <2> QED
      BY <2>1, FS_EmptySet, DeliveryAssumptions DEF PermitsBounded
  <1>3. TypeOK /\ OneAnswer /\ QueueOrderly /\ [Next]_vars => QueueOrderly'
    BY OrderlyStep
  <1> QED
    BY <1>1, <1>2, <1>3, FullQueue, InitTypes, TypeStep, OneAnswerStep, BoundedStep, PTL DEF Spec
=============================================================================
