------------------------- MODULE PollPipelineProofs -------------------------
(***************************************************************************)
(* The safety properties of PollPipeline for any number of reservations,   *)
(* replicas and jobs and for every set of failures.                        *)
(*                                                                         *)
(* FSP only moves forward: a reservation that some answer lists can since  *)
(* have ended or been deleted, never have gone back.  So every table a     *)
(* replica holds lies in the past of the schedule, of the two tables a     *)
(* poll compares the older one lies in the past of the younger one, and    *)
(* what differs between them has happened and stays that way, however late *)
(* the event goes out.                                                     *)
(***************************************************************************)
EXTENDS PollPipeline, FiniteSetTheorems, TLAPS

QueueState == {"unsent", "queued", "locked", "done", "dead"}

\* What a reservation that was in state s can be in now.
Reach(s) == CASE s = "open" -> {"open", "done", "cancelled"} \cup Unlisted
              [] s = "done" -> {"done", "deleted"}
              [] s = "cancelled" -> {"cancelled", "withdrawn"}
              [] OTHER -> {}

IsPast(table) == \A r \in DOMAIN table : schedule[r] \in Reach(table[r])

\* What the older table of a poll lists, the younger one lists in the same or
\* a later state, or it has left the list.
InOrder(prev, next) ==
  \A r \in DOMAIN prev :
    IF r \in DOMAIN next THEN next[r] \in Reach(prev[r])
                         ELSE schedule[r] \in Unlisted

SnapshotsArePast == \A w \in Replica : IsPast(snapshot[w])

PollsAreInOrder ==
  \A w \in Replica : poll[w].stage \in {"comparing", "publishing"} =>
    IsPast(poll[w].next) /\ InOrder(poll[w].prev, poll[w].next)

\* What EventsAreTrue says of an event.
IsTrue(c) ==
  CASE c.type = "CANCELLATION" ->
         c.id \in Student /\ schedule[c.id] \in {"cancelled"} \cup Unlisted
    [] c.type = "NEW_OPENING" ->
         c.id \in Crewed /\ schedule[c.id] \in {"cancelled"} \cup Unlisted
    [] OTHER -> schedule[c.id] \notin {"none", "open"}

OutgoingIsTrue == \A m \in outgoing : IsTrue(m.change)

-----------------------------------------------------------------------------
(* Types                                                                   *)

LEMMA NoTableType == NoTable \in Tables /\ DOMAIN NoTable = {}
  <1>1. NoTable \in [{} -> Listed]
    BY DEF NoTable
  <1> QED BY <1>1 DEF Tables

LEMMA TableFacts ==
  ASSUME NEW t \in Tables
  PROVE  DOMAIN t \subseteq Reservation /\ \A r \in DOMAIN t : t[r] \in Listed
  BY DEF Tables

LEMMA ListingType == Listing \in Tables
  <1>1. PICK R \in SUBSET Reservation :
          R = {x \in Reservation : schedule[x] \in Listed}
    OBVIOUS
  <1>2. Listing \in [R -> Listed]
    BY <1>1 DEF Listing
  <1> QED BY <1>2 DEF Tables

LEMMA ChangeType ==
  ASSUME NEW prev \in Tables, NEW next \in Tables
  PROVE  DetectChanges(prev, next) \subseteq Change
  BY TableFacts DEF DetectChanges, Change

\* A job that can be taken has a delivery left.
DeliveriesLeft ==
  \A j \in Job : /\ queue[j] = "unsent" => delivered[j] = 0
                 /\ queue[j] = "queued" => delivered[j] < MaxDelivery

JobsOK == /\ queue \in [Job -> QueueState]
          /\ delivered \in [Job -> 0 .. MaxDelivery]
          /\ DeliveriesLeft

MemoryOK == /\ snapshot \in [Replica -> Tables]
            /\ age \in [Replica -> Nat]
            /\ hash \in {NoHash} \cup {{t} : t \in Tables}

PollOK == poll \in [Replica -> Work \cup {NoWork}]

HistoryOK == /\ seen \subseteq Reservation /\ owed \subseteq seen
             /\ harmed \in BOOLEAN

FspOK == schedule \in [Reservation -> Listed \cup Unlisted \cup {"none"}]

EventsOK == /\ outgoing \subseteq Sending
            /\ prospects \in [Change -> Nat]
            /\ published \in [Change -> Nat]

DueOK == due \subseteq Replica

TypesHold == /\ FspOK /\ HistoryOK /\ DueOK /\ MemoryOK
             /\ JobsOK /\ PollOK /\ EventsOK

LEMMA TypesGiveTypeOK == TypesHold => TypeOK
  BY DEF TypesHold, FspOK, HistoryOK, DueOK, MemoryOK, JobsOK, PollOK,
         EventsOK, TypeOK, QueueState

LEMMA TypesInit == Init => TypesHold
  <1> SUFFICES ASSUME Init PROVE TypesHold
    OBVIOUS
  <1>1. FspOK /\ DueOK /\ EventsOK
    BY DEF Init, FspOK, DueOK, EventsOK, Listed, Unlisted
  <1>2. HistoryOK
    BY DEF Init, HistoryOK
  <1>3. MemoryOK
    BY NoTableType DEF Init, MemoryOK
  <1>4. JobsOK
    BY PipelineAssumption
       DEF PipelineAssumption, Init, JobsOK, QueueState, DeliveriesLeft
  <1>5. PollOK
    BY DEF Init, PollOK
  <1> QED BY <1>1, <1>2, <1>3, <1>4, <1>5 DEF TypesHold

\* A replica that is not idle has a job in hand.
LEMMA InHand ==
  ASSUME PollOK, NEW w \in Replica, poll[w].stage # "idle"
  PROVE  poll[w] \in Work
  BY DEF PollOK, NoWork

LEMMA WorkFacts ==
  ASSUME NEW k \in Work
  PROVE  /\ k.job \in Job /\ k.nth \in 1 .. MaxDelivery
         /\ k.prev \in Tables /\ k.next \in Tables
  BY DEF Work

LEMMA ReturnedOK ==
  ASSUME JobsOK, NEW j \in Job, queue' = Returned(j), delivered' = delivered
  PROVE  JobsOK'
  BY DEF JobsOK, Returned, QueueState, DeliveriesLeft

LEMMA CompletedOK ==
  ASSUME JobsOK, NEW w \in Replica, poll[w] \in Work,
         queue' = Completed(w), delivered' = delivered
  PROVE  JobsOK'
  BY WorkFacts DEF JobsOK, Completed, QueueState, DeliveriesLeft

LEMMA AbandonedOK ==
  ASSUME JobsOK, NEW w \in Replica, poll[w] \in Work,
         queue' = Abandoned(w), delivered' = delivered
  PROVE  JobsOK'
  BY WorkFacts, ReturnedOK
     DEF JobsOK, Abandoned, QueueState, DeliveriesLeft, Returned

LEMMA IdleOK ==
  ASSUME PollOK, NEW w \in Replica, poll' = [poll EXCEPT ![w] = NoWork]
  PROVE  PollOK'
  BY DEF PollOK

LEMMA TypesNext == TypesHold /\ [Next]_vars => TypesHold'
  <1> SUFFICES ASSUME TypesHold, [Next]_vars PROVE TypesHold'
    OBVIOUS
  <1>a. /\ FspOK /\ HistoryOK /\ DueOK /\ MemoryOK
        /\ JobsOK /\ PollOK /\ EventsOK
    BY DEF TypesHold
  <1>b. UNCHANGED schedule => FspOK'
    BY <1>a DEF FspOK
  <1>c. UNCHANGED <<seen, owed>> /\ harmed' \in BOOLEAN => HistoryOK'
    BY <1>a DEF HistoryOK
  <1>d. UNCHANGED due \/ (\E w \in Replica : due' = due \ {w}) => DueOK'
    BY <1>a DEF DueOK
  <1>e. UNCHANGED <<snapshot, age, hash>> => MemoryOK'
    BY <1>a DEF MemoryOK
  <1>f. UNCHANGED <<queue, delivered>> => JobsOK'
    BY <1>a DEF JobsOK, DeliveriesLeft
  <1>g. UNCHANGED poll => PollOK'
    BY <1>a DEF PollOK
  <1>h. outgoing' \subseteq outgoing /\ UNCHANGED <<prospects, published>>
          => EventsOK'
    BY <1>a DEF EventsOK
  <1>i. UNCHANGED <<seen, owed, harmed>> => HistoryOK'
    BY <1>a DEF HistoryOK
  <1>1. ASSUME NEW r \in Reservation, Reschedule(r) PROVE TypesHold'
    <2>1. FspOK'
      BY <1>1, <1>a DEF Reschedule, FspOK, After, Listed, Unlisted
    <2> QED BY <1>1, <2>1, <1>d, <1>e, <1>f, <1>g, <1>h, <1>i
            DEF Reschedule, TypesHold, memory, jobs
  <1>2. CASE Tick
    <2>1. DueOK'
      BY <1>2 DEF Tick, DueOK
    <2>2. MemoryOK'
      BY <1>2, <1>a, PipelineAssumption DEF PipelineAssumption, Tick, MemoryOK
    <2> QED BY <1>2, <2>1, <2>2, <1>b, <1>f, <1>g, <1>h, <1>i
            DEF Tick, TypesHold, fsp, jobs
  <1>3. ASSUME NEW w \in Replica, Timer(w) PROVE TypesHold'
    <2>1. JobsOK' /\ DueOK'
      BY <1>3, <1>a, <1>d, <1>f, PipelineAssumption
         DEF PipelineAssumption, Timer, Dispatch, DispatchFails, JobsOK,
             QueueState, DeliveriesLeft, jobs
    <2> QED BY <1>3, <2>1, <1>b, <1>e, <1>g, <1>h, <1>i
            DEF Timer, Dispatch, DispatchFails, TypesHold, fsp, memory
  <1>4. ASSUME NEW w \in Replica, NEW j \in Job, Take(w, j) PROVE TypesHold'
    <2>1. delivered[j] + 1 \in 1 .. MaxDelivery
      BY <1>4, <1>a, PipelineAssumption
         DEF PipelineAssumption, Take, JobsOK, DeliveriesLeft
    <2>2. JobsOK'
      BY <1>4, <1>a, <2>1 DEF Take, JobsOK, QueueState, DeliveriesLeft
    <2>3. PollOK'
      BY <1>4, <1>a, <2>1, NoTableType DEF Take, PollOK, Work, Stages
    <2> QED BY <1>4, <2>2, <2>3, <1>b, <1>d, <1>e, <1>h, <1>i
            DEF Take, TypesHold, fsp, memory
  <1>5. ASSUME NEW w \in Replica, NEW j \in Job, Throttled(w, j)
        PROVE  TypesHold'
    <2>1. poll[w] \in Work
      BY <1>5, <1>a, InHand DEF Throttled
    <2>2. JobsOK'
      BY <1>5, <1>a, <2>1, WorkFacts, PipelineAssumption
         DEF PipelineAssumption, Throttled, Completed, JobsOK, QueueState,
             DeliveriesLeft
    <2> QED BY <1>5, <2>2, IdleOK, <1>a, <1>b, <1>d, <1>e, <1>h, <1>i
            DEF Throttled, TypesHold, fsp, memory
  <1>6. ASSUME NEW w \in Replica, FspFails(w) \/ RequeueFails(w) \/ Unchanged(w)
        PROVE  TypesHold'
    <2>1. poll[w] \in Work
      BY <1>6, <1>a, InHand DEF FspFails, RequeueFails, Unchanged
    <2>2. JobsOK'
      BY <1>6, <1>a, <2>1, CompletedOK, AbandonedOK
         DEF FspFails, RequeueFails, Unchanged
    <2> QED BY <1>6, <2>2, IdleOK, <1>a, <1>b, <1>d, <1>e, <1>h, <1>i
            DEF FspFails, RequeueFails, Unchanged, TypesHold, fsp, memory
  <1>7. ASSUME NEW w \in Replica, Answered(w) PROVE TypesHold'
    <2>1. poll[w] \in Work /\ Previous(w) \in Tables
      BY <1>7, <1>a, InHand, NoTableType DEF Answered, Previous, MemoryOK
    <2>2. PollOK'
      BY <1>7, <1>a, <2>1, ListingType DEF Answered, PollOK, Work, Stages
    <2>3. MemoryOK'
      BY <1>7, <1>a, ListingType DEF Answered, MemoryOK
    <2>4. HistoryOK'
      BY <1>7, <1>a DEF Answered, HistoryOK, Standing
    <2> QED BY <1>7, <2>2, <2>3, <2>4, <1>b, <1>d, <1>f, <1>h
            DEF Answered, TypesHold, jobs
  <1>8. ASSUME NEW w \in Replica, Compare(w) PROVE TypesHold'
    <2>1. poll[w] \in Work
      BY <1>8, <1>a, InHand DEF Compare
    <2>2. PollOK'
      BY <1>8, <1>a, <2>1 DEF Compare, PollOK, Work, Stages
    <2>3. \A c \in DetectChanges(poll[w].prev, poll[w].next) :
            [job |-> poll[w].job, nth |-> poll[w].nth, replica |-> w,
             change |-> c, rowed |-> FALSE] \in Sending
      BY <2>1, WorkFacts, ChangeType DEF Sending
    <2>4. EventsOK'
      BY <1>8, <1>a, <2>3 DEF Compare, EventsOK
    <2> QED BY <1>8, <2>2, <2>4, <1>b, <1>d, <1>e, <1>f, <1>i
            DEF Compare, TypesHold, fsp, memory, jobs
  <1>9. ASSUME NEW w \in Replica, SaveHash(w) PROVE TypesHold'
    <2>1. poll[w] \in Work
      BY <1>9, <1>a, InHand DEF SaveHash
    <2>2. MemoryOK'
      BY <1>9, <1>a, <2>1, WorkFacts DEF SaveHash, MemoryOK, memory
    <2>3. JobsOK'
      BY <1>9, <1>a, <2>1, CompletedOK DEF SaveHash
    <2> QED BY <1>9, <2>2, <2>3, IdleOK, <1>a, <1>b, <1>d, <1>h, <1>i
            DEF SaveHash, TypesHold, fsp
  <1>10. ASSUME NEW w \in Replica, DatabaseFails(w) PROVE TypesHold'
    <2>1. poll[w] \in Work
      BY <1>10, <1>a, InHand DEF DatabaseFails
    <2>2. JobsOK'
      BY <1>10, <1>a, <2>1, AbandonedOK DEF DatabaseFails
    <2> QED BY <1>10, <2>2, IdleOK, <1>a, <1>b, <1>c, <1>d, <1>e, <1>h
            DEF DatabaseFails, TypesHold, memory
  <1>11. ASSUME NEW w \in Replica, Restart(w) PROVE TypesHold'
    <2>1. JobsOK'
      <3>1. CASE poll[w] = NoWork
        BY <1>11, <3>1, <1>f DEF Restart
      <3>2. CASE poll[w] # NoWork
        BY <1>11, <3>2, <1>a, AbandonedOK DEF Restart, PollOK
      <3> QED BY <3>1, <3>2
    <2>2. MemoryOK'
      BY <1>11, <1>a, NoTableType DEF Restart, MemoryOK
    <2> QED BY <1>11, <2>1, <2>2, IdleOK, <1>a, <1>b, <1>c, <1>d, <1>h
            DEF Restart, TypesHold
  <1>12. ASSUME NEW m \in outgoing, CreateProspect(m) \/ SendEvent(m)
         PROVE  TypesHold'
    <2>1. m \in Sending /\ m.change \in Change
      BY <1>a DEF EventsOK, Sending
    <2>2. [m EXCEPT !.rowed = TRUE] \in Sending
      BY <2>1 DEF Sending
    <2>3. outgoing' \subseteq Sending
      BY <1>12, <1>a, <2>2 DEF CreateProspect, SendEvent, EventsOK
    <2>4. prospects' \in [Change -> Nat] /\ published' \in [Change -> Nat]
      BY <1>12, <1>a, <2>1 DEF CreateProspect, SendEvent, EventsOK
    <2>5. EventsOK'
      BY <2>3, <2>4 DEF EventsOK
    <2> QED BY <1>12, <2>5, <1>b, <1>d, <1>e, <1>f, <1>g, <1>i
            DEF CreateProspect, SendEvent, TypesHold, fsp, memory, jobs
  <1>13. ASSUME NEW m \in outgoing, PublishChangeFails(m) PROVE TypesHold'
    <2>1. m.replica \in Replica
      BY <1>a DEF EventsOK, Sending
    <2>2. JobsOK' /\ PollOK'
      <3>1. CASE Awaits(m.replica, m)
        <4>1. poll[m.replica] \in Work
          BY <3>1, <2>1, <1>a, InHand DEF Awaits
        <4> QED BY <1>13, <3>1, <4>1, <2>1, <1>a, AbandonedOK, IdleOK
                DEF PublishChangeFails
      <3>2. CASE ~Awaits(m.replica, m)
        BY <1>13, <3>2, <1>f, <1>g DEF PublishChangeFails
      <3> QED BY <3>1, <3>2
    <2> QED BY <1>13, <2>2, <1>b, <1>c, <1>d, <1>e, <1>h
            DEF PublishChangeFails, TypesHold, memory
  <1>14. ASSUME NEW j \in Job, LockExpires(j) PROVE TypesHold'
    BY <1>14, <1>a, ReturnedOK, <1>b, <1>d, <1>e, <1>g, <1>h, <1>i
       DEF LockExpires, TypesHold, fsp, memory
  <1>15. CASE UNCHANGED vars
    BY <1>15, <1>b, <1>d, <1>e, <1>f, <1>g, <1>h, <1>i
       DEF vars, fsp, memory, jobs, TypesHold
  <1> QED BY <1>1, <1>2, <1>3, <1>4, <1>5, <1>6, <1>7, <1>8, <1>9, <1>10,
             <1>11, <1>12, <1>13, <1>14, <1>15
          DEF Next, Handle, Publish, CreateProspect, SendEvent,
              PublishChangeFails

-----------------------------------------------------------------------------
(* Events tell the truth                                                   *)

Truths == /\ SnapshotsArePast /\ PollsAreInOrder
          /\ OutgoingIsTrue /\ EventsAreTrue

\* What FSP does to a reservation keeps it within reach.
LEMMA ReachNext ==
  ASSUME NEW x \in Listed, NEW s \in Reach(x), NEW t \in After(s)
  PROVE  t \in Reach(x)
  BY DEF Reach, After, Listed, Unlisted

\* Everything that was true of the schedule stays true as it moves on.
LEMMA PastStays ==
  ASSUME TypesHold, NEW r \in Reservation, Reschedule(r)
  PROVE  /\ \A t \in Tables : IsPast(t) => IsPast(t)'
         /\ \A p, n \in Tables : InOrder(p, n) => InOrder(p, n)'
         /\ \A c \in Change : IsTrue(c) => IsTrue(c)'
  <1>1. PICK s \in After(schedule[r]) : schedule' = [schedule EXCEPT ![r] = s]
    BY DEF Reschedule
  <1>2. FspOK
    BY DEF TypesHold
  <1>3. ASSUME NEW t \in Tables, IsPast(t) PROVE IsPast(t)'
    <2> SUFFICES ASSUME NEW x \in DOMAIN t PROVE schedule'[x] \in Reach(t[x])
      BY DEF IsPast
    <2>1. t[x] \in Listed /\ schedule[x] \in Reach(t[x]) /\ x \in Reservation
      BY <1>3, TableFacts DEF IsPast
    <2> QED BY <1>1, <1>2, <2>1, ReachNext DEF FspOK
  <1>4. ASSUME NEW p \in Tables, NEW n \in Tables, InOrder(p, n)
        PROVE  InOrder(p, n)'
    <2> SUFFICES ASSUME NEW x \in DOMAIN p, x \notin DOMAIN n
                 PROVE  schedule'[x] \in Unlisted
      BY <1>4 DEF InOrder
    <2>1. schedule[x] \in Unlisted /\ x \in Reservation
      BY <1>4, TableFacts DEF InOrder
    <2> QED BY <1>1, <1>2, <2>1 DEF FspOK, After, Unlisted
  <1>5. ASSUME NEW c \in Change, IsTrue(c) PROVE IsTrue(c)'
    <2>1. c.id \in Reservation
      BY DEF Change
    <2> QED BY <1>1, <1>2, <1>5, <2>1 DEF FspOK, IsTrue, After, Listed, Unlisted
  <1> QED BY <1>3, <1>4, <1>5

\* The answer: it is the present, and the snapshot it replaces lies in its
\* past.
LEMMA AnswerIsInOrder ==
  ASSUME FspOK, NEW p \in Tables, IsPast(p)
  PROVE  IsPast(Listing) /\ InOrder(p, Listing)
  <1>1. IsPast(Listing)
    BY DEF IsPast, Listing, Reach, Listed, Unlisted
  <1>2. ASSUME NEW r \in DOMAIN p
        PROVE  IF r \in DOMAIN Listing THEN Listing[r] \in Reach(p[r])
                                       ELSE schedule[r] \in Unlisted
    <2>1. r \in Reservation /\ p[r] \in Listed /\ schedule[r] \in Reach(p[r])
      BY TableFacts DEF IsPast
    <2> QED BY <2>1 DEF Listing, Reach, Listed, Unlisted
  <1> QED BY <1>1, <1>2 DEF InOrder

\* What the diff of two tables in order says has happened.
LEMMA DiffIsTrue ==
  ASSUME FspOK, NEW p \in Tables, NEW n \in Tables, IsPast(n), InOrder(p, n),
         NEW c \in DetectChanges(p, n)
  PROVE  IsTrue(c)
  <1>1. PICK r \in DOMAIN p : c.id = r
    BY DEF DetectChanges
  <1>2. r \in Reservation /\ p[r] \in Listed
    BY TableFacts
  <1>3. Freed(n, r) => schedule[r] \in {"cancelled"} \cup Unlisted
    BY <1>2 DEF Freed, IsPast, InOrder, Reach, Unlisted
  <1>4. ~Freed(n, r) /\ p[r] # n[r] => schedule[r] \notin {"none", "open"}
    BY <1>2 DEF Freed, IsPast, InOrder, Reach, Listed, Unlisted
  <1>5. CASE c.type = "CANCELLATION"
    BY <1>1, <1>3, <1>5 DEF DetectChanges, IsTrue
  <1>6. CASE c.type = "NEW_OPENING"
    BY <1>1, <1>3, <1>6 DEF DetectChanges, IsTrue
  <1>7. CASE c.type = "STATUS_CHANGE"
    BY <1>1, <1>4, <1>7 DEF DetectChanges, IsTrue
  <1> QED BY <1>5, <1>6, <1>7 DEF DetectChanges

\* Without a step of FSP what was true stays true.
LEMMA SameSchedule ==
  ASSUME UNCHANGED schedule
  PROVE  /\ \A t : IsPast(t) => IsPast(t)'
         /\ \A p, n : InOrder(p, n) => InOrder(p, n)'
         /\ \A c : IsTrue(c) => IsTrue(c)'
  BY DEF IsPast, InOrder, IsTrue

\* A step that makes replica w idle, or lets it call FSP, and only takes
\* messages away.
LEMMA HarmlessStep ==
  ASSUME TypesHold, Truths, UNCHANGED <<schedule, published>>,
         outgoing' \subseteq outgoing, NEW w \in Replica,
         poll' = [poll EXCEPT ![w] = poll'[w]],
         poll'[w].stage \in {"idle", "calling"},
         snapshot' \in {snapshot, [snapshot EXCEPT ![w] = NoTable]}
  PROVE  Truths'
  <1> USE SameSchedule
  <1>1. SnapshotsArePast'
    BY NoTableType DEF Truths, SnapshotsArePast, TypesHold, MemoryOK, IsPast
  <1>2. PollsAreInOrder'
    BY DEF Truths, PollsAreInOrder, TypesHold, PollOK
  <1>3. OutgoingIsTrue'
    BY DEF Truths, OutgoingIsTrue
  <1>4. EventsAreTrue'
    BY DEF Truths, EventsAreTrue, IsTrue
  <1> QED BY <1>1, <1>2, <1>3, <1>4 DEF Truths

\* The same for a step that leaves the replicas alone.
LEMMA QuietStep ==
  ASSUME TypesHold, Truths, UNCHANGED <<schedule, snapshot, poll, published>>,
         outgoing' \subseteq outgoing
  PROVE  Truths'
  <1> USE SameSchedule
  <1>1. SnapshotsArePast' /\ PollsAreInOrder'
    BY DEF Truths, SnapshotsArePast, PollsAreInOrder
  <1>2. OutgoingIsTrue' /\ EventsAreTrue'
    BY DEF Truths, OutgoingIsTrue, EventsAreTrue, IsTrue
  <1> QED BY <1>1, <1>2 DEF Truths

LEMMA TruthsInit == Init => Truths
  BY NoTableType DEF Init, Truths, SnapshotsArePast, PollsAreInOrder,
     OutgoingIsTrue, EventsAreTrue, IsPast, NoWork

LEMMA EventsRestated == EventsAreTrue <=> \A c \in Change : published[c] > 0 => IsTrue(c)
  BY DEF EventsAreTrue, IsTrue

LEMMA TruthsNext == TypesHold /\ Truths /\ [Next]_vars => Truths'
  <1> SUFFICES ASSUME TypesHold, Truths, [Next]_vars PROVE Truths'
    OBVIOUS
  <1>a. FspOK /\ MemoryOK /\ PollOK /\ EventsOK
    BY DEF TypesHold
  <1>b. /\ SnapshotsArePast /\ PollsAreInOrder
        /\ OutgoingIsTrue /\ EventsAreTrue
    BY DEF Truths
  <1>1. ASSUME NEW r \in Reservation, Reschedule(r) PROVE Truths'
    <2>1. SnapshotsArePast'
      BY <1>1, <1>a, <1>b, PastStays
         DEF Reschedule, SnapshotsArePast, MemoryOK, memory
    <2>2. PollsAreInOrder'
      <3> SUFFICES ASSUME NEW w \in Replica,
                          poll[w].stage \in {"comparing", "publishing"}
                   PROVE  IsPast(poll[w].next)' /\ InOrder(poll[w].prev, poll[w].next)'
        BY <1>1 DEF Reschedule, PollsAreInOrder
      <3>1. poll[w].prev \in Tables /\ poll[w].next \in Tables
        BY <1>a, InHand, WorkFacts
      <3>2. UNCHANGED poll
        BY <1>1 DEF Reschedule
      <3> QED BY <1>1, <1>b, <3>1, <3>2, PastStays DEF PollsAreInOrder
    <2>3. OutgoingIsTrue'
      BY <1>1, <1>a, <1>b, PastStays
         DEF Reschedule, OutgoingIsTrue, EventsOK, Sending
    <2>4. EventsAreTrue'
      BY <1>1, <1>b, PastStays, EventsRestated DEF Reschedule, EventsAreTrue, IsTrue
    <2> QED BY <2>1, <2>2, <2>3, <2>4 DEF Truths
  <1>2. CASE Tick
    BY <1>2, QuietStep DEF Tick, fsp
  <1>3. ASSUME NEW w \in Replica, Timer(w) PROVE Truths'
    BY <1>3, QuietStep DEF Timer, Dispatch, DispatchFails, fsp, memory
  <1>4. ASSUME NEW w \in Replica, NEW j \in Job, Take(w, j) PROVE Truths'
    <2>1. poll'[w].stage = "calling" /\ poll' = [poll EXCEPT ![w] = poll'[w]]
      BY <1>4, <1>a DEF Take, PollOK
    <2> QED BY <1>4, <2>1, HarmlessStep DEF Take, fsp, memory
  <1>5. ASSUME NEW w \in Replica, poll' = [poll EXCEPT ![w] = NoWork],
               UNCHANGED <<schedule, published>>,
               outgoing' \subseteq outgoing,
               snapshot' \in {snapshot, [snapshot EXCEPT ![w] = NoTable]}
        PROVE  Truths'
    <2>1. poll'[w].stage = "idle" /\ poll' = [poll EXCEPT ![w] = poll'[w]]
      BY <1>5, <1>a DEF PollOK, NoWork
    <2> QED BY <1>5, <2>1, HarmlessStep
  <1>6. ASSUME NEW w \in Replica,
               \/ FspFails(w) \/ RequeueFails(w) \/ Unchanged(w) \/ SaveHash(w)
               \/ DatabaseFails(w) \/ Restart(w)
               \/ \E j \in Job : Throttled(w, j)
        PROVE  Truths'
    BY <1>5, <1>6
       DEF FspFails, RequeueFails, Unchanged, SaveHash, DatabaseFails, Restart,
           Throttled, fsp, memory
  <1>7. ASSUME NEW w \in Replica, Answered(w) PROVE Truths'
    <2>1. poll[w] \in Work /\ Previous(w) \in Tables
      BY <1>7, <1>a, InHand, NoTableType DEF Answered, Previous, MemoryOK
    <2>2. IsPast(Previous(w))
      BY <1>a, <1>b, NoTableType DEF Previous, SnapshotsArePast, IsPast
    <2>3. IsPast(Listing) /\ InOrder(Previous(w), Listing) /\ UNCHANGED schedule
      BY <1>7, <1>a, <2>1, <2>2, AnswerIsInOrder DEF Answered
    <2>4. SnapshotsArePast'
      <3>1. /\ snapshot'[w] = Listing
            /\ \A v \in Replica \ {w} : snapshot'[v] = snapshot[v]
        BY <1>7, <1>a DEF Answered, MemoryOK
      <3> QED BY <1>b, <2>3, <3>1 DEF SnapshotsArePast, IsPast
    <2>5. PollsAreInOrder'
      <3>1. poll'[w].prev = Previous(w) /\ poll'[w].next = Listing
        BY <1>7, <1>a, <2>1 DEF Answered, PollOK, Work
      <3>2. \A v \in Replica \ {w} : poll'[v] = poll[v]
        BY <1>7, <1>a DEF Answered, PollOK
      <3>3. IsPast(poll[w].next)' /\ InOrder(poll[w].prev, poll[w].next)'
        BY <2>3, <3>1 DEF IsPast, InOrder
      <3> QED BY <1>b, <2>3, <3>2, <3>3, SameSchedule DEF PollsAreInOrder
    <2>6. OutgoingIsTrue' /\ EventsAreTrue'
      BY <1>7, <1>b, SameSchedule
         DEF Answered, OutgoingIsTrue, EventsAreTrue, IsTrue
    <2> QED BY <2>4, <2>5, <2>6 DEF Truths
  <1>8. ASSUME NEW w \in Replica, Compare(w) PROVE Truths'
    <2>1. poll[w] \in Work
      BY <1>8, <1>a, InHand DEF Compare
    <2>2. UNCHANGED <<schedule, snapshot, published>>
      BY <1>8 DEF Compare, fsp, memory
    <2>3. \A c \in DetectChanges(poll[w].prev, poll[w].next) : IsTrue(c)
      BY <1>8, <1>a, <1>b, <2>1, WorkFacts, DiffIsTrue
         DEF Compare, PollsAreInOrder
    <2>4. OutgoingIsTrue'
      BY <1>8, <1>b, <2>2, <2>3, SameSchedule DEF Compare, OutgoingIsTrue
    <2>5. PollsAreInOrder'
      <3>1. /\ poll'[w].prev = poll[w].prev /\ poll'[w].next = poll[w].next
            /\ \A v \in Replica \ {w} : poll'[v] = poll[v]
        BY <1>8, <1>a, <2>1 DEF Compare, PollOK, Work
      <3>2. IsPast(poll[w].next) /\ InOrder(poll[w].prev, poll[w].next)
        BY <1>8, <1>b DEF Compare, PollsAreInOrder
      <3> QED BY <1>b, <2>2, <3>1, <3>2, SameSchedule DEF PollsAreInOrder
    <2>6. SnapshotsArePast' /\ EventsAreTrue'
      BY <1>b, <2>2, SameSchedule
         DEF SnapshotsArePast, EventsAreTrue, IsTrue
    <2> QED BY <2>4, <2>5, <2>6 DEF Truths
  <1>9. ASSUME NEW m \in outgoing, CreateProspect(m) \/ SendEvent(m)
        PROVE  Truths'
    <2>1. UNCHANGED <<schedule, snapshot, poll>>
      BY <1>9 DEF CreateProspect, SendEvent, fsp, memory
    <2>2. m \in Sending /\ m.change \in Change /\ IsTrue(m.change)
      BY <1>a, <1>b DEF EventsOK, Sending, OutgoingIsTrue
    <2>3. [m EXCEPT !.rowed = TRUE].change = m.change
      BY <2>2 DEF Sending
    <2>4. OutgoingIsTrue'
      BY <1>9, <1>b, <2>1, <2>2, <2>3, SameSchedule
         DEF CreateProspect, SendEvent, OutgoingIsTrue
    <2>5. \A c \in Change : published'[c] > 0 => IsTrue(c)
      BY <1>9, <1>a, <1>b, <2>2, EventsRestated
         DEF CreateProspect, SendEvent, EventsOK
    <2>6. EventsAreTrue'
      BY <2>1, <2>5, SameSchedule DEF EventsAreTrue, IsTrue
    <2>7. SnapshotsArePast' /\ PollsAreInOrder'
      BY <1>b, <2>1, SameSchedule DEF SnapshotsArePast, PollsAreInOrder
    <2> QED BY <2>4, <2>6, <2>7 DEF Truths
  <1>10. ASSUME NEW m \in outgoing, PublishChangeFails(m) PROVE Truths'
    <2>1. m.replica \in Replica
      BY <1>a DEF EventsOK, Sending
    <2>2. UNCHANGED <<schedule, snapshot, published>> /\ outgoing' \subseteq outgoing
      BY <1>10 DEF PublishChangeFails, memory
    <2>3. CASE Awaits(m.replica, m)
      BY <1>5, <1>10, <2>1, <2>2, <2>3 DEF PublishChangeFails
    <2>4. CASE ~Awaits(m.replica, m)
      BY <1>10, <2>2, <2>4, QuietStep DEF PublishChangeFails
    <2> QED BY <2>3, <2>4
  <1>11. ASSUME NEW j \in Job, LockExpires(j) PROVE Truths'
    BY <1>11, QuietStep DEF LockExpires, fsp, memory
  <1>12. CASE UNCHANGED vars
    BY <1>12, QuietStep DEF vars, fsp, memory
  <1> QED BY <1>1, <1>2, <1>3, <1>4, <1>6, <1>7, <1>8, <1>9, <1>10, <1>11,
             <1>12
          DEF Next, Handle, Publish, CreateProspect, SendEvent,
              PublishChangeFails

-----------------------------------------------------------------------------
(* The hash and the events                                                 *)

\* While a poll publishes, each of its changes is out or on its way.
ChangesOnTheirWay ==
  \A w \in Replica : poll[w].stage = "publishing" =>
    \A c \in DetectChanges(poll[w].prev, poll[w].next) :
      \/ published[c] > 0
      \/ \E m \in outgoing : Awaits(w, m) /\ m.change = c

\* A step that hands out no new comparison and loses no message somebody
\* still waits for.
LEMMA WayStep ==
  ASSUME TypesHold, ChangesOnTheirWay,
         \A w \in Replica : poll'[w].stage = "publishing" => poll'[w] = poll[w],
         \A c \in Change : published[c] > 0 => published'[c] > 0,
         \A m \in outgoing, w \in Replica :
            poll'[w].stage = "publishing" /\ Awaits(w, m) =>
              \/ published'[m.change] > 0
              \/ \E n \in outgoing' : Awaits(w, n)' /\ n.change = m.change
  PROVE  ChangesOnTheirWay'
  <1> SUFFICES ASSUME NEW w \in Replica, poll'[w].stage = "publishing",
                      NEW c \in DetectChanges(poll[w].prev, poll[w].next)
               PROVE  \/ published'[c] > 0
                      \/ \E m \in outgoing' : Awaits(w, m)' /\ m.change = c
    BY DEF ChangesOnTheirWay
  <1>1. poll[w] = poll'[w] /\ poll[w] \in Work
    BY InHand DEF TypesHold
  <1>2. c \in Change
    BY <1>1, WorkFacts, ChangeType
  <1> QED BY <1>1, <1>2 DEF ChangesOnTheirWay

LEMMA WayNext == TypesHold /\ ChangesOnTheirWay /\ [Next]_vars => ChangesOnTheirWay'
  <1> SUFFICES ASSUME TypesHold, ChangesOnTheirWay, [Next]_vars
               PROVE  ChangesOnTheirWay'
    OBVIOUS
  <1>a. PollOK /\ EventsOK
    BY DEF TypesHold
  \* Steps that leave events and messages alone and the publishing polls too.
  <1>1. ASSUME UNCHANGED <<outgoing, published>>,
               \A w \in Replica : poll'[w].stage = "publishing" => poll'[w] = poll[w]
        PROVE  ChangesOnTheirWay'
    BY <1>1, WayStep DEF Awaits
  <1>2. ASSUME NEW r \in Reservation, Reschedule(r) PROVE ChangesOnTheirWay'
    BY <1>1, <1>2 DEF Reschedule
  <1>3. CASE Tick
    BY <1>1, <1>3 DEF Tick
  <1>4. ASSUME NEW w \in Replica, Timer(w) PROVE ChangesOnTheirWay'
    BY <1>1, <1>4 DEF Timer, Dispatch, DispatchFails
  <1>5. ASSUME NEW w \in Replica, NEW j \in Job, Take(w, j) \/ Throttled(w, j)
        PROVE  ChangesOnTheirWay'
    <2>1. \A v \in Replica : poll'[v].stage = "publishing" => poll'[v] = poll[v]
      BY <1>5, <1>a DEF Take, Throttled, PollOK, NoWork
    <2> QED BY <1>1, <1>5, <2>1 DEF Take, Throttled
  <1>6. ASSUME NEW w \in Replica,
               \/ FspFails(w) \/ RequeueFails(w) \/ Unchanged(w) \/ SaveHash(w)
               \/ DatabaseFails(w)
        PROVE  ChangesOnTheirWay'
    <2>1. \A v \in Replica : poll'[v].stage = "publishing" => poll'[v] = poll[v]
      BY <1>6, <1>a
         DEF FspFails, RequeueFails, Unchanged, SaveHash, DatabaseFails, PollOK,
             NoWork
    <2> QED BY <1>1, <1>6, <2>1
            DEF FspFails, RequeueFails, Unchanged, SaveHash, DatabaseFails
  <1>7. ASSUME NEW w \in Replica, Answered(w) PROVE ChangesOnTheirWay'
    <2>1. \A v \in Replica : poll'[v].stage = "publishing" => poll'[v] = poll[v]
      <3>1. poll[w] \in Work
        BY <1>7, <1>a, InHand DEF Answered
      <3> QED BY <1>7, <1>a, <3>1 DEF Answered, PollOK, Work
    <2> QED BY <1>1, <1>7, <2>1 DEF Answered
  <1>8. ASSUME NEW w \in Replica, Compare(w) PROVE ChangesOnTheirWay'
    <2>1. poll[w] \in Work
      BY <1>8, <1>a, InHand DEF Compare
    <2>2. /\ poll'[w] = [poll[w] EXCEPT !.stage = "publishing"]
          /\ \A v \in Replica \ {w} : poll'[v] = poll[v]
      BY <1>8, <1>a DEF Compare, PollOK
    <2>3. /\ poll'[w].prev = poll[w].prev /\ poll'[w].next = poll[w].next
          /\ poll'[w].job = poll[w].job /\ poll'[w].nth = poll[w].nth
          /\ poll'[w].stage = "publishing"
      BY <2>1, <2>2 DEF Work
    <2>4. UNCHANGED published /\ outgoing \subseteq outgoing'
      BY <1>8 DEF Compare
    <2>5. ASSUME NEW c \in DetectChanges(poll[w].prev, poll[w].next)
          PROVE  \E m \in outgoing' : Awaits(w, m)' /\ m.change = c
      <3> DEFINE new == [job |-> poll[w].job, nth |-> poll[w].nth,
                         replica |-> w, change |-> c, rowed |-> FALSE]
      <3>1. new \in outgoing'
        BY <1>8 DEF Compare
      <3>2. new.replica = w /\ new.job = poll[w].job /\ new.nth = poll[w].nth
            /\ new.change = c
        OBVIOUS
      <3> HIDE DEF new
      <3> QED BY <2>3, <3>1, <3>2 DEF Awaits
    <2>6. ASSUME NEW v \in Replica \ {w}, poll'[v].stage = "publishing",
                 NEW c \in DetectChanges(poll[v].prev, poll[v].next)
          PROVE  \/ published'[c] > 0
                 \/ \E m \in outgoing' : Awaits(v, m)' /\ m.change = c
      BY <2>2, <2>4, <2>6 DEF ChangesOnTheirWay, Awaits
    <2>7. ASSUME NEW v \in Replica, poll'[v].stage = "publishing",
                 NEW c \in DetectChanges(poll'[v].prev, poll'[v].next)
          PROVE  \/ published'[c] > 0
                 \/ \E m \in outgoing' : Awaits(v, m)' /\ m.change = c
      <3>1. CASE v = w
        BY <2>3, <2>5, <2>7, <3>1
      <3>2. CASE v # w
        BY <2>2, <2>6, <2>7, <3>2
      <3> QED BY <3>1, <3>2
    <2> QED BY <2>7 DEF ChangesOnTheirWay
  <1>9. ASSUME NEW m \in outgoing, CreateProspect(m) PROVE ChangesOnTheirWay'
    <2>1. m \in Sending
      BY <1>a DEF EventsOK
    <2> DEFINE new == [m EXCEPT !.rowed = TRUE]
    <2>2. /\ new.job = m.job /\ new.nth = m.nth /\ new.replica = m.replica
          /\ new.change = m.change
      BY <2>1 DEF Sending
    <2>3. new \in outgoing' /\ outgoing \ {m} \subseteq outgoing'
          /\ UNCHANGED <<poll, published>>
      BY <1>9 DEF CreateProspect
    <2>4. \A n \in outgoing, w \in Replica : Awaits(w, n) =>
            \E k \in outgoing' : Awaits(w, k)' /\ k.change = n.change
      BY <2>2, <2>3 DEF Awaits
    <2> QED BY <2>3, <2>4, WayStep
  <1>10. ASSUME NEW m \in outgoing, SendEvent(m) PROVE ChangesOnTheirWay'
    <2>1. m.change \in Change
      BY <1>a DEF EventsOK, Sending
    <2>2. outgoing \ {m} \subseteq outgoing' /\ UNCHANGED poll
      BY <1>10 DEF SendEvent
    <2>3. published'[m.change] > 0
          /\ \A c \in Change : published[c] > 0 => published'[c] > 0
      BY <1>10, <1>a, <2>1 DEF SendEvent, EventsOK
    <2>4. \A n \in outgoing \ {m}, w \in Replica : Awaits(w, n) =>
            \E k \in outgoing' : Awaits(w, k)' /\ k.change = n.change
      BY <2>2 DEF Awaits
    <2> QED BY <2>2, <2>3, <2>4, WayStep
  <1>11. ASSUME NEW m \in outgoing, PublishChangeFails(m)
         PROVE  ChangesOnTheirWay'
    <2>1. outgoing' = outgoing \ {m} /\ UNCHANGED published
      BY <1>11 DEF PublishChangeFails
    <2>2. \A w \in Replica : poll'[w].stage = "publishing" =>
            poll'[w] = poll[w] /\ ~Awaits(w, m)
      BY <1>11, <1>a DEF PublishChangeFails, PollOK, NoWork, Awaits
    <2>3. \A n \in outgoing, w \in Replica :
            poll'[w].stage = "publishing" /\ Awaits(w, n) =>
              \E k \in outgoing' : Awaits(w, k)' /\ k.change = n.change
      BY <2>1, <2>2 DEF Awaits
    <2> QED BY <2>1, <2>2, <2>3, WayStep
  <1>12. ASSUME NEW w \in Replica, Restart(w) PROVE ChangesOnTheirWay'
    <2>1. \A v \in Replica : poll'[v].stage = "publishing" =>
            poll'[v] = poll[v] /\ v # w
      BY <1>12, <1>a DEF Restart, PollOK, NoWork
    <2>2. UNCHANGED published
          /\ \A n \in outgoing : n.replica # w => n \in outgoing'
      BY <1>12 DEF Restart
    <2>3. \A n \in outgoing, v \in Replica :
            poll'[v].stage = "publishing" /\ Awaits(v, n) =>
              \E k \in outgoing' : Awaits(v, k)' /\ k.change = n.change
      BY <2>1, <2>2 DEF Awaits
    <2> QED BY <2>1, <2>2, <2>3, WayStep
  <1>13. ASSUME NEW j \in Job, LockExpires(j) PROVE ChangesOnTheirWay'
    BY <1>1, <1>13 DEF LockExpires
  <1>14. CASE UNCHANGED vars
    BY <1>1, <1>14 DEF vars
  <1> QED BY <1>2, <1>3, <1>4, <1>5, <1>6, <1>7, <1>8, <1>9, <1>10, <1>11,
             <1>12, <1>13, <1>14
          DEF Next, Handle, Publish, CreateProspect, SendEvent,
              PublishChangeFails

\* What HashFollowsEvents says of a step.
HashStep ==
  hash' # hash =>
    \E w \in Replica :
      /\ hash' = {poll[w].next}
      /\ \A c \in DetectChanges(poll[w].prev, poll[w].next) : published[c] > 0

LEMMA HashStepHolds == ChangesOnTheirWay /\ [Next]_vars => HashStep
  <1> SUFFICES ASSUME ChangesOnTheirWay, [Next]_vars, hash' # hash
               PROVE  HashStep
    BY DEF HashStep
  <1>1. PICK w \in Replica : SaveHash(w)
    BY DEF Next, Reschedule, Tick, Timer, Dispatch, DispatchFails, Handle, Take,
           Throttled, FspFails, RequeueFails, Answered, Unchanged, Compare,
           DatabaseFails, Restart, Publish, CreateProspect, SendEvent,
           PublishChangeFails, LockExpires, vars
  <1> QED BY <1>1 DEF SaveHash, AllSent, ChangesOnTheirWay, HashStep

-----------------------------------------------------------------------------
(* Rows before messages                                                    *)

\* Runs of publishChange for c whose row is written and message not sent.
Rowed(c) == {m \in outgoing : m.change = c /\ m.rowed}

RowsCount(c) == /\ IsFiniteSet(Rowed(c))
                /\ published[c] + Cardinality(Rowed(c)) <= prospects[c]

RowsFirst == \A c \in Change : RowsCount(c)

LEMMA RowsInit == Init => RowsFirst
  <1> SUFFICES ASSUME Init, NEW c \in Change PROVE RowsCount(c)
    BY DEF RowsFirst
  <1>1. Rowed(c) = {} /\ published[c] = 0 /\ prospects[c] = 0
    BY DEF Init, Rowed
  <1> QED BY <1>1, FS_EmptySet DEF RowsCount

\* A step that counts nothing and marks no run as rowed.
LEMMA RowsShrink ==
  ASSUME TypesHold, RowsFirst, UNCHANGED <<published, prospects>>,
         NEW c \in Change, Rowed(c)' \subseteq Rowed(c)
  PROVE  RowsCount(c)'
  <1>1. /\ IsFiniteSet(Rowed(c))
        /\ published[c] + Cardinality(Rowed(c)) <= prospects[c]
    BY DEF RowsFirst, RowsCount
  <1>2. IsFiniteSet(Rowed(c)') /\ Cardinality(Rowed(c)') <= Cardinality(Rowed(c))
    BY <1>1, FS_Subset
  <1>3. Cardinality(Rowed(c)) \in Nat /\ Cardinality(Rowed(c)') \in Nat
    BY <1>1, <1>2, FS_CardinalityType
  <1>4. published[c] \in Nat /\ prospects[c] \in Nat
    BY DEF TypesHold, EventsOK
  <1>5. published'[c] + Cardinality(Rowed(c)') <= prospects'[c]
    BY <1>1, <1>2, <1>3, <1>4
  <1> QED BY <1>2, <1>5 DEF RowsCount

LEMMA RowsNext == TypesHold /\ RowsFirst /\ [Next]_vars => RowsFirst'
  <1> SUFFICES ASSUME TypesHold, RowsFirst, [Next]_vars, NEW c \in Change
               PROVE  RowsCount(c)'
    BY DEF RowsFirst
  <1>a. EventsOK /\ c \in Change
    BY DEF TypesHold
  <1>b. /\ IsFiniteSet(Rowed(c)) /\ Cardinality(Rowed(c)) \in Nat
        /\ published[c] \in Nat /\ prospects[c] \in Nat
        /\ published[c] + Cardinality(Rowed(c)) <= prospects[c]
    BY <1>a, FS_CardinalityType DEF RowsFirst, RowsCount, EventsOK
  <1>1. ASSUME UNCHANGED <<published, prospects>>, outgoing' \subseteq outgoing
        PROVE  RowsCount(c)'
    <2>1. Rowed(c)' \subseteq Rowed(c)
      BY <1>1 DEF Rowed
    <2> QED BY <1>1, <2>1, RowsShrink
  <1>2. ASSUME NEW w \in Replica, Compare(w) PROVE RowsCount(c)'
    <2>1. Rowed(c)' \subseteq Rowed(c)
      BY <1>2 DEF Compare, Rowed
    <2> QED BY <1>2, <2>1, RowsShrink DEF Compare
  <1>3. ASSUME NEW m \in outgoing, CreateProspect(m) PROVE RowsCount(c)'
    <2>1. m \in Sending /\ UNCHANGED published
      BY <1>3, <1>a DEF EventsOK, CreateProspect
    <2> DEFINE new == [m EXCEPT !.rowed = TRUE]
    <2>2. new.change = m.change /\ new.rowed
      BY <2>1 DEF Sending
    <2>3. outgoing' = (outgoing \ {m}) \cup {new}
      BY <1>3 DEF CreateProspect
    <2>4. ~m.rowed
      BY <1>3 DEF CreateProspect
    <2> HIDE DEF new
    <2>5. CASE m.change = c
      <3>1. Rowed(c)' = Rowed(c) \cup {new}
        BY <2>2, <2>3, <2>4, <2>5 DEF Rowed
      <3>2. IsFiniteSet(Rowed(c)')
            /\ Cardinality(Rowed(c)') \in {Cardinality(Rowed(c)), Cardinality(Rowed(c)) + 1}
        BY <1>b, <3>1, FS_AddElement
      <3>3. prospects'[c] = prospects[c] + 1
        BY <1>3, <1>a, <2>5 DEF CreateProspect, EventsOK
      <3>4. published'[c] + Cardinality(Rowed(c)') <= prospects'[c]
        BY <1>b, <2>1, <3>2, <3>3
      <3> QED BY <3>2, <3>4 DEF RowsCount
    <2>6. CASE m.change # c
      <3>1. Rowed(c)' = Rowed(c)
        BY <2>2, <2>3, <2>6 DEF Rowed
      <3>2. prospects'[c] = prospects[c]
        BY <1>3, <1>a, <2>6 DEF CreateProspect, EventsOK
      <3>3. IsFiniteSet(Rowed(c)')
            /\ published'[c] + Cardinality(Rowed(c)') <= prospects'[c]
        BY <1>b, <2>1, <3>1, <3>2
      <3> QED BY <3>3 DEF RowsCount
    <2> QED BY <2>5, <2>6
  <1>4. ASSUME NEW m \in outgoing, SendEvent(m) PROVE RowsCount(c)'
    <2>1. m \in Sending /\ UNCHANGED prospects /\ m.rowed
          /\ outgoing' = outgoing \ {m}
      BY <1>4, <1>a DEF EventsOK, SendEvent
    <2>2. Rowed(c)' = Rowed(c) \ {m}
      BY <2>1 DEF Rowed
    <2>3. IsFiniteSet(Rowed(c)')
          /\ Cardinality(Rowed(c)') = IF m \in Rowed(c) THEN Cardinality(Rowed(c)) - 1
                                                        ELSE Cardinality(Rowed(c))
      BY <1>b, <2>2, FS_RemoveElement
    <2>4. m \in Rowed(c) <=> m.change = c
      BY <2>1 DEF Rowed
    <2>5. published'[c] = IF m.change = c THEN published[c] + 1 ELSE published[c]
      BY <1>4, <1>a DEF SendEvent, EventsOK
    <2>6. published'[c] + Cardinality(Rowed(c)') <= prospects'[c]
      BY <1>b, <2>1, <2>3, <2>4, <2>5
    <2> QED BY <2>3, <2>6 DEF RowsCount
  <1>5. ASSUME NEW r \in Reservation, Reschedule(r) PROVE RowsCount(c)'
    BY <1>1, <1>5 DEF Reschedule
  <1>6. CASE Tick \/ Publish \/ (\E j \in Job : LockExpires(j)) \/ UNCHANGED vars
    BY <1>1, <1>3, <1>4, <1>6
       DEF Tick, Publish, LockExpires, vars, PublishChangeFails
  <1>7. ASSUME NEW w \in Replica, Timer(w) \/ Handle(w) \/ Restart(w)
        PROVE  RowsCount(c)'
    BY <1>1, <1>2, <1>7
       DEF Timer, Dispatch, DispatchFails, Handle, Take, Throttled, FspFails,
           RequeueFails, Answered, Unchanged, SaveHash, DatabaseFails, Restart
  <1> QED BY <1>5, <1>6, <1>7 DEF Next

-----------------------------------------------------------------------------
(* One replica misses nothing                                              *)

\* What a table lists as standing.
StandsIn(table) == {r \in DOMAIN table : table[r] # "cancelled"}

Cancelled(r) == [type |-> "CANCELLATION", id |-> r]

\* The hash was computed from this table, or nothing was hashed and there was
\* nothing to hash.
HashIsOf(table) == hash = {table} \/ (hash = NoHash /\ table = NoTable)

\* Between two polls the hash is that of the snapshot; while a poll compares
\* it is that of the table it compares with.
HashIsKnown(w) ==
  /\ poll[w].stage \in {"idle", "calling"} => HashIsOf(snapshot[w])
  /\ poll[w].stage = "comparing" => HashIsOf(poll[w].prev)
  /\ poll[w].stage \in {"comparing", "publishing"} => poll[w].next = snapshot[w]

\* What an answer showed standing the last one shows too, or it is owed.
SeenIsKept(w) == seen \subseteq StandsIn(snapshot[w]) \cup owed

\* What is owed was announced or is what the poll in hand found cancelled.
OwedIsInHand(w) ==
  \A r \in owed \cap Student :
    \/ published[Cancelled(r)] > 0
    \/ /\ poll[w].stage \in {"comparing", "publishing"}
       /\ r \in StandsIn(poll[w].prev) \ StandsIn(poll[w].next)

Unharmed(w) == ~harmed => HashIsKnown(w) /\ SeenIsKept(w) /\ OwedIsInHand(w)

\* A step that leaves the replica, the hash and the history alone.
LEMMA UntouchedStep ==
  ASSUME NEW w \in Replica, Unharmed(w),
         UNCHANGED <<seen, owed, harmed, hash, snapshot>>,
         poll'[w] = poll[w],
         \A c \in Change : published[c] > 0 => published'[c] > 0
  PROVE  Unharmed(w)'
  <1>1. \A r \in Student : Cancelled(r) \in Change
    BY ReservationAssumption DEF ReservationAssumption, Cancelled, Change
  <1> QED BY <1>1 DEF Unharmed, HashIsKnown, HashIsOf, SeenIsKept, OwedIsInHand

\* The replica is idle before or after a call that had no effect.
LEMMA FruitlessStep ==
  ASSUME NEW w \in Replica, Unharmed(w),
         UNCHANGED <<seen, owed, harmed, hash, snapshot, published>>,
         poll[w].stage \in {"idle", "calling"},
         poll'[w].stage \in {"idle", "calling"}
  PROVE  Unharmed(w)'
  BY DEF Unharmed, HashIsKnown, HashIsOf, SeenIsKept, OwedIsInHand

LEMMA UnharmedInit == Init => \A w \in Replica : Unharmed(w)
  BY DEF Init, Unharmed, HashIsKnown, HashIsOf, SeenIsKept, OwedIsInHand, NoWork

LEMMA UnharmedNext ==
  ASSUME NEW w, Replica = {w}
  PROVE  TypesHold /\ ChangesOnTheirWay /\ Unharmed(w) /\ [Next]_vars => Unharmed(w)'
  <1> SUFFICES ASSUME TypesHold, ChangesOnTheirWay, Unharmed(w), [Next]_vars
               PROVE  Unharmed(w)'
    OBVIOUS
  <1>a. /\ FspOK /\ HistoryOK /\ MemoryOK /\ PollOK /\ EventsOK
        /\ w \in Replica
    BY DEF TypesHold
  <1>0. CASE harmed'
    BY <1>0 DEF Unharmed
  <1>1. ASSUME NEW r \in Reservation, Reschedule(r) PROVE Unharmed(w)'
    BY <1>1, <1>a, UntouchedStep DEF Reschedule, memory
  <1>2. CASE Tick
    BY <1>2, <1>a, UntouchedStep DEF Tick, fsp
  <1>3. ASSUME Timer(w) PROVE Unharmed(w)'
    BY <1>3, <1>a, UntouchedStep DEF Timer, Dispatch, DispatchFails, fsp, memory
  <1>4. ASSUME NEW j \in Job, Take(w, j) \/ Throttled(w, j) PROVE Unharmed(w)'
    <2>1. /\ poll[w].stage \in {"idle", "calling"}
          /\ poll'[w].stage \in {"idle", "calling"}
      BY <1>4, <1>a DEF Take, Throttled, NoWork, PollOK
    <2> QED BY <1>4, <1>a, <2>1, FruitlessStep DEF Take, Throttled, fsp, memory
  <1>5. ASSUME FspFails(w) \/ RequeueFails(w) PROVE Unharmed(w)'
    <2>1. poll[w].stage = "calling" /\ poll'[w].stage = "idle"
      BY <1>5, <1>a DEF FspFails, RequeueFails, NoWork, PollOK
    <2> QED BY <1>5, <1>a, <2>1, FruitlessStep DEF FspFails, RequeueFails, fsp, memory
  \* What falls due with this answer is among the changes of the poll.
  <1>6. ASSUME Answered(w), ~harmed' PROVE Unharmed(w)'
    <2>1. /\ ~harmed /\ ~(age[w] >= TtlMinutes /\ snapshot[w] # NoTable)
          /\ UNCHANGED <<hash, published>>
          /\ snapshot' = [snapshot EXCEPT ![w] = Listing]
          /\ seen' = seen \cup Standing /\ owed' = owed \cup (seen \ Standing)
          /\ poll[w].stage = "calling"
      BY <1>6 DEF Answered
    <2>2. /\ HashIsOf(snapshot[w]) /\ SeenIsKept(w) /\ OwedIsInHand(w)
      BY <2>1 DEF Unharmed, HashIsKnown
    <2>3. Previous(w) = snapshot[w] /\ snapshot'[w] = Listing
      BY <1>a, <2>1 DEF Previous, MemoryOK
    <2>4. poll[w] \in Work
      BY <1>a, <2>1, InHand
    <2>5. /\ poll'[w].stage = "comparing" /\ poll'[w].prev = snapshot[w]
          /\ poll'[w].next = Listing
      BY <1>6, <1>a, <2>3, <2>4 DEF Answered, PollOK, Work
    <2>6. HashIsKnown(w)'
      BY <2>1, <2>2, <2>3, <2>5 DEF HashIsKnown, HashIsOf
    <2>7. StandsIn(Listing) = Standing
      BY DEF StandsIn, Listing, Standing
    <2>8. SeenIsKept(w)'
      BY <2>1, <2>3, <2>7 DEF SeenIsKept, StandsIn
    <2>9. OwedIsInHand(w)'
      <3> SUFFICES ASSUME NEW r \in owed' \cap Student, ~(published[Cancelled(r)] > 0)
                   PROVE  r \in StandsIn(snapshot[w]) \ Standing
        BY <2>1, <2>5, <2>7 DEF OwedIsInHand
      <3>1. r \in seen \ Standing /\ r \notin owed
        BY <2>1, <2>2 DEF OwedIsInHand
      <3> QED BY <2>2, <3>1 DEF SeenIsKept
    <2> QED BY <2>6, <2>8, <2>9 DEF Unharmed
  \* An equal hash means equal tables, between which nothing is cancelled.
  <1>7. ASSUME Unchanged(w), ~harmed' PROVE Unharmed(w)'
    <2>1. /\ ~harmed /\ UNCHANGED <<seen, owed, harmed, hash, snapshot, published>>
          /\ poll[w].stage = "comparing" /\ hash = {poll[w].next}
      BY <1>7 DEF Unchanged, fsp, memory
    <2>2. /\ HashIsOf(poll[w].prev) /\ poll[w].next = snapshot[w]
          /\ SeenIsKept(w) /\ OwedIsInHand(w)
      BY <2>1 DEF Unharmed, HashIsKnown
    <2>3. poll[w].prev = poll[w].next
      BY <2>1, <2>2 DEF HashIsOf, NoHash
    <2>4. poll'[w].stage = "idle"
      BY <1>7, <1>a DEF Unchanged, PollOK, NoWork
    <2>5. HashIsKnown(w)'
      BY <2>1, <2>2, <2>4 DEF HashIsKnown, HashIsOf
    <2>6. \A r \in owed \cap Student : published[Cancelled(r)] > 0
      BY <2>2, <2>3 DEF OwedIsInHand
    <2> QED BY <2>1, <2>2, <2>5, <2>6 DEF Unharmed, SeenIsKept, OwedIsInHand
  <1>8. ASSUME Compare(w), ~harmed' PROVE Unharmed(w)'
    <2>1. /\ ~harmed /\ UNCHANGED <<seen, owed, harmed, hash, snapshot, published>>
          /\ poll[w].stage = "comparing"
      BY <1>8 DEF Compare, fsp, memory
    <2>2. poll[w] \in Work
      BY <1>a, <2>1, InHand
    <2>3. /\ poll'[w].stage = "publishing"
          /\ poll'[w].prev = poll[w].prev /\ poll'[w].next = poll[w].next
      BY <1>8, <1>a, <2>2 DEF Compare, PollOK, Work
    <2> QED BY <2>1, <2>3 DEF Unharmed, HashIsKnown, SeenIsKept, OwedIsInHand
  \* All events are out, and the hash is that of the snapshot.
  <1>9. ASSUME SaveHash(w), ~harmed' PROVE Unharmed(w)'
    <2>1. /\ ~harmed /\ UNCHANGED <<seen, owed, harmed, snapshot, published>>
          /\ poll[w].stage = "publishing" /\ AllSent(w) /\ hash' = {poll[w].next}
      BY <1>9 DEF SaveHash, fsp, memory
    <2>2. poll[w].next = snapshot[w] /\ SeenIsKept(w) /\ OwedIsInHand(w)
      BY <2>1 DEF Unharmed, HashIsKnown
    <2>3. poll'[w].stage = "idle"
      BY <1>9, <1>a DEF SaveHash, PollOK, NoWork
    <2>4. HashIsKnown(w)'
      BY <2>1, <2>2, <2>3 DEF HashIsKnown, HashIsOf
    <2>5. \A r \in owed \cap Student : published[Cancelled(r)] > 0
      <3> SUFFICES ASSUME NEW r \in owed \cap Student,
                          r \in StandsIn(poll[w].prev) \ StandsIn(poll[w].next)
                   PROVE  published[Cancelled(r)] > 0
        BY <2>2 DEF OwedIsInHand
      <3>1. Cancelled(r) \in DetectChanges(poll[w].prev, poll[w].next)
        BY DEF DetectChanges, Cancelled, Freed, StandsIn
      <3> QED BY <1>a, <2>1, <3>1 DEF ChangesOnTheirWay, AllSent
    <2> QED BY <2>1, <2>2, <2>4, <2>5 DEF Unharmed, SeenIsKept, OwedIsInHand
  <1>10. ASSUME DatabaseFails(w) \/ Restart(w) PROVE Unharmed(w)'
    BY <1>10 DEF DatabaseFails, Restart, Unharmed
  <1>11. ASSUME NEW m \in outgoing, CreateProspect(m) \/ SendEvent(m)
         PROVE  Unharmed(w)'
    <2>1. UNCHANGED <<seen, owed, harmed, hash, snapshot, poll>>
      BY <1>11 DEF CreateProspect, SendEvent, fsp, memory
    <2>2. \A c \in Change : published[c] > 0 => published'[c] > 0
      BY <1>11, <1>a DEF CreateProspect, SendEvent, EventsOK
    <2> QED BY <1>a, <2>1, <2>2, UntouchedStep
  <1>12. ASSUME NEW m \in outgoing, PublishChangeFails(m) PROVE Unharmed(w)'
    BY <1>12 DEF PublishChangeFails, Unharmed
  <1>13. ASSUME NEW j \in Job, LockExpires(j) PROVE Unharmed(w)'
    BY <1>13, <1>a, UntouchedStep DEF LockExpires, fsp, memory
  <1>14. CASE UNCHANGED vars
    BY <1>14, <1>a, UntouchedStep DEF vars, fsp, memory
  <1> QED BY <1>0, <1>1, <1>2, <1>3, <1>4, <1>5, <1>6, <1>7, <1>8, <1>9, <1>10,
             <1>11, <1>12, <1>13, <1>14
          DEF Next, Handle, Publish, CreateProspect, SendEvent,
              PublishChangeFails

-----------------------------------------------------------------------------
(* The invariant                                                           *)

IInv == TypesHold /\ Truths /\ ChangesOnTheirWay /\ RowsFirst

LEMMA WayInit == Init => ChangesOnTheirWay
  BY DEF Init, ChangesOnTheirWay, NoWork

LEMMA AlwaysIInv == Spec => []IInv
  <1>1. Init => IInv
    BY TypesInit, TruthsInit, WayInit, RowsInit DEF IInv
  <1>2. IInv /\ [Next]_vars => IInv'
    BY TypesNext, TruthsNext, WayNext, RowsNext DEF IInv
  <1> QED BY <1>1, <1>2, PTL DEF Spec

-----------------------------------------------------------------------------
(* The abstract feed                                                       *)

LEMMA FeedInit == Init => Feed!Init
  BY DEF Init, Feed!Init, NoHash

LEMMA IsTrueIsHappened ==
  ASSUME NEW c, IsTrue(c)
  PROVE  Feed!Happened(c)
  BY DEF IsTrue, Feed!Happened, Feed!Over, Unlisted

LEMMA PastWasListed ==
  ASSUME FspOK, NEW t \in Tables, IsPast(t)
  PROVE  Feed!WasListed(t)
  <1> SUFFICES ASSUME NEW r \in DOMAIN t
               PROVE  schedule[r] \in {t[r]} \cup Feed!Later(t[r])
    BY DEF Feed!WasListed
  <1>1. t[r] \in Listed /\ schedule[r] \in Reach(t[r])
    BY TableFacts DEF IsPast
  <1> QED BY <1>1 DEF Reach, Listed, Unlisted, Feed!Later

\* A run of publishChange that has written its row is one row more than
\* there are messages.
LEMMA RowAwaitsMessage ==
  ASSUME TypesHold, RowsFirst, NEW m \in outgoing, m.rowed
  PROVE  m.change \in Change /\ published[m.change] < prospects[m.change]
  <1> DEFINE c == m.change
  <1>1. c \in Change /\ published[c] \in Nat /\ prospects[c] \in Nat
    BY DEF TypesHold, EventsOK, Sending
  <1>2. /\ IsFiniteSet(Rowed(c))
        /\ published[c] + Cardinality(Rowed(c)) <= prospects[c]
    BY <1>1 DEF RowsFirst, RowsCount
  <1>3. m \in Rowed(c)
    BY DEF Rowed
  <1>4. Cardinality(Rowed(c)) \in Nat /\ Cardinality(Rowed(c)) # 0
    BY <1>2, <1>3, FS_CardinalityType, FS_EmptySet
  <1> QED BY <1>1, <1>2, <1>4

LEMMA FeedNext == IInv /\ [Next]_vars => [Feed!Next]_(Feed!vars)
  <1> SUFFICES ASSUME IInv, [Next]_vars PROVE [Feed!Next]_(Feed!vars)
    OBVIOUS
  <1>a. TypesHold /\ FspOK /\ PollOK /\ EventsOK /\ RowsFirst
    BY DEF IInv, TypesHold
  <1>b. PollsAreInOrder /\ OutgoingIsTrue
    BY DEF IInv, Truths
  <1>1. ASSUME NEW r \in Reservation, Reschedule(r) PROVE Feed!Next
    <2>1. After(schedule[r]) \subseteq Feed!Later(schedule[r])
      BY DEF After, Feed!Later
    <2>2. PICK s \in After(schedule[r]) : schedule' = [schedule EXCEPT ![r] = s]
      BY <1>1 DEF Reschedule
    <2>3. Feed!Move(r)
      BY <1>1, <2>1, <2>2 DEF Feed!Move, Reschedule
    <2> QED BY <2>3 DEF Feed!Next
  <1>2. ASSUME NEW m \in outgoing, CreateProspect(m) PROVE Feed!Next
    <2>1. m.change \in Change
      BY <1>a DEF EventsOK, Sending
    <2>2. Feed!Happened(m.change)
      BY <1>b, IsTrueIsHappened DEF OutgoingIsTrue
    <2>3. Feed!Record(m.change)
      BY <1>2, <2>2 DEF Feed!Record, CreateProspect, fsp
    <2> QED BY <2>1, <2>3 DEF Feed!Next
  <1>3. ASSUME NEW m \in outgoing, SendEvent(m) PROVE Feed!Next
    <2>1. m.change \in Change /\ published[m.change] < prospects[m.change]
      BY <1>3, <1>a, RowAwaitsMessage DEF SendEvent
    <2>2. Feed!Announce(m.change)
      BY <1>3, <2>1 DEF Feed!Announce, SendEvent, fsp
    <2> QED BY <2>1, <2>2 DEF Feed!Next
  <1>4. ASSUME NEW w \in Replica, SaveHash(w) PROVE Feed!Next
    <2>1. poll[w].stage = "publishing" /\ hash' = {poll[w].next}
      BY <1>4 DEF SaveHash
    <2>2. poll[w].next \in Tables /\ IsPast(poll[w].next)
      BY <1>a, <1>b, <2>1 DEF PollOK, PollsAreInOrder, Work, NoWork
    <2>3. Feed!WasListed(poll[w].next)
      BY <1>a, <2>2, PastWasListed
    <2>4. Feed!Note
      BY <1>4, <2>1, <2>3 DEF Feed!Note, SaveHash, fsp
    <2> QED BY <2>4 DEF Feed!Next
  <1>5. ASSUME UNCHANGED <<schedule, prospects, published, hash>>
        PROVE  UNCHANGED Feed!vars
    BY <1>5 DEF Feed!vars
  <1>6. CASE Tick \/ (\E j \in Job : LockExpires(j)) \/ UNCHANGED vars
    BY <1>5, <1>6 DEF Tick, LockExpires, vars, fsp
  <1>7. CASE Publish
    BY <1>2, <1>3, <1>5, <1>7 DEF Publish, PublishChangeFails
  <1>8. ASSUME NEW w \in Replica, Timer(w) \/ Handle(w) \/ Restart(w)
        PROVE  [Feed!Next]_(Feed!vars)
    BY <1>4, <1>5, <1>8
       DEF Timer, Dispatch, DispatchFails, Handle, Take, Throttled, FspFails,
           RequeueFails, Answered, Unchanged, Compare, DatabaseFails, Restart, fsp
  <1> QED BY <1>1, <1>6, <1>7, <1>8 DEF Next

-----------------------------------------------------------------------------
(* The theorems                                                            *)

\* Queue, stores and handlers keep their shape and no job is delivered more
\* often than the queue allows.
THEOREM PipelineTypes == Spec => []TypeOK
  <1>1. IInv => TypeOK
    BY TypesGiveTypeOK DEF IInv
  <1> QED BY <1>1, AlwaysIInv, PTL

\* Whatever the replicas, retries and delays, an event that is announced has
\* happened in FSP.
THEOREM EventTruth == Spec => []EventsAreTrue
  <1>1. IInv => EventsAreTrue
    BY DEF IInv, Truths
  <1> QED BY <1>1, AlwaysIInv, PTL

\* No message is sent before its DiscoveryProspect row is written.
THEOREM RowBeforeMessage == Spec => []MessagesHaveRows
  <1>1. IInv => MessagesHaveRows
    BY DEF IInv, RowsFirst, RowsCount, Rowed, MessagesHaveRows
  <1> QED BY <1>1, AlwaysIInv, PTL

\* Rows, messages and hash of any number of replicas are a feed of changes
\* that have happened, each message with a row of its own.
THEOREM PipelineRefines == Spec => PipelineIsAFeed
  <1>1. Spec => Feed!Init /\ [][Feed!Next]_(Feed!vars)
    BY FeedInit, FeedNext, AlwaysIInv, PTL DEF Spec
  <1> QED BY <1>1 DEF PipelineIsAFeed, Feed!Spec

FeedTyped ==
  /\ schedule \in [Reservation -> Listed \cup Unlisted \cup {"none"}]
  /\ prospects \in [Change -> Nat] /\ published \in [Change -> Nat]

\* The feed tells the truth, whoever keeps it: what it has announced it has
\* recorded, and what it has recorded has happened and is not undone.
THEOREM FeedTellsTheTruth == Feed!Spec => []Feed!AnnouncedHasHappened
  <1> DEFINE Inv == FeedTyped /\ Feed!AnnouncedHasHappened
  <1>1. Feed!Init => Inv
    BY DEF Feed!Init, FeedTyped, Feed!AnnouncedHasHappened, Listed, Unlisted
  <1>2. Inv /\ [Feed!Next]_(Feed!vars) => Inv'
    <2> SUFFICES ASSUME Inv, [Feed!Next]_(Feed!vars) PROVE Inv'
      OBVIOUS
    <2>1. ASSUME NEW r \in Reservation, Feed!Move(r) PROVE Inv'
      <3>1. PICK s \in Feed!Later(schedule[r]) :
              schedule' = [schedule EXCEPT ![r] = s]
        BY <2>1 DEF Feed!Move
      <3>2. s \in Listed \cup Unlisted /\ FeedTyped'
        BY <2>1, <3>1 DEF FeedTyped, Feed!Later, Feed!Move, Listed, Unlisted
      <3>3. ASSUME NEW c \in Change, Feed!Happened(c) PROVE Feed!Happened(c)'
        <4>1. c.id \in Reservation
          BY DEF Change
        <4> QED BY <3>1, <3>3, <4>1
                DEF FeedTyped, Feed!Happened, Feed!Over, Feed!Later, Listed, Unlisted
      <3> QED BY <2>1, <3>2, <3>3 DEF Feed!AnnouncedHasHappened, Feed!Move
    <2>2. ASSUME NEW d \in Change, Feed!Record(d) PROVE Inv'
      <3>1. FeedTyped'
        BY <2>2 DEF FeedTyped, Feed!Record
      <3>2. ASSUME NEW c \in Change
            PROVE  published'[c] <= prospects'[c]
                   /\ (prospects'[c] > 0 => Feed!Happened(c)')
        <4>1. Feed!Happened(c)' <=> Feed!Happened(c)
          BY <2>2 DEF Feed!Record, Feed!Happened, Feed!Over
        <4> QED BY <2>2, <4>1
                DEF FeedTyped, Feed!Record, Feed!AnnouncedHasHappened
      <3> QED BY <3>1, <3>2 DEF Feed!AnnouncedHasHappened
    <2>3. ASSUME NEW d \in Change, Feed!Announce(d) PROVE Inv'
      <3>1. FeedTyped'
        BY <2>3 DEF FeedTyped, Feed!Announce
      <3>2. ASSUME NEW c \in Change
            PROVE  published'[c] <= prospects'[c]
                   /\ (prospects'[c] > 0 => Feed!Happened(c)')
        <4>1. Feed!Happened(c)' <=> Feed!Happened(c)
          BY <2>3 DEF Feed!Announce, Feed!Happened, Feed!Over
        <4> QED BY <2>3, <4>1
                DEF FeedTyped, Feed!Announce, Feed!AnnouncedHasHappened
      <3> QED BY <3>1, <3>2 DEF Feed!AnnouncedHasHappened
    <2>4. CASE Feed!Note \/ UNCHANGED Feed!vars
      BY <2>4 DEF Feed!Note, Feed!vars, FeedTyped, Feed!AnnouncedHasHappened,
                  Feed!Happened, Feed!Over
    <2> QED BY <2>1, <2>2, <2>3, <2>4 DEF Feed!Next
  <1> QED BY <1>1, <1>2, PTL DEF Feed!Spec

\* The stored hash moves only to a table whose every change is announced.
THEOREM HashAfterEvents == Spec => HashFollowsEvents
  <1>1. IInv /\ [Next]_vars => [HashStep]_vars
    BY HashStepHolds DEF IInv
  <1>2. Spec => [][HashStep]_vars
    BY <1>1, AlwaysIInv, PTL DEF Spec
  <1> QED BY <1>2 DEF HashFollowsEvents, HashStep

\* A single replica announces every cancellation it saw, through refused and
\* throttled calls, lost locks and redeliveries, whatever the reservations,
\* jobs, interval and snapshot life, until one of the events of "harmed".
THEOREM OneReplicaMissesNothing ==
  ASSUME NEW w, Replica = {w}
  PROVE  Spec => []NothingMissedUnharmed
  <1>1. Init => Unharmed(w)
    BY UnharmedInit
  <1>2. IInv /\ Unharmed(w) /\ [Next]_vars => Unharmed(w)'
    BY UnharmedNext DEF IInv
  <1>3. Unharmed(w) => NothingMissedUnharmed
    <2> SUFFICES ASSUME Unharmed(w), ~harmed, Quiet, NEW r \in owed \cap Student
                 PROVE  published[[type |-> "CANCELLATION", id |-> r]] > 0
      BY DEF NothingMissedUnharmed, Untold
    <2>1. poll[w].stage = "idle"
      BY DEF Quiet, NoWork
    <2> QED BY <2>1 DEF Unharmed, OwedIsInHand, Cancelled
  <1> QED BY <1>1, <1>2, <1>3, AlwaysIInv, PTL DEF Spec
=============================================================================
