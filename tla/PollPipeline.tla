---------------------------- MODULE PollPipeline ----------------------------
(***************************************************************************)
(* From the polling timer to the change-events queue, for one tenant:      *)
(* PollingDispatcherService puts a job on the poll-jobs queue,             *)
(* PollJobConsumer lists the reservations and keeps the answer in          *)
(* RawSnapshotStore, ChangeDetectionService compares it with the previous  *)
(* answer, publishes one event per change and stores the hash.             *)
(*                                                                         *)
(* The snapshot is memory of a worker replica, the hash a column of the    *)
(* operator row, and a job is handled again when its handler throws or its *)
(* replica dies.  Each replica handles one job at a time (the receiver's   *)
(* default); the events of a poll are sent concurrently (Promise.all), and *)
(* those still under way go on when one of them has failed.                *)
(*                                                                         *)
(* A table stands for a list of reservations; what duplicate entries do    *)
(* is the business of ReservationDiff.  Time is counted in minutes and     *)
(* only passes between two timer ticks.                                    *)
(***************************************************************************)
EXTENDS ReservationDiff, FiniteSets

CONSTANTS
  Replica,       \* worker replicas
  Job,           \* poll jobs, as many as are ever enqueued
  PollMinutes,   \* polling interval of the tenant's tier
  TtlMinutes,    \* life of a snapshot
  MaxDelivery,   \* deliveries of a job before it is dead-lettered
  Failure        \* what the environment may do wrong

AllFailures == {"fsp", "throttle", "publish", "database", "lock", "crash"}

ASSUME PipelineAssumption ==
  /\ PollMinutes \in Nat \ {0} /\ TtlMinutes \in Nat \ {0}
  /\ MaxDelivery \in Nat \ {0}
  /\ Failure \subseteq AllFailures

VARIABLES
  schedule,   \* FSP's reservations
  due,        \* replicas whose timer has fired and not been served
  snapshot,   \* per replica: the table of the last answer, empty if none
  age,        \* per replica: minutes since it was captured
  hash,       \* lastPollHash of the operator row: the table hashed, as a set
  queue,      \* the state of each job
  delivered,  \* how often each job was handed to a consumer
  poll,       \* per replica: the job in hand
  outgoing,   \* runs of publishChange under way
  prospects,  \* DiscoveryProspect rows, counted per change
  published,  \* messages on change-events, counted per change
  seen,       \* history: reservations some answer showed standing
  owed,       \* history: those a later answer showed freed
  harmed      \* history: a send or a statement failed, a replica restarted, or
              \* an answer came after the snapshot before it had expired

fsp == <<schedule, seen, owed, harmed>>
memory == <<snapshot, age>>
jobs == <<queue, delivered>>
vars == <<fsp, due, memory, hash, jobs, poll, outgoing, prospects, published>>

NoTable == <<>>
Tables == UNION {[R -> Listed] : R \in SUBSET Reservation}
NoHash == {}
NoWork == [stage |-> "idle", job |-> "none", nth |-> 0,
           prev |-> NoTable, next |-> NoTable]

Stages == {"calling", "comparing", "publishing"}
Work == [stage : Stages, job : Job, nth : 1 .. MaxDelivery,
         prev : Tables, next : Tables]

\* A run of publishChange belongs to one delivery of a job.
Sending == [job : Job, nth : 1 .. MaxDelivery, replica : Replica,
            change : Change, rowed : BOOLEAN]

Init ==
  /\ schedule \in [Reservation -> {"none", "open"}]
  /\ due = {}
  /\ snapshot = [w \in Replica |-> NoTable]
  /\ age = [w \in Replica |-> 0]
  /\ hash = NoHash
  /\ queue = [j \in Job |-> "unsent"]
  /\ delivered = [j \in Job |-> 0]
  /\ poll = [w \in Replica |-> NoWork]
  /\ outgoing = {}
  /\ prospects = [c \in Change |-> 0]
  /\ published = [c \in Change |-> 0]
  /\ seen = {}
  /\ owed = {}
  /\ harmed = FALSE

-----------------------------------------------------------------------------
(* FSP: a reservation is booked once and ends once.  A withdrawn one is    *)
(* cancelled and no longer listed, a deleted one was flown and has left    *)
(* the list since.                                                         *)

Unlisted == {"withdrawn", "deleted"}

After(s) == CASE s = "none" -> {"open"}
              [] s = "open" -> {"done", "cancelled", "withdrawn"}
              [] s = "done" -> {"deleted"}
              [] s = "cancelled" -> {"withdrawn"}
              [] OTHER -> {}

Reschedule(r) ==
  /\ schedule' \in {[schedule EXCEPT ![r] = s] : s \in After(schedule[r])}
  /\ UNCHANGED <<seen, owed, harmed, due, memory, hash, jobs, poll, outgoing,
                 prospects, published>>

Listing == [r \in {x \in Reservation : schedule[x] \in Listed} |-> schedule[r]]

-----------------------------------------------------------------------------
(* PollingDispatcherService                                                *)

\* A polling interval passes and the timers of all replicas fire.
Tick ==
  /\ due = {} /\ \E j \in Job : queue[j] = "unsent"
  /\ due' = Replica
  /\ age' = [w \in Replica |-> IF age[w] >= TtlMinutes THEN age[w]
                                                       ELSE age[w] + PollMinutes]
  /\ UNCHANGED <<fsp, snapshot, hash, jobs, poll, outgoing, prospects,
                 published>>

\* dispatchPollJob.
Dispatch(w, j) ==
  /\ w \in due /\ queue[j] = "unsent"
  /\ due' = due \ {w}
  /\ queue' = [queue EXCEPT ![j] = "queued"]
  /\ UNCHANGED <<fsp, memory, hash, delivered, poll, outgoing, prospects,
                 published>>

\* The publish fails, or every job of this instance has been sent.
DispatchFails(w) ==
  /\ w \in due
  /\ "publish" \in Failure \/ \A j \in Job : queue[j] # "unsent"
  /\ due' = due \ {w}
  /\ UNCHANGED <<fsp, memory, hash, jobs, poll, outgoing, prospects, published>>

-----------------------------------------------------------------------------
(* PollJobConsumer                                                         *)

\* The message returns to the queue, or goes to the dead-letter queue.
Returned(j) == [queue EXCEPT ![j] =
                  IF delivered[j] < MaxDelivery THEN "queued" ELSE "dead"]

\* completeMessage counts only while this delivery still holds the lock.
Completed(w) == IF queue[poll[w].job] = "locked"
                   /\ delivered[poll[w].job] = poll[w].nth
                THEN [queue EXCEPT ![poll[w].job] = "done"]
                ELSE queue

\* The handler threw; a lost lock has returned the message before.
Abandoned(w) == IF queue[poll[w].job] = "locked"
                   /\ delivered[poll[w].job] = poll[w].nth
                THEN Returned(poll[w].job)
                ELSE queue

Take(w, j) ==
  /\ poll[w] = NoWork /\ queue[j] = "queued"
  /\ queue' = [queue EXCEPT ![j] = "locked"]
  /\ delivered' = [delivered EXCEPT ![j] = @ + 1]
  /\ poll' = [poll EXCEPT ![w] = [stage |-> "calling", job |-> j,
                                  nth |-> delivered[j] + 1,
                                  prev |-> NoTable, next |-> NoTable]]
  /\ UNCHANGED <<fsp, due, memory, hash, outgoing, prospects, published>>

\* No bearer token, or FSP answers with an error: logged, job completed.
FspFails(w) ==
  /\ "fsp" \in Failure /\ poll[w].stage = "calling"
  /\ queue' = Completed(w)
  /\ poll' = [poll EXCEPT ![w] = NoWork]
  /\ UNCHANGED <<fsp, due, memory, hash, delivered, outgoing, prospects,
                 published>>

\* The answer is an error with fspErrors code 429: bucket paused, a new job
\* published for this one.  (The code is FSP's own: the client's error for an
\* exhausted 429 has none, and is one more case of FspFails.)
Throttled(w, j) ==
  /\ "throttle" \in Failure /\ poll[w].stage = "calling"
  /\ queue[j] = "unsent"
  /\ queue' = [Completed(w) EXCEPT ![j] = "queued"]
  /\ poll' = [poll EXCEPT ![w] = NoWork]
  /\ UNCHANGED <<fsp, due, memory, hash, delivered, outgoing, prospects,
                 published>>

\* The same, but the new job cannot be published: the handler throws.
RequeueFails(w) ==
  /\ {"throttle", "publish"} \subseteq Failure /\ poll[w].stage = "calling"
  /\ queue' = Abandoned(w)
  /\ poll' = [poll EXCEPT ![w] = NoWork]
  /\ UNCHANGED <<fsp, due, memory, hash, delivered, outgoing, prospects,
                 published>>

\* RawSnapshotStore.get: empty when there is none or it has expired.
Previous(w) == IF age[w] >= TtlMinutes THEN NoTable ELSE snapshot[w]

\* What FSP lists and does not call cancelled.
Standing == {r \in Reservation : schedule[r] \in Listed \ {"cancelled"}}

\* The answer arrives: it takes the place of the previous one at once.
Answered(w) ==
  /\ poll[w].stage = "calling"
  /\ poll' = [poll EXCEPT ![w].stage = "comparing", ![w].prev = Previous(w),
                          ![w].next = Listing]
  /\ snapshot' = [snapshot EXCEPT ![w] = Listing]
  /\ age' = [age EXCEPT ![w] = 0]
  /\ seen' = seen \cup Standing
  /\ owed' = owed \cup (seen \ Standing)
  /\ harmed' = (harmed \/ (age[w] >= TtlMinutes /\ snapshot[w] # NoTable))
  /\ UNCHANGED <<schedule, due, hash, jobs, outgoing, prospects, published>>

-----------------------------------------------------------------------------
(* ChangeDetectionService.processSnapshot                                  *)

\* Mutation: the early exit does not come back to complete the job.
UnchangedAndStuck(w) ==
  /\ poll[w].stage = "comparing" /\ hash = {poll[w].next}
  /\ poll' = [poll EXCEPT ![w] = NoWork]
  /\ UNCHANGED <<fsp, due, memory, hash, jobs, outgoing, prospects, published>>

\* The hash is as stored: nothing to do, the job is completed.
Unchanged(w) ==
  /\ poll[w].stage = "comparing" /\ hash = {poll[w].next}
  /\ queue' = Completed(w)
  /\ poll' = [poll EXCEPT ![w] = NoWork]
  /\ UNCHANGED <<fsp, due, memory, hash, delivered, outgoing, prospects,
                 published>>

\* Mutation: the two tables are swapped.
CompareSwapped(w) ==
  /\ poll[w].stage = "comparing" /\ hash # {poll[w].next}
  /\ poll' = [poll EXCEPT ![w].stage = "publishing"]
  /\ outgoing' = outgoing \cup
       {[job |-> poll[w].job, nth |-> poll[w].nth, replica |-> w,
         change |-> c, rowed |-> FALSE] :
           c \in DetectChanges(poll[w].next, poll[w].prev)}
  /\ UNCHANGED <<fsp, due, memory, hash, jobs, prospects, published>>

\* The hash differs: one run of publishChange for each change.
Compare(w) ==
  /\ poll[w].stage = "comparing" /\ hash # {poll[w].next}
  /\ poll' = [poll EXCEPT ![w].stage = "publishing"]
  /\ outgoing' = outgoing \cup
       {[job |-> poll[w].job, nth |-> poll[w].nth, replica |-> w,
         change |-> c, rowed |-> FALSE] :
           c \in DetectChanges(poll[w].prev, poll[w].next)}
  /\ UNCHANGED <<fsp, due, memory, hash, jobs, prospects, published>>

CreateProspect(m) ==
  /\ m \in outgoing /\ ~m.rowed
  /\ prospects' = [prospects EXCEPT ![m.change] = @ + 1]
  /\ outgoing' = (outgoing \ {m}) \cup {[m EXCEPT !.rowed = TRUE]}
  /\ UNCHANGED <<fsp, due, memory, hash, jobs, poll, published>>

SendEvent(m) ==
  /\ m \in outgoing /\ m.rowed
  /\ published' = [published EXCEPT ![m.change] = @ + 1]
  /\ outgoing' = outgoing \ {m}
  /\ UNCHANGED <<fsp, due, memory, hash, jobs, poll, prospects>>

\* The handler of w still waits for m in its Promise.all.
Awaits(w, m) == poll[w].stage = "publishing" /\ w = m.replica
                /\ poll[w].job = m.job /\ poll[w].nth = m.nth

\* The insert or the send is refused.  Promise.all rejects with the first
\* failure, processMessage throws and the message is abandoned.
PublishChangeFails(m) ==
  /\ m \in outgoing
  /\ IF m.rowed THEN "publish" \in Failure ELSE "database" \in Failure
  /\ outgoing' = outgoing \ {m}
  /\ IF Awaits(m.replica, m)
     THEN /\ queue' = Abandoned(m.replica)
          /\ poll' = [poll EXCEPT ![m.replica] = NoWork]
     ELSE UNCHANGED <<queue, poll>>
  /\ harmed' = TRUE
  /\ UNCHANGED <<schedule, seen, owed, due, memory, hash, delivered, prospects,
                 published>>

AllSent(w) == ~ \E m \in outgoing : Awaits(w, m)

\* Mutation: the hash is stored before the events are out.
SaveHashEarly(w) ==
  /\ poll[w].stage = "publishing"
  /\ hash' = {poll[w].next}
  /\ queue' = Completed(w)
  /\ poll' = [poll EXCEPT ![w] = NoWork]
  /\ UNCHANGED <<fsp, due, memory, delivered, outgoing, prospects, published>>

\* Every event is out: the hash is stored and the job completed.
SaveHash(w) ==
  /\ poll[w].stage = "publishing" /\ AllSent(w)
  /\ hash' = {poll[w].next}
  /\ queue' = Completed(w)
  /\ poll' = [poll EXCEPT ![w] = NoWork]
  /\ UNCHANGED <<fsp, due, memory, delivered, outgoing, prospects, published>>

\* Reading the operator row or updating it fails: the handler throws.
DatabaseFails(w) ==
  /\ "database" \in Failure
  /\ \/ poll[w].stage = "comparing"
     \/ poll[w].stage = "publishing" /\ AllSent(w)
  /\ queue' = Abandoned(w)
  /\ poll' = [poll EXCEPT ![w] = NoWork]
  /\ harmed' = TRUE
  /\ UNCHANGED <<schedule, seen, owed, due, memory, hash, delivered, outgoing,
                 prospects, published>>

-----------------------------------------------------------------------------
(* Failures of the platform                                                *)

\* The lock runs out (or was never granted in time) while the handler works.
LockExpires(j) ==
  /\ "lock" \in Failure /\ queue[j] = "locked"
  /\ queue' = Returned(j)
  /\ UNCHANGED <<fsp, due, memory, hash, delivered, poll, outgoing, prospects,
                 published>>

\* A replica dies and starts again: its memory is gone, its job comes back.
Restart(w) ==
  /\ "crash" \in Failure
  /\ poll[w] # NoWork \/ snapshot[w] # NoTable
  /\ snapshot' = [snapshot EXCEPT ![w] = NoTable]
  /\ age' = [age EXCEPT ![w] = 0]
  /\ due' = due \ {w}
  /\ poll' = [poll EXCEPT ![w] = NoWork]
  /\ queue' = IF poll[w] = NoWork THEN queue ELSE Abandoned(w)
  /\ outgoing' = {m \in outgoing : m.replica # w}
  /\ harmed' = TRUE
  /\ UNCHANGED <<schedule, seen, owed, hash, delivered, prospects, published>>

Handle(w) ==
  \/ \E j \in Job : Take(w, j) \/ Throttled(w, j)
  \/ FspFails(w) \/ RequeueFails(w) \/ Answered(w) \/ Unchanged(w) \/ Compare(w)
  \/ SaveHash(w) \/ DatabaseFails(w)

Publish == \E m \in outgoing :
             CreateProspect(m) \/ SendEvent(m) \/ PublishChangeFails(m)

Timer(w) == DispatchFails(w) \/ \E j \in Job : Dispatch(w, j)

Next ==
  \/ \E r \in Reservation : Reschedule(r)
  \/ Tick
  \/ \E w \in Replica : Timer(w) \/ Handle(w) \/ Restart(w)
  \/ Publish
  \/ \E j \in Job : LockExpires(j)

Spec == Init /\ [][Next]_vars

\* Timers fire, the receivers pump messages, and every await settles.
Fairness ==
  /\ WF_vars(Tick)
  /\ \A w \in Replica : WF_vars(Timer(w)) /\ WF_vars(Handle(w))
  /\ WF_vars(Publish)

FairSpec == Spec /\ Fairness

-----------------------------------------------------------------------------
(* What is true of it                                                      *)

\* Queue, stores and handlers hold values of the shape the code gives them.
TypeOK ==
  /\ schedule \in [Reservation -> Listed \cup Unlisted \cup {"none"}]
  /\ due \subseteq Replica
  /\ snapshot \in [Replica -> Tables]
  /\ age \in [Replica -> Nat]
  /\ hash \in {NoHash} \cup {{t} : t \in Tables}
  /\ queue \in [Job -> {"unsent", "queued", "locked", "done", "dead"}]
  /\ delivered \in [Job -> 0 .. MaxDelivery]
  /\ poll \in [Replica -> Work \cup {NoWork}]
  /\ outgoing \subseteq Sending
  /\ prospects \in [Change -> Nat]
  /\ published \in [Change -> Nat]
  /\ seen \subseteq Reservation /\ owed \subseteq seen
  /\ harmed \in BOOLEAN

\* An event on the queue tells the truth about FSP: a cancellation is of a
\* student's reservation that is cancelled or has left the list, an opening of a crewed one, a status
\* change of one that is no longer open.  Late answers, retries and replicas
\* that compare with different snapshots never announce a live booking as
\* cancelled.
EventsAreTrue ==
  \A c \in Change : published[c] > 0 =>
    CASE c.type = "CANCELLATION" ->
           c.id \in Student /\ schedule[c.id] \in {"cancelled"} \cup Unlisted
      [] c.type = "NEW_OPENING" ->
           c.id \in Crewed /\ schedule[c.id] \in {"cancelled"} \cup Unlisted
      [] OTHER -> schedule[c.id] \notin {"none", "open"}

\* Rows, messages and hash are the feed of ChangeFeed: however replicas, jobs
\* and retries cross, a row is written and a message sent only of what has
\* happened by then, no message without a row of its own, and a hash stored
\* only of a list FSP gave.
Feed == INSTANCE ChangeFeed WITH recorded <- prospects, announced <- published,
                                 noted <- hash

PipelineIsAFeed == Feed!Spec

\* No message without its DiscoveryProspect row, whichever of the concurrent
\* runs fail or are retried.
MessagesHaveRows ==
  \A c \in Change :
    published[c] + Cardinality({m \in outgoing : m.change = c /\ m.rowed})
      <= prospects[c]

\* The hash moves on only when every change the poll found has been
\* announced: a poll that failed half way leaves the old hash behind.
HashFollowsEvents ==
  [][hash' # hash =>
       \E w \in Replica :
         /\ hash' = {poll[w].next}
         /\ \A c \in DetectChanges(poll[w].prev, poll[w].next) :
              published[c] > 0]_vars

\* Nothing is under way and nothing is waiting.
Quiet ==
  /\ outgoing = {} /\ \A w \in Replica : poll[w] = NoWork
  /\ \A j \in Job : queue[j] \in {"unsent", "done", "dead"}

\* What some answer showed, a later one no longer did and no message tells.
Untold == {r \in owed \cap Student :
             published[[type |-> "CANCELLATION", id |-> r]] = 0}

\* PRD PR 9: when a reservation is cancelled in FSP, a CANCELLATION message
\* appears on the queue.  Of the reservations that polls have shown first
\* standing and then no longer, none that is cancelled stays untold once the
\* polls have settled.
NothingMissed ==
  Quiet => \A r \in Untold : schedule[r] \notin {"cancelled", "withdrawn"}

\* One replica keeps more than that promise (a flown lesson that leaves the
\* list is told as well) through refused and throttled calls, lost locks and
\* redeliveries, until a send or a statement fails, it restarts or the last
\* answer is older than TtlMinutes.
NothingMissedUnharmed == ~harmed /\ Quiet => Untold = {}

\* Every job leaves the queue, handled or dead-lettered, however often its
\* handler fails.
JobsEnd == \A j \in Job : queue[j] = "queued" ~> queue[j] \in {"done", "dead"}
=============================================================================
