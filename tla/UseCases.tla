------------------------------ MODULE UseCases ------------------------------
(***************************************************************************)
(* What becomes of a change event: ChangeEventConsumer hands it to one of  *)
(* four use-case handlers, each of which asks FSP for offers (a free slot, *)
(* a student for a freed slot, an event of the solver), has FSP validate   *)
(* them one after the other and writes a PENDING suggestion and its audit  *)
(* entry for each that passes.  The hourly NextLessonScanService runs the  *)
(* next-lesson handler for students who wait for a lesson.                 *)
(*                                                                         *)
(* One tenant.  The order in which FSP returns offers is left open, and so *)
(* is what it answers.  A message carries the fields change detection puts *)
(* into rawDiff, which are not always the ones the handlers read.          *)
(***************************************************************************)
EXTENDS Naturals, Sequences, FiniteSets, Functions

CONSTANTS
  Consumer,       \* receivers of the change-events queue, one per replica
  Scanner,        \* processes that run the hourly scan
  Message,        \* change events
  Student,        \* students with a lesson to schedule
  Offer,          \* slots, candidates or solver events FSP can come up with
  EndsInDark,     \* offers that end after civil twilight
  StartsInDark,   \* offers that begin before it
  Eligible,       \* offers with instructor and aircraft fit for discovery
  Squawked,       \* openings whose aircraft has an open squawk
  Placed,         \* events and students that come with a place
  MaxTries,       \* WAITLIST_MAX_CANDIDATES_TO_TRY
  MaxReschedules, \* RESCHEDULE_MAX_SUGGESTIONS
  MaxDiscoveries, \* DISCOVERY_MAX_SUGGESTIONS
  MaxLessons,     \* NEXT_LESSON_MAX_SUGGESTIONS
  MaxDelivery,    \* deliveries of a message before it is dead-lettered
  MaxScans,       \* scans of one scanner
  MaxHandlings,   \* events first taken and students scheduled, all in all
  Failure         \* what the environment may do wrong

Kinds == {"NEW_OPENING", "CANCELLATION", "DISCOVERY_REQUEST", "STATUS_CHANGE"}

ASSUME UseCasesAssumption ==
  /\ {MaxTries, MaxReschedules, MaxDiscoveries, MaxLessons} \subseteq Nat \ {0}
  /\ MaxDelivery \in Nat \ {0} /\ {MaxScans, MaxHandlings} \subseteq Nat
  /\ Failure \subseteq {"database", "lock", "crash"}
  /\ Consumer \cap Scanner = {} /\ Message \cap Student = {}
  /\ IsFiniteSet(Offer) /\ Eligible \subseteq Offer

VARIABLES
  kind,       \* the changeType of each message, never changed
  queue,      \* the state of each message
  delivered,  \* how often each was handed to a consumer
  work,       \* per consumer and scanner: the handling under way
  handled,    \* per consumer and scanner: handlings begun so far
  left,       \* per scanner: students the current scan has yet to look at
  scans,      \* per scanner: scans begun
  unsure,     \* history: handlings of a scan whose check failed or is out of date
  rows,       \* the Suggestion rows, in the order of their creation
  audited     \* rows that have their SUGGESTION_CREATED entry

jobs == <<kind, queue, delivered>>
scanning == <<left, scans, unsure>>
vars == <<jobs, work, handled, scanning, rows, audited>>

Actor == Consumer \cup Scanner

Idle == [stage |-> "idle"]

\* offers: what is left to try, of which blind are those let through without
\* twilight data; accepted: the last offer FSP's validation accepted.
Start(path, task, nth) ==
  [stage |-> "started", path |-> path, task |-> task, nth |-> nth,
   offers |-> {}, blind |-> {}, offer |-> "none", accepted |-> "none",
   row |-> 0, created |-> 0]

\* A handling is named by its actor and its number.
Handling(a) == <<a, handled[a]>>

\* Bound: what has been begun, redeliveries apart.
Begun == FoldFunction(+, 0, handled)

Init ==
  /\ kind \in [Message -> Kinds]
  /\ queue = [m \in Message |-> "queued"]
  /\ delivered = [m \in Message |-> 0]
  /\ work = [a \in Actor |-> Idle]
  /\ handled = [a \in Actor |-> 0]
  /\ left = [x \in Scanner |-> {}]
  /\ scans = [x \in Scanner |-> 0]
  /\ unsure = {}
  /\ rows = <<>>
  /\ audited = {}

-----------------------------------------------------------------------------
(* Messages                                                                *)

\* What ReservationDiffService puts into rawDiff, of what the handlers look
\* for: an opening's slot is nested under freedSlot, a cancellation's place
\* and times under previous.  DISCOVERY_REQUEST has no producer here.
Carried(m) == CASE kind[m] = "NEW_OPENING" -> {}
                [] kind[m] = "CANCELLATION" -> {"studentId"}
                [] kind[m] = "STATUS_CHANGE" -> {"newStatus"}
                [] OTHER -> {"prospectId"} \cup {f \in {"locationId"} : m \in Placed}

\* A scan passes a student's own data on.
Known(w) == IF w.task \in Message
            THEN Carried(w.task)
            ELSE {"studentId"} \cup {f \in {"locationId"} : w.task \in Placed}

Route(m) == CASE kind[m] = "NEW_OPENING" -> "waitlist"
              [] kind[m] = "CANCELLATION" -> "reschedule"
              [] kind[m] = "DISCOVERY_REQUEST" -> "discovery"
              [] OTHER -> "lesson"

Take(c, m) ==
  /\ work[c] = Idle /\ queue[m] = "queued"
  /\ delivered[m] > 0 \/ Begun < MaxHandlings
  /\ queue' = [queue EXCEPT ![m] = "locked"]
  /\ delivered' = [delivered EXCEPT ![m] = @ + 1]
  /\ handled' = [handled EXCEPT ![c] = @ + 1]
  /\ work' = [work EXCEPT ![c] = Start(Route(m), m, delivered[m] + 1)]
  /\ UNCHANGED <<kind, scanning, rows, audited>>

Holds(a) == /\ work[a].task \in Message
            /\ queue[work[a].task] = "locked"
            /\ delivered[work[a].task] = work[a].nth

\* Mutation: the message is completed only when something was created.
SettledOnSuccess(a) ==
  IF Holds(a) /\ work[a].created > 0
  THEN [queue EXCEPT ![work[a].task] = "done"] ELSE queue

\* The consumer's finally completes the message, whatever the handler did.
Settled(a) == IF Holds(a) THEN [queue EXCEPT ![work[a].task] = "done"] ELSE queue

Returned(m) == [queue EXCEPT ![m] =
                  IF delivered[m] < MaxDelivery THEN "queued" ELSE "dead"]

LockExpires(m) ==
  /\ "lock" \in Failure /\ queue[m] = "locked"
  /\ queue' = Returned(m)
  /\ UNCHANGED <<kind, delivered, work, handled, scanning, rows, audited>>

\* The end of a handler, with or without an error.
Finish(a) ==
  /\ queue' = Settled(a)
  /\ work' = [work EXCEPT ![a] = Idle]
  /\ UNCHANGED <<kind, delivered, handled, scanning>>

-----------------------------------------------------------------------------
(* Looking for offers                                                      *)

\* FSP fails or has nothing to offer, the status is not COMPLETED, no lesson
\* is pending, no student is active, no aircraft may be used: no suggestion.
ReturnEarly(a) ==
  /\ work[a].stage = "started"
  /\ Finish(a)
  /\ UNCHANGED <<rows, audited>>

AsTheyAre(slots) == [offers |-> slots, blind |-> {}]

\* The twilight filter lets slots through for whose day FSP has no data.
InDaylight(slots, dark, nodata) ==
  [offers |-> slots \ (dark \ nodata), blind |-> slots \cap nodata]

AtDusk == EndsInDark
AtNight == EndsInDark \cup StartsInDark

\* The best-ranked students, if no open squawk of the aircraft is known of.
CandidatesForOpening(w) ==
  IF "aircraftId" \in Known(w) /\ w.task \in Squawked
  THEN {}
  ELSE {AsTheyAre(s) : s \in {s \in SUBSET Offer : Cardinality(s) <= MaxTries}}

\* Other slots for the student whose flight was cancelled, before dusk.
SlotsForCancellation(w) ==
  IF "locationId" \in Known(w)
  THEN {InDaylight(s, AtDusk, d) : s \in SUBSET Offer, d \in SUBSET AtDusk}
  ELSE {AsTheyAre(s) : s \in SUBSET Offer}

\* Slots with eligible instructor and aircraft, in daylight.
SlotsForDiscovery(w) ==
  IF "locationId" \in Known(w)
  THEN {InDaylight(s, AtNight, d) : s \in SUBSET Eligible, d \in SUBSET AtNight}
  ELSE {AsTheyAre(s) : s \in SUBSET Eligible}

\* Slots for the next lesson, in daylight.
SlotsForLesson(w) ==
  IF "locationId" \in Known(w)
  THEN {InDaylight(s, AtNight, d) : s \in SUBSET Offer, d \in SUBSET AtNight}
  ELSE {AsTheyAre(s) : s \in SUBSET Offer}

\* With many lessons pending the solver proposes, each event once.
EventsOfSolver ==
  {AsTheyAre(s) : s \in {s \in SUBSET Offer : Cardinality(s) <= MaxLessons}}

\* scheduleNextLessonForStudent takes one path or the other.
Paths(w) == IF w.path = "lesson" THEN {"lesson", "auto"} ELSE {w.path}

Found(w, path) == CASE path = "waitlist" -> CandidatesForOpening(w)
                    [] path = "reschedule" -> SlotsForCancellation(w)
                    [] path = "discovery" -> SlotsForDiscovery(w)
                    [] path = "lesson" -> SlotsForLesson(w)
                    [] OTHER -> EventsOfSolver

Search(a) ==
  /\ work[a].stage = "started"
  /\ \E path \in Paths(work[a]) : \E f \in Found(work[a], path) :
       work' = [work EXCEPT ![a].stage = "offering", ![a].path = path,
                            ![a].offers = f.offers, ![a].blind = f.blind]
  /\ UNCHANGED <<jobs, handled, scanning, rows, audited>>

-----------------------------------------------------------------------------
(* One offer after the other                                               *)

\* How many suggestions one handling may create.
LimitOf(path) == CASE path = "waitlist" -> 1
                   [] path = "reschedule" -> MaxReschedules
                   [] path = "discovery" -> MaxDiscoveries
                   [] OTHER -> MaxLessons

\* Mutation: one suggestion too many.
LimitReachedLate(w) == w.created > LimitOf(w.path)

LimitReached(w) == w.created >= LimitOf(w.path)

Trying(a, o) == /\ work[a].stage = "offering" /\ ~LimitReached(work[a])
                /\ o \in work[a].offers

Skip(a, o) ==
  /\ work' = [work EXCEPT ![a].offers = @ \ {o}]
  /\ UNCHANGED <<jobs, handled, scanning, rows, audited>>

\* FSP says that the student is not available; only two handlers ask, and a
\* question that fails is no answer.
Unavailable(a, o) ==
  /\ Trying(a, o) /\ work[a].path \in {"waitlist", "reschedule"}
  /\ Skip(a, o)

\* FSP's validation refuses, or is not to be had.
Refused(a, o) ==
  /\ Trying(a, o) /\ work[a].path # "auto"
  /\ Skip(a, o)

\* Mutation: a failed validation is logged and the offer used all the same.
ValidateAndGoOn(a, o) ==
  /\ Trying(a, o) /\ work[a].path # "auto"
  /\ \E v \in {o, "none"} :
       work' = [work EXCEPT ![a].stage = "valid", ![a].offer = o, ![a].accepted = v,
                            ![a].offers = @ \ {o}]
  /\ UNCHANGED <<jobs, handled, scanning, rows, audited>>

\* validateReservation accepts; the rationale that follows always comes, by
\* the model or by its fallback.
Validate(a, o) ==
  /\ Trying(a, o) /\ work[a].path # "auto"
  /\ work' = [work EXCEPT ![a].stage = "valid", ![a].offer = o, ![a].accepted = o,
                          ![a].offers = @ \ {o}]
  /\ UNCHANGED <<jobs, handled, scanning, rows, audited>>

\* An event of the solver is taken as it is.
UseEvent(a, o) ==
  /\ Trying(a, o) /\ work[a].path = "auto"
  /\ work' = [work EXCEPT ![a].stage = "valid", ![a].offer = o, ![a].offers = @ \ {o}]
  /\ UNCHANGED <<jobs, handled, scanning, rows, audited>>

\* The part of a row that is read again; what it offers is in work.offer.
Row(a) == [by |-> Handling(a), path |-> work[a].path, task |-> work[a].task,
           status |-> "PENDING"]

\* Handlings of other scans, whose checks a lesson written by a comes too late for.
Overtaken(a) ==
  {Handling(x) : x \in {y \in Scanner \ {a} :
                         work[y] # Idle /\ work[a].path \in {"lesson", "auto"}}}

Create(a) ==
  /\ work[a].stage = "valid"
  /\ rows' = Append(rows, Row(a))
  /\ work' = [work EXCEPT ![a].stage = "written", ![a].row = Len(rows) + 1]
  /\ unsure' = unsure \cup Overtaken(a)
  /\ UNCHANGED <<jobs, handled, left, scans, audited>>

\* Caught, and the next offer tried; in the waitlist handler the end.
CreateFails(a) ==
  /\ "database" \in Failure /\ work[a].stage = "valid"
  /\ IF work[a].path = "waitlist"
     THEN Finish(a)
     ELSE /\ work' = [work EXCEPT ![a].stage = "offering", ![a].offer = "none",
                                  ![a].accepted = "none"]
          /\ UNCHANGED <<jobs, handled, scanning>>
  /\ UNCHANGED <<rows, audited>>

Audit(a) ==
  /\ work[a].stage = "written"
  /\ audited' = audited \cup {work[a].row}
  /\ work' = [work EXCEPT ![a].stage = "offering", ![a].offer = "none",
                          ![a].accepted = "none", ![a].created = @ + 1]
  /\ UNCHANGED <<jobs, handled, scanning, rows>>

\* Mutation: the error is caught like that of the row, the loop goes on.
AuditFailsQuietly(a) ==
  /\ "database" \in Failure /\ work[a].stage = "written"
  /\ work' = [work EXCEPT ![a].stage = "offering", ![a].offer = "none",
                          ![a].accepted = "none"]
  /\ UNCHANGED <<jobs, handled, scanning, rows, audited>>

\* Nothing catches it but the consumer or the scan.
AuditFails(a) ==
  /\ "database" \in Failure /\ work[a].stage = "written"
  /\ Finish(a)
  /\ UNCHANGED <<rows, audited>>

End(a) ==
  /\ work[a].stage = "offering"
  /\ work[a].offers = {} \/ LimitReached(work[a])
  /\ Finish(a)
  /\ UNCHANGED <<rows, audited>>

-----------------------------------------------------------------------------
(* The hourly scan                                                         *)

\* FSP lists the students with a lesson to schedule.
StartScan(x) ==
  /\ left[x] = {} /\ work[x] = Idle /\ scans[x] < MaxScans
  /\ scans' = [scans EXCEPT ![x] = @ + 1]
  /\ \E s \in SUBSET Student \ {{}} : left' = [left EXCEPT ![x] = s]
  /\ UNCHANGED <<jobs, work, handled, unsure, rows, audited>>

Lessons == {r \in DOMAIN rows : rows[r].path \in {"lesson", "auto"}}

\* Mutation: the check misses rows that have no audit entry yet.
SomeLessonAudited == \E r \in Lessons \cap audited : rows[r].status = "PENDING"

\* The check asks for any PENDING next-lesson row of the tenant.
SomeLessonPending == \E r \in Lessons : rows[r].status = "PENDING"

\* The check finds a suggestion, no matter whose: the student is skipped.
SkipStudent(x, s) ==
  /\ work[x] = Idle /\ s \in left[x]
  /\ SomeLessonPending
  /\ left' = [left EXCEPT ![x] = @ \ {s}]
  /\ UNCHANGED <<jobs, work, handled, scans, unsure, rows, audited>>

\* The check finds none, or its query fails and is passed over: the handler
\* runs.
ScheduleStudent(x, s) ==
  /\ work[x] = Idle /\ s \in left[x] /\ Begun < MaxHandlings
  /\ left' = [left EXCEPT ![x] = @ \ {s}]
  /\ handled' = [handled EXCEPT ![x] = @ + 1]
  /\ work' = [work EXCEPT ![x] = Start("lesson", s, 0)]
  /\ \/ ~SomeLessonPending /\ unsure' = unsure
     \/ /\ "database" \in Failure
        /\ unsure' = unsure \cup {<<x, handled[x] + 1>>}
  /\ UNCHANGED <<jobs, scans, rows, audited>>

-----------------------------------------------------------------------------
(* The rest of the system                                                  *)

\* A scheduler or the expiry cron resolves a suggestion; only that of a
\* lesson is ever looked at again here.
Resolve(r) ==
  /\ r \in Lessons /\ rows[r].status = "PENDING"
  /\ rows' = [rows EXCEPT ![r].status = "RESOLVED"]
  /\ UNCHANGED <<jobs, work, handled, scanning, audited>>

\* A replica dies: the handling is lost, its message comes back.
Crash(a) ==
  /\ "crash" \in Failure /\ work[a] # Idle
  /\ work' = [work EXCEPT ![a] = Idle]
  /\ queue' = IF Holds(a) THEN Returned(work[a].task) ELSE queue
  /\ left' = IF a \in Scanner THEN [left EXCEPT ![a] = {}] ELSE left
  /\ UNCHANGED <<kind, delivered, handled, scans, unsure, rows, audited>>

Handle(a) ==
  \/ ReturnEarly(a) \/ Search(a) \/ Create(a) \/ CreateFails(a)
  \/ Audit(a) \/ AuditFails(a) \/ End(a)
  \/ \E o \in Offer : \/ Unavailable(a, o) \/ Refused(a, o)
                    \/ Validate(a, o) \/ UseEvent(a, o)

Receive(c) == \E m \in Message : Take(c, m)

Scan(x) == \E s \in Student : SkipStudent(x, s) \/ ScheduleStudent(x, s)

Next ==
  \/ \E a \in Actor : Handle(a) \/ Crash(a)
  \/ \E c \in Consumer : Receive(c)
  \/ \E x \in Scanner : StartScan(x) \/ Scan(x)
  \/ \E m \in Message : LockExpires(m)
  \/ \E r \in DOMAIN rows : Resolve(r)

Spec == Init /\ [][Next]_vars

\* Receivers pump messages, every await settles.
Fairness == /\ \A a \in Actor : WF_vars(Handle(a))
            /\ \A c \in Consumer : WF_vars(Receive(c))

FairSpec == Spec /\ Fairness

-----------------------------------------------------------------------------
(* What is true of it                                                      *)

Path == {"waitlist", "reschedule", "discovery", "lesson", "auto"}

Handlings == Actor \X Nat

Suggestion == [by : Handlings, path : Path, task : Message \cup Student,
               status : {"PENDING", "RESOLVED"}]

\* What an actor has in hand.
InHand == [stage : {"started", "offering", "valid", "written"}, path : Path,
           task : Message \cup Student, nth : 0 .. MaxDelivery,
           offers : SUBSET Offer, blind : SUBSET Offer,
           offer : Offer \cup {"none"}, accepted : Offer \cup {"none"}, row : Nat, created : Nat]

\* Queue, handlers and rows hold values of the shape the code gives them.
TypeOK ==
  /\ kind \in [Message -> Kinds]
  /\ queue \in [Message -> {"queued", "locked", "done", "dead"}]
  /\ delivered \in [Message -> 0 .. MaxDelivery]
  /\ work \in [Actor -> InHand \cup {Idle}]
  /\ handled \in [Actor -> Nat]
  /\ left \in [Scanner -> SUBSET Student]
  /\ scans \in [Scanner -> 0 .. MaxScans]
  /\ unsure \subseteq Handlings
  /\ rows \in Seq(Suggestion)
  /\ audited \subseteq DOMAIN rows

RowsOf(h) == {r \in DOMAIN rows : rows[r].by = h}

\* One handling of an event or student creates no more suggestions than its
\* limit, one for an opening, whatever fails on the way.
LimitIsKept ==
  \A r \in DOMAIN rows :
    Cardinality(RowsOf(rows[r].by)) <= LimitOf(rows[r].path)

\* Rows and audit entries are the ledger of SuggestionLedger: however events
\* come back, statements fail and replicas die, a handling keeps to its limit
\* and its task, writes nothing while a row lacks its entry, and an event has
\* suggestions from as many handlings as it may have deliveries, no more.
Ledger == INSTANCE SuggestionLedger WITH Event <- Message, Learner <- Student,
                                         Limit <- [p \in Path |-> LimitOf(p)]
WritesALedger == Ledger!Spec

\* What has just become a suggestion, of handling a.
Written(a) == work[a].stage = "written"

\* A suggestion of waitlist, reschedule, discovery or find-a-time rests on an
\* offer that FSP accepted in the same handling (a redelivered message has its
\* offers validated again), and a discovery flight is offered with eligible
\* instructor and aircraft and within civil twilight, unless the request names
\* no place or FSP has no twilight data for the day.
OffersAreSound ==
  \A a \in Actor : Written(a) =>
    /\ work[a].path # "auto" => work[a].accepted = work[a].offer
    /\ work[a].path = "discovery" =>
         /\ work[a].offer \in Eligible
         /\ work[a].offer \in EndsInDark \cup StartsInDark =>
              work[a].offer \in work[a].blind \/ work[a].task \notin Placed

\* A handling never goes on while a row of its own lacks the audit entry: at
\* most its last one does, and only if it failed or died right there.
AuditKeepsUp ==
  \A r, s \in DOMAIN rows \ audited : rows[r].by = rows[s].by => r = s

PendingLessons == {r \in Lessons : rows[r].status = "PENDING"}

\* However handlings fail half way, processes die and replicas scan at once, a
\* scan adds to lessons that are pending, of its own, of another scan or of an
\* event, in two cases only: its check failed, which the code prefers to
\* skipping a student, or the other one was written after it.
ScanAddsToNothing ==
  \A r, s \in PendingLessons :
    r < s /\ rows[r].by # rows[s].by /\ rows[s].by[1] \in Scanner
      => rows[s].by \in unsure

\* Every event that is taken leaves the queue in the end, whatever its
\* handler runs into.
EventsEnd ==
  \A m \in Message : queue[m] = "locked" ~> queue[m] \in {"done", "dead"}
=============================================================================
