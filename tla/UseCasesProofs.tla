--------------------------- MODULE UseCasesProofs ---------------------------
(***************************************************************************)
(* The safety properties of UseCases for any number of consumers, scanners,*)
(* events, students and offers, and any limits.                            *)
(*                                                                         *)
(* A handling is named by its actor and a number the actor never uses      *)
(* again, so the rows that bear its name are those it has written so far;  *)
(* what it has in hand says how many they are and which lacks its audit    *)
(* entry.                                                                  *)
(***************************************************************************)
EXTENDS UseCases, TLAPS, FiniteSetTheorems

Mine(a) == RowsOf(Handling(a))

\* Rows are named after handlings that have begun.
RowsAreNamed == \A r \in DOMAIN rows : rows[r].by[2] \in 1 .. handled[rows[r].by[1]]

\* What an actor has in hand agrees with the rows it has written.
InStep(a) ==
  work[a] # Idle =>
    /\ handled[a] > 0
    /\ \A r \in Mine(a) : rows[r].path = work[a].path
    /\ work[a].stage = "started" => Mine(a) = {} /\ work[a].created = 0
    /\ work[a].stage \in {"offering", "valid"} =>
         Cardinality(Mine(a)) = work[a].created /\ Mine(a) \subseteq audited
    /\ work[a].stage = "written" =>
         /\ Cardinality(Mine(a)) = work[a].created + 1
         /\ Mine(a) \ audited = {work[a].row}
    /\ work[a].stage \in {"valid", "written"} => work[a].created < LimitOf(work[a].path)

HandlingsInStep == \A a \in Actor : InStep(a)

\* Only a discovery request leads to the discovery handler, and what a scan
\* is about is scheduled as a lesson.
PathFits(path, task) ==
  /\ path = "discovery" => task \in Message /\ kind[task] = "DISCOVERY_REQUEST"
  /\ task \notin Message => path \in {"lesson", "auto"}

PathsFit ==
  /\ \A a \in Actor : work[a] # Idle => PathFits(work[a].path, work[a].task)
  /\ \A r \in DOMAIN rows : PathFits(rows[r].path, rows[r].task)

\* An offer a discovery flight may be suggested with.
Suits(w, o) ==
  /\ o \in Eligible
  /\ o \in AtNight => o \in w.blind \/ w.task \notin Placed

\* Offers have been through the filters, and one beyond validation was
\* accepted by it.
Filtered(w) ==
  /\ w.stage \in {"offering", "valid", "written"} /\ w.path = "discovery" =>
       \A o \in w.offers : Suits(w, o)
  /\ w.stage \in {"valid", "written"} =>
       /\ w.path # "auto" => w.accepted = w.offer
       /\ w.path = "discovery" => Suits(w, w.offer)

OffersAreFiltered == \A a \in Actor : Filtered(work[a])

\* While a handling of a scan is under way that was checked and not overtaken,
\* all pending lessons are its own.
ChecksHold ==
  \A x \in Scanner : work[x] # Idle /\ Handling(x) \notin unsure =>
    \A r \in PendingLessons : rows[r].by = Handling(x)

\* A message in the queue has a delivery left, and one that a handling may
\* hold was delivered.
DeliveriesLeft == \A m \in Message : queue[m] = "queued" => delivered[m] < MaxDelivery

IInv == /\ TypeOK /\ DeliveriesLeft /\ RowsAreNamed /\ HandlingsInStep /\ PathsFit
        /\ OffersAreFiltered /\ ChecksHold /\ ScanAddsToNothing
        /\ LimitIsKept /\ AuditKeepsUp
-----------------------------------------------------------------------------
(* Types                                                                   *)

LEMMA LimitIsNat == ASSUME NEW p PROVE LimitOf(p) \in Nat \ {0}
  BY UseCasesAssumption DEF UseCasesAssumption, LimitOf

LEMMA RouteIsPath == ASSUME NEW m PROVE Route(m) \in Path \ {"auto"}
  BY DEF Route, Path

\* What a search comes up with is offers.
LEMMA FoundTyped ==
  ASSUME NEW w, NEW path, NEW f \in Found(w, path)
  PROVE  f.offers \in SUBSET Offer /\ f.blind \in SUBSET Offer
  <1>1. ASSUME NEW s \in SUBSET Offer, f = AsTheyAre(s)
        PROVE  f.offers \in SUBSET Offer /\ f.blind \in SUBSET Offer
    BY <1>1 DEF AsTheyAre
  <1>2. ASSUME NEW s \in SUBSET Offer, NEW dark, NEW d, f = InDaylight(s, dark, d)
        PROVE  f.offers \in SUBSET Offer /\ f.blind \in SUBSET Offer
    BY <1>2 DEF InDaylight
  <1>3. CASE f \in CandidatesForOpening(w) \/ f \in EventsOfSolver
    BY <1>1, <1>3 DEF CandidatesForOpening, EventsOfSolver
  <1>4. CASE f \in SlotsForCancellation(w)
    BY <1>1, <1>2, <1>4 DEF SlotsForCancellation
  <1>5. CASE f \in SlotsForDiscovery(w)
    BY <1>1, <1>2, <1>5, UseCasesAssumption DEF UseCasesAssumption, SlotsForDiscovery
  <1>6. CASE f \in SlotsForLesson(w)
    BY <1>1, <1>2, <1>6 DEF SlotsForLesson
  <1> QED BY <1>3, <1>4, <1>5, <1>6 DEF Found

LEMMA TypeInit == Init => TypeOK
  BY UseCasesAssumption DEF UseCasesAssumption, Init, TypeOK, Suggestion

-----------------------------------------------------------------------------
(* What a step does to handlings and rows                                  *)

\* A step of the queue or of a scan between two students.
Rests == UNCHANGED <<work, handled, rows, audited>>

\* A handling ends, of its own or with its process.
Ends(a) ==
  /\ work[a] # Idle /\ work' = [work EXCEPT ![a] = Idle]
  /\ UNCHANGED <<handled, rows, audited>>

\* An actor begins one.
Begins(a) ==
  /\ work[a] = Idle
  /\ \E m \in Message, n \in 1 .. MaxDelivery :
       /\ a \in Consumer /\ work' = [work EXCEPT ![a] = Start(Route(m), m, n)]
  /\ handled' = [handled EXCEPT ![a] = @ + 1]
  /\ UNCHANGED <<rows, audited>>

\* A scan schedules a student.
Schedules(x) ==
  /\ work[x] = Idle
  /\ \E s \in Student : work' = [work EXCEPT ![x] = Start("lesson", s, 0)]
  /\ handled' = [handled EXCEPT ![x] = @ + 1]
  /\ ~SomeLessonPending \/ <<x, handled[x] + 1>> \in unsure'
  /\ UNCHANGED <<rows, audited>>

\* A handling fails to create a row and goes on.
GoesOn(a) ==
  /\ work[a].stage = "valid"
  /\ work' = [work EXCEPT ![a].stage = "offering", ![a].offer = "none",
                          ![a].accepted = "none"]
  /\ UNCHANGED <<handled, rows, audited>>

\* What happens to one actor.
StepOf(a) ==
  \/ Ends(a) \/ Search(a) \/ GoesOn(a) \/ Create(a) \/ Audit(a)
  \/ a \in Consumer /\ Begins(a)
  \/ a \in Scanner /\ Schedules(a)
  \/ \E o \in Offer : (Trying(a, o) /\ Skip(a, o)) \/ Validate(a, o) \/ UseEvent(a, o)

LEMMA StepCases ==
  ASSUME TypeOK, DeliveriesLeft, [Next]_vars
  PROVE  Rests \/ (\E a \in Actor : StepOf(a)) \/ (\E r \in DOMAIN rows : Resolve(r))
  <1> USE DEF StepOf
  <1>1. ASSUME NEW a \in Actor, Handle(a) \/ Crash(a) PROVE StepOf(a)
    <2>1. ASSUME Finish(a), UNCHANGED <<rows, audited>>, work[a].stage # "idle"
          PROVE  Ends(a)
      BY <2>1 DEF Finish, Ends, Idle
    <2>2. CASE ReturnEarly(a) \/ AuditFails(a) \/ End(a)
      BY <2>1, <2>2 DEF ReturnEarly, AuditFails, End
    <2>3. CASE CreateFails(a)
      BY <2>1, <2>3 DEF CreateFails, GoesOn, scanning
    <2>4. CASE Crash(a)
      BY <2>4 DEF Crash, Ends
    <2>5. CASE \E o \in Offer : Unavailable(a, o) \/ Refused(a, o)
      BY <2>5 DEF Unavailable, Refused
    <2> QED BY <1>1, <2>2, <2>3, <2>4, <2>5 DEF Handle
  <1>2. ASSUME NEW c \in Consumer, Receive(c) PROVE StepOf(c)
    <2>1. PICK m \in Message : Take(c, m)
      BY <1>2 DEF Receive
    <2>2. delivered[m] + 1 \in 1 .. MaxDelivery
      BY <2>1, UseCasesAssumption
         DEF UseCasesAssumption, Take, TypeOK, DeliveriesLeft
    <2>3. Begins(c)
      BY <2>1, <2>2 DEF Take, Begins
    <2> QED BY <2>3
  <1>3. ASSUME NEW x \in Scanner, StartScan(x) \/ Scan(x) PROVE Rests \/ StepOf(x)
    <2>1. ASSUME NEW s \in Student, ScheduleStudent(x, s) PROVE Schedules(x)
      BY <2>1 DEF ScheduleStudent, Schedules
    <2>2. CASE StartScan(x)
      BY <2>2 DEF StartScan, Rests
    <2>3. ASSUME NEW s \in Student, SkipStudent(x, s) PROVE Rests
      BY <2>3 DEF SkipStudent, Rests
    <2> QED BY <1>3, <2>1, <2>2, <2>3 DEF Scan
  <1>4. ASSUME NEW m \in Message, LockExpires(m) PROVE Rests
    BY <1>4 DEF LockExpires, Rests
  <1>5. CASE UNCHANGED vars
    BY <1>5 DEF vars, Rests
  <1> QED BY <1>1, <1>2, <1>3, <1>4, <1>5 DEF Next, Actor

-----------------------------------------------------------------------------
(* Types, continued                                                        *)

\* The queue and the scans ...
QueueTyped ==
  /\ kind \in [Message -> Kinds]
  /\ queue \in [Message -> {"queued", "locked", "done", "dead"}]
  /\ delivered \in [Message -> 0 .. MaxDelivery]
  /\ DeliveriesLeft

ScansTyped ==
  /\ left \in [Scanner -> SUBSET Student]
  /\ scans \in [Scanner -> 0 .. MaxScans]
  /\ unsure \subseteq Handlings

\* ... and what the handlers do.
WorkTyped ==
  /\ work \in [Actor -> InHand \cup {Idle}]
  /\ handled \in [Actor -> Nat]
  /\ rows \in Seq(Suggestion)
  /\ audited \subseteq DOMAIN rows

LEMMA TypeParts ==
  (TypeOK /\ DeliveriesLeft <=> QueueTyped /\ ScansTyped /\ WorkTyped)
  /\ (TypeOK' /\ DeliveriesLeft' <=> QueueTyped' /\ ScansTyped' /\ WorkTyped')
  BY DEF TypeOK, QueueTyped, ScansTyped, WorkTyped

\* A message that comes back has a delivery left or is dead.
LEMMA ReturnedTyped ==
  ASSUME QueueTyped, NEW m, queue' = Returned(m), UNCHANGED <<kind, delivered>>
  PROVE  QueueTyped'
  BY UseCasesAssumption DEF UseCasesAssumption, QueueTyped, Returned, DeliveriesLeft

LEMMA QueueNext ==
  ASSUME QueueTyped, [Next]_vars
  PROVE  QueueTyped'
  <1>1. ASSUME NEW a, queue' \in {queue, Settled(a)}, UNCHANGED <<kind, delivered>>
        PROVE  QueueTyped'
    BY <1>1 DEF QueueTyped, Settled, DeliveriesLeft
  <1>2. ASSUME NEW a \in Actor, Handle(a) PROVE QueueTyped'
    <2>1. queue' \in {queue, Settled(a)} /\ UNCHANGED <<kind, delivered>>
      BY <1>2
         DEF Handle, ReturnEarly, Search, Create, CreateFails, Audit, AuditFails, End,
             Unavailable, Refused, Skip, Validate, UseEvent, Finish, jobs
    <2> QED BY <1>1, <2>1
  <1>3. ASSUME NEW a \in Actor, Crash(a) PROVE QueueTyped'
    BY <1>1, <1>3, ReturnedTyped DEF Crash
  <1>4. ASSUME NEW c \in Consumer, Receive(c) PROVE QueueTyped'
    BY <1>4, UseCasesAssumption
       DEF UseCasesAssumption, Receive, Take, QueueTyped, DeliveriesLeft
  <1>5. ASSUME NEW x \in Scanner, StartScan(x) \/ Scan(x) PROVE QueueTyped'
    BY <1>1, <1>5 DEF StartScan, Scan, SkipStudent, ScheduleStudent, jobs
  <1>6. ASSUME NEW m \in Message, LockExpires(m) PROVE QueueTyped'
    BY <1>6, ReturnedTyped DEF LockExpires
  <1>7. ASSUME NEW r \in DOMAIN rows, Resolve(r) PROVE QueueTyped'
    BY <1>1, <1>7 DEF Resolve, jobs
  <1>8. CASE UNCHANGED vars
    BY <1>1, <1>8 DEF vars, jobs
  <1> QED BY <1>2, <1>3, <1>4, <1>5, <1>6, <1>7, <1>8 DEF Next

LEMMA ScansNext ==
  ASSUME ScansTyped, WorkTyped, [Next]_vars
  PROVE  ScansTyped'
  <1> USE UseCasesAssumption DEF UseCasesAssumption, ScansTyped
  <1>0. \A a \in Actor : Overtaken(a) \subseteq Handlings
    BY DEF WorkTyped, Overtaken, Handling, Handlings, Actor
  <1>1. ASSUME NEW a \in Actor, Handle(a)
        PROVE  UNCHANGED <<left, scans>> /\ unsure' \in {unsure, unsure \cup Overtaken(a)}
    BY <1>1
       DEF Handle, ReturnEarly, Search, Create, CreateFails, Audit, AuditFails, End,
           Unavailable, Refused, Skip, Validate, UseEvent, Finish, scanning
  <1>2. ASSUME NEW a \in Actor, Crash(a) PROVE ScansTyped'
    BY <1>2 DEF Crash
  <1>3. ASSUME NEW c \in Consumer, Receive(c) PROVE UNCHANGED <<left, scans, unsure>>
    BY <1>3 DEF Receive, Take, scanning
  <1>4. ASSUME NEW x \in Scanner, StartScan(x) PROVE ScansTyped'
    BY <1>4 DEF StartScan
  <1>5. ASSUME NEW x \in Scanner, Scan(x) PROVE ScansTyped'
    <2>1. <<x, handled[x] + 1>> \in Handlings
      BY DEF WorkTyped, Handlings, Actor
    <2> QED BY <1>5, <2>1 DEF Scan, SkipStudent, ScheduleStudent
  <1>6. CASE \/ \E m \in Message : LockExpires(m)
             \/ \E r \in DOMAIN rows : Resolve(r)
    BY <1>6 DEF LockExpires, Resolve, scanning
  <1>7. CASE UNCHANGED vars
    BY <1>7 DEF vars, scanning
  <1> QED BY <1>0, <1>1, <1>2, <1>3, <1>4, <1>5, <1>6, <1>7 DEF Next

LEMMA BeginsTyped ==
  ASSUME NEW path \in Path, NEW task \in Message \cup Student,
         NEW n \in 0 .. MaxDelivery
  PROVE  Start(path, task, n) \in InHand
  BY DEF Start, InHand

LEMMA WorkNext ==
  ASSUME TypeOK, DeliveriesLeft, HandlingsInStep, [Next]_vars
  PROVE  WorkTyped'
  <1>0. WorkTyped
    BY TypeParts
  <1>1. ASSUME NEW a \in Actor, StepOf(a) PROVE WorkTyped'
    <2>1. ASSUME NEW w \in InHand \cup {Idle}, work' = [work EXCEPT ![a] = w],
                 handled' \in {handled, [handled EXCEPT ![a] = @ + 1]},
                 UNCHANGED <<rows, audited>>
          PROVE  WorkTyped'
      BY <1>0, <2>1 DEF WorkTyped
    <2>2. work[a] # Idle => work[a] \in InHand
      BY <1>0 DEF WorkTyped
    <2>3. CASE Ends(a)
      BY <2>1, <2>3 DEF Ends
    <2>4. CASE a \in Consumer /\ Begins(a)
      <3>1. PICK m \in Message, n \in 1 .. MaxDelivery :
                   work' = [work EXCEPT ![a] = Start(Route(m), m, n)]
        BY <2>4 DEF Begins
      <3>2. Start(Route(m), m, n) \in InHand
        BY BeginsTyped, RouteIsPath
      <3> QED BY <2>1, <2>4, <3>1, <3>2 DEF Begins
    <2>5. CASE a \in Scanner /\ Schedules(a)
      <3>1. PICK s \in Student : work' = [work EXCEPT ![a] = Start("lesson", s, 0)]
        BY <2>5 DEF Schedules
      <3>2. 0 \in 0 .. MaxDelivery /\ "lesson" \in Path
        BY UseCasesAssumption DEF UseCasesAssumption, Path
      <3>3. Start("lesson", s, 0) \in InHand
        BY <3>2, BeginsTyped
      <3> QED BY <2>1, <2>5, <3>1, <3>3 DEF Schedules
    <2>6. CASE Search(a)
      <3>1. PICK path \in Paths(work[a]) : \E f \in Found(work[a], path) :
              work' = [work EXCEPT ![a].stage = "offering", ![a].path = path,
                                   ![a].offers = f.offers, ![a].blind = f.blind]
        BY <2>6 DEF Search
      <3>2. PICK f \in Found(work[a], path) :
              work' = [work EXCEPT ![a].stage = "offering", ![a].path = path,
                                   ![a].offers = f.offers, ![a].blind = f.blind]
        BY <3>1
      <3>3. f.offers \in SUBSET Offer /\ f.blind \in SUBSET Offer
        BY FoundTyped
      <3>4. work[a] \in InHand
        BY <2>2, <2>6 DEF Search, Idle
      <3>5. path \in Path
        BY <3>4 DEF Paths, Path, InHand
      <3>6. [work[a] EXCEPT !.stage = "offering", !.path = path,
                            !.offers = f.offers, !.blind = f.blind] \in InHand
        BY <3>3, <3>4, <3>5 DEF InHand
      <3>7. UNCHANGED <<handled, rows, audited>>
        BY <2>6 DEF Search
      <3> QED BY <2>1, <3>2, <3>6, <3>7
    <2>7. CASE GoesOn(a)
      <3>0. work[a] \in InHand
        BY <2>2, <2>7 DEF GoesOn, Idle
      <3>1. [work[a] EXCEPT !.stage = "offering", !.offer = "none",
                            !.accepted = "none"] \in InHand
        BY <3>0 DEF InHand
      <3> QED BY <2>1, <2>7, <3>1 DEF GoesOn
    <2>8. ASSUME NEW o \in Offer, (Trying(a, o) /\ Skip(a, o)) \/ Validate(a, o) \/ UseEvent(a, o)
          PROVE  WorkTyped'
      <3>1. work[a] \in InHand
        BY <2>2, <2>8 DEF Trying, Validate, UseEvent, Idle
      <3>2. CASE Skip(a, o)
        <4>1. [work[a] EXCEPT !.offers = @ \ {o}] \in InHand
          BY <3>1 DEF InHand
        <4> QED BY <2>1, <3>2, <4>1 DEF Skip
      <3>3. CASE Validate(a, o)
        <4>1. [work[a] EXCEPT !.stage = "valid", !.offer = o, !.accepted = o,
                              !.offers = @ \ {o}] \in InHand
          BY <3>1 DEF InHand
        <4> QED BY <2>1, <3>3, <4>1 DEF Validate
      <3>4. CASE UseEvent(a, o)
        <4>1. [work[a] EXCEPT !.stage = "valid", !.offer = o, !.offers = @ \ {o}] \in InHand
          BY <3>1 DEF InHand
        <4> QED BY <2>1, <3>4, <4>1 DEF UseEvent
      <3> QED BY <2>8, <3>2, <3>3, <3>4
    <2>9. CASE Create(a)
      <3>1. work[a] \in InHand
        BY <2>2, <2>9 DEF Create, Idle
      <3>2. Row(a) \in Suggestion
        BY <1>0, <3>1 DEF Row, Suggestion, Handlings, Handling, InHand, WorkTyped
      <3>3. rows' \in Seq(Suggestion) /\ DOMAIN rows \subseteq DOMAIN rows'
        BY <1>0, <2>9, <3>2 DEF Create, WorkTyped
      <3>4. Len(rows) + 1 \in Nat
        BY <1>0 DEF WorkTyped
      <3>5. [work[a] EXCEPT !.stage = "written", !.row = Len(rows) + 1] \in InHand
        BY <3>1, <3>4 DEF InHand
      <3> QED BY <1>0, <2>9, <3>3, <3>5 DEF Create, WorkTyped
    <2>10. CASE Audit(a)
      <3>1. work[a] \in InHand
        BY <2>2, <2>10 DEF Audit, Idle
      <3>2. work[a].created + 1 \in Nat
        BY <3>1 DEF InHand
      <3>3. [work[a] EXCEPT !.stage = "offering", !.offer = "none",
                            !.accepted = "none", !.created = @ + 1] \in InHand
        BY <3>1, <3>2 DEF InHand
      <3>4. Mine(a) \ audited = {work[a].row}
        BY <2>10 DEF Audit, HandlingsInStep, InStep, Idle
      <3>5. work[a].row \in DOMAIN rows
        BY <3>4 DEF Mine, RowsOf
      <3> QED BY <1>0, <2>10, <3>3, <3>5 DEF Audit, WorkTyped
    <2> QED BY <1>1, <2>3, <2>4, <2>5, <2>6, <2>7, <2>8, <2>9, <2>10 DEF StepOf
  <1>2. ASSUME NEW r \in DOMAIN rows, Resolve(r) PROVE WorkTyped'
    <2>0. rows[r] \in Suggestion
      BY <1>0 DEF WorkTyped
    <2>1. [rows[r] EXCEPT !.status = "RESOLVED"] \in Suggestion
      BY <2>0 DEF Suggestion
    <2>2. rows' \in Seq(Suggestion) /\ DOMAIN rows' = DOMAIN rows
      BY <1>0, <1>2, <2>1 DEF Resolve, WorkTyped
    <2> QED BY <1>0, <1>2, <2>2 DEF Resolve, WorkTyped
  <1>3. CASE Rests
    BY <1>0, <1>3 DEF Rests, WorkTyped
  <1> QED BY <1>1, <1>2, <1>3, StepCases

-----------------------------------------------------------------------------
(* Rows and the handlings they are named after                             *)

LEMMA RowsAreFinite == ASSUME TypeOK, NEW h PROVE IsFiniteSet(RowsOf(h))
  <1>1. IsFiniteSet(1 .. Len(rows))
    BY FS_Interval DEF TypeOK
  <1>2. RowsOf(h) \subseteq 1 .. Len(rows)
    BY DEF TypeOK, RowsOf
  <1> QED BY <1>1, <1>2, FS_Subset

\* A new row is the last, and adds to the rows of its handling alone.
LEMMA CreateAdds ==
  ASSUME TypeOK, NEW a \in Actor, Create(a)
  PROVE  LET n == Len(rows) + 1 IN
         /\ DOMAIN rows' = DOMAIN rows \cup {n} /\ n \notin DOMAIN rows
         /\ \A r \in DOMAIN rows : rows'[r] = rows[r]
         /\ rows'[n] = Row(a)
         /\ \A h : RowsOf(h)' = IF h = Handling(a) THEN RowsOf(h) \cup {n} ELSE RowsOf(h)
         /\ \A b : Handling(b)' = Handling(b)
  <1> DEFINE n == Len(rows) + 1
  <1>1. DOMAIN rows' = DOMAIN rows \cup {n} /\ n \notin DOMAIN rows
    BY DEF TypeOK, Create
  <1>2. rows'[n] = Row(a) /\ \A r \in DOMAIN rows : rows'[r] = rows[r]
    BY DEF TypeOK, Create
  <1>3. Row(a).by = Handling(a)
    BY DEF Row
  <1>4. ASSUME NEW h
        PROVE  RowsOf(h)' = IF h = Handling(a) THEN RowsOf(h) \cup {n} ELSE RowsOf(h)
    BY <1>1, <1>2, <1>3 DEF RowsOf
  <1>5. ASSUME NEW b PROVE Handling(b)' = Handling(b)
    BY DEF Create, Handling
  <1> QED BY <1>1, <1>2, <1>4, <1>5

\* A row that is resolved keeps its name, path and task.
LEMMA ResolveKeeps ==
  ASSUME TypeOK, NEW s \in DOMAIN rows, Resolve(s)
  PROVE  /\ DOMAIN rows' = DOMAIN rows
         /\ \A r \in DOMAIN rows :
              /\ rows'[r].by = rows[r].by
              /\ rows'[r].path = rows[r].path /\ rows'[r].task = rows[r].task
              /\ rows'[r].status \in {rows[r].status, "RESOLVED"}
         /\ \A h : RowsOf(h)' = RowsOf(h)
  <1>1. rows \in Seq(Suggestion)
    BY DEF TypeOK
  <1>2. rows' = [rows EXCEPT ![s].status = "RESOLVED"]
    BY DEF Resolve
  <1>3. DOMAIN rows' = DOMAIN rows
    BY <1>2
  <1>4. ASSUME NEW r \in DOMAIN rows
        PROVE  /\ rows'[r].by = rows[r].by
               /\ rows'[r].path = rows[r].path /\ rows'[r].task = rows[r].task
               /\ rows'[r].status \in {rows[r].status, "RESOLVED"}
    <2>1. rows[r] \in Suggestion
      BY <1>1
    <2> QED BY <1>2, <2>1 DEF Suggestion
  <1>5. ASSUME NEW h PROVE RowsOf(h)' = RowsOf(h)
    BY <1>3, <1>4 DEF RowsOf
  <1> QED BY <1>3, <1>4, <1>5

\* A handling that begins has no rows yet.
LEMMA FreshHandling ==
  ASSUME TypeOK, RowsAreNamed, NEW a \in Actor,
         handled' = [handled EXCEPT ![a] = @ + 1], rows' = rows
  PROVE  /\ Mine(a)' = {}
         /\ \A b \in Actor \ {a} : Mine(b)' = Mine(b)
  <1>1. Handling(a)' = <<a, handled[a] + 1>>
    BY DEF Handling, TypeOK
  <1>2. ASSUME NEW r \in DOMAIN rows, rows[r].by = <<a, handled[a] + 1>> PROVE FALSE
    <2>1. rows[r].by[1] = a /\ rows[r].by[2] = handled[a] + 1
      BY <1>2
    <2> QED BY <2>1 DEF RowsAreNamed, TypeOK
  <1>3. Mine(a)' = {}
    BY <1>1, <1>2 DEF Mine, RowsOf
  <1>4. ASSUME NEW b \in Actor \ {a} PROVE Mine(b)' = Mine(b)
    BY DEF Mine, RowsOf, Handling, TypeOK
  <1> QED BY <1>3, <1>4

LEMMA NamedNext ==
  ASSUME IInv, [Next]_vars
  PROVE  RowsAreNamed'
  <1> USE DEF IInv
  <1>1. ASSUME NEW r \in DOMAIN rows PROVE /\ rows[r].by[1] \in Actor
                                           /\ rows[r].by[2] \in Nat
    <2>1. rows[r] \in Suggestion
      BY DEF TypeOK
    <2> QED BY <2>1 DEF Suggestion, Handlings
  <1>2. ASSUME DOMAIN rows' = DOMAIN rows, \A r \in DOMAIN rows : rows'[r].by = rows[r].by,
               \A a \in Actor : handled'[a] \in {handled[a], handled[a] + 1}
        PROVE  RowsAreNamed'
    <2>1. ASSUME NEW r \in DOMAIN rows PROVE rows[r].by[2] \in 1 .. handled'[rows[r].by[1]]
      <3>1. rows[r].by[2] \in 1 .. handled[rows[r].by[1]]
        BY DEF RowsAreNamed
      <3>2. handled[rows[r].by[1]] \in Nat
        BY <1>1 DEF TypeOK
      <3>3. handled'[rows[r].by[1]] \in {handled[rows[r].by[1]], handled[rows[r].by[1]] + 1}
        BY <1>1, <1>2
      <3> QED BY <3>1, <3>2, <3>3
    <2> QED BY <1>2, <2>1 DEF RowsAreNamed
  <1>3. ASSUME NEW a \in Actor, StepOf(a) PROVE RowsAreNamed'
    <2>1. CASE Create(a)
      <3>1. Row(a).by[1] = a /\ Row(a).by[2] = handled[a]
        BY DEF Row, Handling
      <3>2. work[a] # Idle
        BY <2>1 DEF Create, Idle
      <3>3. handled[a] \in 1 .. handled[a]
        BY <3>2 DEF HandlingsInStep, InStep, TypeOK
      <3>4. handled' = handled
        BY <2>1 DEF Create
      <3> QED BY <2>1, <3>1, <3>3, <3>4, CreateAdds DEF RowsAreNamed
    <2>2. CASE Ends(a) \/ Search(a) \/ GoesOn(a) \/ Audit(a)
      BY <1>2, <2>2 DEF Ends, Search, GoesOn, Audit
    <2>3. CASE \E o \in Offer : (Trying(a, o) /\ Skip(a, o)) \/ Validate(a, o) \/ UseEvent(a, o)
      BY <1>2, <2>3 DEF Skip, Validate, UseEvent
    <2>4. CASE Begins(a) \/ Schedules(a)
      BY <1>2, <2>4 DEF Begins, Schedules, TypeOK
    <2> QED BY <1>3, <2>1, <2>2, <2>3, <2>4 DEF StepOf
  <1>4. ASSUME NEW r \in DOMAIN rows, Resolve(r) PROVE RowsAreNamed'
    BY <1>2, <1>4, ResolveKeeps DEF Resolve
  <1>5. CASE Rests
    BY <1>2, <1>5 DEF Rests
  <1> QED BY <1>3, <1>4, <1>5, StepCases

-----------------------------------------------------------------------------
(* Handlings stay in step with their rows                                  *)

\* What leaves an actor's handling and rows alone keeps it in step.
LEMMA UntouchedInStep ==
  ASSUME NEW b, InStep(b), work'[b] = work[b], handled'[b] = handled[b], Mine(b)' = Mine(b),
         \A r \in Mine(b) : rows'[r].path = rows[r].path,
         Mine(b) \ audited' = Mine(b) \ audited
  PROVE  InStep(b)'
  <1>1. Mine(b) \subseteq audited => Mine(b) \subseteq audited'
    OBVIOUS
  <1> QED BY <1>1 DEF InStep

LEMMA BeginningInStep ==
  ASSUME TypeOK, RowsAreNamed, HandlingsInStep, NEW a \in Actor,
         NEW path, NEW task, NEW n,
         work' = [work EXCEPT ![a] = Start(path, task, n)],
         handled' = [handled EXCEPT ![a] = @ + 1], UNCHANGED <<rows, audited>>
  PROVE  HandlingsInStep'
  <1>1. Mine(a)' = {} /\ \A b \in Actor \ {a} : Mine(b)' = Mine(b)
    BY FreshHandling
  <1>2. work'[a] = Start(path, task, n) /\ handled'[a] > 0
    BY DEF TypeOK
  <1>3. work'[a].stage = "started" /\ work'[a].created = 0
    BY <1>2 DEF Start
  <1>4. InStep(a)'
    BY <1>1, <1>2, <1>3 DEF InStep
  <1>5. ASSUME NEW b \in Actor \ {a} PROVE InStep(b)'
    <2>1. work'[b] = work[b] /\ handled'[b] = handled[b]
      BY DEF TypeOK
    <2> QED BY <1>1, <2>1, UntouchedInStep DEF HandlingsInStep
  <1> QED BY <1>4, <1>5 DEF HandlingsInStep

\* A step of one handling that writes neither rows nor audit entries.
LEMMA OneStepInStep ==
  ASSUME TypeOK, HandlingsInStep, NEW a \in Actor, NEW w,
         work' = [work EXCEPT ![a] = w], UNCHANGED <<handled, rows, audited>>,
         InStep(a)'
  PROVE  HandlingsInStep'
  <1>1. ASSUME NEW b \in Actor \ {a} PROVE InStep(b)'
    <2>1. work'[b] = work[b] /\ handled'[b] = handled[b]
      BY DEF TypeOK
    <2>2. Mine(b)' = Mine(b)
      BY DEF Mine, RowsOf, Handling
    <2> QED BY <2>1, <2>2, UntouchedInStep DEF HandlingsInStep
  <1> QED BY <1>1 DEF HandlingsInStep

LEMMA CreateInStep ==
  ASSUME TypeOK, HandlingsInStep, NEW a \in Actor, Create(a)
  PROVE  HandlingsInStep'
  <1> DEFINE n == Len(rows) + 1
  <1>1. /\ DOMAIN rows' = DOMAIN rows \cup {n} /\ n \notin DOMAIN rows
        /\ \A r \in DOMAIN rows : rows'[r] = rows[r]
        /\ rows'[n] = Row(a)
    BY CreateAdds
  <1>2. Mine(a)' = Mine(a) \cup {n} /\ \A b \in Actor \ {a} : Mine(b)' = Mine(b)
    <2>1. /\ \A h : RowsOf(h)' = IF h = Handling(a) THEN RowsOf(h) \cup {n} ELSE RowsOf(h)
          /\ \A b : Handling(b)' = Handling(b)
      BY CreateAdds
    <2>2. ASSUME NEW b
          PROVE  Mine(b)' = IF Handling(b) = Handling(a) THEN Mine(b) \cup {n} ELSE Mine(b)
      BY <2>1 DEF Mine
    <2>3. ASSUME NEW b \in Actor \ {a} PROVE Handling(b) # Handling(a)
      BY DEF Handling
    <2> QED BY <2>2, <2>3
  <1>3. InStep(a)'
    <2>1. work[a] # Idle /\ work[a] \in InHand
      BY DEF Create, Idle, TypeOK
    <2>2. /\ handled[a] > 0 /\ \A r \in Mine(a) : rows[r].path = work[a].path
          /\ Cardinality(Mine(a)) = work[a].created /\ Mine(a) \subseteq audited
          /\ work[a].created < LimitOf(work[a].path)
      BY <2>1 DEF HandlingsInStep, InStep, Create
    <2>3. work' = [work EXCEPT ![a] = [work[a] EXCEPT !.stage = "written", !.row = n]]
      BY DEF Create
    <2>4. /\ work'[a].stage = "written" /\ work'[a].row = n
          /\ work'[a].path = work[a].path /\ work'[a].created = work[a].created
      BY <2>1, <2>3 DEF TypeOK, InHand
    <2>5. Mine(a) \subseteq DOMAIN rows /\ audited \subseteq DOMAIN rows
      BY DEF Mine, RowsOf, TypeOK
    <2>6. Cardinality(Mine(a)') = work[a].created + 1
      <3>1. IsFiniteSet(Mine(a)) /\ n \notin Mine(a)
        BY <1>1, <2>5, RowsAreFinite DEF Mine
      <3>2. Cardinality(Mine(a) \cup {n}) = Cardinality(Mine(a)) + 1
        BY ONLY <3>1, FS_AddElement
      <3> QED BY <1>2, <2>2, <3>2
    <2>7. Mine(a)' \ audited' = {n}
      BY <1>1, <1>2, <2>2, <2>5 DEF Create
    <2>8. \A r \in Mine(a)' : rows'[r].path = work[a].path
      BY <1>1, <1>2, <2>2, <2>5 DEF Row
    <2> QED BY <2>2, <2>4, <2>6, <2>7, <2>8 DEF InStep, Create
  <1>4. ASSUME NEW b \in Actor \ {a} PROVE InStep(b)'
    <2>1. work'[b] = work[b] /\ handled'[b] = handled[b]
      BY DEF Create, TypeOK
    <2>2. \A r \in Mine(b) : rows'[r].path = rows[r].path
      BY <1>1 DEF Mine, RowsOf
    <2>3. Mine(b) \ audited' = Mine(b) \ audited
      BY DEF Create
    <2> QED BY <1>2, <2>1, <2>2, <2>3, UntouchedInStep DEF HandlingsInStep
  <1> QED BY <1>3, <1>4 DEF HandlingsInStep

LEMMA AuditInStep ==
  ASSUME TypeOK, HandlingsInStep, NEW a \in Actor, Audit(a)
  PROVE  HandlingsInStep'
  <1>0. \A b : Mine(b)' = Mine(b)
    BY DEF Mine, RowsOf, Handling, Audit
  <1>1. work[a] # Idle /\ work[a] \in InHand
    BY DEF Audit, Idle, TypeOK
  <1>2. /\ handled[a] > 0 /\ \A r \in Mine(a) : rows[r].path = work[a].path
        /\ Cardinality(Mine(a)) = work[a].created + 1
        /\ Mine(a) \ audited = {work[a].row}
    BY <1>1 DEF HandlingsInStep, InStep, Audit
  <1>3. InStep(a)'
    <2>1. work' = [work EXCEPT ![a] = [work[a] EXCEPT !.stage = "offering", !.offer = "none",
                                             !.accepted = "none", !.created = @ + 1]]
      BY DEF Audit
    <2>2. /\ work'[a].stage = "offering" /\ work'[a].path = work[a].path
          /\ work'[a].created = work[a].created + 1
      BY <1>1, <2>1 DEF TypeOK, InHand
    <2>3. Mine(a) \subseteq audited'
      BY <1>2 DEF Audit
    <2> QED BY <1>0, <1>2, <2>2, <2>3 DEF InStep, Audit
  <1>4. ASSUME NEW b \in Actor \ {a} PROVE InStep(b)'
    <2>1. work'[b] = work[b] /\ handled'[b] = handled[b]
      BY DEF Audit, TypeOK
    <2>2. work[a].row \notin Mine(b)
      BY <1>2 DEF Mine, RowsOf, Handling
    <2>3. Mine(b) \ audited' = Mine(b) \ audited
      BY <2>2 DEF Audit
    <2> QED BY <1>0, <2>1, <2>3, UntouchedInStep DEF HandlingsInStep, Audit
  <1> QED BY <1>3, <1>4 DEF HandlingsInStep

LEMMA InStepNext ==
  ASSUME IInv, [Next]_vars
  PROVE  HandlingsInStep'
  <1> USE DEF IInv
  <1>1. ASSUME NEW a \in Actor, StepOf(a) PROVE HandlingsInStep'
    <2>1. CASE Create(a)
      BY <2>1, CreateInStep
    <2>2. CASE Audit(a)
      BY <2>2, AuditInStep
    <2>3. CASE Begins(a)
      BY <2>3, BeginningInStep DEF Begins
    <2>4. CASE Schedules(a)
      BY <2>4, BeginningInStep DEF Schedules
    <2>5. ASSUME UNCHANGED <<handled, rows, audited>> PROVE Mine(a)' = Mine(a)
      BY <2>5 DEF Mine, RowsOf, Handling
    <2>6. CASE Ends(a)
      <3>1. work'[a] = Idle
        BY <2>6 DEF Ends, TypeOK
      <3> QED BY <2>6, <3>1, OneStepInStep DEF Ends, InStep
    <2>7. ASSUME work[a].stage # "idle" PROVE work[a] # Idle /\ work[a] \in InHand /\ InStep(a)
      BY <2>7 DEF Idle, TypeOK, HandlingsInStep
    <2>8. CASE Search(a)
      <3>1. PICK path \in Paths(work[a]) : \E f \in Found(work[a], path) :
              work' = [work EXCEPT ![a].stage = "offering", ![a].path = path,
                                   ![a].offers = f.offers, ![a].blind = f.blind]
        BY <2>8 DEF Search
      <3>2. PICK f \in Found(work[a], path) :
              work' = [work EXCEPT ![a].stage = "offering", ![a].path = path,
                                   ![a].offers = f.offers, ![a].blind = f.blind]
        BY <3>1
      <3>3. work' = [work EXCEPT ![a] = [work[a] EXCEPT !.stage = "offering", !.path = path,
                                   !.offers = f.offers, !.blind = f.blind]]
        BY <3>2
      <3>4. work'[a].stage = "offering" /\ work'[a].created = work[a].created
        BY <2>7, <2>8, <3>3 DEF Search, InHand, TypeOK
      <3>5. handled[a] > 0 /\ Mine(a) = {} /\ work[a].created = 0
        BY <2>7, <2>8 DEF Search, InStep
      <3>6. InStep(a)'
        BY <2>5, <2>8, <3>4, <3>5, FS_EmptySet DEF InStep, Search
      <3> QED BY <2>8, <3>3, <3>6, OneStepInStep DEF Search
    <2>9. CASE GoesOn(a)
      <3>1. work' = [work EXCEPT ![a] = [work[a] EXCEPT !.stage = "offering", !.offer = "none",
                                                        !.accepted = "none"]]
        BY <2>9 DEF GoesOn
      <3>2. /\ work'[a].stage = "offering" /\ work'[a].created = work[a].created
            /\ work'[a].path = work[a].path
        BY <2>7, <2>9, <3>1 DEF GoesOn, InHand, TypeOK
      <3>3. InStep(a)'
        BY <2>5, <2>7, <2>9, <3>2 DEF InStep, GoesOn
      <3> QED BY <2>9, <3>1, <3>3, OneStepInStep DEF GoesOn
    <2>10. ASSUME NEW o \in Offer, Trying(a, o) /\ Skip(a, o) PROVE HandlingsInStep'
      <3>1. work' = [work EXCEPT ![a] = [work[a] EXCEPT !.offers = @ \ {o}]]
        BY <2>10 DEF Skip
      <3>2. /\ work'[a].stage = "offering" /\ work'[a].created = work[a].created
            /\ work'[a].path = work[a].path
        BY <2>7, <2>10, <3>1 DEF Trying, InHand, TypeOK
      <3>3. InStep(a)'
        BY <2>5, <2>7, <2>10, <3>2 DEF InStep, Skip, Trying
      <3> QED BY <2>10, <3>1, <3>3, OneStepInStep DEF Skip
    <2>11. ASSUME NEW o \in Offer, Validate(a, o) \/ UseEvent(a, o) PROVE HandlingsInStep'
      <3>0. work[a].stage = "offering" /\ ~LimitReached(work[a])
        BY <2>11 DEF Validate, UseEvent, Trying
      <3>1. PICK v : work' = [work EXCEPT ![a] = [work[a] EXCEPT !.stage = "valid", !.offer = o,
                                            !.accepted = v, !.offers = @ \ {o}]]
        <4>1. CASE Validate(a, o)
          BY <4>1 DEF Validate
        <4>2. CASE UseEvent(a, o)
          <5>1. [work[a] EXCEPT !.stage = "valid", !.offer = o, !.offers = @ \ {o}] =
                  [work[a] EXCEPT !.stage = "valid", !.offer = o,
                                  !.accepted = work[a].accepted, !.offers = @ \ {o}]
            BY <2>7, <3>0 DEF InHand
          <5>2. work' = [work EXCEPT ![a] = [work[a] EXCEPT !.stage = "valid", !.offer = o,
                                                           !.offers = @ \ {o}]]
            BY <4>2 DEF UseEvent
          <5> QED BY <5>1, <5>2
        <4> QED BY <2>11, <4>1, <4>2
      <3>2. /\ work'[a].stage = "valid" /\ work'[a].created = work[a].created
            /\ work'[a].path = work[a].path
        BY <2>7, <3>0, <3>1 DEF InHand, TypeOK
      <3>3. work[a].created < LimitOf(work[a].path)
        BY <2>7, <3>0, LimitIsNat DEF LimitReached, InHand
      <3>4. UNCHANGED <<handled, rows, audited>>
        BY <2>11 DEF Validate, UseEvent
      <3>5. InStep(a)'
        BY <2>5, <2>7, <3>0, <3>2, <3>3, <3>4 DEF InStep
      <3> QED BY <3>1, <3>4, <3>5, OneStepInStep
    <2> QED BY <1>1, <2>1, <2>2, <2>3, <2>4, <2>6, <2>8, <2>9, <2>10, <2>11 DEF StepOf
  <1>2. ASSUME NEW s \in DOMAIN rows, Resolve(s) PROVE HandlingsInStep'
    <2>1. ASSUME NEW b \in Actor PROVE InStep(b)'
      <3>1. Mine(b)' = Mine(b)
        BY <1>2, ResolveKeeps DEF Mine, Handling, Resolve
      <3>2. \A r \in Mine(b) : rows'[r].path = rows[r].path
        BY <1>2, ResolveKeeps DEF Mine, RowsOf
      <3> QED BY <1>2, <3>1, <3>2, UntouchedInStep DEF Resolve, HandlingsInStep
    <2> QED BY <2>1 DEF HandlingsInStep
  <1>3. CASE Rests
    BY <1>3, ZenonT(60) DEF Rests, HandlingsInStep, InStep, Mine, RowsOf, Handling
  <1> QED BY <1>1, <1>2, <1>3, StepCases

-----------------------------------------------------------------------------
(* Paths, tasks and what the scan has seen                                 *)

\* A handling keeps its task; only a search may change its path.
LEMMA TaskKept ==
  ASSUME TypeOK, NEW a \in Actor, StepOf(a)
  PROVE  /\ \A b \in Actor \ {a} : work'[b] = work[b]
         /\ \/ work'[a] = Idle
            \/ a \in Consumer /\ Begins(a)
            \/ a \in Scanner /\ Schedules(a)
            \/ /\ work[a] # Idle
               /\ work'[a].task = work[a].task
               /\ work'[a].path \in Paths(work[a])
  <1> DEFINE Same == /\ work'[a].task = work[a].task
                     /\ work'[a].path \in Paths(work[a])
  <1>1. \A b \in Actor \ {a} : work'[b] = work[b]
    BY DEF StepOf, Ends, Search, GoesOn, Create, Audit, Begins, Schedules, Skip, Validate,
           UseEvent, TypeOK
  <1>2. CASE Ends(a)
    <2>1. work'[a] = Idle
      BY <1>2 DEF Ends, TypeOK
    <2> QED BY <1>1, <2>1
  <1>3. ASSUME work[a].stage # "idle"
        PROVE  /\ work[a] # Idle /\ work[a] \in InHand
               /\ work[a].path \in Paths(work[a])
    BY <1>3 DEF Idle, TypeOK, Paths
  <1>4. ASSUME work[a].stage # "idle", NEW w, work' = [work EXCEPT ![a] = w],
               w.task = work[a].task, w.path \in Paths(work[a])
        PROVE  Same
    BY <1>4 DEF TypeOK
  <1>5. CASE Search(a)
    <2>1. PICK path \in Paths(work[a]) : \E f \in Found(work[a], path) :
            work' = [work EXCEPT ![a].stage = "offering", ![a].path = path,
                                 ![a].offers = f.offers, ![a].blind = f.blind]
      BY <1>5 DEF Search
    <2>2. PICK f \in Found(work[a], path) :
            work' = [work EXCEPT ![a].stage = "offering", ![a].path = path,
                                 ![a].offers = f.offers, ![a].blind = f.blind]
      BY <2>1
    <2> DEFINE w == [work[a] EXCEPT !.stage = "offering", !.path = path,
                                    !.offers = f.offers, !.blind = f.blind]
    <2>3. work' = [work EXCEPT ![a] = w]
      BY <2>2
    <2>4. work[a].stage = "started"
      BY <1>5 DEF Search
    <2>5. w.task = work[a].task /\ w.path = path
      BY <1>3, <2>4 DEF InHand
    <2> HIDE DEF w
    <2>6. Same
      BY <1>4, <2>3, <2>4, <2>5
    <2> QED BY <1>1, <1>3, <2>4, <2>6
  <1>6. CASE \/ GoesOn(a) \/ Create(a) \/ Audit(a)
             \/ \E o \in Offer : (Trying(a, o) /\ Skip(a, o)) \/ Validate(a, o) \/ UseEvent(a, o)
    <2>1. work[a].stage # "idle"
      BY <1>6 DEF GoesOn, Create, Audit, Trying, Validate, UseEvent
    <2>2. work[a] \in InHand /\ work[a].path \in Paths(work[a])
      BY <1>3, <2>1
    <2>3. ASSUME GoesOn(a) PROVE Same
      BY <2>2, <2>3 DEF GoesOn, InHand, TypeOK
    <2>4. ASSUME Create(a) PROVE Same
      BY <2>2, <2>4 DEF Create, InHand, TypeOK
    <2>5. ASSUME Audit(a) PROVE Same
      BY <2>2, <2>5 DEF Audit, InHand, TypeOK
    <2>6. ASSUME NEW o \in Offer, Skip(a, o) PROVE Same
      BY <2>2, <2>6 DEF Skip, InHand, TypeOK
    <2>7. ASSUME NEW o \in Offer, Validate(a, o) PROVE Same
      BY <2>2, <2>7 DEF Validate, InHand, TypeOK
    <2>8. ASSUME NEW o \in Offer, UseEvent(a, o) PROVE Same
      BY <2>2, <2>8 DEF UseEvent, InHand, TypeOK
    <2> QED BY <1>1, <1>3, <1>6, <2>1, <2>3, <2>4, <2>5, <2>6, <2>7, <2>8
  <1> QED BY <1>1, <1>2, <1>5, <1>6 DEF StepOf

\* A row keeps its name, path and task, and what is resolved stays so; one
\* that is new comes from a handling.
LEMMA RowsKept ==
  ASSUME TypeOK, DeliveriesLeft, [Next]_vars
  PROVE  /\ \A r \in DOMAIN rows :
              /\ r \in DOMAIN rows'
              /\ rows'[r].by = rows[r].by
              /\ rows'[r].path = rows[r].path /\ rows'[r].task = rows[r].task
              /\ rows'[r].status \in {rows[r].status, "RESOLVED"}
         /\ \/ DOMAIN rows' = DOMAIN rows
            \/ \E a \in Actor : /\ Create(a) /\ DOMAIN rows' = DOMAIN rows \cup {Len(rows) + 1}
                                /\ rows'[Len(rows) + 1] = Row(a)
  <1>1. CASE \E a \in Actor : Create(a)
    BY <1>1, CreateAdds
  <1>2. CASE \E r \in DOMAIN rows : Resolve(r)
    BY <1>2, ResolveKeeps
  <1>3. CASE rows' = rows
    BY <1>3
  <1>4. ASSUME NEW a \in Actor, StepOf(a) PROVE Create(a) \/ rows' = rows
    BY <1>4 DEF StepOf, Ends, Search, GoesOn, Audit, Begins, Schedules, Skip, Validate, UseEvent
  <1> QED BY <1>1, <1>2, <1>3, <1>4, StepCases DEF Rests

LEMMA KindKept == ASSUME [Next]_vars PROVE kind' = kind
  <1>1. ASSUME NEW a \in Actor, Handle(a) PROVE kind' = kind
    BY <1>1
       DEF Handle, ReturnEarly, Search, Create, CreateFails, Audit, AuditFails, End,
           Unavailable, Refused, Skip, Validate, UseEvent, Finish, jobs
  <1>2. ASSUME NEW a \in Actor, Crash(a) PROVE kind' = kind
    BY <1>2 DEF Crash
  <1>3. ASSUME NEW c \in Consumer, Receive(c) PROVE kind' = kind
    BY <1>3 DEF Receive, Take
  <1>4. ASSUME NEW x \in Scanner, StartScan(x) \/ Scan(x) PROVE kind' = kind
    BY <1>4 DEF StartScan, Scan, SkipStudent, ScheduleStudent, jobs
  <1>5. CASE \/ \E m \in Message : LockExpires(m)
             \/ \E r \in DOMAIN rows : Resolve(r)
             \/ UNCHANGED vars
    BY <1>5 DEF LockExpires, Resolve, vars, jobs
  <1> QED BY <1>1, <1>2, <1>3, <1>4, <1>5 DEF Next

LEMMA RowsTyped ==
  ASSUME TypeOK, NEW r \in DOMAIN rows PROVE rows[r] \in Suggestion
  BY DEF TypeOK

LEMMA PathsNext ==
  ASSUME IInv, [Next]_vars
  PROVE  PathsFit'
  <1> USE DEF IInv
  <1>0. kind' = kind
    BY KindKept
  <1>1. ASSUME NEW a \in Actor, StepOf(a), NEW b \in Actor, work'[b] # Idle
        PROVE  PathFits(work[b].path, work[b].task)'
    <2>1. CASE b # a
      BY <1>0, <1>1, <2>1, TaskKept DEF PathsFit, PathFits
    <2>2. CASE b = a /\ a \in Consumer /\ Begins(a)
      <3>1. PICK m \in Message, n \in 1 .. MaxDelivery :
                   work' = [work EXCEPT ![a] = Start(Route(m), m, n)]
        BY <2>2 DEF Begins
      <3>2. work'[a].path = Route(m) /\ work'[a].task = m
        BY <3>1 DEF TypeOK, Start
      <3>3. PathFits(Route(m), m)
        BY DEF PathFits, Route
      <3> QED BY <1>0, <2>2, <3>2, <3>3 DEF PathFits
    <2>3. CASE b = a /\ a \in Scanner /\ Schedules(a)
      <3>1. PICK s : work' = [work EXCEPT ![a] = Start("lesson", s, 0)]
        BY <2>3 DEF Schedules
      <3>2. work'[a].path = "lesson"
        BY <3>1 DEF TypeOK, Start
      <3> QED BY <2>3, <3>2 DEF PathFits
    <2>4. CASE /\ b = a /\ work[a] # Idle /\ work'[a].task = work[a].task
               /\ work'[a].path \in Paths(work[a])
      <3>1. PathFits(work[a].path, work[a].task)
        BY <2>4 DEF PathsFit
      <3>2. work'[a].path \in {work[a].path} \cup IF work[a].path = "lesson" THEN {"auto"} ELSE {}
        BY <2>4 DEF Paths
      <3> QED BY <1>0, <2>4, <3>1, <3>2 DEF PathFits
    <2> QED BY <1>1, <2>1, <2>2, <2>3, <2>4, TaskKept
  <1>2. ASSUME NEW r \in DOMAIN rows' PROVE PathFits(rows[r].path, rows[r].task)'
    <2>1. CASE r \in DOMAIN rows
      BY <1>0, <2>1, RowsKept DEF PathsFit, PathFits
    <2>2. CASE r \notin DOMAIN rows
      <3>1. PICK a \in Actor : Create(a) /\ rows'[r] = Row(a)
        BY <1>2, <2>2, RowsKept
      <3>2. PathFits(work[a].path, work[a].task)
        BY <3>1 DEF PathsFit, Create, Idle
      <3> QED BY <1>0, <3>1, <3>2 DEF Row, PathFits
    <2> QED BY <2>1, <2>2
  <1>3. CASE work' = work
    BY <1>0, <1>2, <1>3 DEF PathsFit, PathFits
  <1> QED BY <1>1, <1>2, <1>3, StepCases DEF PathsFit, Rests, Resolve

-----------------------------------------------------------------------------
(* Offers and their filters                                                *)

\* What is found for a discovery request has passed the filters.
LEMMA DiscoveryIsFiltered ==
  ASSUME NEW w, w.task \in Message, kind[w.task] = "DISCOVERY_REQUEST",
         NEW f \in SlotsForDiscovery(w), NEW o \in f.offers
  PROVE  o \in Eligible /\ (o \in AtNight => o \in f.blind \/ w.task \notin Placed)
  <1>1. CASE "locationId" \in Known(w)
    <2>1. PICK s \in SUBSET Eligible, d \in SUBSET AtNight : f = InDaylight(s, AtNight, d)
      BY <1>1 DEF SlotsForDiscovery
    <2>2. f.offers = s \ (AtNight \ d) /\ f.blind = s \cap d
      BY <2>1 DEF InDaylight
    <2> QED BY <2>2
  <1>2. CASE "locationId" \notin Known(w)
    <2>1. PICK s \in SUBSET Eligible : f = AsTheyAre(s)
      BY <1>2 DEF SlotsForDiscovery
    <2>2. f.offers = s
      BY <2>1 DEF AsTheyAre
    <2>3. "locationId" \in Known(w) <=> w.task \in Placed
      <3>1. Known(w) = {"prospectId"} \cup {g \in {"locationId"} : w.task \in Placed}
        BY DEF Known, Carried
      <3> QED BY <3>1
    <2> QED BY <1>2, <2>2, <2>3
  <1> QED BY <1>1, <1>2

\* What a step with an offer or a row keeps.
LEMMA FilteredKept ==
  ASSUME NEW w, NEW v, Filtered(w),
         v.path = w.path, v.task = w.task, v.blind = w.blind, v.offers \subseteq w.offers,
         w.stage \in {"offering", "valid", "written"},
         \/ v.stage = "offering"
         \/ /\ v.stage \in {"valid", "written"}
            /\ \/ w.stage # "offering" /\ v.offer = w.offer /\ v.accepted = w.accepted
               \/ v.offer \in w.offers /\ (w.path # "auto" => v.accepted = v.offer)
  PROVE  Filtered(v)
  <1>1. \A o : Suits(w, o) <=> Suits(v, o)
    BY DEF Suits
  <1> QED BY <1>1 DEF Filtered

LEMMA FilteredNext ==
  ASSUME IInv, [Next]_vars
  PROVE  OffersAreFiltered'
  <1> USE DEF IInv
  <1>1. ASSUME NEW a \in Actor, StepOf(a) PROVE Filtered(work'[a])
    <2>1. ASSUME work'[a] = Idle \/ work'[a].stage = "started" PROVE Filtered(work'[a])
      BY <2>1 DEF Filtered, Idle
    <2>2. CASE Ends(a) \/ Begins(a) \/ Schedules(a)
      BY <2>1, <2>2 DEF Ends, Begins, Schedules, Start, TypeOK
    <2>3. ASSUME work[a].stage # "idle" PROVE work[a] \in InHand /\ Filtered(work[a])
      BY <2>3 DEF Idle, TypeOK, OffersAreFiltered
    <2>4. CASE Search(a)
      <3>1. PICK path \in Paths(work[a]) : \E f \in Found(work[a], path) :
              work' = [work EXCEPT ![a].stage = "offering", ![a].path = path,
                                   ![a].offers = f.offers, ![a].blind = f.blind]
        BY <2>4 DEF Search
      <3>2. PICK f \in Found(work[a], path) :
              work' = [work EXCEPT ![a].stage = "offering", ![a].path = path,
                                   ![a].offers = f.offers, ![a].blind = f.blind]
        BY <3>1
      <3>3. work[a].stage = "started" /\ work[a] # Idle
        BY <2>4 DEF Search, Idle
      <3>4. /\ work'[a].stage = "offering" /\ work'[a].path = path
            /\ work'[a].offers = f.offers /\ work'[a].blind = f.blind
            /\ work'[a].task = work[a].task
        <4>1. work' = [work EXCEPT ![a] = [work[a] EXCEPT !.stage = "offering", !.path = path,
                                             !.offers = f.offers, !.blind = f.blind]]
          BY <3>2
        <4> QED BY <2>3, <3>3, <4>1 DEF InHand, TypeOK
      <3>5. CASE path = "discovery"
        <4>1. work[a].path = "discovery"
          BY <3>1, <3>5 DEF Paths
        <4>2. work[a].task \in Message /\ kind[work[a].task] = "DISCOVERY_REQUEST"
          BY <3>3, <4>1 DEF PathsFit, PathFits
        <4>3. f \in SlotsForDiscovery(work[a])
          BY <3>2, <3>5 DEF Found
        <4> QED BY <3>4, <4>2, <4>3, DiscoveryIsFiltered DEF Filtered, Suits
      <3> QED BY <3>4, <3>5 DEF Filtered
    <2>5. CASE GoesOn(a)
      <3>1. work' = [work EXCEPT ![a] = [work[a] EXCEPT !.stage = "offering", !.offer = "none",
                                                        !.accepted = "none"]]
        BY <2>5 DEF GoesOn
      <3>2. /\ work'[a].stage = "offering" /\ work'[a].offers = work[a].offers
            /\ work'[a].path = work[a].path /\ work'[a].blind = work[a].blind
            /\ work'[a].task = work[a].task
        BY <2>3, <2>5, <3>1 DEF GoesOn, InHand, TypeOK
      <3> QED BY <2>3, <2>5, <3>2, FilteredKept DEF GoesOn
    <2>6. CASE Create(a)
      <3>1. /\ work'[a].stage = "written" /\ work'[a].offers = work[a].offers
            /\ work'[a].path = work[a].path /\ work'[a].blind = work[a].blind
            /\ work'[a].task = work[a].task /\ work'[a].offer = work[a].offer
            /\ work'[a].accepted = work[a].accepted
        BY <2>3, <2>6 DEF Create, InHand, TypeOK
      <3> QED BY <2>3, <2>6, <3>1, FilteredKept DEF Create
    <2>7. CASE Audit(a)
      <3>1. work' = [work EXCEPT ![a] = [work[a] EXCEPT !.stage = "offering", !.offer = "none",
                                           !.accepted = "none", !.created = @ + 1]]
        BY <2>7 DEF Audit
      <3>2. /\ work'[a].stage = "offering" /\ work'[a].offers = work[a].offers
            /\ work'[a].path = work[a].path /\ work'[a].blind = work[a].blind
            /\ work'[a].task = work[a].task
        BY <2>3, <2>7, <3>1 DEF Audit, InHand, TypeOK
      <3> QED BY <2>3, <2>7, <3>2, FilteredKept DEF Audit
    <2>8. ASSUME NEW o \in Offer, Trying(a, o) /\ Skip(a, o) PROVE Filtered(work'[a])
      <3>1. work' = [work EXCEPT ![a] = [work[a] EXCEPT !.offers = @ \ {o}]]
        BY <2>8 DEF Skip
      <3>2. /\ work'[a].stage = "offering" /\ work'[a].offers \subseteq work[a].offers
            /\ work'[a].path = work[a].path /\ work'[a].blind = work[a].blind
            /\ work'[a].task = work[a].task
        BY <2>3, <2>8, <3>1 DEF Trying, InHand, TypeOK
      <3> QED BY <2>3, <2>8, <3>2, FilteredKept DEF Trying
    <2>9. ASSUME NEW o \in Offer, Validate(a, o) PROVE Filtered(work'[a])
      <3>1. work' = [work EXCEPT ![a] = [work[a] EXCEPT !.stage = "valid", !.offer = o,
                                           !.accepted = o, !.offers = @ \ {o}]]
        BY <2>9 DEF Validate
      <3>2. /\ work'[a].stage = "valid" /\ work'[a].offers \subseteq work[a].offers
            /\ work'[a].path = work[a].path /\ work'[a].blind = work[a].blind
            /\ work'[a].task = work[a].task /\ work'[a].offer = o /\ work'[a].accepted = o
        BY <2>3, <2>9, <3>1 DEF Validate, Trying, InHand, TypeOK
      <3> QED BY <2>3, <2>9, <3>2, FilteredKept DEF Validate, Trying
    <2>10. ASSUME NEW o \in Offer, UseEvent(a, o) PROVE Filtered(work'[a])
      <3>1. work' = [work EXCEPT ![a] = [work[a] EXCEPT !.stage = "valid", !.offer = o,
                                                        !.offers = @ \ {o}]]
        BY <2>10 DEF UseEvent
      <3>2. /\ work'[a].stage = "valid" /\ work'[a].offers \subseteq work[a].offers
            /\ work'[a].path = work[a].path /\ work'[a].blind = work[a].blind
            /\ work'[a].task = work[a].task /\ work'[a].offer = o
        BY <2>3, <2>10, <3>1 DEF UseEvent, Trying, InHand, TypeOK
      <3> QED BY <2>3, <2>10, <3>2, FilteredKept DEF UseEvent, Trying
    <2> QED BY <1>1, <2>2, <2>4, <2>5, <2>6, <2>7, <2>8, <2>9, <2>10 DEF StepOf
  <1>2. ASSUME NEW a \in Actor, StepOf(a), NEW b \in Actor PROVE Filtered(work'[b])
    BY <1>1, <1>2, TaskKept DEF OffersAreFiltered
  <1>3. ASSUME \A b \in Actor : Filtered(work'[b]) PROVE OffersAreFiltered'
    BY <1>3 DEF OffersAreFiltered, Filtered, Suits
  <1>4. CASE work' = work
    BY <1>4 DEF OffersAreFiltered, Filtered, Suits
  <1> QED BY <1>2, <1>3, <1>4, StepCases DEF Rests, Resolve

-----------------------------------------------------------------------------
(* The scan's check                                                        *)

\* What was pending after a step and is no new row was pending before it.
LEMMA PendingKept ==
  ASSUME TypeOK, DeliveriesLeft, [Next]_vars
  PROVE  PendingLessons' \cap DOMAIN rows \subseteq PendingLessons
  <1> SUFFICES ASSUME NEW r \in DOMAIN rows, r \in PendingLessons'
               PROVE  r \in PendingLessons
    OBVIOUS
  <1>1. rows'[r].path \in {"lesson", "auto"} /\ rows'[r].status = "PENDING"
    BY DEF PendingLessons, Lessons
  <1>2. rows[r].path = rows'[r].path /\ rows'[r].status \in {rows[r].status, "RESOLVED"}
    BY RowsKept
  <1>3. rows[r].status = "PENDING"
    BY <1>1, <1>2
  <1> QED BY <1>1, <1>2, <1>3 DEF PendingLessons, Lessons

\* A check that failed or is out of date is not forgotten.
LEMMA UnsureKept == ASSUME [Next]_vars PROVE unsure \subseteq unsure'
  <1>1. ASSUME NEW a \in Actor, Handle(a) PROVE unsure \subseteq unsure'
    BY <1>1
       DEF Handle, ReturnEarly, Search, Create, CreateFails, Audit, AuditFails, End,
           Unavailable, Refused, Skip, Validate, UseEvent, Finish, scanning
  <1>2. ASSUME NEW a \in Actor, Crash(a) PROVE unsure' = unsure
    BY <1>2 DEF Crash
  <1>3. ASSUME NEW c \in Consumer, Receive(c) PROVE unsure' = unsure
    BY <1>3 DEF Receive, Take, scanning
  <1>4. ASSUME NEW x \in Scanner, StartScan(x) \/ Scan(x)
        PROVE  unsure \subseteq unsure'
    BY <1>4 DEF StartScan, Scan, SkipStudent, ScheduleStudent
  <1>5. CASE \/ \E m \in Message : LockExpires(m)
             \/ \E r \in DOMAIN rows : Resolve(r)
             \/ UNCHANGED vars
    BY <1>5 DEF LockExpires, Resolve, vars, scanning
  <1> QED BY <1>1, <1>2, <1>3, <1>4, <1>5 DEF Next

\* A handling a scanner has under way after a step was begun by it, or was
\* under way before.
LEMMA ScanGoesOn ==
  ASSUME TypeOK, DeliveriesLeft, [Next]_vars, NEW x \in Scanner, work'[x] # Idle
  PROVE  \/ Schedules(x) /\ handled'[x] = handled[x] + 1
         \/ work[x] # Idle /\ handled'[x] = handled[x]
  <1>1. x \in Actor /\ x \notin Consumer
    BY UseCasesAssumption DEF UseCasesAssumption, Actor
  <1>2. ASSUME NEW a \in Actor, StepOf(a)
        PROVE  handled'[x] = handled[x] \/ (a = x /\ Schedules(x))
    BY <1>1, <1>2
       DEF StepOf, Ends, Search, GoesOn, Create, Audit, Begins, Schedules, Skip, Validate,
           UseEvent, TypeOK
  <1>3. ASSUME NEW a \in Actor, StepOf(a) PROVE Schedules(x) \/ work[x] # Idle
    BY <1>1, <1>3, TaskKept
  <1>4. Schedules(x) => handled'[x] = handled[x] + 1
    BY <1>1 DEF Schedules, TypeOK
  <1>5. ASSUME NEW a \in Actor, StepOf(a), ~Schedules(x)
        PROVE  work[x] # Idle /\ handled'[x] = handled[x]
    BY <1>2, <1>3, <1>5
  <1>6. CASE work' = work /\ handled' = handled
    BY <1>6
  <1> QED BY <1>4, <1>5, <1>6, StepCases DEF Rests, Resolve

LEMMA ChecksNext ==
  ASSUME IInv, [Next]_vars
  PROVE  ChecksHold'
  <1> SUFFICES ASSUME NEW x \in Scanner, work'[x] # Idle, Handling(x)' \notin unsure',
                      NEW r \in PendingLessons'
               PROVE  rows'[r].by = Handling(x)'
    BY DEF ChecksHold
  <1> USE DEF IInv
  <1>1. r \in DOMAIN rows'
    BY DEF PendingLessons, Lessons
  <1>2. CASE Schedules(x) /\ handled'[x] = handled[x] + 1
    <2>1. ~SomeLessonPending /\ rows' = rows
      BY <1>2 DEF Schedules, Handling
    <2> QED BY <2>1 DEF SomeLessonPending, PendingLessons, Lessons
  <1>3. CASE work[x] # Idle /\ handled'[x] = handled[x]
    <2>1. Handling(x)' = Handling(x) /\ Handling(x) \notin unsure
      BY <1>3, UnsureKept DEF Handling
    <2>2. CASE r \in DOMAIN rows
      <3>1. r \in PendingLessons /\ rows'[r].by = rows[r].by
        BY <2>2, PendingKept, RowsKept
      <3> QED BY <1>3, <2>1, <3>1 DEF ChecksHold
    <2>3. CASE r \notin DOMAIN rows
      <3>1. PICK a \in Actor : Create(a) /\ rows'[r] = Row(a)
        BY <1>1, <2>3, RowsKept
      <3>2. rows'[r].by = Handling(a) /\ work[a].path \in {"lesson", "auto"}
        BY <3>1 DEF Row, PendingLessons, Lessons
      \* Another's row makes the check out of date.
      <3>3. CASE a # x
        <4>1. Handling(x) \in Overtaken(a)
          BY <1>3, <3>2, <3>3 DEF Overtaken
        <4> QED BY <2>1, <3>1, <4>1 DEF Create
      <3> QED BY <2>1, <3>2, <3>3
    <2> QED BY <2>2, <2>3
  <1> QED BY <1>2, <1>3, ScanGoesOn

LEMMA ScanNext ==
  ASSUME IInv, [Next]_vars
  PROVE  ScanAddsToNothing'
  <1> USE DEF IInv
  <1> SUFFICES ASSUME NEW r \in PendingLessons', NEW s \in PendingLessons',
                      r < s, rows'[r].by # rows'[s].by, rows'[s].by[1] \in Scanner
               PROVE  rows'[s].by \in unsure'
    BY DEF ScanAddsToNothing
  <1>1. r \in DOMAIN rows' /\ s \in DOMAIN rows'
    BY DEF PendingLessons, Lessons
  <1>2. CASE r \in DOMAIN rows /\ s \in DOMAIN rows
    <2>1. rows'[r].by = rows[r].by /\ rows'[s].by = rows[s].by
      BY <1>2, RowsKept
    <2>2. r \in PendingLessons /\ s \in PendingLessons
      BY <1>2, PendingKept
    <2> QED BY <2>1, <2>2, UnsureKept DEF ScanAddsToNothing
  \* The row is new: its handling is unsure, or r could not be pending.
  <1>3. CASE r \in DOMAIN rows /\ s \notin DOMAIN rows
    <2>1. PICK a \in Actor : Create(a) /\ rows'[s] = Row(a)
      BY <1>1, <1>3, RowsKept
    <2>2. rows'[s].by = Handling(a) /\ rows'[s].by[1] = a
      BY <2>1 DEF Row, Handling
    <2>3. r \in PendingLessons /\ rows'[r].by = rows[r].by
      BY <1>3, PendingKept, RowsKept
    <2>4. work[a] # Idle
      BY <2>1 DEF Create, Idle
    <2>5. Handling(a) \in unsure
      BY <2>2, <2>3, <2>4 DEF ChecksHold
    <2> QED BY <2>2, <2>5, UnsureKept
  \* No row comes after a new one.
  <1>4. CASE r \notin DOMAIN rows
    <2>1. PICK a \in Actor : Create(a)
      BY <1>1, <1>4, RowsKept
    <2>2. DOMAIN rows' = DOMAIN rows \cup {Len(rows) + 1}
      BY <2>1, CreateAdds
    <2>3. DOMAIN rows = 1 .. Len(rows) /\ Len(rows) \in Nat
      BY DEF TypeOK
    <2> QED BY <1>1, <1>4, <2>2, <2>3
  <1> QED BY <1>2, <1>3, <1>4

-----------------------------------------------------------------------------
(* Limits and audit entries                                                *)

\* The rows of a handling after a step.
LEMMA MineAfter ==
  ASSUME IInv, [Next]_vars
  PROVE  \/ /\ DOMAIN rows' = DOMAIN rows /\ \A h : RowsOf(h)' = RowsOf(h)
         \/ \E a \in Actor :
              /\ Create(a) /\ DOMAIN rows' = DOMAIN rows \cup {Len(rows) + 1}
              /\ rows'[Len(rows) + 1].by = Handling(a)
              /\ \A h : h # Handling(a) => RowsOf(h)' = RowsOf(h)
  <1> USE DEF IInv
  <1>1. CASE DOMAIN rows' = DOMAIN rows
    BY <1>1, RowsKept DEF RowsOf
  <1>2. ASSUME NEW a \in Actor, Create(a)
        PROVE  /\ DOMAIN rows' = DOMAIN rows \cup {Len(rows) + 1}
               /\ rows'[Len(rows) + 1].by = Handling(a)
               /\ \A h : h # Handling(a) => RowsOf(h)' = RowsOf(h)
    <2>1. /\ DOMAIN rows' = DOMAIN rows \cup {Len(rows) + 1}
          /\ rows'[Len(rows) + 1] = Row(a)
      BY <1>2, CreateAdds
    <2>2. \A h : RowsOf(h)' = IF h = Handling(a) THEN RowsOf(h) \cup {Len(rows) + 1}
                                                 ELSE RowsOf(h)
      BY <1>2, CreateAdds
    <2>3. Row(a).by = Handling(a)
      BY DEF Row
    <2> QED BY <2>1, <2>2, <2>3
  <1> QED BY <1>1, <1>2, RowsKept

\* What is true of a handling that has just written a row.
LEMMA JustCreated ==
  ASSUME IInv, NEW a \in Actor, Create(a), HandlingsInStep'
  PROVE  /\ \A r \in Mine(a)' : rows'[r].path = work[a].path
         /\ Cardinality(Mine(a)') <= LimitOf(work[a].path)
         /\ Mine(a)' \ audited' = {Len(rows) + 1}
         /\ Mine(a)' = RowsOf(Handling(a))'
         /\ Handling(a)' = Handling(a)
  <1>1. work[a] \in InHand
    BY DEF Create, Idle, TypeOK, IInv
  <1>2. /\ work'[a].stage = "written" /\ work'[a].path = work[a].path
        /\ work'[a].created = work[a].created /\ work'[a].row = Len(rows) + 1
    BY <1>1 DEF Create, InHand, TypeOK, IInv
  <1>3. work'[a] # Idle /\ work[a].created \in Nat /\ LimitOf(work[a].path) \in Nat
    BY <1>1, <1>2, LimitIsNat DEF InHand, Idle
  <1>5. /\ \A r \in Mine(a)' : rows'[r].path = work[a].path
        /\ Cardinality(Mine(a)') = work[a].created + 1
        /\ Mine(a)' \ audited' = {Len(rows) + 1}
    BY <1>2, <1>3 DEF HandlingsInStep, InStep
  <1>6. work[a].created < LimitOf(work[a].path)
    BY DEF Create, IInv, HandlingsInStep, InStep, Idle
  <1>7. Cardinality(Mine(a)') <= LimitOf(work[a].path)
    BY <1>3, <1>5, <1>6
  <1>8. Mine(a)' = RowsOf(Handling(a))' /\ Handling(a)' = Handling(a)
    BY DEF Mine, Create, Handling
  <1> QED BY <1>5, <1>7, <1>8

LEMMA LimitNext ==
  ASSUME IInv, [Next]_vars
  PROVE  LimitIsKept'
  <1> USE DEF IInv
  <1> SUFFICES ASSUME NEW r \in DOMAIN rows', NEW h, h = rows'[r].by
               PROVE  Cardinality(RowsOf(h)') <= LimitOf(rows'[r].path)
    BY DEF LimitIsKept, LimitOf, RowsOf
  <1>1. CASE r \in DOMAIN rows /\ RowsOf(h)' = RowsOf(h)
    BY <1>1, RowsKept DEF LimitIsKept
  <1>2. ASSUME NEW a \in Actor, Create(a), h = Handling(a)
        PROVE  Cardinality(RowsOf(h)') <= LimitOf(rows'[r].path)
    <2>1. /\ \A s \in Mine(a)' : rows'[s].path = work[a].path
          /\ Cardinality(Mine(a)') <= LimitOf(work[a].path)
          /\ Mine(a)' = RowsOf(Handling(a))' /\ Handling(a)' = Handling(a)
      BY <1>2, JustCreated, InStepNext
    <2>2. Mine(a)' = RowsOf(h)'
      BY <1>2, <2>1 DEF RowsOf
    <2>3. r \in RowsOf(h)'
      BY DEF RowsOf
    <2> QED BY <2>1, <2>2, <2>3
  <1> QED BY <1>1, <1>2, MineAfter

LEMMA AuditNext ==
  ASSUME IInv, [Next]_vars
  PROVE  AuditKeepsUp'
  <1> USE DEF IInv
  <1> SUFFICES ASSUME NEW r \in DOMAIN rows' \ audited', NEW s \in DOMAIN rows' \ audited',
                      NEW h, h = rows'[r].by, h = rows'[s].by
               PROVE  r = s
    BY DEF AuditKeepsUp
  <1>0. audited \subseteq audited'
    <2>1. ASSUME NEW a \in Actor, StepOf(a) PROVE audited \subseteq audited'
      BY <2>1 DEF StepOf, Ends, Search, GoesOn, Create, Audit, Begins, Schedules, Skip, Validate,
                  UseEvent
    <2> QED BY <2>1, StepCases DEF Rests, Resolve
  <1>1. r \in RowsOf(h)' /\ s \in RowsOf(h)'
    BY DEF RowsOf
  <1>2. CASE RowsOf(h)' = RowsOf(h)
    BY <1>0, <1>1, <1>2 DEF RowsOf, AuditKeepsUp
  <1>3. ASSUME NEW a \in Actor, Create(a), h = Handling(a)
        PROVE  r = s
    <2>1. /\ Mine(a)' \ audited' = {Len(rows) + 1}
          /\ Mine(a)' = RowsOf(Handling(a))' /\ Handling(a)' = Handling(a)
      BY <1>3, JustCreated, InStepNext
    <2>2. Mine(a)' = RowsOf(h)'
      BY <1>3, <2>1 DEF RowsOf
    <2> QED BY <1>1, <2>1, <2>2
  <1> QED BY <1>2, <1>3, MineAfter

-----------------------------------------------------------------------------
(* The theorems                                                            *)

LEMMA InitIInv == Init => IInv
  <1> SUFFICES ASSUME Init PROVE IInv
    OBVIOUS
  <1>1. TypeOK
    BY TypeInit
  <1>2. rows = <<>> /\ DOMAIN rows = {} /\ \A a \in Actor : work[a] = Idle
    BY DEF Init
  <1>3. DeliveriesLeft
    BY UseCasesAssumption DEF UseCasesAssumption, Init, DeliveriesLeft
  <1>4. RowsAreNamed /\ HandlingsInStep /\ PathsFit /\ LimitIsKept /\ AuditKeepsUp
    BY <1>2 DEF RowsAreNamed, HandlingsInStep, InStep, PathsFit, LimitIsKept, AuditKeepsUp
  <1>5. OffersAreFiltered /\ ChecksHold /\ ScanAddsToNothing
    BY <1>2 DEF OffersAreFiltered, Filtered, Idle, ChecksHold, Actor, ScanAddsToNothing,
                PendingLessons, Lessons
  <1> QED BY <1>1, <1>3, <1>4, <1>5 DEF IInv

LEMMA NextIInv == IInv /\ [Next]_vars => IInv'
  <1> SUFFICES ASSUME IInv, [Next]_vars PROVE IInv'
    OBVIOUS
  <1>1. TypeOK' /\ DeliveriesLeft'
    BY TypeParts, QueueNext, ScansNext, WorkNext DEF IInv
  <1> QED
    BY <1>1, NamedNext, InStepNext, PathsNext, FilteredNext, ChecksNext, ScanNext,
       LimitNext, AuditNext
       DEF IInv

LEMMA AlwaysIInv == Spec => []IInv
  BY InitIInv, NextIInv, PTL DEF Spec

\* Queue, handlers and rows hold values of the shape the code gives them, for
\* any number of consumers, scanners, events and students; a message has a
\* delivery left as long as it waits.
THEOREM UseCaseTypes == Spec => [](TypeOK /\ DeliveriesLeft)
  <1>1. IInv => TypeOK /\ DeliveriesLeft
    BY DEF IInv
  <1> QED BY <1>1, AlwaysIInv, PTL

\* No handling of an event or student creates more suggestions than the limit
\* of its handler, however rows and audit entries fail, replicas die and
\* messages come back in between.
THEOREM Limits == Spec => []LimitIsKept
  <1>1. IInv => LimitIsKept
    BY DEF IInv
  <1> QED BY <1>1, AlwaysIInv, PTL

\* Of all rows one handling leaves behind at most one lacks its audit entry.
THEOREM AuditTrailKeepsUp == Spec => []AuditKeepsUp
  <1>1. IInv => AuditKeepsUp
    BY DEF IInv
  <1> QED BY <1>1, AlwaysIInv, PTL

\* A suggestion other than the solver's rests on an offer FSP accepted in the
\* same handling, one of a discovery flight on one that passed its filters.
THEOREM SoundOffers == Spec => []OffersAreSound
  <1>1. IInv => OffersAreSound
    BY DEF IInv, OffersAreFiltered, Filtered, Suits, AtNight, Written, OffersAreSound
  <1> QED BY <1>1, AlwaysIInv, PTL

\* Whatever the students, limits and failures, and however often a scanner
\* dies and scans again: unless a check failed, no handling of its adds a
\* lesson while one of an earlier handling is pending.
THEOREM ScansAddToNothing == Spec => []ScanAddsToNothing
  <1>1. IInv => ScanAddsToNothing
    BY DEF IInv
  <1> QED BY <1>1, AlwaysIInv, PTL

-----------------------------------------------------------------------------
(* The ledger of SuggestionLedger                                          *)

\* The rows of a handling are about what it has in hand.
TasksAgree ==
  \A a \in Actor : work[a] # Idle => \A r \in Mine(a) : rows[r].task = work[a].task

\* The handlings that have written about an event, or still may.
Writers(m) == {rows[r].by : r \in {r \in DOMAIN rows : rows[r].task = m}}
              \cup {Handling(a) : a \in {a \in Actor : work[a] # Idle /\ work[a].task = m}}

\* There are no more of them than the event had deliveries.
WritersCounted ==
  \A m \in Message : IsFiniteSet(Writers(m)) /\ Cardinality(Writers(m)) <= delivered[m]

LedgerInv == IInv /\ TasksAgree /\ WritersCounted

\* Which steps begin a handling.
LEMMA WhoBegins ==
  ASSUME [Next]_vars
  PROVE  \/ handled' = handled /\ delivered' = delivered
         \/ \E c \in Consumer : \E m \in Message : Take(c, m)
         \/ \E x \in Scanner : \E s \in Student : ScheduleStudent(x, s)
  <1> DEFINE Stays == handled' = handled /\ delivered' = delivered
  <1>1. ASSUME NEW a \in Actor, Handle(a) PROVE Stays
    BY <1>1
       DEF Handle, ReturnEarly, Search, Create, CreateFails, Audit, AuditFails, End,
           Unavailable, Refused, Skip, Validate, UseEvent, Finish, jobs
  <1>2. ASSUME NEW a \in Actor, Crash(a) PROVE Stays
    BY <1>2 DEF Crash
  <1>3. ASSUME NEW x \in Scanner, StartScan(x) PROVE Stays
    BY <1>3 DEF StartScan, jobs
  <1>4. ASSUME NEW x \in Scanner, NEW s \in Student, SkipStudent(x, s) PROVE Stays
    BY <1>4 DEF SkipStudent, jobs
  <1>5. CASE \/ \E m \in Message : LockExpires(m)
             \/ \E r \in DOMAIN rows : Resolve(r)
             \/ UNCHANGED vars
    BY <1>5 DEF LockExpires, Resolve, vars, jobs
  <1> QED BY <1>1, <1>2, <1>3, <1>4, <1>5 DEF Next, Receive, Scan

\* A handling that was not begun by this step was there with the same task.
LEMMA HandlingGoesOn ==
  ASSUME TypeOK, DeliveriesLeft, [Next]_vars, handled' = handled,
         NEW a \in Actor, work'[a] # Idle
  PROVE  work[a] # Idle /\ work'[a].task = work[a].task
  <1>1. ASSUME NEW b \in Actor, StepOf(b)
        PROVE  work[a] # Idle /\ work'[a].task = work[a].task
    <2>1. ~Begins(b) /\ ~Schedules(b)
      <3>1. handled[b] \in Nat
        BY DEF TypeOK
      <3>2. handled' # [handled EXCEPT ![b] = @ + 1]
        BY <3>1 DEF TypeOK
      <3> QED BY <3>2 DEF Begins, Schedules
    <2> QED BY <1>1, <2>1, TaskKept
  <1> QED BY <1>1, StepCases DEF Rests, Resolve

\* An actor takes up a task; the others go on.
LEMMA TakenUp ==
  ASSUME IInv, IInv', NEW a \in Actor, NEW path, NEW task, NEW n,
         work' = [work EXCEPT ![a] = Start(path, task, n)],
         handled' = [handled EXCEPT ![a] = @ + 1], UNCHANGED <<rows, audited>>
  PROVE  /\ Mine(a)' = {} /\ work'[a].task = task
         /\ \A b \in Actor \ {a} : /\ work'[b] = work[b]
                                   /\ Handling(b)' = Handling(b) /\ Mine(b)' = Mine(b)
  <1>1. Mine(a)' = {} /\ \A b \in Actor \ {a} : Mine(b)' = Mine(b)
    BY FreshHandling DEF IInv
  <1>2. work'[a].task = task
    BY DEF IInv, TypeOK, Start
  <1>3. \A b \in Actor \ {a} : work'[b] = work[b] /\ Handling(b)' = Handling(b)
    BY DEF IInv, TypeOK, Handling
  <1> QED BY <1>1, <1>2, <1>3

LEMMA TakingAgrees ==
  ASSUME IInv, IInv', TasksAgree, NEW a \in Actor, NEW path, NEW task, NEW n,
         work' = [work EXCEPT ![a] = Start(path, task, n)],
         handled' = [handled EXCEPT ![a] = @ + 1], UNCHANGED <<rows, audited>>
  PROVE  TasksAgree'
  <1>1. ASSUME NEW b \in Actor, work'[b] # Idle, NEW r \in Mine(b)'
        PROVE  rows'[r].task = work'[b].task
    <2>1. b # a
      BY <1>1, TakenUp
    <2>2. work'[b] = work[b] /\ Mine(b)' = Mine(b)
      BY <2>1, TakenUp
    <2> QED BY <1>1, <2>2 DEF TasksAgree
  <1> QED BY <1>1 DEF TasksAgree

LEMMA TasksNext ==
  ASSUME IInv, IInv', TasksAgree, [Next]_vars
  PROVE  TasksAgree'
  <1>0. TypeOK /\ DeliveriesLeft
    BY DEF IInv
  <1>1. CASE handled' = handled
    <2>1. ASSUME NEW a \in Actor, work'[a] # Idle, NEW r \in Mine(a)'
          PROVE  rows'[r].task = work'[a].task
      <3>1. work[a] # Idle /\ work'[a].task = work[a].task /\ Handling(a)' = Handling(a)
        BY <1>0, <1>1, <2>1, HandlingGoesOn DEF Handling
      <3>2. r \in DOMAIN rows' /\ rows'[r].by = Handling(a)
        BY <2>1, <3>1 DEF Mine, RowsOf
      <3>3. CASE r \in DOMAIN rows
        <4>1. rows'[r].by = rows[r].by /\ rows'[r].task = rows[r].task
          BY <1>0, <3>3, RowsKept
        <4>2. r \in Mine(a)
          BY <3>2, <3>3, <4>1 DEF Mine, RowsOf
        <4> QED BY <3>1, <4>1, <4>2 DEF TasksAgree
      <3>4. CASE r \notin DOMAIN rows
        <4>1. PICK b \in Actor : Create(b) /\ rows'[r] = Row(b)
          BY <1>0, <3>2, <3>4, RowsKept
        <4>2. Row(b).by = Handling(b) /\ Row(b).task = work[b].task
          BY DEF Row
        <4>3. b = a
          BY <3>2, <4>1, <4>2 DEF Handling
        <4> QED BY <3>1, <4>1, <4>2, <4>3
      <3> QED BY <3>3, <3>4
    <2> QED BY <2>1 DEF TasksAgree
  <1>2. ASSUME NEW c \in Consumer, NEW m \in Message, Take(c, m) PROVE TasksAgree'
    BY <1>2, TakingAgrees DEF Take, Actor
  <1>3. ASSUME NEW x \in Scanner, NEW s \in Student, ScheduleStudent(x, s) PROVE TasksAgree'
    <2>1. work' = [work EXCEPT ![x] = Start("lesson", s, 0)]
      BY <1>3 DEF ScheduleStudent
    <2>2. handled' = [handled EXCEPT ![x] = @ + 1] /\ UNCHANGED <<rows, audited>> /\ x \in Actor
      BY <1>3 DEF ScheduleStudent, Actor
    <2> QED BY <2>1, <2>2, TakingAgrees
  <1> QED BY <1>1, <1>2, <1>3, WhoBegins

\* Who may write about an event changes by the one who takes it up.
LEMMA WritersAfterTaking ==
  ASSUME IInv, IInv', NEW a \in Actor, NEW path, NEW task, NEW n, NEW m,
         work' = [work EXCEPT ![a] = Start(path, task, n)],
         handled' = [handled EXCEPT ![a] = @ + 1], UNCHANGED <<rows, audited>>
  PROVE  \A g \in Writers(m)' : g \in Writers(m) \/ (m = task /\ g = Handling(a)')
  <1>1. ASSUME NEW b \in Actor, work'[b] # Idle, work'[b].task = m
        PROVE  Handling(b)' \in Writers(m) \/ (m = task /\ Handling(b)' = Handling(a)')
    <2>1. CASE b = a
      BY <1>1, <2>1, TakenUp, ZenonT(60)
    <2>2. CASE b # a
      <3>1. work'[b] = work[b] /\ Handling(b)' = Handling(b)
        BY <2>2, TakenUp
      <3> QED BY <1>1, <3>1 DEF Writers
    <2> QED BY <2>1, <2>2
  <1>2. ASSUME NEW r \in DOMAIN rows', rows'[r].task = m PROVE rows'[r].by \in Writers(m)
    BY <1>2 DEF Writers
  <1> QED BY <1>1, <1>2 DEF Writers

LEMMA WritersAfter ==
  ASSUME IInv, [Next]_vars, handled' = handled, NEW m
  PROVE  Writers(m)' \subseteq Writers(m)
  <1>0. TypeOK /\ DeliveriesLeft
    BY DEF IInv
  <1>1. ASSUME NEW b \in Actor, work'[b] # Idle, work'[b].task = m
        PROVE  Handling(b)' \in Writers(m)
    <2>1. work[b] # Idle /\ work[b].task = m /\ Handling(b)' = Handling(b)
      BY <1>0, <1>1, HandlingGoesOn DEF Handling
    <2> QED BY <2>1 DEF Writers
  <1>2. ASSUME NEW r \in DOMAIN rows', rows'[r].task = m PROVE rows'[r].by \in Writers(m)
    <2>1. CASE r \in DOMAIN rows
      <3>1. rows'[r].by = rows[r].by /\ rows'[r].task = rows[r].task
        BY <1>0, <2>1, RowsKept
      <3> QED BY <1>2, <2>1, <3>1 DEF Writers
    <2>2. CASE r \notin DOMAIN rows
      <3>1. PICK b \in Actor : Create(b) /\ rows'[r] = Row(b)
        BY <1>0, <2>2, RowsKept
      <3>2. Row(b).by = Handling(b) /\ Row(b).task = work[b].task /\ work[b] # Idle
        BY <3>1 DEF Row, Create, Idle
      <3> QED BY <1>2, <3>1, <3>2 DEF Writers
    <2> QED BY <2>1, <2>2
  <1> QED BY <1>1, <1>2 DEF Writers

LEMMA WritersNext ==
  ASSUME IInv, IInv', WritersCounted, [Next]_vars
  PROVE  WritersCounted'
  <1> DEFINE W(m) == IsFiniteSet(Writers(m)) /\ Cardinality(Writers(m)) <= delivered[m]
  <1>0. /\ delivered \in [Message -> 0 .. MaxDelivery] /\ MaxDelivery \in Nat
        /\ \A m \in Message : IsFiniteSet(Writers(m)) /\ Cardinality(Writers(m)) <= delivered[m]
    BY UseCasesAssumption DEF UseCasesAssumption, WritersCounted, IInv, TypeOK
  <1>1. ASSUME NEW m \in Message, Writers(m)' \subseteq Writers(m),
               delivered'[m] = delivered[m]
        PROVE  IsFiniteSet(Writers(m)') /\ Cardinality(Writers(m)') <= delivered'[m]
    <2>1. /\ IsFiniteSet(Writers(m)')
          /\ Cardinality(Writers(m)') <= Cardinality(Writers(m))
      BY <1>0, <1>1, FS_Subset
    <2>2. Cardinality(Writers(m)') \in Nat /\ Cardinality(Writers(m)) \in Nat
      BY <1>0, <2>1, FS_CardinalityType
    <2> QED BY <1>0, <1>1, <2>1, <2>2
  <1>2. CASE handled' = handled /\ delivered' = delivered
    BY <1>1, <1>2, WritersAfter DEF WritersCounted
  <1>3. ASSUME NEW c \in Consumer, NEW m \in Message, Take(c, m) PROVE WritersCounted'
    <2> DEFINE h == Handling(c)'
    <2>1. ASSUME NEW n \in Message
          PROVE  \A g \in Writers(n)' : g \in Writers(n) \/ (n = m /\ g = h)
      <3>1. /\ work' = [work EXCEPT ![c] = Start(Route(m), m, delivered[m] + 1)]
            /\ handled' = [handled EXCEPT ![c] = @ + 1] /\ UNCHANGED <<rows, audited>>
            /\ c \in Actor
        BY <1>3 DEF Take, Actor
      <3> QED BY <3>1, WritersAfterTaking
    <2>2. /\ delivered'[m] = delivered[m] + 1
          /\ \A n \in Message \ {m} : delivered'[n] = delivered[n]
      BY <1>0, <1>3 DEF Take
    <2>3. IsFiniteSet(Writers(m)') /\ Cardinality(Writers(m)') <= delivered'[m]
      <3> DEFINE A == Writers(m)
                 B == Writers(m)'
      <3>1. B \subseteq A \cup {h}
        BY <2>1
      <3>2. IsFiniteSet(A) /\ Cardinality(A) <= delivered[m] /\ delivered[m] \in Nat
        BY <1>0
      <3> HIDE DEF A, B, h
      <3>3. IsFiniteSet(A \cup {h}) /\ Cardinality(A \cup {h}) \in {Cardinality(A), Cardinality(A) + 1}
        BY <3>2, FS_AddElement
      <3>4. IsFiniteSet(B) /\ Cardinality(B) <= Cardinality(A \cup {h})
        BY <3>1, <3>3, FS_Subset
      <3>5. Cardinality(A) \in Nat /\ Cardinality(B) \in Nat /\ Cardinality(A \cup {h}) \in Nat
        BY <3>2, <3>3, <3>4, FS_CardinalityType
      <3>6. IsFiniteSet(B) /\ Cardinality(B) <= delivered[m] + 1
        BY <3>2, <3>3, <3>4, <3>5
      <3> QED BY <2>2, <3>6 DEF B
    <2>4. ASSUME NEW n \in Message \ {m}
          PROVE  IsFiniteSet(Writers(n)') /\ Cardinality(Writers(n)') <= delivered'[n]
      BY <1>1, <2>1, <2>2
    <2> QED BY <2>3, <2>4 DEF WritersCounted
  <1>4. ASSUME NEW x \in Scanner, NEW s \in Student, ScheduleStudent(x, s)
        PROVE  WritersCounted'
    <2>1. s \notin Message
      BY UseCasesAssumption DEF UseCasesAssumption
    <2>2. ASSUME NEW m \in Message PROVE Writers(m)' \subseteq Writers(m)
      <3>1. work' = [work EXCEPT ![x] = Start("lesson", s, 0)]
        BY <1>4 DEF ScheduleStudent
      <3>2. /\ handled' = [handled EXCEPT ![x] = @ + 1] /\ UNCHANGED <<rows, audited>>
            /\ x \in Actor
        BY <1>4 DEF ScheduleStudent, Actor
      <3>3. \A g \in Writers(m)' : g \in Writers(m) \/ m = s
        BY <3>1, <3>2, WritersAfterTaking
      <3> QED BY <2>1, <3>3
    <2>3. delivered' = delivered
      BY <1>4 DEF ScheduleStudent, jobs
    <2> QED BY <1>1, <2>2, <2>3 DEF WritersCounted
  <1> QED BY <1>2, <1>3, <1>4, WhoBegins

LEMMA LedgerInvariant == Spec => []LedgerInv
  <1>1. Init => TasksAgree /\ WritersCounted
    <2>1. ASSUME Init, NEW m \in Message PROVE Writers(m) = {} /\ delivered[m] = 0
      BY <2>1 DEF Init, Writers
    <2>2. IsFiniteSet({}) /\ Cardinality({}) = 0
      BY FS_EmptySet
    <2>3. Init => WritersCounted
      BY <2>1, <2>2 DEF WritersCounted
    <2> QED BY <2>3 DEF Init, TasksAgree
  <1>2. IInv /\ IInv' /\ TasksAgree /\ WritersCounted /\ [Next]_vars
          => TasksAgree' /\ WritersCounted'
    BY TasksNext, WritersNext
  <1> QED BY <1>1, <1>2, AlwaysIInv, PTL DEF Spec, LedgerInv

\* The ledger counts as the handlers' properties do.
LEMMA SameCardinality == \A S : Ledger!Cardinality(S) = Cardinality(S)
  BY DEF Ledger!Cardinality, Cardinality

\* A row is written within the limit, about the handling's own task, behind
\* entries that are there, for an event that had a delivery for it.
LEMMA CreateIsWriting ==
  ASSUME LedgerInv, NEW a \in Actor, Create(a)
  PROVE  Ledger!Write(a, work[a].path, work[a].task)
  <1> DEFINE p == work[a].path
             t == work[a].task
             h == Handling(a)
  <1>0. IInv /\ TasksAgree /\ WritersCounted
    BY DEF LedgerInv
  <1>1. work[a] \in InHand /\ work[a] # Idle /\ p \in Path
    BY <1>0 DEF Create, Idle, IInv, TypeOK, InHand
  <1>2. Ledger!Current(a) = h /\ Ledger!RowsBy(h) = Mine(a)
    BY DEF Ledger!Current, Ledger!RowsBy, Handling, Mine, RowsOf
  <1>3. /\ Cardinality(Mine(a)) < LimitOf(p) /\ Mine(a) \subseteq audited
        /\ \A r \in Mine(a) : rows[r].path = p
    BY <1>0, <1>1 DEF IInv, HandlingsInStep, InStep, Create
  <1>4. \A r \in Mine(a) : rows[r].task = t
    BY <1>0, <1>1 DEF TasksAgree
  <1>5. ASSUME t \in Message
        PROVE  Cardinality(Ledger!WritersAbout(t) \cup {h}) <= MaxDelivery
    <2> DEFINE A == Ledger!WritersAbout(t) \cup {h}
    <2>1. A \subseteq Writers(t)
      <3>1. ASSUME NEW r \in DOMAIN rows, rows[r].task = t PROVE rows[r].by \in Writers(t)
        BY <3>1 DEF Writers
      <3>2. h \in Writers(t)
        BY <1>1 DEF Writers
      <3>3. Ledger!WritersAbout(t) = {rows[r].by : r \in {r \in DOMAIN rows : rows[r].task = t}}
        BY DEF Ledger!WritersAbout
      <3> QED BY <3>1, <3>2, <3>3
    <2>2. IsFiniteSet(Writers(t)) /\ Cardinality(Writers(t)) <= delivered[t]
      BY <1>0, <1>5 DEF WritersCounted
    <2> HIDE DEF A
    <2>3. IsFiniteSet(A) /\ Cardinality(A) <= Cardinality(Writers(t))
      BY <2>1, <2>2, FS_Subset
    <2>4. Cardinality(A) \in Nat /\ Cardinality(Writers(t)) \in Nat
      BY <2>2, <2>3, FS_CardinalityType
    <2>5. delivered[t] \in 0 .. MaxDelivery /\ MaxDelivery \in Nat
      BY <1>0, <1>5, UseCasesAssumption DEF UseCasesAssumption, IInv, TypeOK
    <2>6. Cardinality(A) <= MaxDelivery
      BY <2>2, <2>3, <2>4, <2>5
    <2> QED BY <2>6 DEF A
  <1>6. rows' = Append(rows, [by |-> h, path |-> p, task |-> t, status |-> "PENDING"])
        /\ UNCHANGED <<handled, audited>>
    BY DEF Create, Row
  <1>7. [q \in Path |-> LimitOf(q)][p] = LimitOf(p)
    BY <1>1
  <1> HIDE DEF p, t, h
  <1>8. Ledger!Write(a, p, t)
    <2>1. /\ Ledger!Cardinality(Ledger!RowsBy(Ledger!Current(a))) < [q \in Path |-> LimitOf(q)][p]
          /\ \A r \in Ledger!RowsBy(Ledger!Current(a)) :
               r \in audited /\ rows[r].path = p /\ rows[r].task = t
      BY <1>2, <1>3, <1>4, <1>7, SameCardinality
    <2>2. t \in Message =>
            Ledger!Cardinality(Ledger!WritersAbout(t) \cup {Ledger!Current(a)})
              <= MaxDelivery
      BY <1>2, <1>5, SameCardinality
    <2>3. rows' = Append(rows, [by |-> Ledger!Current(a), path |-> p, task |-> t,
                                status |-> "PENDING"])
      BY <1>2, <1>6
    <2> QED BY <1>6, <2>1, <2>2, <2>3 DEF Ledger!Write
  <1> QED BY <1>8 DEF p, t

LEMMA LedgerStep ==
  ASSUME LedgerInv, [Next]_vars
  PROVE  [Ledger!Next]_(Ledger!vars)
  <1>0. IInv /\ TypeOK /\ DeliveriesLeft
    BY DEF LedgerInv, IInv
  <1>1. ASSUME UNCHANGED <<handled, rows, audited>> PROVE UNCHANGED Ledger!vars
    BY <1>1 DEF Ledger!vars
  <1>2. ASSUME NEW a \in Actor, Create(a) PROVE Ledger!Next
    <2>1. work[a] \in InHand
      BY <1>0, <1>2 DEF Create, Idle, TypeOK
    <2>2. work[a].path \in DOMAIN [q \in Path |-> LimitOf(q)]
          /\ work[a].task \in Message \cup Student
      BY <2>1 DEF InHand
    <2> QED BY <1>2, <2>2, CreateIsWriting DEF Ledger!Next
  <1>3. ASSUME NEW a \in Actor, Audit(a) PROVE Ledger!Enter(a)
    <2>1. Mine(a) \ audited = {work[a].row}
      BY <1>0, <1>3 DEF IInv, HandlingsInStep, InStep, Audit, Idle
    <2>2. Ledger!RowsBy(Ledger!Current(a)) = Mine(a)
      BY DEF Ledger!Current, Ledger!RowsBy, Handling, Mine, RowsOf
    <2> QED BY <1>3, <2>1, <2>2 DEF Audit, Ledger!Enter
  <1>4. ASSUME NEW a \in Actor, Begins(a) \/ Schedules(a) PROVE Ledger!Begin(a)
    BY <1>4 DEF Begins, Schedules, Ledger!Begin
  <1>5. ASSUME NEW a \in Actor, StepOf(a) PROVE [Ledger!Next]_(Ledger!vars)
    <2>1. CASE \/ Ends(a) \/ Search(a) \/ GoesOn(a)
               \/ \E o \in Offer : (Trying(a, o) /\ Skip(a, o)) \/ Validate(a, o) \/ UseEvent(a, o)
      BY <1>1, <2>1 DEF Ends, Search, GoesOn, Skip, Validate, UseEvent
    <2> QED BY <1>2, <1>3, <1>4, <1>5, <2>1 DEF StepOf, Ledger!Next
  <1>6. ASSUME NEW r \in DOMAIN rows, Resolve(r) PROVE Ledger!Resolve(r)
    BY <1>6 DEF Resolve, Ledger!Resolve
  <1>7. CASE Rests
    BY <1>1, <1>7 DEF Rests
  <1> QED BY <1>0, <1>5, <1>6, <1>7, StepCases DEF Ledger!Next

\* Handlers, consumer and scan implement the ledger for any number of them,
\* any limits and any number of deliveries; an event that is delivered again
\* and again has suggestions from at most that many handlings.
THEOREM HandlersRefine == Spec => WritesALedger
  <1>1. Init => Ledger!Init
    BY DEF Init, Ledger!Init
  <1>2. LedgerInv /\ [Next]_vars => [Ledger!Next]_(Ledger!vars)
    BY LedgerStep
  <1> QED BY <1>1, <1>2, LedgerInvariant, PTL DEF Spec, Ledger!Spec, WritesALedger
=============================================================================
