-------------------------- MODULE CandidatePayload --------------------------
(***************************************************************************)
(* What one suggestion is about, from the message or list the worker found *)
(* it with, through the request FSP validated and the JSON that is stored, *)
(* to the card on the scheduler's page and the request an approval sends.  *)
(*                                                                         *)
(* A JSON object is a function on the names of its fields; one that is     *)
(* undefined is not in the domain, one that is null has the value Nil.     *)
(* FSP leaves an unknown field out rather than send an empty string.       *)
(***************************************************************************)
EXTENDS Functions

CONSTANTS
  Nil,             \* JSON's null
  Tenant,          \* fspOperatorId of the tenant, the same for all of it
  Reservations,    \* reservations whose change may be detected
  Slots,           \* slots find-a-time may return
  SolverEvents,    \* events of FSP's solver
  Pupil,           \* students and prospects
  Lesson,          \* a pupil's next lesson and the enrollment it belongs to
  Site,            \* locations of prospects and of the scanned students
  EligibleCraft,   \* discoveryEligibleAircraftIds
  EligibleTutor,   \* discoveryEligibleInstructorIds, empty for any
  HandMade         \* payloads clients of the API may post

\* A slot has both its times.  An instructor, an aircraft or a place that FSP
\* sends as null is one it leaves out: nothing that reads them tells the two
\* apart.
ASSUME PayloadAssumption ==
  /\ \A slot \in Slots : /\ {"startDateTime", "endDateTime"} \subseteq DOMAIN slot
                         /\ \A k \in DOMAIN slot : slot[k] # Nil
  /\ Nil \notin Site

VARIABLES
  stage,             \* where the suggestion is
  draft,             \* the handler's: the path, the request to FSP, the slot
                     \* the model is told of, the payload
  accepted,          \* the request FSP's validation accepted, if there was one
  candidatePayload,  \* of the row
  llmResponse,       \* of the row: the slot its rationale was written about
  approval           \* the request the latest approval sent

rowVars == <<candidatePayload, llmResponse>>
payloadVars == <<stage, draft, accepted, rowVars, approval>>

Empty == [k \in {} |-> Nil]
NoDraft == [path |-> "none", request |-> Empty, told |-> Empty, payload |-> Empty]

PayloadInit ==
  /\ stage = "none" /\ draft = NoDraft
  /\ accepted = Empty /\ approval = Empty
  /\ candidatePayload = Empty /\ llmResponse = Empty

-----------------------------------------------------------------------------
(* JSON                                                                    *)

\* The fields of both objects, the first one's where they share a name.
f ++ g == [k \in DOMAIN f \cup DOMAIN g |-> IF k \in DOMAIN f THEN f[k] ELSE g[k]]

\* The fields ks of obj that it has: ...(x ? { x } : {}).
Given(obj, ks) == Restrict(obj, ks \cap DOMAIN obj)

\* x ?? null for each of the fields ks.
OrNil(obj, ks) == [k \in ks |-> IF k \in DOMAIN obj THEN obj[k] ELSE Nil]

\* x ?? '' for one field, and for each of some.
OrBlank(obj, k) == IF k \in DOMAIN obj THEN obj[k] ELSE ""
OrBlanks(obj, ks) == [k \in ks |-> OrBlank(obj, k)]

FromTo(slot) == [slotStart |-> slot.startDateTime, slotEnd |-> slot.endDateTime]

-----------------------------------------------------------------------------
(* The request sent to FSP and the payload stored, by the five paths       *)

\* What change detection knows of a freed reservation is nested, of which the
\* waitlist handler reads nothing.
OpeningDiff(res) ==
  [freedSlot |-> Given(res, {"startDateTime", "endDateTime", "aircraftId", "instructorId"})
                   ++ OrNil(res, {"locationId"}),
   source |-> res]

WaitlistRequest(diff, student) ==
  [operatorId |-> Tenant, studentId |-> student,
   startDateTime |-> OrBlank(diff, "slotStart"), endDateTime |-> OrBlank(diff, "slotEnd")]
    ++ Given(diff, {"instructorId", "aircraftId", "locationId", "activityTypeId"})

\* The slot in the input of the rationale: of a waitlist offer ...
WaitlistTold(diff) ==
  OrBlanks(diff, {"slotStart", "slotEnd", "instructorId", "aircraftId", "locationId"})

WaitlistPayload(diff, student) ==
  [studentId |-> student,
   slotStart |-> OrBlank(diff, "slotStart"), slotEnd |-> OrBlank(diff, "slotEnd"),
   validateRequest |-> WaitlistRequest(diff, student)]
    ++ OrNil(diff, {"aircraftId", "locationId", "instructorId", "activityTypeId"})

\* Of a cancellation the student is on top, the rest under previous.
CancellationDiff(res) == [studentId |-> res.studentId, previous |-> res]

RescheduleRequest(diff, slot) ==
  [operatorId |-> Tenant, studentId |-> diff.studentId,
   startDateTime |-> slot.startDateTime, endDateTime |-> slot.endDateTime]
    ++ Given(slot, {"instructorId", "aircraftId"})
    ++ Given(diff, {"instructorId", "locationId", "activityTypeId"})

\* ... of a reschedule,
RescheduleTold(diff, slot) ==
  FromTo(slot)
    ++ OrBlanks(Given(slot, {"instructorId"}) ++ diff, {"instructorId"})
    ++ OrBlanks(slot, {"aircraftId"}) ++ OrBlanks(diff, {"locationId"})

\* Mutation: the times of the flight that was cancelled.
PayloadOfTheCancelled(diff, slot) ==
  [studentId |-> diff.studentId, slotStart |-> diff.previous.startDateTime,
   slotEnd |-> diff.previous.endDateTime, durationMinutes |-> "60",
   validateRequest |-> RescheduleRequest(diff, slot)]
    ++ OrNil(Given(slot, {"instructorId"}) ++ diff, {"instructorId"})
    ++ OrNil(slot, {"aircraftId"}) ++ OrNil(diff, {"locationId", "activityTypeId"})

\* originalStart is never given: the duration is the default one.
ReschedulePayload(diff, slot) ==
  [studentId |-> diff.studentId, durationMinutes |-> "60",
   validateRequest |-> RescheduleRequest(diff, slot)]
    ++ FromTo(slot)
    ++ OrNil(Given(slot, {"instructorId"}) ++ diff, {"instructorId"})
    ++ OrNil(slot, {"aircraftId"}) ++ OrNil(diff, {"locationId", "activityTypeId"})

\* A discovery request names the prospect and maybe a place.  FSP is not told
\* who is to fly.
DiscoveryDiff(pupil, place) == [prospectId |-> pupil] ++ place

DiscoveryRequest(diff, slot) ==
  [operatorId |-> Tenant,
   startDateTime |-> slot.startDateTime, endDateTime |-> slot.endDateTime]
    ++ Given(slot, {"instructorId", "aircraftId"}) ++ Given(diff, {"locationId"})

\* ... of a discovery flight,
DiscoveryTold(diff, slot) ==
  FromTo(slot) ++ OrBlanks(slot, {"instructorId", "aircraftId"}) ++ OrBlanks(diff, {"locationId"})

DiscoveryPayload(diff, slot) ==
  [prospectId |-> diff.prospectId, validateRequest |-> DiscoveryRequest(diff, slot)]
    ++ FromTo(slot)
    ++ OrNil(slot, {"instructorId", "aircraftId"}) ++ OrNil(diff, {"locationId"})

FitForDiscovery(slot) ==
  /\ OrBlank(slot, "aircraftId") \in EligibleCraft
  /\ EligibleTutor = {} \/ OrBlank(slot, "instructorId") \in EligibleTutor

\* Change detection says of a lesson that was completed neither whose nor
\* where; the scan knows the student and the enrollment.
CompletionParams(res) == [previous |-> res]
ScanParams(pupil, place) == [studentId |-> pupil, enrollmentId |-> Lesson[pupil].enrollment] ++ place

\* Nor is FSP told here who is to fly.
LessonRequest(params, slot) ==
  [operatorId |-> Tenant,
   startDateTime |-> slot.startDateTime, endDateTime |-> slot.endDateTime]
    ++ Given(slot, {"instructorId", "aircraftId"}) ++ Given(params, {"locationId"})

\* ... and of a lesson.
LessonTold(params, slot) ==
  FromTo(slot) ++ OrBlanks(slot, {"instructorId", "aircraftId"}) ++ OrBlanks(params, {"locationId"})

LessonPayload(params, lesson, slot) ==
  [lessonId |-> lesson, validateRequest |-> LessonRequest(params, slot)]
    ++ Given(params, {"studentId", "enrollmentId"}) ++ FromTo(slot)
    ++ OrNil(slot, {"instructorId", "aircraftId"}) ++ OrNil(params, {"locationId"})

\* An event of the solver may lack any field but its id.
AutoPayload(params, lesson, event) ==
  LET times == OrNil(event, {"startDateTime", "endDateTime"})
  IN  [lessonId |-> lesson, autoScheduleEventId |-> event.eventId]
        ++ Given(params, {"studentId", "enrollmentId"}) ++ FromTo(times)
        ++ OrNil(event, {"instructorId", "aircraftId"})

-----------------------------------------------------------------------------
(* The worker                                                              *)

\* A handler has built the request for an offer and asks FSP.
AskFsp(path, request, told, payload) ==
  /\ stage = "none"
  /\ stage' = "asked"
  /\ draft' = [path |-> path, request |-> request, told |-> told, payload |-> payload]
  /\ UNCHANGED <<accepted, rowVars, approval>>

OfferOpening ==
  \E res \in Reservations, student \in Pupil :
    LET diff == OpeningDiff(res) IN
    /\ {"aircraftId", "instructorId"} \subseteq DOMAIN res
    /\ AskFsp("waitlist", WaitlistRequest(diff, student), WaitlistTold(diff),
              WaitlistPayload(diff, student))

OfferReschedule ==
  \E res \in Reservations, slot \in Slots :
    /\ "studentId" \in DOMAIN res
    /\ LET diff == CancellationDiff(res)
       IN  AskFsp("reschedule", RescheduleRequest(diff, slot), RescheduleTold(diff, slot),
                 ReschedulePayload(diff, slot))

Places == {Empty} \cup {[locationId |-> s] : s \in Site}

OfferDiscovery ==
  \E pupil \in Pupil, place \in Places, slot \in Slots :
    LET diff == DiscoveryDiff(pupil, place) IN
    /\ FitForDiscovery(slot)
    /\ AskFsp("discovery", DiscoveryRequest(diff, slot), DiscoveryTold(diff, slot),
              DiscoveryPayload(diff, slot))

\* Of whom the next lesson is for, and of what it is: FSP's progress of the
\* enrollment, even of one that was not named, lists the lessons to come.
LessonsDue ==
  {[params |-> CompletionParams(res), lesson |-> Lesson[p].id] :
     res \in Reservations, p \in Pupil}
  \cup {[params |-> ScanParams(p, place), lesson |-> Lesson[p].id] :
     p \in Pupil, place \in Places}

OfferLesson ==
  \E due \in LessonsDue, slot \in Slots :
    AskFsp("lesson", LessonRequest(due.params, slot), LessonTold(due.params, slot),
           LessonPayload(due.params, due.lesson, slot))

\* The solver's events are stored without asking FSP.
StoreSolverEvent ==
  \E due \in LessonsDue, event \in SolverEvents :
    /\ stage = "none"
    /\ stage' = "PENDING"
    /\ draft' = [NoDraft EXCEPT !.path = "auto"]
    /\ candidatePayload' = AutoPayload(due.params, due.lesson, event)
    /\ UNCHANGED <<llmResponse, accepted, approval>>

\* validateReservation puts the operator over what the request says.
ValidateReservation(request) == [operatorId |-> Tenant] ++ request

FspAccepts ==
  /\ stage = "asked"
  /\ stage' = "accepted"
  /\ accepted' = ValidateReservation(draft.request)
  /\ UNCHANGED <<draft, rowVars, approval>>

FspRefuses ==
  /\ stage = "asked"
  /\ stage' = "none" /\ draft' = NoDraft
  /\ UNCHANGED <<accepted, rowVars, approval>>

\* After the rationale: the row is written, or it is not.
Persist ==
  /\ stage = "accepted"
  /\ stage' = "PENDING"
  /\ candidatePayload' = draft.payload /\ llmResponse' = draft.told
  /\ UNCHANGED <<draft, accepted, approval>>

PersistFails ==
  /\ stage = "accepted"
  /\ stage' = "none" /\ draft' = NoDraft /\ accepted' = Empty
  /\ UNCHANGED <<rowVars, approval>>

-----------------------------------------------------------------------------
(* The API and the page                                                    *)

\* createSuggestion stores what the client posts.
CreateSuggestion ==
  \E payload \in HandMade :
    /\ stage = "none"
    /\ stage' = "PENDING"
    /\ draft' = [NoDraft EXCEPT !.path = "client"]
    /\ candidatePayload' = payload
    /\ UNCHANGED <<llmResponse, accepted, approval>>

\* Mutation: the payload's own operator wins.
ForwardAsIs(payload) == payload ++ [operatorId |-> Tenant]

\* approveSuggestion takes the whole payload for a request.
ApprovalRequest(payload) == ValidateReservation(payload)

\* FSP accepts it - the rest is in SuggestionLifecycle - or the row stays.
Approve ==
  /\ stage = "PENDING"
  /\ approval' = ApprovalRequest(candidatePayload)
  /\ stage' \in {"PENDING", "APPROVED"}
  /\ UNCHANGED <<draft, accepted, rowVars>>

\* What the card says: the slot's start and, by names no payload has, who and
\* what; the rationale is stored as plain text but read as JSON.
CardOf(payload) ==
  LET Said(k) == IF k \in DOMAIN payload /\ payload[k] \notin {"", Nil}
                   THEN payload[k] ELSE "Unknown"
  IN  [start |-> Said("slotStart"), student |-> Said("studentFirstName"),
       instructor |-> Said("instructorName"), aircraft |-> Said("aircraftTail"),
       location |-> Said("locationName")]

PayloadNext ==
  \/ OfferOpening \/ OfferReschedule \/ OfferDiscovery \/ OfferLesson
  \/ StoreSolverEvent \/ FspAccepts \/ FspRefuses \/ Persist \/ PersistFails
  \/ CreateSuggestion \/ Approve

PayloadSpec == PayloadInit /\ [][PayloadNext]_payloadVars

-----------------------------------------------------------------------------
(* What is true of it                                                      *)

\* The times of an offer, to compare them by.
Times(request) == Given(request, {"startDateTime", "endDateTime"})

\* What a scheduler decides about is what FSP accepted: the card's start and
\* the stored end, instructor, aircraft, place and student are those of the
\* accepted request, which is stored too, and the rationale was written about
\* the same slot.  An opening that was detected shows
\* no start, as FSP was asked for none.  And whatever a payload says, FSP is
\* asked in the name of the tenant alone.
CardSaysWhatFspAccepted ==
  /\ stage \in {"PENDING", "APPROVED"} /\ accepted # Empty =>
       /\ CardOf(candidatePayload).start =
            (IF accepted.startDateTime = "" THEN "Unknown" ELSE accepted.startDateTime)
       /\ candidatePayload.slotEnd = accepted.endDateTime
       /\ \A k \in {"instructorId", "aircraftId", "locationId", "studentId"} \cap DOMAIN accepted :
            candidatePayload[k] = accepted[k]
       /\ candidatePayload.validateRequest = accepted
       /\ \A k \in DOMAIN llmResponse :
            llmResponse[k] = (IF candidatePayload[k] = Nil THEN "" ELSE candidatePayload[k])
  /\ approval # Empty => approval.operatorId = Tenant

\* Claimed by the product document (an approval validates the reservation one
\* final time, with the payload stored at generation), and refuted: an approval
\* asks FSP about a reservation with neither start nor end, also of an offer
\* that has both.
ApprovalValidatesTheOffer ==
  accepted # Empty /\ approval # Empty =>
    accepted.startDateTime = "" \/ Times(approval) = Times(accepted)
=============================================================================
