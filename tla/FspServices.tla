---------------------------- MODULE FspServices ----------------------------
(***************************************************************************)
(* The service classes of packages/fsp-client: what each method asks of    *)
(* FSP, what becomes of the request when FSP or the network fails, and     *)
(* what the caller is told.                                                *)
(*                                                                         *)
(* One call at a time: FspHttpClient has the pause and the calls beside    *)
(* it.  Paths, parameters and payloads are left out but for the operator   *)
(* a request is about; a method is what its verb makes of it, and whether  *)
(* FSP changes anything when it carries it out.                            *)
(***************************************************************************)
EXTENDS Integers

CONSTANTS FspOperator,  \* tenants, as FSP numbers them
          FspRetries    \* FSP_MAX_RETRIES

ASSUME RetriesAssumption == FspRetries \in Nat

NoCall == [none |-> TRUE]

VARIABLES
  fspCall,  \* the call being made: service, method, operator and request
  tries,    \* attempts FSP has answered, or not
  heard,    \* its last answer
  effects,  \* history: how often FSP has changed something for this call
  blamed,   \* history: how many of those attempts FSP called its own failure
  told      \* the ServiceResult, once there is one

fspVars == <<fspCall, tries, heard, effects, blamed, told>>

-----------------------------------------------------------------------------
(* What the methods ask                                                    *)

Asks(verb, changes, names) ==
  [verb |-> verb, changes |-> changes, names |-> names]

Reads == Asks("get", FALSE, "path")
Queries == Asks("post", FALSE, "path")
Creates == Asks("post", TRUE, "path")
Replaces == Asks("put", TRUE, "path")
Removes == Asks("delete", TRUE, "path")
SignsIn == Asks("post", TRUE, "nobody")

AuthService ==
  [authenticate |-> SignsIn, verifyMfa |-> SignsIn, refreshSession |-> SignsIn,
   logout |-> SignsIn]

OperatorsService ==
  [listOperators |-> Asks("get", FALSE, "nobody"), getOperator |-> Reads,
   listUsers |-> Reads, getPermissions |-> Reads]

LocationsService == [listLocations |-> Reads, getLocation |-> Reads]
InstructorsService == [listInstructors |-> Reads]
ActivityTypesService == [listActivityTypes |-> Reads]
SchedulingGroupsService == [listSchedulingGroups |-> Reads]
SchedulableEventsService == [getSchedulableEvents |-> Reads]
CivilTwilightService == [getCivilTwilight |-> Reads]
WeatherService == [getMetar |-> Reads, getTaf |-> Reads]

AircraftService ==
  [listAircraft |-> Reads, getAircraftTimes |-> Reads, getSquawks |-> Reads,
   getMaintenanceReminders |-> Reads]

ScheduleService ==
  [getSchedule |-> Reads, getDisplayHours |-> Reads, getFilters |-> Reads,
   getCancellationReasons |-> Reads]

StudentsService ==
  [searchStudents |-> Reads, listStudents |-> Reads, getDropdownItems |-> Reads,
   getStudentById |-> Reads, getTrainingAlerts |-> Reads]

AvailabilityService ==
  [getUserAvailability |-> Reads, getBatchAvailability |-> Queries,
   getAvailabilityWithOverrides |-> Reads,
   checkReservationAvailability |-> Queries, addOverride |-> Creates,
   updateOverride |-> Replaces, deleteOverride |-> Removes]

AutoScheduleService ==
  [getSettings |-> Reads, updateSettings |-> Replaces, execute |-> Creates,
   submitFeedback |-> Creates]

FindATimeService ==
  [getPreferences |-> Reads, updatePreferences |-> Replaces,
   getAvailableSlots |-> Queries]

\* The V2 endpoints have no operator in their path.
ReservationsService ==
  [createReservation |-> Asks("post", TRUE, "body"),
   validateReservation |-> Asks("post", FALSE, "body"),
   getReservation |-> Reads, getReservationsForPerson |-> Reads,
   updateReservation |-> Replaces, deleteReservation |-> Removes,
   listReservations |-> Queries, checkAvailableTimes |-> Queries,
   checkAvailability |-> Queries, getAircraftOptions |-> Queries]

BatchReservationsService ==
  [publishBatch |-> Creates, getBatchProgress |-> Reads]

EnrollmentService ==
  [getEnrollments |-> Reads, getEnrollmentDetails |-> Reads,
   getProgress |-> Reads, updateProgress |-> Replaces, getHistory |-> Reads,
   getTrainingSessions |-> Reads,
   getStudentProgressReport |-> Reads, getCheckrideScores |-> Reads,
   getKnowledgeTests |-> Reads]

FlightAlertsService ==
  [listAlerts |-> Reads, createAlert |-> Creates, updateAlert |-> Replaces,
   completeAlert |-> Creates, getOverdueAlerts |-> Reads,
   getAlertsByAircraft |-> Reads, getAlertsByType |-> Reads]

\* The module gives each service one of its three clients.
AuthClient == [Auth |-> AuthService, Operators |-> OperatorsService]
CurriculumClient == [Enrollment |-> EnrollmentService]
CoreClient ==
  [Locations |-> LocationsService, Aircraft |-> AircraftService,
   Instructors |-> InstructorsService, ActivityTypes |-> ActivityTypesService,
   SchedulingGroups |-> SchedulingGroupsService,
   Availability |-> AvailabilityService, Schedule |-> ScheduleService,
   SchedulableEvents |-> SchedulableEventsService,
   AutoSchedule |-> AutoScheduleService, FindATime |-> FindATimeService,
   Reservations |-> ReservationsService,
   BatchReservations |-> BatchReservationsService, Students |-> StudentsService,
   Weather |-> WeatherService, CivilTwilight |-> CivilTwilightService,
   FlightAlerts |-> FlightAlertsService]

ClientWith(service) ==
  CHOOSE client \in {AuthClient, CurriculumClient, CoreClient} :
    service \in DOMAIN client

Services ==
  UNION {DOMAIN client : client \in {AuthClient, CurriculumClient, CoreClient}}

-----------------------------------------------------------------------------
(* What FSP answers                                                        *)

ErrorCode == {"429", "other"}
NoCode == "none"

ErrorBody ==
  [listed : {TRUE}, codes : SUBSET ErrorCode, message : BOOLEAN]
    \cup [listed : {FALSE}, codes : {{}}, message : BOOLEAN]
Blank == [listed |-> FALSE, codes |-> {}, message |-> FALSE]

\* Status 0 stands for no response, however far the request got.
FspAnswers ==
  [status : {0, 200}, body : {Blank}]
    \cup [status : {400, 429, 503}, body : ErrorBody]

\* A success is carried out, a refusal is not; of a server's failure and of
\* silence nobody knows.
MayHaveChanged(answer) ==
  IF answer.status \in {0, 503} THEN BOOLEAN ELSE {answer.status = 200}

-----------------------------------------------------------------------------
(* What is made of it                                                      *)

\* A list of errors is taken, its message is not looked at then; an empty
\* list, or none, is no error at all.
ExtractFspErrors(body) ==
  IF body.listed THEN body.codes ELSE IF body.message THEN {NoCode} ELSE {}

\* Mutation: silence is taken for a failure of the server.
RetriedWhenSilent(answer) == answer.status \in {0, 429, 503}

Retried(answer) == answer.status = 429 \/ answer.status >= 500

\* The error for an exhausted 429 is no FspApiError and has no errors in it.
Thrown(answer) ==
  IF answer.status = 429
    THEN [name |-> "FspRateLimitError", fspErrors |-> {}]
    ELSE [name |-> "FspApiError", fspErrors |-> ExtractFspErrors(answer.body)]

BuildError(err) ==
  [success |-> FALSE,
   fspErrors |-> IF err.name = "FspApiError" THEN err.fspErrors ELSE {}]

Done == [success |-> TRUE, fspErrors |-> {}]

\* What the poll consumer takes for a rate limit.
Is429Error(result) == ~ result.success /\ "429" \in result.fspErrors

-----------------------------------------------------------------------------

FspInit ==
  /\ fspCall = NoCall /\ tries = 0 /\ heard = NoCall
  /\ effects = 0 /\ blamed = 0
  /\ told = NoCall

\* A reservation request carries an operator of its own, the argument is laid
\* over it.
OverRequest(request, operator) == [request EXCEPT !.operatorId = operator]

AboutOperator(way, request, operator) ==
  IF way.names = "nobody" THEN "nobody"
  ELSE IF way.names = "body" THEN OverRequest(request, operator).operatorId
  ELSE operator

CallFsp(s, m, operator, request) ==
  LET way == ClientWith(s)[s][m]
  IN  /\ fspCall = NoCall
      /\ fspCall' = [service |-> s, method |-> m, verb |-> way.verb,
                   changes |-> way.changes, meant |-> operator,
                   about |-> AboutOperator(way, request, operator)]
      /\ UNCHANGED <<tries, heard, effects, blamed, told>>

\* FSP gets an attempt, or does not, and answers.  A PUT or a DELETE that comes
\* twice leaves what one leaves.
AttemptFsp(answer, changed) ==
  /\ fspCall # NoCall /\ told = NoCall
  /\ tries' = tries + 1
  /\ heard' = answer
  /\ effects' = IF ~ (changed /\ fspCall.changes) THEN effects
                ELSE IF fspCall.verb = "post" THEN effects + 1 ELSE 1
  /\ blamed' = IF changed /\ answer.status = 503 THEN blamed + 1 ELSE blamed
  /\ told' = IF answer.status = 200 THEN Done
             ELSE IF Retried(answer) /\ tries < FspRetries THEN told
             ELSE BuildError(Thrown(answer))
  /\ UNCHANGED fspCall

FspServicesNext ==
  \/ \E s \in Services : \E m \in DOMAIN ClientWith(s)[s] :
       \E operator \in FspOperator, request \in [operatorId : FspOperator] :
         CallFsp(s, m, operator, request)
  \/ \E answer \in FspAnswers : \E changed \in MayHaveChanged(answer) :
       AttemptFsp(answer, changed)

FspServicesSpec == FspInit /\ [][FspServicesNext]_fspVars

-----------------------------------------------------------------------------
(* What is true of it                                                      *)

\* Attempts stay within their budget, and there is a result only of a call.
FspTypeOK ==
  /\ fspCall = NoCall \/ fspCall.service \in Services
  /\ tries \in 0 .. FspRetries + 1
  /\ heard = NoCall \/ heard \in FspAnswers
  /\ effects \in 0 .. tries /\ blamed \in 0 .. tries
  /\ told # NoCall => tries > 0 /\ told.success \in BOOLEAN

\* A write FSP has carried out is sent again only after FSP itself called the
\* attempt failed, never after silence and never after a refusal; success is
\* reported of what was carried out; what a method asks is about the operator
\* it was called for, whatever the request says; and the poll consumer takes
\* for a rate limit only what FSP's last answer calls one.
CallsAreAccounted ==
  /\ effects <= blamed + 1
  /\ told # NoCall =>
       /\ told.success /\ fspCall.changes => effects > 0
       /\ Is429Error(told) => "429" \in heard.body.codes
  /\ fspCall # NoCall => fspCall.about \in {fspCall.meant, "nobody"}
=============================================================================
