------------------------- MODULE SuggestionLifecycle -------------------------
(***************************************************************************)
(* The suggestion lifecycle of the API: apps/api/src/suggestions.          *)
(*                                                                         *)
(* Several HTTP requests run at once, in one Node process or in several    *)
(* replicas.  Each await is a point where any other request, the expiry    *)
(* cron or a crash can come in between, so every stretch of code between   *)
(* two awaits that matter is one action here.  Approving reads the row,    *)
(* asks FSP, writes row and audit entry in a second transaction and then   *)
(* publishes; rejecting reads and writes inside one READ COMMITTED         *)
(* transaction, which still lets another commit fall between its read and  *)
(* its unconditional update.                                               *)
(*                                                                         *)
(* A single request is a bulk request with a list of one id: the loops of  *)
(* bulkApproveSuggestions and bulkRejectSuggestions call the single        *)
(* operations one after the other and turn an exception into a "failed"    *)
(* line, which is what the HTTP error is to a single request.              *)
(***************************************************************************)
EXTENDS Naturals, Sequences, FiniteSets

CONSTANTS
  Suggestion,   \* ids of suggestion rows
  Call,         \* HTTP requests, each served once
  Operator,     \* tenants
  OwnerOf,      \* OwnerOf[s]: the row's operatorId column
  Expiring,     \* the rows that have an expiresAt
  IdLists,      \* the lists of ids a request may carry
  MaxIds,       \* bound on their length (the code has none)
  MaxInFlight   \* how many requests are served at the same time

ASSUME LifecycleAssumption ==
  /\ OwnerOf \in [Suggestion -> Operator]
  /\ Expiring \subseteq Suggestion
  /\ IdLists \subseteq Seq(Suggestion)
  /\ MaxIds \in Nat /\ \A l \in IdLists : Len(l) <= MaxIds
  /\ MaxInFlight \in Nat \ {0}

VARIABLES
  status,        \* the row's status column; "ABSENT" before the insert
  resolution,    \* correlation id behind the row's resolvedBy/resolvedAt
  overdue,       \* rows whose expiresAt lies in the past
  audit,         \* audit_log entries of this service
  outbox,        \* messages the suggestion-results queue has accepted
  stage,         \* where each request stands
  kind,          \* "create", "approve" or "reject"
  tenant,        \* the operator the auth guard resolved for the request
  ids,           \* the ids the request carries
  report,        \* per id handled so far: did the operation succeed?
  validated,     \* history: correlation ids FSP answered "valid" to
  decidedBefore  \* history: rows already resolved when the request arrived

rowVars == <<status, resolution>>
request == <<kind, tenant, ids>>
callVars == <<request, decidedBefore>>
vars == <<status, resolution, overdue, audit, outbox, stage, kind, tenant,
          ids, report, validated, decidedBefore>>

Kind == {"create", "approve", "reject"}
Busy == {"loading", "validating", "persisting", "publishing"}
Stage == Busy \cup {"idle", "answered", "crashed"}
Status == {"ABSENT", "PENDING", "APPROVED", "REJECTED", "EXPIRED"}
Resolved == {"APPROVED", "REJECTED", "EXPIRED"}
Correlation == Call \X (1 .. MaxIds)
Unresolved == <<>>   \* resolvedBy is null

ActionOf(k) == CASE k = "create"  -> "suggestion.created"
                 [] k = "approve" -> "suggestion.approved"
                 [] k = "reject"  -> "suggestion.rejected"
Action == {ActionOf(k) : k \in Kind}
AuditEntry == [action : Action, suggestion : Suggestion, by : Correlation]
Message == [suggestion : Suggestion, by : Correlation]

\* The id a request is working on, and the correlation id of that work: every
\* call of createSuggestion, approveSuggestion and rejectSuggestion draws its
\* own randomUUID.
Item(c) == ids[c][Len(report[c]) + 1]
CorrelationId(c) == <<c, Len(report[c]) + 1>>
Entry(c) == [action |-> ActionOf(kind[c]), suggestion |-> Item(c),
             by |-> CorrelationId(c)]

Init ==
  /\ status = [s \in Suggestion |-> "ABSENT"]
  /\ resolution = [s \in Suggestion |-> Unresolved]
  /\ overdue = {}
  /\ audit = {}
  /\ outbox = {}
  /\ stage = [c \in Call |-> "idle"]
  /\ kind \in [Call -> Kind]
  /\ tenant \in [Call -> Operator]
  /\ ids \in {f \in [Call -> IdLists] :
               \A c \in Call : kind[c] = "create" => Len(f[c]) = 1}
  /\ report = [c \in Call |-> <<>>]
  /\ validated = {}
  /\ decidedBefore = [c \in Call |-> {}]

-----------------------------------------------------------------------------
(* Requests                                                                *)

InFlight == {c \in Call : stage[c] \in Busy}

\* Mutation: an id that failed is tried again instead of being skipped.
ConcludeRetrying(c, ok) ==
  /\ report' = IF ok THEN [report EXCEPT ![c] = Append(@, ok)] ELSE report
  /\ stage' = [stage EXCEPT ![c] = IF ok /\ Len(report[c]) + 1 = Len(ids[c])
                                   THEN "answered" ELSE "loading"]

\* The id is dealt with: on to the next one, or the response is sent.
Conclude(c, ok) ==
  /\ report' = [report EXCEPT ![c] = Append(@, ok)]
  /\ stage' = [stage EXCEPT ![c] = IF Len(report[c]) + 1 = Len(ids[c])
                                   THEN "answered" ELSE "loading"]

\* The auth guard has resolved the tenant and the controller is entered.  An
\* empty bulk request is answered at once.
Receive(c) ==
  /\ stage[c] = "idle"
  /\ Cardinality(InFlight) < MaxInFlight
  /\ stage' = [stage EXCEPT ![c] = IF ids[c] = <<>> THEN "answered"
                                                   ELSE "loading"]
  /\ decidedBefore' = [decidedBefore EXCEPT
                         ![c] = {s \in Suggestion : status[s] \in Resolved}]
  /\ UNCHANGED <<rowVars, overdue, audit, outbox, request, report, validated>>

\* createSuggestion: the row and its audit entry in one transaction.
Create(c) ==
  /\ stage[c] = "loading" /\ kind[c] = "create"
  /\ status[Item(c)] = "ABSENT" /\ OwnerOf[Item(c)] = tenant[c]
  /\ status' = [status EXCEPT ![Item(c)] = "PENDING"]
  /\ audit' = audit \cup {Entry(c)}
  /\ Conclude(c, TRUE)
  /\ UNCHANGED <<resolution, overdue, outbox, callVars, validated>>

\* Mutation: the PENDING guard is missing.
DecidableInAnyStatus(c) == OwnerOf[Item(c)] = tenant[c] /\ status[Item(c)] # "ABSENT"

\* findFirst is scoped by the tenant and the guard wants PENDING.
Decidable(c) == OwnerOf[Item(c)] = tenant[c] /\ status[Item(c)] = "PENDING"

\* Mutation: the FSP validation is skipped.
LoadWithoutValidation(c) ==
  /\ stage[c] = "loading" /\ kind[c] # "create"
  /\ Decidable(c)
  /\ stage' = [stage EXCEPT ![c] = "persisting"]
  /\ UNCHANGED <<rowVars, overdue, audit, outbox, callVars, report, validated>>

Load(c) ==
  /\ stage[c] = "loading" /\ kind[c] # "create"
  /\ Decidable(c)
  /\ stage' = [stage EXCEPT ![c] = IF kind[c] = "approve"
                                   THEN "validating" ELSE "persisting"]
  /\ UNCHANGED <<rowVars, overdue, audit, outbox, callVars, report, validated>>

\* NotFoundException or ConflictException.
Refuse(c) ==
  /\ stage[c] = "loading" /\ kind[c] # "create"
  /\ ~Decidable(c)
  /\ Conclude(c, FALSE)
  /\ UNCHANGED <<rowVars, overdue, audit, outbox, callVars, validated>>

\* FSP validateOnly accepts the stored payload.
FspAccepts(c) ==
  /\ stage[c] = "validating"
  /\ stage' = [stage EXCEPT ![c] = "persisting"]
  /\ validated' = validated \cup {CorrelationId(c)}
  /\ UNCHANGED <<rowVars, overdue, audit, outbox, callVars, report>>

\* FSP answers with errors, or the client gave up: 409, the row stays as it is.
FspDeclines(c) ==
  /\ stage[c] = "validating"
  /\ Conclude(c, FALSE)
  /\ UNCHANGED <<rowVars, overdue, audit, outbox, callVars, validated>>

\* The deciding transaction: update by id alone, audit entry, commit.
Persist(c) ==
  /\ stage[c] = "persisting"
  /\ status' = [status EXCEPT ![Item(c)] = IF kind[c] = "approve"
                                           THEN "APPROVED" ELSE "REJECTED"]
  /\ resolution' = [resolution EXCEPT ![Item(c)] = CorrelationId(c)]
  /\ audit' = audit \cup {Entry(c)}
  /\ IF kind[c] = "approve"
     THEN /\ stage' = [stage EXCEPT ![c] = "publishing"]
          /\ UNCHANGED report
     ELSE Conclude(c, TRUE)
  /\ UNCHANGED <<overdue, outbox, callVars, validated>>

\* A read or a transaction fails and is rolled back.
DatabaseFails(c) ==
  /\ stage[c] \in {"loading", "persisting"}
  /\ Conclude(c, FALSE)
  /\ UNCHANGED <<rowVars, overdue, audit, outbox, callVars, validated>>

\* The broker accepts the SuggestionResultMessage.
Publish(c) ==
  /\ stage[c] = "publishing"
  /\ outbox' = outbox \cup {[suggestion |-> Item(c), by |-> CorrelationId(c)]}
  /\ Conclude(c, TRUE)
  /\ UNCHANGED <<rowVars, overdue, audit, callVars, validated>>

\* Mutation: the exception of sendMessages is swallowed.
PublishFailsSilently(c) ==
  /\ stage[c] = "publishing"
  /\ Conclude(c, TRUE)
  /\ UNCHANGED <<rowVars, overdue, audit, outbox, callVars, validated>>

\* sendMessages rejects: the exception reaches the caller, the row stays
\* APPROVED and no later request gets past the PENDING guard.
PublishFails(c) ==
  /\ stage[c] = "publishing"
  /\ Conclude(c, FALSE)
  /\ UNCHANGED <<rowVars, overdue, audit, outbox, callVars, validated>>

\* The replica serving the request dies; what is committed stays.
Crash(c) ==
  /\ stage[c] \in Busy
  /\ stage' = [stage EXCEPT ![c] = "crashed"]
  /\ UNCHANGED <<rowVars, overdue, audit, outbox, callVars, report, validated>>

-----------------------------------------------------------------------------
(* The rest of the system                                                  *)

\* A use-case handler of the worker inserts a row straight into the table.
WorkerCreates(s) ==
  /\ status[s] = "ABSENT"
  /\ status' = [status EXCEPT ![s] = "PENDING"]
  /\ UNCHANGED <<resolution, overdue, audit, outbox, stage, callVars, report,
                 validated>>

\* Time passes the row's expiresAt.
ComeDue(s) ==
  /\ s \in Expiring \ overdue
  /\ status[s] # "ABSENT"
  /\ overdue' = overdue \cup {s}
  /\ UNCHANGED <<rowVars, audit, outbox, stage, callVars, report, validated>>

\* Mutation: the updateMany forgets to ask for PENDING.
ExpirableInAnyStatus == {s \in overdue : status[s] # "EXPIRED"}

\* Mutation: expiresAt is compared the wrong way round.
ExpirableTooSoon == {s \in Expiring \ overdue : status[s] = "PENDING"}

\* What the updateMany of the cron selects.
Expirable == {s \in overdue : status[s] = "PENDING"}

ExpireSuggestions ==
  /\ Expirable # {}
  /\ status' = [s \in Suggestion |-> IF s \in Expirable THEN "EXPIRED"
                                                        ELSE status[s]]
  /\ UNCHANGED <<resolution, overdue, audit, outbox, stage, callVars, report,
                 validated>>

Step(c) ==
  \/ Create(c) \/ Load(c) \/ Refuse(c) \/ FspAccepts(c) \/ FspDeclines(c)
  \/ Persist(c) \/ DatabaseFails(c) \/ Publish(c) \/ PublishFails(c)

Next ==
  \/ \E c \in Call : Receive(c) \/ Step(c) \/ Crash(c)
  \/ \E s \in Suggestion : WorkerCreates(s) \/ ComeDue(s)
  \/ ExpireSuggestions

Spec == Init /\ [][Next]_vars

\* Every await of a request settles (FSP, database and broker answer or the
\* connection breaks; retries are bounded) and the cron keeps firing.
Fairness ==
  /\ \A c \in Call : WF_vars(Step(c))
  /\ WF_vars(ExpireSuggestions)

FairSpec == Spec /\ Fairness

-----------------------------------------------------------------------------
(* What is true of it                                                      *)

\* The state has the shape the tables, the queue and the requests have.
TypeOK ==
  /\ status \in [Suggestion -> Status]
  /\ resolution \in [Suggestion -> Correlation \cup {Unresolved}]
  /\ overdue \subseteq Suggestion
  /\ audit \subseteq AuditEntry
  /\ outbox \subseteq Message
  /\ stage \in [Call -> Stage]
  /\ kind \in [Call -> Kind]
  /\ tenant \in [Call -> Operator]
  /\ ids \in [Call -> Seq(Suggestion)]
  /\ report \in [Call -> Seq(BOOLEAN)]
  /\ validated \subseteq Correlation
  /\ decidedBefore \in [Call -> SUBSET Suggestion]
  /\ \A c \in Call : stage[c] \in Busy => Len(report[c]) < Len(ids[c])

Decisions == {e \in audit : e.action # "suggestion.created"}

\* The row and the audit trail tell the same story although approving,
\* rejecting and expiring race: a row shows APPROVED or REJECTED exactly when
\* somebody decided it, and then resolvedBy names a decision of that kind.
RowAgreesWithAudit ==
  \A s \in Suggestion :
    IF status[s] \in {"APPROVED", "REJECTED"}
    THEN [action |-> IF status[s] = "APPROVED" THEN "suggestion.approved"
                                              ELSE "suggestion.rejected",
          suggestion |-> s, by |-> resolution[s]] \in audit
    ELSE \A e \in Decisions : e.suggestion # s

\* What the worker is told to execute has been approved, by the very
\* operation that sent the message, and FSP had validated it for that
\* operation: no message overtakes or outlives a transaction that failed.
HandedOverWasApproved ==
  \A m \in outbox :
    /\ [action |-> "suggestion.approved", suggestion |-> m.suggestion,
        by |-> m.by] \in audit
    /\ m.by \in validated

\* A request that arrives after a row was resolved never decides that row,
\* whatever is still in flight: a retry of a decided suggestion gets its 409.
LateRequestsDecideNothing ==
  \A e \in Decisions : e.suggestion \notin decidedBefore[e.by[1]]

\* No operation touches a row of another tenant, although the deciding
\* updates select by id alone.
TenantsStayApart ==
  \A e \in audit : OwnerOf[e.suggestion] = tenant[e.by[1]]

\* An id the response lists as succeeded has its audit entry, and an approved
\* one has been handed to the worker.
SuccessIsReal ==
  \A c \in Call : \A i \in DOMAIN report[c] : report[c][i] =>
    /\ [action |-> ActionOf(kind[c]), suggestion |-> ids[c][i],
        by |-> <<c, i>>] \in audit
    /\ kind[c] = "approve" =>
         [suggestion |-> ids[c][i], by |-> <<c, i>>] \in outbox

\* Every request that was received is answered, unless its replica crashes:
\* one failing id does not stop the rest of a bulk request.
RequestsEnd ==
  \A c \in Call :
    stage[c] = "loading" ~> stage[c] \in {"answered", "crashed"}

\* A pending row whose expiresAt has passed does not stay pending.
OverdueIsResolved ==
  \A s \in Suggestion :
    (s \in overdue /\ status[s] = "PENDING") ~> status[s] \in Resolved

\* The requests, their transactions and their messages implement the promise
\* of SuggestionDecisions: one decision and at most one message per operation,
\* in that order, and no expiry of a decided row.
Promise == INSTANCE SuggestionDecisions WITH decisions <- Decisions,
                                             handed <- outbox
ImplementsDecisions == Promise!Spec

-----------------------------------------------------------------------------
(* What the documentation says of it                                       *)

Documented == INSTANCE SuggestionStateMachine

\* PENDING is left once.  True while requests are served one at a time and
\* nothing expires; a read that is stale when the update runs breaks it.
DocumentedStateMachine == Documented!Spec
=============================================================================
