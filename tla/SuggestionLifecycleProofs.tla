---------------------- MODULE SuggestionLifecycleProofs ----------------------
(***************************************************************************)
(* Safety of the suggestion lifecycle for any number of rows, requests,    *)
(* tenants and replicas.                                                   *)
(*                                                                         *)
(* The properties are not inductive: they speak of rows, audit trail and   *)
(* queue, and a request in the middle of its work knows things they do not *)
(* mention.  PastTheGuard records that knowledge per stage.                *)
(***************************************************************************)
EXTENDS SuggestionLifecycle, TLAPS

\* What holds of a request by the stage it has reached.
PastTheGuard ==
  \A c \in Call :
    /\ stage[c] = "idle" => report[c] = <<>>
    /\ stage[c] = "validating" => kind[c] = "approve"
    /\ stage[c] \in {"validating", "persisting", "publishing"} =>
         /\ kind[c] # "create"
         /\ Item(c) \notin decidedBefore[c]
         /\ OwnerOf[Item(c)] = tenant[c]
         /\ status[Item(c)] # "ABSENT"
    /\ stage[c] \in {"persisting", "publishing"} /\ kind[c] = "approve" =>
         CorrelationId(c) \in validated
    /\ stage[c] = "publishing" => kind[c] = "approve" /\ Entry(c) \in audit

\* A row resolved when a request arrived is still resolved.
ResolvedStaysResolved ==
  \A c \in Call : \A s \in decidedBefore[c] : status[s] \in Resolved

\* An audit entry belongs to an operation its request has got to, and a message
\* to one it is done with.
EntryIsPast(e) ==
  /\ stage[e.by[1]] # "idle"
  /\ \/ e.by[2] <= Len(report[e.by[1]])
     \/ /\ e.by[2] = Len(report[e.by[1]]) + 1
        /\ stage[e.by[1]] \in {"publishing", "crashed"}
EntriesArePast ==
  /\ \A e \in audit : EntryIsPast(e)
  /\ \A m \in outbox : m.by[2] <= Len(report[m.by[1]])

ShortLists == \A c \in Call : Len(ids[c]) <= MaxIds /\ Len(report[c]) <= Len(ids[c])

IInv ==
  /\ TypeOK /\ ShortLists
  /\ PastTheGuard /\ ResolvedStaysResolved /\ EntriesArePast
  /\ RowAgreesWithAudit /\ HandedOverWasApproved /\ LateRequestsDecideNothing
  /\ TenantsStayApart /\ SuccessIsReal

-----------------------------------------------------------------------------
(* What Conclude does, for the actions that end the work on one id.        *)

\* Concluding the work on an id appends one answer and leaves every other
\* request alone.
LEMMA ConcludeEffect ==
  ASSUME TypeOK, ShortLists, NEW c \in Call, stage[c] \in Busy,
         NEW ok \in BOOLEAN, Conclude(c, ok), UNCHANGED ids
  PROVE  /\ report' \in [Call -> Seq(BOOLEAN)]
         /\ Len(report'[c]) = Len(report[c]) + 1
         /\ Len(report'[c]) <= Len(ids[c])
         /\ \A i \in 1 .. Len(report[c]) : report'[c][i] = report[c][i]
         /\ report'[c][Len(report[c]) + 1] = ok
         /\ stage' \in [Call -> Stage]
         /\ stage'[c] \in {"answered", "loading"}
         /\ stage'[c] = "loading" => Len(report'[c]) < Len(ids[c])
         /\ \A d \in Call \ {c} : report'[d] = report[d] /\ stage'[d] = stage[d]
<1>1. /\ report[c] \in Seq(BOOLEAN) /\ ids[c] \in Seq(Suggestion)
      /\ Len(report[c]) \in Nat /\ Len(ids[c]) \in Nat
      /\ Len(report[c]) < Len(ids[c])
  BY DEF TypeOK
<1>2. report'[c] = Append(report[c], ok)
  BY DEF Conclude, TypeOK
<1>3. stage'[c] = IF Len(report[c]) + 1 = Len(ids[c]) THEN "answered" ELSE "loading"
  BY DEF Conclude, TypeOK
<1>4. \A d \in Call \ {c} : report'[d] = report[d] /\ stage'[d] = stage[d]
  BY DEF Conclude, TypeOK
<1>5. report' \in [Call -> Seq(BOOLEAN)] /\ stage' \in [Call -> Stage]
  BY <1>1 DEF Conclude, TypeOK, Stage, Busy
<1>6. QED
  BY <1>1, <1>2, <1>3, <1>4, <1>5

\* Audit entries and messages name a request and a position.
LEMMA EntryShape ==
  ASSUME TypeOK
  PROVE  /\ \A e \in audit : e.by \in Correlation /\ e.by[1] \in Call /\ e.by[2] \in Nat
         /\ \A m \in outbox : m.by \in Correlation /\ m.by[1] \in Call /\ m.by[2] \in Nat
BY LifecycleAssumption DEF TypeOK, AuditEntry, Message, Correlation

\* The audit entry a working request would write is well formed, and no entry
\* carries its correlation id before it has decided.
LEMMA EntryTyped ==
  ASSUME TypeOK, ShortLists, NEW c \in Call, stage[c] \in Busy
  PROVE  /\ Len(report[c]) \in Nat
         /\ Item(c) \in Suggestion
         /\ CorrelationId(c) \in Correlation
         /\ Entry(c) \in AuditEntry
         /\ Entry(c).suggestion = Item(c) /\ Entry(c).by = CorrelationId(c)
         /\ Entry(c).action = ActionOf(kind[c])
<1>1. /\ Len(report[c]) \in Nat /\ Len(ids[c]) \in Nat /\ Len(report[c]) < Len(ids[c])
      /\ Len(ids[c]) <= MaxIds /\ ids[c] \in Seq(Suggestion) /\ kind[c] \in Kind
  BY DEF TypeOK, ShortLists
<1>2. Item(c) \in Suggestion
  BY <1>1 DEF Item
<1>3. CorrelationId(c) \in Correlation
  BY <1>1, LifecycleAssumption DEF CorrelationId, Correlation
<1>4. ActionOf(kind[c]) \in Action
  BY <1>1 DEF Action
<1>5. QED
  BY <1>1, <1>2, <1>3, <1>4 DEF Entry, AuditEntry

\* A success that leaves its entry, and an approval that leaves its message,
\* keeps the responses honest.
LEMMA SuccessStep ==
  ASSUME TypeOK, ShortLists, SuccessIsReal, NEW c \in Call, stage[c] \in Busy,
         Conclude(c, TRUE), UNCHANGED <<kind, ids>>,
         audit \subseteq audit', outbox \subseteq outbox', Entry(c) \in audit',
         kind[c] = "approve" =>
           [suggestion |-> Item(c), by |-> CorrelationId(c)] \in outbox'
  PROVE  SuccessIsReal'
<1>1. /\ report' \in [Call -> Seq(BOOLEAN)]
      /\ Len(report'[c]) = Len(report[c]) + 1
      /\ \A i \in 1 .. Len(report[c]) : report'[c][i] = report[c][i]
      /\ \A d \in Call \ {c} : report'[d] = report[d]
  BY ConcludeEffect
<1>2. SUFFICES ASSUME NEW d \in Call, NEW i \in DOMAIN report'[d], report'[d][i]
               PROVE  /\ [action |-> ActionOf(kind[d]), suggestion |-> ids[d][i],
                          by |-> <<d, i>>] \in audit'
                      /\ kind[d] = "approve" =>
                           [suggestion |-> ids[d][i], by |-> <<d, i>>] \in outbox'
  BY DEF SuccessIsReal
<1>3. /\ DOMAIN report[d] = 1 .. Len(report[d]) /\ DOMAIN report'[d] = 1 .. Len(report'[d])
      /\ Len(report[d]) \in Nat
  BY <1>1 DEF TypeOK
<1>4. CASE i \in DOMAIN report[d]
  BY <1>1, <1>2, <1>3, <1>4 DEF SuccessIsReal
<1>5. CASE i \notin DOMAIN report[d]
  <2>1. d = c /\ i = Len(report[c]) + 1
    BY <1>1, <1>2, <1>3, <1>5, SMTT(30)
  <2>2. QED
    BY <2>1 DEF Entry, Item, CorrelationId
<1>6. QED
  BY <1>4, <1>5

\* The requests are where they were, but for one that concluded an id and is
\* done with whatever it knew.
LEMMA OthersKeepTheirPlace ==
  ASSUME TypeOK, ShortLists, PastTheGuard, NEW c \in Call, stage[c] \in Busy,
         NEW ok \in BOOLEAN, Conclude(c, ok), UNCHANGED <<callVars, validated>>,
         audit \subseteq audit',
         \A s \in Suggestion : status[s] # "ABSENT" => status'[s] # "ABSENT"
  PROVE  PastTheGuard'
<1> USE DEF callVars, request
<1>1. /\ stage'[c] \in {"answered", "loading"}
      /\ \A d \in Call \ {c} : report'[d] = report[d] /\ stage'[d] = stage[d]
  BY ConcludeEffect
<1>2. SUFFICES ASSUME NEW d \in Call PROVE PastTheGuard!(d)'
  BY DEF PastTheGuard
<1>3. CASE d = c
  BY <1>1, <1>3
<1>4. CASE d # c
  <2>1. stage[d] \in {"validating", "persisting", "publishing"} => Item(d) \in Suggestion
    BY EntryTyped DEF Busy
  <2>2. QED
    BY <1>1, <1>4, <2>1, SMTT(30) DEF PastTheGuard, Item, CorrelationId, Entry
<1>5. QED
  BY <1>3, <1>4

\* Concluding puts the entry and the message of the id into the past.
LEMMA ConcludedIsPast ==
  ASSUME TypeOK, ShortLists, EntriesArePast, NEW c \in Call, stage[c] \in Busy,
         NEW ok \in BOOLEAN, Conclude(c, ok), UNCHANGED ids,
         audit' \subseteq audit \cup {Entry(c)},
         outbox' \subseteq outbox \cup {[suggestion |-> Item(c), by |-> CorrelationId(c)]}
  PROVE  EntriesArePast'
<1>1. /\ report' \in [Call -> Seq(BOOLEAN)]
      /\ Len(report'[c]) = Len(report[c]) + 1
      /\ stage'[c] \in {"answered", "loading"}
      /\ \A d \in Call \ {c} : report'[d] = report[d] /\ stage'[d] = stage[d]
  BY ConcludeEffect
<1>2. \A d \in Call : Len(report[d]) \in Nat
  BY DEF TypeOK
<1>3. ASSUME NEW e \in audit' PROVE EntryIsPast(e)'
  <2>1. CASE e \in audit /\ e.by[1] # c
    BY <1>1, <1>2, <2>1, EntryShape DEF EntriesArePast, EntryIsPast
  <2>2. CASE e \in audit /\ e.by[1] = c
    BY <1>1, <1>2, <2>2, EntryShape DEF EntriesArePast, EntryIsPast
  <2>3. CASE e = Entry(c)
    <3>1. e.by = <<c, Len(report[c]) + 1>>
      BY <2>3, EntryTyped DEF CorrelationId
    <3>2. QED
      BY <1>1, <1>2, <3>1 DEF EntryIsPast
  <2>4. QED
    BY <2>1, <2>2, <2>3
<1>4. ASSUME NEW m \in outbox' PROVE m.by[2] <= Len(report'[m.by[1]])
  <2>1. CASE m \in outbox
    BY <1>1, <1>2, <2>1, EntryShape, SMTT(30) DEF EntriesArePast
  <2>2. CASE m = [suggestion |-> Item(c), by |-> CorrelationId(c)]
    BY <1>1, <1>2, <2>2 DEF CorrelationId
  <2>3. QED
    BY <2>1, <2>2
<1>5. QED
  BY <1>3, <1>4 DEF EntriesArePast

-----------------------------------------------------------------------------
(* The steps that write nothing but the request's own place.               *)

\* An operation that fails leaves rows, audit trail and queue as they are.
LEMMA FailureStep ==
  ASSUME IInv, NEW c \in Call, stage[c] \in Busy, Conclude(c, FALSE),
         UNCHANGED <<rowVars, overdue, audit, outbox, callVars, validated>>
  PROVE  IInv'
<1> USE DEF rowVars, callVars, request
<1>0. TypeOK /\ ShortLists
  BY DEF IInv
<1>1. /\ report' \in [Call -> Seq(BOOLEAN)]
      /\ Len(report'[c]) = Len(report[c]) + 1
      /\ Len(report'[c]) <= Len(ids[c])
      /\ \A i \in 1 .. Len(report[c]) : report'[c][i] = report[c][i]
      /\ report'[c][Len(report[c]) + 1] = FALSE
      /\ stage' \in [Call -> Stage]
      /\ stage'[c] \in {"answered", "loading"}
      /\ stage'[c] = "loading" => Len(report'[c]) < Len(ids[c])
      /\ \A d \in Call \ {c} : report'[d] = report[d] /\ stage'[d] = stage[d]
  BY <1>0, ConcludeEffect
<1>2. \A d \in Call : Len(report[d]) \in Nat /\ Len(report'[d]) \in Nat
  BY <1>0, <1>1 DEF TypeOK
<1>3. TypeOK'
  BY <1>0, <1>1 DEF TypeOK, Busy
<1>4. ShortLists'
  BY <1>0, <1>1 DEF ShortLists
<1>5. PastTheGuard'
  BY <1>0, OthersKeepTheirPlace DEF IInv
<1>6. ResolvedStaysResolved'
  BY DEF IInv, ResolvedStaysResolved
<1>7. EntriesArePast'
  BY <1>0, ConcludedIsPast DEF IInv
<1>8. RowAgreesWithAudit' /\ HandedOverWasApproved' /\ TenantsStayApart'
      /\ LateRequestsDecideNothing'
  BY DEF IInv, RowAgreesWithAudit, HandedOverWasApproved, TenantsStayApart,
         LateRequestsDecideNothing, Decisions
<1>9. SuccessIsReal'
  <2>1. SUFFICES ASSUME NEW d \in Call, NEW i \in DOMAIN report'[d], report'[d][i]
                 PROVE  SuccessIsReal!(d)!(i)!2
    BY DEF SuccessIsReal
  <2>2. /\ DOMAIN report[d] = 1 .. Len(report[d])
        /\ DOMAIN report'[d] = 1 .. Len(report'[d])
    BY <1>0, <1>1 DEF TypeOK
  <2>3. i \in DOMAIN report[d] /\ report[d][i]
    BY <1>1, <1>2, <2>1, <2>2, SMTT(30)
  <2>4. QED
    BY <2>3 DEF IInv, SuccessIsReal
<1>10. QED
  BY <1>3, <1>4, <1>5, <1>6, <1>7, <1>8, <1>9 DEF IInv

\* A request arrives: nothing is on record for it yet.
LEMMA ReceiveStep == ASSUME IInv, NEW c \in Call, Receive(c) PROVE IInv'
<1> USE DEF rowVars, callVars, request
<1>0. /\ TypeOK /\ ShortLists /\ stage[c] = "idle" /\ report[c] = <<>>
      /\ UNCHANGED <<status, resolution, overdue, audit, outbox, kind, tenant,
                     ids, report, validated>>
  BY DEF IInv, PastTheGuard, Receive
<1>1. /\ stage' = [stage EXCEPT ![c] = IF ids[c] = <<>> THEN "answered" ELSE "loading"]
      /\ decidedBefore' = [decidedBefore EXCEPT
                             ![c] = {s \in Suggestion : status[s] \in Resolved}]
  BY DEF Receive
<1>2. \A d \in Call \ {c} : stage'[d] = stage[d] /\ decidedBefore'[d] = decidedBefore[d]
  BY <1>0, <1>1 DEF TypeOK
<1>3. stage'[c] = "loading" => Len(report[c]) < Len(ids[c])
  <2>1. ids[c] # <<>> => Len(ids[c]) > 0
    BY <1>0 DEF TypeOK
  <2>2. QED
    BY <1>0, <1>1, <2>1 DEF TypeOK
<1>4. stage'[c] \in {"answered", "loading"}
  BY <1>0, <1>1 DEF TypeOK
<1>5. TypeOK'
  <2>1. stage' \in [Call -> Stage] /\ decidedBefore' \in [Call -> SUBSET Suggestion]
    BY <1>0, <1>1 DEF TypeOK, Stage, Busy
  <2>2. \A d \in Call : stage'[d] \in Busy => Len(report[d]) < Len(ids[d])
    BY <1>0, <1>2, <1>3, <1>4 DEF TypeOK, Busy
  <2>3. QED
    BY <1>0, <2>1, <2>2 DEF TypeOK
<1>6. ShortLists'
  BY <1>0 DEF ShortLists
<1>7. PastTheGuard'
  <2>1. SUFFICES ASSUME NEW d \in Call PROVE PastTheGuard!(d)'
    BY DEF PastTheGuard
  <2>2. CASE d = c
    BY <1>4, <2>2
  <2>3. CASE d # c
    BY <1>0, <1>2, <2>3 DEF IInv, PastTheGuard, Item, CorrelationId, Entry
  <2>4. QED
    BY <2>2, <2>3
<1>8. ResolvedStaysResolved'
  BY <1>0, <1>1, <1>2 DEF IInv, ResolvedStaysResolved, TypeOK
<1>9. \A e \in audit : e.by[1] \in Call \ {c}
  <2>1. ASSUME NEW e \in audit PROVE e.by[1] \in Call /\ stage[e.by[1]] # "idle"
    BY <1>0, EntryShape DEF IInv, EntriesArePast, EntryIsPast
  <2>2. QED
    BY <1>0, <2>1
<1>10. EntriesArePast'
  BY <1>0, <1>2, <1>9 DEF IInv, EntriesArePast, EntryIsPast
<1>11. LateRequestsDecideNothing'
  BY <1>0, <1>2, <1>9 DEF IInv, LateRequestsDecideNothing, Decisions
<1>12. RowAgreesWithAudit' /\ HandedOverWasApproved' /\ TenantsStayApart' /\ SuccessIsReal'
  BY <1>0 DEF IInv, RowAgreesWithAudit, HandedOverWasApproved, TenantsStayApart,
              SuccessIsReal, Decisions
<1>13. QED
  BY <1>5, <1>6, <1>7, <1>8, <1>10, <1>11, <1>12 DEF IInv

\* A request moves on without concluding an id or writing a row: the guard of
\* findFirst has been passed, FSP has said yes, or the replica has died.
LEMMA ProgressStep ==
  ASSUME IInv, NEW c \in Call, Load(c) \/ FspAccepts(c) \/ Crash(c) PROVE IInv'
<1> USE DEF rowVars, callVars, request
<1>0. /\ TypeOK /\ ShortLists /\ stage[c] \in Busy
      /\ UNCHANGED <<status, resolution, overdue, audit, outbox, kind, tenant,
                     ids, report, decidedBefore>>
  BY DEF IInv, Load, FspAccepts, Crash, Busy
<1>1. /\ stage' \in [Call -> Stage]
      /\ stage'[c] \in {"validating", "persisting", "crashed"}
      /\ \A d \in Call \ {c} : stage'[d] = stage[d]
  BY <1>0 DEF TypeOK, Load, FspAccepts, Crash, Stage, Busy
<1>2. Len(report[c]) \in Nat /\ Len(ids[c]) \in Nat /\ Len(report[c]) < Len(ids[c])
      /\ Len(ids[c]) <= MaxIds
  BY <1>0 DEF TypeOK, ShortLists
<1>3. CorrelationId(c) \in Correlation
  BY <1>2, LifecycleAssumption DEF CorrelationId, Correlation
<1>4. validated \subseteq validated' /\ validated' \subseteq Correlation
  BY <1>0, <1>3 DEF TypeOK, Load, FspAccepts, Crash
<1>5. TypeOK'
  BY <1>0, <1>1, <1>4 DEF TypeOK, Busy
<1>6. ShortLists'
  BY <1>0 DEF ShortLists
<1>7. PastTheGuard'
  <2>1. SUFFICES ASSUME NEW d \in Call PROVE PastTheGuard!(d)'
    BY DEF PastTheGuard
  <2>2. CASE d # c
    BY <1>0, <1>1, <1>4, <2>2 DEF IInv, PastTheGuard, Item, CorrelationId, Entry
  <2>3. CASE d = c /\ Load(c)
    <3>1. Decidable(c) /\ kind[c] # "create"
      BY <2>3 DEF Load
    <3>2. Item(c) \notin decidedBefore[c]
      BY <3>1 DEF IInv, ResolvedStaysResolved, Resolved, Decidable
    <3>3. stage'[c] = IF kind[c] = "approve" THEN "validating" ELSE "persisting"
      BY <1>0, <2>3 DEF Load, TypeOK
    <3>4. QED
      BY <1>0, <2>3, <3>1, <3>2, <3>3 DEF Decidable, Item
  <2>4. CASE d = c /\ FspAccepts(c)
    <3>1. stage[c] = "validating" /\ stage'[c] = "persisting" /\ CorrelationId(c) \in validated'
      BY <1>0, <2>4 DEF FspAccepts, TypeOK
    <3>2. QED
      BY <1>0, <2>4, <3>1 DEF IInv, PastTheGuard, Item, CorrelationId
  <2>5. CASE d = c /\ Crash(c)
    <3>1. stage'[c] = "crashed"
      BY <1>0, <2>5 DEF Crash, TypeOK
    <3>2. QED
      BY <2>5, <3>1
  <2>6. QED
    BY <2>2, <2>3, <2>4, <2>5
<1>8. EntriesArePast'
  <2>1. ASSUME NEW e \in audit PROVE EntryIsPast(e)'
    <3>1. e.by[1] \in Call /\ EntryIsPast(e)
      BY <1>0, EntryShape DEF IInv, EntriesArePast
    <3>2. CASE e.by[1] # c
      BY <1>0, <1>1, <3>1, <3>2 DEF EntryIsPast
    <3>3. CASE e.by[1] = c /\ stage[c] = "publishing"
      BY <1>0, <1>1, <3>1, <3>3 DEF EntryIsPast, Load, FspAccepts, Crash, TypeOK
    <3>4. CASE e.by[1] = c /\ stage[c] # "publishing"
      BY <1>0, <1>1, <3>1, <3>4 DEF EntryIsPast, Busy
    <3>5. QED
      BY <3>2, <3>3, <3>4
  <2>2. QED
    BY <1>0, <2>1 DEF IInv, EntriesArePast
<1>9. ResolvedStaysResolved' /\ RowAgreesWithAudit' /\ HandedOverWasApproved'
      /\ LateRequestsDecideNothing' /\ TenantsStayApart' /\ SuccessIsReal'
  BY <1>0, <1>4 DEF IInv, ResolvedStaysResolved, RowAgreesWithAudit, HandedOverWasApproved,
     LateRequestsDecideNothing, TenantsStayApart, SuccessIsReal, Decisions
<1>10. QED
  BY <1>5, <1>6, <1>7, <1>8, <1>9 DEF IInv

-----------------------------------------------------------------------------
(* The steps that write.                                                   *)

\* createSuggestion: a new PENDING row nobody has decided.
LEMMA CreateStep == ASSUME IInv, NEW c \in Call, Create(c) PROVE IInv'
<1> USE DEF rowVars, callVars, request
<1>0. /\ TypeOK /\ ShortLists /\ stage[c] \in Busy /\ Conclude(c, TRUE)
      /\ kind[c] = "create" /\ OwnerOf[Item(c)] = tenant[c] /\ status[Item(c)] = "ABSENT"
      /\ status' = [status EXCEPT ![Item(c)] = "PENDING"]
      /\ audit' = audit \cup {Entry(c)}
      /\ UNCHANGED <<resolution, overdue, outbox, kind, tenant, ids, validated,
                     decidedBefore>>
  BY DEF IInv, Create, Busy
<1>1. /\ Item(c) \in Suggestion /\ Entry(c) \in AuditEntry
      /\ Entry(c).suggestion = Item(c) /\ Entry(c).by = CorrelationId(c)
      /\ Entry(c).action = "suggestion.created"
  BY <1>0, EntryTyped DEF ActionOf
<1>2. TypeOK' /\ ShortLists'
  <2>1. /\ report' \in [Call -> Seq(BOOLEAN)] /\ stage' \in [Call -> Stage]
        /\ Len(report'[c]) <= Len(ids[c])
        /\ stage'[c] \in {"answered", "loading"}
        /\ stage'[c] = "loading" => Len(report'[c]) < Len(ids[c])
        /\ \A d \in Call \ {c} : report'[d] = report[d] /\ stage'[d] = stage[d]
    BY <1>0, ConcludeEffect
  <2>2. QED
    BY <1>0, <1>1, <2>1 DEF TypeOK, ShortLists, Status, Busy
<1>3. PastTheGuard'
  BY <1>0, <1>1, OthersKeepTheirPlace DEF IInv, TypeOK
<1>4. EntriesArePast'
  BY <1>0, ConcludedIsPast DEF IInv
<1>5. SuccessIsReal'
  BY <1>0, SuccessStep DEF IInv
<1>6. Decisions' = Decisions
  BY <1>0, <1>1 DEF Decisions
<1>7. ResolvedStaysResolved' /\ LateRequestsDecideNothing' /\ HandedOverWasApproved'
  BY <1>0, <1>1, <1>6 DEF IInv, ResolvedStaysResolved, LateRequestsDecideNothing,
     HandedOverWasApproved, Resolved, TypeOK
<1>8. RowAgreesWithAudit'
  <2>1. ASSUME NEW s \in Suggestion PROVE RowAgreesWithAudit!(s)'
    <3>1. CASE s = Item(c)
      BY <1>0, <1>1, <1>6, <3>1 DEF IInv, RowAgreesWithAudit, TypeOK
    <3>2. CASE s # Item(c)
      BY <1>0, <1>1, <1>6, <3>2 DEF IInv, RowAgreesWithAudit, TypeOK
    <3>3. QED
      BY <3>1, <3>2
  <2>2. QED
    BY <2>1 DEF RowAgreesWithAudit
<1>9. TenantsStayApart'
  BY <1>0, <1>1 DEF IInv, TenantsStayApart, CorrelationId
<1>10. QED
  BY <1>2, <1>3, <1>4, <1>5, <1>7, <1>8, <1>9 DEF IInv

\* The deciding transaction, on whatever the row has become meanwhile.
LEMMA PersistStep == ASSUME IInv, NEW c \in Call, Persist(c) PROVE IInv'
<1> USE DEF rowVars, callVars, request
<1> DEFINE verdict == IF kind[c] = "approve" THEN "APPROVED" ELSE "REJECTED"
<1>0. /\ TypeOK /\ ShortLists /\ stage[c] = "persisting" /\ stage[c] \in Busy
      /\ kind[c] \in {"approve", "reject"}
      /\ status' = [status EXCEPT ![Item(c)] = verdict]
      /\ resolution' = [resolution EXCEPT ![Item(c)] = CorrelationId(c)]
      /\ audit' = audit \cup {Entry(c)}
      /\ UNCHANGED <<overdue, outbox, kind, tenant, ids, validated, decidedBefore>>
  BY DEF IInv, Persist, PastTheGuard, Busy, TypeOK, Kind
<1>1. /\ Item(c) \in Suggestion /\ Entry(c) \in AuditEntry
      /\ Entry(c).suggestion = Item(c) /\ Entry(c).by = CorrelationId(c)
      /\ Entry(c).action = IF kind[c] = "approve" THEN "suggestion.approved"
                                                 ELSE "suggestion.rejected"
      /\ CorrelationId(c) \in Correlation /\ Len(report[c]) \in Nat
  BY <1>0, EntryTyped DEF ActionOf
<1>2. /\ Item(c) \notin decidedBefore[c] /\ OwnerOf[Item(c)] = tenant[c]
      /\ kind[c] = "approve" => CorrelationId(c) \in validated
      /\ status[Item(c)] # "ABSENT"
  BY <1>0 DEF IInv, PastTheGuard
<1>3. ASSUME kind[c] = "reject"
      PROVE  TypeOK' /\ ShortLists' /\ PastTheGuard' /\ EntriesArePast' /\ SuccessIsReal'
  <2>1. Conclude(c, TRUE)
    BY <1>3 DEF Persist
  <2>2. /\ report' \in [Call -> Seq(BOOLEAN)] /\ stage' \in [Call -> Stage]
        /\ Len(report'[c]) <= Len(ids[c])
        /\ stage'[c] \in {"answered", "loading"}
        /\ stage'[c] = "loading" => Len(report'[c]) < Len(ids[c])
        /\ \A d \in Call \ {c} : report'[d] = report[d] /\ stage'[d] = stage[d]
    BY <1>0, <2>1, ConcludeEffect
  <2>3. TypeOK' /\ ShortLists'
    BY <1>0, <1>1, <2>2 DEF TypeOK, ShortLists, Status, Busy
  <2>4. PastTheGuard'
    BY <1>0, <1>1, <2>1, OthersKeepTheirPlace DEF IInv, TypeOK
  <2>5. EntriesArePast'
    BY <1>0, <2>1, ConcludedIsPast DEF IInv
  <2>6. SuccessIsReal'
    BY <1>0, <1>3, <2>1, SuccessStep DEF IInv
  <2>7. QED
    BY <2>3, <2>4, <2>5, <2>6
<1>4. ASSUME kind[c] = "approve"
      PROVE  TypeOK' /\ ShortLists' /\ PastTheGuard' /\ EntriesArePast' /\ SuccessIsReal'
  <2>1. stage' = [stage EXCEPT ![c] = "publishing"] /\ report' = report
    BY <1>4 DEF Persist
  <2>2. TypeOK' /\ ShortLists'
    BY <1>0, <1>1, <2>1 DEF TypeOK, ShortLists, Status, Stage, Busy
  <2>3. PastTheGuard'
    <3>1. SUFFICES ASSUME NEW d \in Call PROVE PastTheGuard!(d)'
      BY DEF PastTheGuard
    <3>2. CASE d = c
      BY <1>0, <1>1, <1>2, <1>4, <2>1, <3>2 DEF Item, CorrelationId, Entry, TypeOK
    <3>3. CASE d # c
      <4>1. stage[d] \in {"validating", "persisting", "publishing"} => Item(d) \in Suggestion
        BY <1>0, EntryTyped DEF Busy
      <4>2. stage'[d] = stage[d]
        BY <1>0, <2>1, <3>3 DEF TypeOK
      <4>3. QED
        BY <1>0, <1>1, <2>1, <4>1, <4>2, SMTT(30) DEF IInv, TypeOK, PastTheGuard, Item, CorrelationId, Entry
    <3>4. QED
      BY <3>2, <3>3
  <2>4. EntriesArePast'
    <3>1. ASSUME NEW e \in audit' PROVE EntryIsPast(e)'
      <4>1. CASE e \in audit
        <5>1. EntryIsPast(e) /\ e.by[1] \in Call
          BY <1>0, <4>1, EntryShape DEF IInv, EntriesArePast
        <5>2. QED
          BY <1>0, <2>1, <5>1 DEF EntryIsPast, TypeOK
      <4>2. CASE e = Entry(c)
        BY <1>0, <1>1, <2>1, <4>2 DEF EntryIsPast, CorrelationId, TypeOK
      <4>3. QED
        BY <1>0, <4>1, <4>2
    <3>2. QED
      BY <1>0, <2>1, <3>1 DEF IInv, EntriesArePast
  <2>5. SuccessIsReal'
    BY <1>0, <2>1 DEF IInv, SuccessIsReal
  <2>6. QED
    BY <2>2, <2>3, <2>4, <2>5
<1>5. /\ TypeOK' /\ ShortLists' /\ PastTheGuard' /\ EntriesArePast' /\ SuccessIsReal'
  BY <1>0, <1>3, <1>4
<1>6. Decisions' = Decisions \cup {Entry(c)}
  BY <1>0, <1>1 DEF Decisions
<1>7. ResolvedStaysResolved' /\ HandedOverWasApproved'
  BY <1>0, <1>1 DEF IInv, ResolvedStaysResolved, HandedOverWasApproved, Resolved, TypeOK
<1>8. LateRequestsDecideNothing'
  BY <1>0, <1>1, <1>2, <1>6 DEF IInv, LateRequestsDecideNothing, CorrelationId
<1>9. RowAgreesWithAudit'
  <2>1. ASSUME NEW s \in Suggestion PROVE RowAgreesWithAudit!(s)'
    <3>1. CASE s = Item(c)
      <4>1. status'[s] = verdict /\ resolution'[s] = CorrelationId(c)
        BY <1>0, <1>1, <3>1 DEF TypeOK
      <4>2. Entry(c) = [action |-> IF verdict = "APPROVED" THEN "suggestion.approved"
                                                          ELSE "suggestion.rejected",
                        suggestion |-> s, by |-> CorrelationId(c)]
        BY <1>0, <3>1 DEF Entry, ActionOf
      <4>3. QED
        BY <1>0, <4>1, <4>2
    <3>2. CASE s # Item(c)
      BY <1>0, <1>1, <1>6, <3>2 DEF IInv, RowAgreesWithAudit, TypeOK
    <3>3. QED
      BY <3>1, <3>2
  <2>2. QED
    BY <2>1 DEF RowAgreesWithAudit
<1>10. TenantsStayApart'
  BY <1>0, <1>1, <1>2 DEF IInv, TenantsStayApart, CorrelationId
<1>11. QED
  BY <1>5, <1>7, <1>8, <1>9, <1>10 DEF IInv

\* The broker takes the message of an approval on record.
LEMMA PublishStep == ASSUME IInv, NEW c \in Call, Publish(c) PROVE IInv'
<1> USE DEF rowVars, callVars, request
<1> DEFINE m == [suggestion |-> Item(c), by |-> CorrelationId(c)]
<1>0. /\ TypeOK /\ ShortLists /\ stage[c] = "publishing" /\ stage[c] \in Busy
      /\ Conclude(c, TRUE) /\ outbox' = outbox \cup {m}
      /\ UNCHANGED <<status, resolution, overdue, audit, kind, tenant, ids,
                     validated, decidedBefore>>
  BY DEF IInv, Publish, Busy
<1>1. /\ kind[c] = "approve" /\ Entry(c) \in audit /\ CorrelationId(c) \in validated
  BY <1>0 DEF IInv, PastTheGuard
<1>2. Item(c) \in Suggestion /\ m \in Message
  BY <1>0, EntryTyped DEF Message
<1>3. TypeOK' /\ ShortLists'
  <2>1. /\ report' \in [Call -> Seq(BOOLEAN)] /\ stage' \in [Call -> Stage]
        /\ Len(report'[c]) <= Len(ids[c])
        /\ stage'[c] \in {"answered", "loading"}
        /\ stage'[c] = "loading" => Len(report'[c]) < Len(ids[c])
        /\ \A d \in Call \ {c} : report'[d] = report[d] /\ stage'[d] = stage[d]
    BY <1>0, ConcludeEffect
  <2>2. QED
    BY <1>0, <1>2, <2>1 DEF TypeOK, ShortLists, Busy
<1>4. PastTheGuard'
  BY <1>0, OthersKeepTheirPlace DEF IInv
<1>5. EntriesArePast'
  BY <1>0, ConcludedIsPast DEF IInv
<1>6. SuccessIsReal'
  BY <1>0, <1>1, SuccessStep DEF IInv
<1>7. HandedOverWasApproved'
  <2>1. [action |-> "suggestion.approved", suggestion |-> m.suggestion, by |-> m.by] \in audit
    BY <1>1 DEF Entry, ActionOf
  <2>2. m.by = CorrelationId(c)
    OBVIOUS
  <2>3. HandedOverWasApproved
    BY DEF IInv
  <2> HIDE DEF m
  <2>4. QED
    BY <1>0, <1>1, <2>1, <2>2, <2>3 DEF HandedOverWasApproved
<1>8. ResolvedStaysResolved' /\ LateRequestsDecideNothing' /\ RowAgreesWithAudit' /\ TenantsStayApart'
  BY <1>0 DEF IInv, ResolvedStaysResolved, LateRequestsDecideNothing, RowAgreesWithAudit,
     TenantsStayApart, Decisions
<1>9. QED
  BY <1>3, <1>4, <1>5, <1>6, <1>7, <1>8 DEF IInv

\* Rows appear and expire behind the requests' backs: no decided row is touched.
LEMMA RowStep ==
  ASSUME IInv,
         UNCHANGED <<resolution, audit, outbox, stage, callVars, report, validated>>,
         overdue' \subseteq Suggestion, status' \in [Suggestion -> Status],
         \A s \in Suggestion : status'[s] # status[s] =>
           \/ status[s] = "ABSENT" /\ status'[s] = "PENDING"
           \/ status[s] = "PENDING" /\ status'[s] = "EXPIRED"
  PROVE  IInv'
<1> USE DEF callVars, request
<1>0. TypeOK
  BY DEF IInv
<1>1. TypeOK' /\ ShortLists'
  BY DEF IInv, TypeOK, ShortLists
<1>2. PastTheGuard'
  <2>1. SUFFICES ASSUME NEW d \in Call PROVE PastTheGuard!(d)'
    BY DEF PastTheGuard
  <2>2. stage[d] \in {"validating", "persisting", "publishing"} => Item(d) \in Suggestion
    BY EntryTyped DEF IInv, Busy
  <2>3. QED
    BY <2>2 DEF IInv, PastTheGuard, Item, CorrelationId, Entry
<1>3. ResolvedStaysResolved'
  BY <1>0 DEF IInv, ResolvedStaysResolved, Resolved, TypeOK
<1>4. RowAgreesWithAudit'
  <2>1. ASSUME NEW s \in Suggestion PROVE RowAgreesWithAudit!(s)'
    BY DEF IInv, RowAgreesWithAudit, Decisions
  <2>2. QED
    BY <2>1 DEF RowAgreesWithAudit
<1>5. EntriesArePast' /\ HandedOverWasApproved' /\ LateRequestsDecideNothing' /\ TenantsStayApart'
      /\ SuccessIsReal'
  BY DEF IInv, EntriesArePast, EntryIsPast, HandedOverWasApproved, LateRequestsDecideNothing,
         TenantsStayApart, SuccessIsReal, Decisions
<1>6. QED
  BY <1>1, <1>2, <1>3, <1>4, <1>5 DEF IInv

-----------------------------------------------------------------------------
(* The theorems.                                                           *)

LEMMA InitIInv == Init => IInv
<1> SUFFICES ASSUME Init PROVE IInv
  OBVIOUS
<1>1. TypeOK /\ ShortLists
  BY LifecycleAssumption DEF Init, TypeOK, ShortLists, Status, Stage, Busy
<1>2. QED
  BY <1>1 DEF Init, IInv, PastTheGuard, ResolvedStaysResolved, EntriesArePast,
     RowAgreesWithAudit, HandedOverWasApproved, LateRequestsDecideNothing, TenantsStayApart,
     SuccessIsReal, Decisions

LEMMA NextIInv == IInv /\ [Next]_vars => IInv'
<1> SUFFICES ASSUME IInv, [Next]_vars PROVE IInv'
  OBVIOUS
<1>1. TypeOK
  BY DEF IInv
<1>2. ASSUME NEW c \in Call, Receive(c) PROVE IInv'
  BY <1>2, ReceiveStep
<1>3. ASSUME NEW c \in Call, Load(c) \/ FspAccepts(c) \/ Crash(c) PROVE IInv'
  BY <1>3, ProgressStep
<1>4. ASSUME NEW c \in Call, Refuse(c) \/ FspDeclines(c) \/ DatabaseFails(c) \/ PublishFails(c)
      PROVE  IInv'
  BY <1>4, FailureStep DEF Refuse, FspDeclines, DatabaseFails, PublishFails, Busy
<1>5. ASSUME NEW c \in Call, Create(c) PROVE IInv'
  BY <1>5, CreateStep
<1>6. ASSUME NEW c \in Call, Persist(c) PROVE IInv'
  BY <1>6, PersistStep
<1>7. ASSUME NEW c \in Call, Publish(c) PROVE IInv'
  BY <1>7, PublishStep
<1>8. ASSUME NEW s \in Suggestion, WorkerCreates(s) \/ ComeDue(s) PROVE IInv'
  BY <1>1, <1>8, RowStep DEF WorkerCreates, ComeDue, rowVars, TypeOK, Status
<1>9. ASSUME ExpireSuggestions PROVE IInv'
  BY <1>1, <1>9, RowStep DEF ExpireSuggestions, Expirable, TypeOK, Status
<1>10. ASSUME UNCHANGED vars PROVE IInv'
  BY <1>10 DEF vars, IInv, TypeOK, ShortLists, PastTheGuard, ResolvedStaysResolved,
     EntriesArePast, EntryIsPast, RowAgreesWithAudit, HandedOverWasApproved,
     LateRequestsDecideNothing, TenantsStayApart, SuccessIsReal, Decisions, Item,
     CorrelationId, Entry
<1>11. QED
  BY <1>2, <1>3, <1>4, <1>5, <1>6, <1>7, <1>8, <1>9, <1>10 DEF Next, Step

LEMMA Invariance == Spec => []IInv
BY InitIInv, NextIInv, PTL DEF Spec

\* Tables, queue and requests always have the shape the model gives them.
THEOREM TypeCorrect == Spec => []TypeOK
<1>1. IInv => TypeOK
  BY DEF IInv
<1>2. QED
  BY <1>1, Invariance, PTL

\* Row and audit trail agree, however requests and cron interleave.
THEOREM AuditAgreement == Spec => []RowAgreesWithAudit
<1>1. IInv => RowAgreesWithAudit
  BY DEF IInv
<1>2. QED
  BY <1>1, Invariance, PTL

\* Whatever the worker is told to execute was validated and approved first.
THEOREM HandOverSafety == Spec => []HandedOverWasApproved
<1>1. IInv => HandedOverWasApproved
  BY DEF IInv
<1>2. QED
  BY <1>1, Invariance, PTL

\* A request that comes after a decision never decides the same row again.
THEOREM LateRequestSafety == Spec => []LateRequestsDecideNothing
<1>1. IInv => LateRequestsDecideNothing
  BY DEF IInv
<1>2. QED
  BY <1>1, Invariance, PTL

\* No request writes about a row of another tenant.
THEOREM TenantIsolation == Spec => []TenantsStayApart
<1>1. IInv => TenantsStayApart
  BY DEF IInv
<1>2. QED
  BY <1>1, Invariance, PTL

\* A response never claims a success that did not happen.
THEOREM HonestResponses == Spec => []SuccessIsReal
<1>1. IInv => SuccessIsReal
  BY DEF IInv
<1>2. QED
  BY <1>1, Invariance, PTL

-----------------------------------------------------------------------------
(* The promise of SuggestionDecisions.                                     *)

LEMMA InitRefines == Init => Promise!Init
BY DEF Init, Promise!Init, Decisions

LEMMA NextRefines == IInv /\ [Next]_vars => [Promise!Next]_(Promise!vars)
<1> SUFFICES ASSUME IInv, [Next]_vars PROVE [Promise!Next]_(Promise!vars)
  OBVIOUS
<1> USE DEF rowVars, callVars, request
<1>0. TypeOK /\ ShortLists
  BY DEF IInv
<1>1. ASSUME NEW c \in Call, Create(c) PROVE Promise!Next
  <2>1. /\ status[Item(c)] = "ABSENT" /\ audit' = audit \cup {Entry(c)}
        /\ status' = [status EXCEPT ![Item(c)] = "PENDING"] /\ outbox' = outbox
        /\ Item(c) \in Suggestion /\ Entry(c).action = "suggestion.created"
    BY <1>0, <1>1, EntryTyped DEF Create, Busy, ActionOf
  <2>2. Decisions' = Decisions
    BY <2>1 DEF Decisions
  <2>3. Promise!Appear(Item(c))
    BY <2>1, <2>2 DEF Promise!Appear
  <2>4. QED
    BY <2>1, <2>3 DEF Promise!Next
<1>2. ASSUME NEW c \in Call, Persist(c) PROVE Promise!Next
  <2>1. /\ stage[c] = "persisting" /\ kind[c] \in {"approve", "reject"}
        /\ status[Item(c)] # "ABSENT" /\ outbox' = outbox
        /\ audit' = audit \cup {Entry(c)}
        /\ status' = [status EXCEPT ![Item(c)] = IF kind[c] = "approve" THEN "APPROVED"
                                                                       ELSE "REJECTED"]
    BY <1>0, <1>2 DEF Persist, IInv, PastTheGuard, TypeOK, Kind
  <2>2. /\ Item(c) \in Suggestion /\ CorrelationId(c) \in Correlation
        /\ Len(report[c]) \in Nat
        /\ Entry(c).action = IF kind[c] = "approve" THEN "suggestion.approved"
                                                   ELSE "suggestion.rejected"
        /\ Entry(c) = [action |-> Entry(c).action, suggestion |-> Item(c),
                       by |-> CorrelationId(c)]
    BY <1>0, <2>1, EntryTyped DEF Busy, ActionOf, Entry
  <2>3. Decisions' = Decisions \cup {Entry(c)}
    BY <2>1, <2>2 DEF Decisions
  <2>4. ASSUME NEW e \in Decisions PROVE e.by # CorrelationId(c)
    <3>1. EntryIsPast(e) /\ e \in audit
      BY DEF IInv, EntriesArePast, Decisions
    <3>2. e.by[1] = c => e.by[2] <= Len(report[c])
      BY <2>1, <3>1 DEF EntryIsPast
    <3>3. QED
      BY <2>2, <3>2 DEF CorrelationId
  <2>5. Promise!Decide(Item(c), CorrelationId(c), Entry(c).action)
    BY <2>1, <2>2, <2>3, <2>4 DEF Promise!Decide
  <2>6. Entry(c).action \in Promise!Verdict
    BY <2>1, <2>2 DEF Promise!Verdict
  <2>7. QED
    BY <2>2, <2>5, <2>6 DEF Promise!Next
<1>3. ASSUME NEW c \in Call, Publish(c) PROVE Promise!Next
  <2>1. /\ stage[c] = "publishing" /\ kind[c] = "approve" /\ Entry(c) \in audit
        /\ outbox' = outbox \cup {[suggestion |-> Item(c), by |-> CorrelationId(c)]}
        /\ UNCHANGED <<status, audit>>
    BY <1>0, <1>3 DEF Publish, IInv, PastTheGuard
  <2>2. /\ Item(c) \in Suggestion /\ CorrelationId(c) \in Correlation
        /\ Len(report[c]) \in Nat
    BY <1>0, <2>1, EntryTyped DEF Busy
  <2>3. [action |-> "suggestion.approved", suggestion |-> Item(c), by |-> CorrelationId(c)]
          \in Decisions
    BY <2>1 DEF Decisions, Entry, ActionOf
  <2>4. ASSUME NEW m \in outbox PROVE m.by # CorrelationId(c)
    <3>1. m.by[2] <= Len(report[m.by[1]])
      BY DEF IInv, EntriesArePast
    <3>2. QED
      BY <2>2, <3>1 DEF CorrelationId
  <2>5. Promise!HandOver(Item(c), CorrelationId(c))
    BY <2>1, <2>3, <2>4 DEF Promise!HandOver, Decisions
  <2>6. QED
    BY <2>2, <2>5 DEF Promise!Next
<1>4. ASSUME NEW s \in Suggestion, WorkerCreates(s) PROVE Promise!Next
  <2>1. Promise!Appear(s)
    BY <1>4 DEF WorkerCreates, Promise!Appear, Decisions
  <2>2. QED
    BY <2>1 DEF Promise!Next
<1>5. ASSUME ExpireSuggestions PROVE Promise!Next
  <2>1. Expirable \in SUBSET {s \in Suggestion : status[s] = "PENDING"}
    BY <1>0 DEF Expirable, TypeOK
  <2>2. \A e \in Decisions : e.suggestion \notin Expirable
    BY <2>1 DEF IInv, RowAgreesWithAudit
  <2>3. Promise!Expire
    BY <1>5, <2>1, <2>2 DEF ExpireSuggestions, Promise!Expire, Decisions
  <2>4. QED
    BY <2>3 DEF Promise!Next
<1>6. ASSUME NEW c \in Call,
             \/ Receive(c) \/ Load(c) \/ Refuse(c) \/ FspAccepts(c) \/ FspDeclines(c)
             \/ DatabaseFails(c) \/ PublishFails(c) \/ Crash(c)
      PROVE  UNCHANGED Promise!vars
  BY <1>6 DEF Receive, Load, Refuse, FspAccepts, FspDeclines, DatabaseFails, PublishFails,
     Crash, Promise!vars, Decisions
<1>7. ASSUME NEW s \in Suggestion, ComeDue(s) PROVE UNCHANGED Promise!vars
  BY <1>7 DEF ComeDue, Promise!vars, Decisions
<1>8. ASSUME UNCHANGED vars PROVE UNCHANGED Promise!vars
  BY <1>8 DEF vars, Promise!vars, Decisions
<1>9. QED
  BY <1>1, <1>2, <1>3, <1>4, <1>5, <1>6, <1>7, <1>8 DEF Next, Step

\* The API implements its promise: decisions on record, at most one per
\* operation, and no message without one.
THEOREM Refinement == Spec => ImplementsDecisions
BY InitRefines, NextRefines, Invariance, PTL DEF Spec, Promise!Spec, ImplementsDecisions
=============================================================================
