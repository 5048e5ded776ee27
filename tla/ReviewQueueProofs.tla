------------------------- MODULE ReviewQueueProofs -------------------------
(***************************************************************************)
(* What the approval queue page never does, for any number of suggestions, *)
(* requests and lists on their way.                                        *)
(***************************************************************************)
EXTENDS ReviewQueue, TLAPS

\* A decision on one card that was answered well has settled that card.
SingleDecided ==
  \A r \in Request : call[r].op \in Single =>
    /\ call[r].pc = "sent" => \E c \in Card : call[r].ids = {c}
    /\ call[r].pc = "done" => \A c \in call[r].ids : status[c] = "RESOLVED"

\* The card an open modal will reject is the one it was opened for, unless
\* the end of another rejection made the page forget it.
ModalKnows == rejectModalOpen => rejectingId \in {modalFor, None}

IInv == TypeOK /\ SingleDecided /\ ModalKnows

-----------------------------------------------------------------------------
(* Types                                                                   *)

Calls == [pc : {"new", "sent", "done", "failed", "reloading", "refreshing", "over"},
          op : Single \cup Bulk, ids : SUBSET Card, mine : SUBSET Card, view : Filter]
Loads == [pc : {"free", "answered"}, items : Shown, for : Request \cup {None}]

LEMMA ListIsShown == ASSUME NEW view, TypeOK PROVE ListSuggestions(view) \in Shown
  <1> DEFINE S == {d \in Card : status[d] # "none" /\ (view = "ALL" \/ status[d] = view)}
  <1>1. ListSuggestions(view) \in [S -> Status \ {"none"}]
    BY DEF ListSuggestions, TypeOK
  <1>2. S \in SUBSET Card
    OBVIOUS
  <1> QED BY <1>1, <1>2 DEF Shown

LEMMA FewerAreShown ==
  ASSUME NEW list \in Shown, NEW gone
  PROVE  [c \in DOMAIN list \ gone |-> list[c]] \in Shown
  <1>1. PICK S \in SUBSET Card : list \in [S -> Status \ {"none"}]
    BY DEF Shown
  <1>2. [c \in DOMAIN list \ gone |-> list[c]] \in [S \ gone -> Status \ {"none"}]
    BY <1>1
  <1>3. S \ gone \in SUBSET Card
    OBVIOUS
  <1> QED BY <1>2, <1>3 DEF Shown

LEMMA ShownCards == ASSUME NEW list \in Shown PROVE DOMAIN list \subseteq Card
  BY DEF Shown

LEMMA NothingIsShown == NoItems \in Shown
  <1>1. NoItems \in [{} -> Status \ {"none"}]
    BY DEF NoItems
  <1>2. {} \in SUBSET Card
    OBVIOUS
  <1> QED BY <1>1, <1>2 DEF Shown

LEMMA FreshRecords ==
  /\ NoCall \in Calls /\ [NoCall EXCEPT !.pc = "over"] \in Calls /\ FreeLoad \in Loads
  BY NothingIsShown DEF NoCall, FreeLoad, Calls, Loads, Single, Bulk, Filter

LEMMA LoadTyped ==
  ASSUME TypeOK, NEW view \in Filter, NEW r \in Request \cup {None}, LoadSuggestions(view, r)
  PROVE  load' \in [Load -> Loads]
  <1>1. PICK l \in Load : load' = [load EXCEPT ![l] =
          [pc |-> "answered", items |-> ListSuggestions(view), for |-> r]]
    BY DEF LoadSuggestions
  <1>2. [pc |-> "answered", items |-> ListSuggestions(view), for |-> r] \in Loads
    BY ListIsShown DEF Loads
  <1> QED BY <1>1, <1>2 DEF TypeOK, Loads

LEMMA ConcludeTyped ==
  ASSUME TypeOK, NEW r \in Request, Conclude(r)
  PROVE  /\ call' \in [Request -> Calls] /\ updatingIds' \subseteq Card
         /\ rejectingId' \in Card \cup {None}
  <1>1. call \in [Request -> Calls] /\ call[r].mine \subseteq Card
    BY DEF TypeOK, Calls
  <1>2. call' \in [Request -> Calls]
    BY <1>1, FreshRecords DEF Conclude
  <1> QED BY <1>1, <1>2 DEF Conclude, TypeOK

LEMMA SendTyped ==
  ASSUME TypeOK, NEW r \in Request, NEW op \in Single \cup Bulk, NEW ids \in SUBSET Card,
         NEW marks \in SUBSET Card, Send(r, op, ids, marks)
  PROVE  call' \in [Request -> Calls] /\ overlapped' \in BOOLEAN
  <1>1. [pc |-> "sent", op |-> op, ids |-> ids, mine |-> marks, view |-> filter] \in Calls
    BY DEF Calls, TypeOK
  <1> QED BY <1>1 DEF Send, TypeOK, Calls

LEMMA MovesOn ==
  ASSUME TypeOK, NEW r \in Request,
         NEW pc \in {"new", "sent", "done", "failed", "reloading", "refreshing", "over"},
         call' = [call EXCEPT ![r].pc = pc]
  PROVE  call' \in [Request -> Calls]
  <1>1. call[r] \in Calls
    BY DEF TypeOK, Calls
  <1>2. [call[r] EXCEPT !.pc = pc] \in Calls
    BY <1>1 DEF Calls
  <1> QED BY <1>2 DEF TypeOK, Calls

LEMMA TypeInit == Init => TypeOK
  <1> SUFFICES ASSUME Init PROVE TypeOK
    OBVIOUS
  <1>1. call \in [Request -> Calls]
    BY FreshRecords DEF Init
  <1>2. load \in [Load -> Loads]
    BY FreshRecords DEF Init
  <1>3. status \in [Card -> Status] /\ filter \in Filter
    BY DEF Init, Status, Filter
  <1> QED BY <1>1, <1>2, <1>3, NothingIsShown DEF Init, TypeOK, Calls, Loads

LEMMA TypeNext == ASSUME TypeOK, [Next]_vars PROVE TypeOK'
  <1> USE DEF page, bar
  <1>1. CASE UNCHANGED vars
    BY <1>1 DEF vars, TypeOK
  <1>2. CASE Poll
    BY <1>2, LoadTyped DEF Poll, TypeOK, Loads
  <1>3. ASSUME NEW c \in Card, Arrive(c) \/ DecidedElsewhere(c) PROVE TypeOK'
    BY <1>3 DEF Arrive, DecidedElsewhere, TypeOK, Status
  <1>4. ASSUME NEW c \in Card, HandleRejectClick(c) \/ HandleToggleSelect(c) PROVE TypeOK'
    BY <1>4 DEF HandleRejectClick, HandleToggleSelect, TypeOK
  <1>5. ASSUME NEW l \in Load, ShowList(l) \/ LoadFails(l) PROVE TypeOK'
    <2>1. load[l] \in Loads
      BY DEF TypeOK, Loads
    <2>2. load' \in [Load -> Loads]
      BY <1>5, FreshRecords DEF ShowList, LoadFails, Loaded, TypeOK, Loads
    <2>3. suggestions' \in Shown
      BY <1>5, <2>1 DEF ShowList, LoadFails, TypeOK, Loads
    <2>4. /\ call' \in [Request -> Calls] /\ updatingIds' \subseteq Card
          /\ rejectingId' \in Card \cup {None}
      <3>1. CASE load[l].for = None
        BY <1>5, <3>1 DEF ShowList, LoadFails, Loaded, TypeOK, Calls
      <3>2. CASE load[l].for # None
        BY <1>5, <2>1, <3>2, ConcludeTyped DEF ShowList, LoadFails, Loaded, Loads
      <3> QED BY <3>1, <3>2
    <2> QED BY <1>5, <2>2, <2>3, <2>4
            DEF ShowList, LoadFails, Loaded, TypeOK, Calls, Loads
  <1>6. ASSUME NEW r \in Request, Serve(r) PROVE TypeOK'
    <2>1. call' \in [Request -> Calls]
      BY <1>6, MovesOn DEF Serve
    <2>2. status' \in [Card -> Status]
      BY <1>6 DEF Serve, TypeOK, Status
    <2> QED BY <1>6, <2>1, <2>2 DEF Serve, TypeOK, Calls
  <1>7. ASSUME NEW r \in Request, Decided(r) PROVE TypeOK'
    <2>1. suggestions' \in Shown
      BY <1>7, FewerAreShown DEF Decided, TypeOK
    <2> QED BY <1>7, <2>1, ConcludeTyped DEF Decided, TypeOK, Calls
  <1>8. ASSUME NEW r \in Request, Refused(r) PROVE TypeOK'
    <2>1. call[r].view \in Filter
      BY DEF TypeOK
    <2> QED BY <1>8, <2>1, MovesOn, LoadTyped DEF Refused, TypeOK, Calls, Loads
  <1>9. ASSUME NEW r \in Request, BulkDone(r) PROVE TypeOK'
    BY <1>9, MovesOn DEF BulkDone, TypeOK, Calls
  <1>10. ASSUME NEW r \in Request, BulkFailed(r) PROVE TypeOK'
    BY <1>10, FreshRecords DEF BulkFailed, TypeOK, Calls
  <1>11. ASSUME NEW r \in Request, HandleBulkActionComplete(r) PROVE TypeOK'
    <2>1. call[r].view \in Filter
      BY DEF TypeOK
    <2> QED BY <1>11, <2>1, FreshRecords, LoadTyped
            DEF HandleBulkActionComplete, TypeOK, Calls, Loads
  <1>12. ASSUME NEW r \in Request, NEW c \in Card, HandleApprove(r, c) PROVE TypeOK'
    <2>1. updatingIds \cup {c} \in SUBSET Card /\ {c} \in SUBSET Card /\ "approve" \in Single
      BY DEF TypeOK, Single
    <2> QED BY <1>12, <2>1, SendTyped DEF HandleApprove, TypeOK, Calls
  <1>13. ASSUME NEW r \in Request, HandleRejectConfirm(r) PROVE TypeOK'
    <2>1. /\ updatingIds \cup {rejectingId} \in SUBSET Card /\ {rejectingId} \in SUBSET Card
          /\ "reject" \in Single
      BY <1>13 DEF HandleRejectConfirm, TypeOK, Single
    <2> QED BY <1>13, <2>1, SendTyped DEF HandleRejectConfirm, TypeOK, Calls
  <1>14. ASSUME NEW r \in Request, HandleBulk(r) PROVE TypeOK'
    <2>1. selectedIds \in SUBSET Card /\ {} \in SUBSET Card /\ "bulk" \in Bulk
      BY DEF TypeOK, Bulk
    <2> QED BY <1>14, <2>1, SendTyped DEF HandleBulk, TypeOK, Calls
  <1>15. ASSUME NEW r \in Request, NEW f \in Filter, ChangeFilter(r, f) PROVE TypeOK'
    BY <1>15, MovesOn, LoadTyped DEF ChangeFilter, TypeOK, Calls, Loads
  <1>16. CASE HandleRejectCancel
    BY <1>16 DEF HandleRejectCancel, TypeOK
  <1>17. CASE HandleSelectAll
    BY <1>17, ShownCards DEF HandleSelectAll, TypeOK
  <1> QED
    BY <1>1, <1>2, <1>3, <1>4, <1>5, <1>6, <1>7, <1>8, <1>9, <1>10, <1>11, <1>12, <1>13,
       <1>14, <1>15, <1>16, <1>17 DEF Next, Answers, Clicks

-----------------------------------------------------------------------------
(* Decisions and the modal                                                 *)

\* What happens to the decisions and to the table in one step.
LEMMA SettledNext ==
  ASSUME TypeOK, SingleDecided, [Next]_vars
  PROVE  SingleDecided'
  <1> USE DEF page, bar
  <1>0. call \in [Request -> Calls] /\ status \in [Card -> Status]
    BY DEF TypeOK, Calls
  <1>1. \A r \in Request : call[r].ids \subseteq Card
    BY <1>0 DEF Calls
  <1>2. ASSUME \A c \in Card : status[c] = "RESOLVED" => status'[c] = "RESOLVED",
               \A q \in Request : \/ call'[q] = call[q]
                                  \/ call'[q].pc \notin {"sent", "done"}
                                  \/ call'[q].op \notin Single
        PROVE  SingleDecided'
    BY <1>1, <1>2 DEF SingleDecided
  <1>3. ASSUME NEW r \in Request, status' = status, NEW c \in Card,
               NEW op \in Single, NEW marks, Send(r, op, {c}, marks)
        PROVE  SingleDecided'
    <2>1. call' = [call EXCEPT ![r] =
            [pc |-> "sent", op |-> op, ids |-> {c}, mine |-> marks, view |-> filter]]
      BY <1>3 DEF Send
    <2>2. call'[r].pc = "sent" /\ call'[r].ids = {c} /\ \A q \in Request \ {r} : call'[q] = call[q]
      BY <1>0, <2>1
    <2> QED BY <1>3, <2>2 DEF SingleDecided
  <1>4. ASSUME NEW r \in Request, Conclude(r), status' = status PROVE SingleDecided'
    BY <1>0, <1>2, <1>4 DEF Conclude, NoCall
  <1>5. ASSUME NEW r \in Request, status' = status,
               NEW pc \in {"over", "reloading", "refreshing"}, call' = [call EXCEPT ![r].pc = pc]
        PROVE  SingleDecided'
    BY <1>0, <1>2, <1>5 DEF Calls
  <1>6. ASSUME NEW r \in Request, Serve(r) PROVE SingleDecided'
    <2>1. PICK S \in SUBSET {c \in call[r].ids : status[c] = "PENDING"} :
            \E answer \in {"done", "failed"} :
              /\ answer = "done" => call[r].op \in Bulk \/ S # {}
              /\ status' = [c \in Card |-> IF c \in S THEN "RESOLVED" ELSE status[c]]
              /\ call' = [call EXCEPT ![r].pc = answer]
      BY <1>6 DEF Serve
    <2>2. PICK answer \in {"done", "failed"} :
              /\ answer = "done" => call[r].op \in Bulk \/ S # {}
              /\ status' = [c \in Card |-> IF c \in S THEN "RESOLVED" ELSE status[c]]
              /\ call' = [call EXCEPT ![r].pc = answer]
      BY <2>1
    <2>3. /\ call'[r].pc = answer /\ call'[r].op = call[r].op /\ call'[r].ids = call[r].ids
          /\ \A q \in Request \ {r} : call'[q] = call[q]
      BY <1>0, <2>2 DEF Calls
    <2>4. \A c \in Card : status[c] = "RESOLVED" => status'[c] = "RESOLVED"
      BY <1>0, <2>2
    <2>5. ASSUME call[r].op \in Single, answer = "done", NEW c \in call[r].ids
          PROVE  status'[c] = "RESOLVED"
      <3>1. \E d \in Card : call[r].ids = {d}
        BY <1>6, <2>5 DEF Serve, SingleDecided
      <3>2. S # {}
        BY <2>2, <2>5 DEF Single, Bulk
      <3> QED BY <2>2, <2>5, <3>1, <3>2
    <2>6. ASSUME NEW q \in Request, call'[q].op \in Single
          PROVE  /\ call'[q].pc = "sent" => \E c \in Card : call'[q].ids = {c}
                 /\ call'[q].pc = "done" => \A c \in call'[q].ids : status'[c] = "RESOLVED"
      <3>1. CASE q = r
        BY <2>2, <2>3, <2>5, <2>6, <3>1
      <3>2. CASE q # r
        BY <1>1, <2>3, <2>4, <2>6, <3>2 DEF SingleDecided
      <3> QED BY <3>1, <3>2
    <2> QED BY <2>6 DEF SingleDecided
  <1>7. CASE \/ UNCHANGED vars \/ Poll \/ HandleRejectCancel \/ HandleSelectAll
             \/ \E c \in Card : HandleRejectClick(c) \/ HandleToggleSelect(c)
    BY <1>2, <1>7 DEF vars, Poll, HandleRejectCancel, HandleSelectAll, HandleRejectClick,
                      HandleToggleSelect
  <1>8. CASE \E c \in Card : Arrive(c) \/ DecidedElsewhere(c)
    BY <1>0, <1>2, <1>8 DEF Arrive, DecidedElsewhere
  <1>9. ASSUME NEW l \in Load, ShowList(l) \/ LoadFails(l) PROVE SingleDecided'
    <2>1. CASE call' = call
      BY <1>2, <1>9, <2>1 DEF ShowList, LoadFails, Loaded
    <2>2. load[l].for \in Request \cup {None}
      BY DEF TypeOK
    <2> QED BY <1>4, <1>9, <2>1, <2>2 DEF ShowList, LoadFails, Loaded
  <1>10. ASSUME NEW r \in Request, Answers(r) PROVE SingleDecided'
    <2>1. CASE Decided(r)
      BY <1>4, <2>1 DEF Decided
    <2>2. CASE Refused(r)
      BY <1>5, <2>2 DEF Refused
    <2>3. CASE BulkDone(r)
      BY <1>5, <2>3 DEF BulkDone
    <2>4. CASE BulkFailed(r) \/ HandleBulkActionComplete(r)
      BY <1>0, <1>2, <2>4 DEF BulkFailed, HandleBulkActionComplete, NoCall
    <2> QED BY <1>6, <1>10, <2>1, <2>2, <2>3, <2>4 DEF Answers
  <1>11. ASSUME NEW r \in Request, Clicks(r) PROVE SingleDecided'
    <2>1. ASSUME NEW c \in Card, HandleApprove(r, c) PROVE SingleDecided'
      BY <1>3, <2>1 DEF HandleApprove, Single
    <2>2. CASE HandleRejectConfirm(r)
      BY <1>3, <2>2 DEF HandleRejectConfirm, Single, TypeOK
    <2>3. CASE HandleBulk(r)
      BY <1>0, <1>2, <2>3 DEF HandleBulk, Send, Single
    <2>4. ASSUME NEW f \in Filter, ChangeFilter(r, f) PROVE SingleDecided'
      BY <1>5, <2>4 DEF ChangeFilter
    <2> QED BY <1>11, <2>1, <2>2, <2>3, <2>4 DEF Clicks
  <1> QED BY <1>7, <1>8, <1>9, <1>10, <1>11 DEF Next

LEMMA ModalNext ==
  ASSUME ModalKnows, [Next]_vars
  PROVE  ModalKnows'
  <1> USE DEF page, bar
  <1>1. CASE UNCHANGED <<rejectModalOpen, modalFor>> /\ rejectingId' \in {rejectingId, None}
    BY <1>1 DEF ModalKnows
  <1>2. CASE \/ HandleRejectCancel
             \/ \E c \in Card : HandleRejectClick(c)
             \/ \E r \in Request : HandleRejectConfirm(r)
    BY <1>2 DEF HandleRejectCancel, HandleRejectClick, HandleRejectConfirm, ModalKnows
  <1>3. CASE \/ UNCHANGED vars \/ Poll \/ HandleSelectAll
             \/ \E c \in Card : Arrive(c) \/ DecidedElsewhere(c) \/ HandleToggleSelect(c)
    BY <1>1, <1>3 DEF vars, Poll, HandleSelectAll, Arrive, DecidedElsewhere, HandleToggleSelect
  <1>4. ASSUME NEW l \in Load, ShowList(l) \/ LoadFails(l) PROVE ModalKnows'
    BY <1>1, <1>4 DEF ShowList, LoadFails, Loaded, Conclude
  <1>5. ASSUME NEW r \in Request, Answers(r) PROVE ModalKnows'
    BY <1>1, <1>5 DEF Answers, Serve, Decided, Refused, BulkDone, BulkFailed,
                      HandleBulkActionComplete, Conclude
  <1>6. ASSUME NEW r \in Request, Clicks(r) PROVE ModalKnows'
    BY <1>1, <1>2, <1>6 DEF Clicks, HandleApprove, HandleBulk, ChangeFilter
  <1> QED BY <1>2, <1>3, <1>4, <1>5, <1>6 DEF Next

LEMMA AlwaysIInv == Spec => []IInv
  <1>1. Init => IInv
    BY TypeInit DEF Init, IInv, SingleDecided, ModalKnows, NoCall
  <1>2. IInv /\ [Next]_vars => IInv'
    BY TypeNext, SettledNext, ModalNext DEF IInv
  <1> QED BY <1>1, <1>2, PTL DEF Spec

-----------------------------------------------------------------------------
(* The theorems                                                            *)

\* The page shows and marks cards of the tenant, and calls are well formed,
\* for any number of cards, requests and lists.
THEOREM QueueTypes == Spec => []TypeOK
  <1>1. IInv => TypeOK
    BY DEF IInv
  <1> QED BY <1>1, AlwaysIInv, PTL

\* A card leaves the page without a new list only after its suggestion was
\* decided for good.
THEOREM OnlyDecidedLeave == Spec => OnlyDecidedVanish
  <1>1. ASSUME IInv, [Next]_vars, NEW c \in DOMAIN suggestions \ DOMAIN suggestions'
        PROVE  status[c] # "PENDING" \/ load' # load
    <2> USE DEF page, bar
    <2>0. load \in [Load -> Loads] /\ suggestions' # suggestions
      BY <1>1 DEF IInv, TypeOK, Loads
    <2>1. ASSUME NEW l \in Load, ShowList(l) PROVE load' # load
      BY <2>0, <2>1 DEF ShowList, Loaded, FreeLoad
    <2>2. ASSUME NEW r \in Request, Decided(r) PROVE status[c] # "PENDING"
      <3>1. c \in call[r].ids
        BY <1>1, <2>2 DEF Decided
      <3> QED BY <1>1, <2>2, <3>1 DEF Decided, IInv, SingleDecided
    <2>3. CASE \/ UNCHANGED vars \/ Poll \/ HandleRejectCancel \/ HandleSelectAll
               \/ \E d \in Card : \/ Arrive(d) \/ DecidedElsewhere(d) \/ HandleRejectClick(d)
                                  \/ HandleToggleSelect(d)
      BY <2>0, <2>3 DEF vars, Poll, HandleRejectCancel, HandleSelectAll, Arrive,
                        DecidedElsewhere, HandleRejectClick, HandleToggleSelect
    <2>4. CASE \E l \in Load : LoadFails(l)
      BY <2>0, <2>4 DEF LoadFails
    <2>5. ASSUME NEW r \in Request, Answers(r) \/ Clicks(r), ~Decided(r) PROVE FALSE
      BY <2>0, <2>5 DEF Answers, Clicks, Serve, Refused, BulkDone, BulkFailed,
                        HandleBulkActionComplete, HandleApprove, HandleRejectConfirm,
                        HandleBulk, ChangeFilter
    <2> QED BY <1>1, <2>1, <2>2, <2>3, <2>4, <2>5 DEF Next
  <1>2. IInv /\ [Next]_vars =>
          [\A c \in DOMAIN suggestions \ DOMAIN suggestions' :
             status[c] # "PENDING" \/ load' # load]_vars
    BY <1>1
  <1> QED BY <1>2, AlwaysIInv, PTL DEF Spec, OnlyDecidedVanish

\* A rejection is sent for the card whose modal was opened last.
THEOREM ModalIsRight == Spec => ModalRejectsItsCard
  <1>1. ASSUME IInv, [Next]_vars, NEW r \in Request,
               call[r].pc = "new", call'[r].pc = "sent", call'[r].op = "reject"
        PROVE  call'[r].ids = {modalFor}
    <2> USE DEF page, bar
    <2>0. call \in [Request -> Calls] /\ call' # call
      BY <1>1 DEF IInv, TypeOK, Calls
    <2>1. ASSUME NEW q \in Request, HandleRejectConfirm(q) PROVE call'[r].ids = {modalFor}
      BY <1>1, <2>0, <2>1 DEF HandleRejectConfirm, Send, IInv, ModalKnows
    <2>2. ASSUME NEW q \in Request, Answers(q) PROVE FALSE
      BY <1>1, <2>0, <2>2 DEF Answers, Serve, Decided, Refused, BulkDone, BulkFailed,
                              HandleBulkActionComplete, Conclude, NoCall
    <2>3. ASSUME NEW q \in Request, Clicks(q), ~HandleRejectConfirm(q) PROVE FALSE
      <3>1. ASSUME NEW op \in {"approve", "bulk"}, NEW ids, NEW marks, Send(q, op, ids, marks)
            PROVE  FALSE
        BY <1>1, <2>0, <3>1 DEF Send
      <3>2. ASSUME NEW f \in Filter, ChangeFilter(q, f) PROVE FALSE
        BY <1>1, <2>0, <3>2 DEF ChangeFilter
      <3> QED BY <2>3, <3>1, <3>2 DEF Clicks, HandleApprove, HandleBulk
    <2>4. ASSUME NEW l \in Load, ShowList(l) \/ LoadFails(l) PROVE FALSE
      BY <1>1, <2>0, <2>4 DEF ShowList, LoadFails, Loaded, Conclude, NoCall
    <2>5. CASE \/ UNCHANGED vars \/ Poll \/ HandleRejectCancel \/ HandleSelectAll
               \/ \E d \in Card : \/ Arrive(d) \/ DecidedElsewhere(d) \/ HandleRejectClick(d)
                                  \/ HandleToggleSelect(d)
      BY <2>0, <2>5 DEF vars, Poll, HandleRejectCancel, HandleSelectAll, Arrive,
                        DecidedElsewhere, HandleRejectClick, HandleToggleSelect
    <2> QED BY <1>1, <2>1, <2>2, <2>3, <2>4, <2>5 DEF Next
  <1>2. IInv /\ [Next]_vars =>
          [\A r \in Request : call[r].pc = "new" /\ call'[r].pc = "sent" /\ call'[r].op = "reject"
             => call'[r].ids = {modalFor}]_vars
    BY <1>1
  <1> QED BY <1>2, AlwaysIInv, PTL DEF Spec, ModalRejectsItsCard
=============================================================================
