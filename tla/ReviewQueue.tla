---------------------------- MODULE ReviewQueue ----------------------------
(***************************************************************************)
(* The approval queue page (apps/web): what one open page shows, what its  *)
(* buttons send, and what late answers do to it.  Every callback of the    *)
(* page works with the values of the render it was created in, so an       *)
(* operation carries along the filter and the set of updating cards it saw *)
(* when it was clicked.  Answers of the list endpoint are never cancelled  *)
(* and come back in any order.  The server's side of a decision is one     *)
(* step here; SuggestionLifecycle has it in detail.                        *)
(***************************************************************************)
EXTENDS Naturals, FiniteSets

CONSTANTS
  Card,          \* suggestions of the tenant
  Request,       \* bound: decisions and filter changes, each used once
  Load,          \* list requests that may be on their way at the same time
  None,
  Failure        \* what may go wrong: "network", "declined"

ASSUME QueueAssumption == None \notin Card \cup Request

\* Which way a suggestion was resolved makes no difference to this page.
Status == {"none", "PENDING", "RESOLVED"}
Filter == {"PENDING", "ALL"}
Single == {"approve", "reject"}
Bulk == {"bulk"}

VARIABLES
  status,          \* the suggestions table
  suggestions,     \* the list on the page: card shown -> status shown
  filter,          \* the filter bar
  updatingIds,     \* cards whose buttons are disabled
  selectedIds,     \* ticked cards
  rejectingId,     \* the card the reject modal is about
  rejectModalOpen,
  modalFor,        \* history: the card the open modal was opened for
  call,            \* decisions on their way
  load,            \* list requests on their way
  habit,           \* what this scheduler decides with: cards or the bulk bar
  overlapped       \* history: two decisions on cards were under way together

page == <<suggestions, updatingIds, selectedIds, rejectingId,
          rejectModalOpen, modalFor>>
bar == <<filter, habit>>
vars == <<status, page, bar, call, load, overlapped>>

NoItems == [c \in {} |-> "none"]
FreeLoad == [pc |-> "free", items |-> NoItems, for |-> None]
NoCall == [pc |-> "new", op |-> "approve", ids |-> {}, mine |-> {}, view |-> "PENDING"]

\* The list endpoint: the tenant's rows that pass the filter.
ListSuggestions(view) ==
  [c \in {d \in Card : status[d] # "none" /\ (view = "ALL" \/ status[d] = view)}
     |-> status[c]]

InFlight(r) == call[r].pc \notin {"new", "over"}
Processing == \E r \in Request : call[r].op \in Bulk /\ call[r].pc \in {"sent", "done", "failed"}

(***************************************************************************)
(* The server and the rest of the world.                                   *)
(***************************************************************************)

\* The worker creates a suggestion.
Arrive(c) ==
  /\ status[c] = "none"
  /\ status' = [status EXCEPT ![c] = "PENDING"]
  /\ UNCHANGED <<page, bar, call, load, overlapped>>

\* The expiry cron or another scheduler's page decides it.
DecidedElsewhere(c) ==
  /\ status[c] = "PENDING"
  /\ status' = [status EXCEPT ![c] = "RESOLVED"]
  /\ UNCHANGED <<page, bar, call, load, overlapped>>

\* The API answers a decision.  Of the cards asked for only pending ones can
\* be decided, FSP may decline any of them, and the answer may be lost.  A
\* single decision fails if nothing was decided; a bulk one succeeds with
\* whatever part was.
Serve(r) ==
  /\ call[r].pc = "sent"
  /\ \E S \in SUBSET {c \in call[r].ids : status[c] = "PENDING"} :
     \E answer \in {"done", "failed"} :
       /\ "declined" \notin Failure => S = {c \in call[r].ids : status[c] = "PENDING"}
       /\ answer = "failed" => "network" \in Failure \/ (call[r].op \in Single /\ S = {})
       /\ answer = "done" => call[r].op \in Bulk \/ S # {}
       /\ status' = [c \in Card |-> IF c \in S THEN "RESOLVED" ELSE status[c]]
       /\ call' = [call EXCEPT ![r].pc = answer]
  /\ UNCHANGED <<page, bar, load, overlapped>>

(***************************************************************************)
(* Loading the list.                                                       *)
(***************************************************************************)

\* loadSuggestions: a list request of the given filter leaves and the API
\* reads the rows for it; the answer takes its time.  r is the decision that
\* awaits it, if any.
LoadSuggestions(view, r) ==
  \E l \in Load :
    /\ load[l].pc = "free"
    /\ load' = [load EXCEPT ![l] =
         [pc |-> "answered", items |-> ListSuggestions(view), for |-> r]]

\* Mutant: the interval keeps the callback of the first render.
PollFirstFilter ==
  /\ LoadSuggestions("PENDING", None)
  /\ UNCHANGED <<status, page, bar, call, overlapped>>

\* The interval of 30 seconds, created anew with every filter.
Poll ==
  /\ LoadSuggestions(filter, None)
  /\ UNCHANGED <<status, page, bar, call, overlapped>>

\* Another filter: the effect loads at once.
ChangeFilter(r, f) ==
  /\ f # filter
  /\ call[r].pc = "new"
  /\ call' = [call EXCEPT ![r].pc = "over"]
  /\ filter' = f
  /\ LoadSuggestions(f, None)
  /\ UNCHANGED <<status, page, habit, overlapped>>

\* Mutant: a rejection that ends puts its card back into the modal.
ConcludeForRetry(r) ==
  /\ call' = [call EXCEPT ![r] = [NoCall EXCEPT !.pc = "over"]]
  /\ updatingIds' = call[r].mine \ call[r].ids
  /\ rejectingId' = IF call[r].op = "reject" THEN CHOOSE c \in call[r].ids : TRUE ELSE rejectingId

\* The finally block of a decision: it restores its own copy of the updating
\* set without its card, and forgets the modal's card after a rejection.
Conclude(r) ==
  /\ call' = [call EXCEPT ![r] = [NoCall EXCEPT !.pc = "over"]]
  /\ updatingIds' = call[r].mine \ call[r].ids
  /\ rejectingId' = IF call[r].op = "reject" THEN None ELSE rejectingId

\* A list request ends; whoever awaits it goes on.
Loaded(l) ==
  /\ load' = [load EXCEPT ![l] = FreeLoad]
  /\ IF load[l].for = None
     THEN UNCHANGED <<call, updatingIds, rejectingId>>
     ELSE Conclude(load[l].for)
  /\ UNCHANGED <<status, bar, selectedIds, rejectModalOpen, modalFor, overlapped>>

\* The answer replaces the list, whatever it was asked for and however old.
ShowList(l) ==
  /\ load[l].pc = "answered"
  /\ suggestions' = load[l].items
  /\ Loaded(l)

\* The list request fails: the page keeps what it shows.
LoadFails(l) ==
  /\ load[l].pc = "answered"
  /\ "network" \in Failure
  /\ Loaded(l)
  /\ UNCHANGED suggestions

(***************************************************************************)
(* Decisions on one card.                                                  *)
(***************************************************************************)

\* Bound: nothing is prepared that can no longer be sent.
MaySend(ops) == ops = habit /\ \E r \in Request : call[r].pc = "new"

\* Only cards shown as pending have buttons, enabled unless updating.
Clickable(c) ==
  c \in DOMAIN suggestions /\ suggestions[c] = "PENDING" /\ c \notin updatingIds

Send(r, op, ids, marks) ==
  /\ call[r].pc = "new"
  /\ overlapped' = (overlapped \/ \E q \in Request : InFlight(q) /\ call[q].op \in Single)
  /\ call' = [call EXCEPT ![r] =
       [pc |-> "sent", op |-> op, ids |-> ids, mine |-> marks, view |-> filter]]

HandleApprove(r, c) ==
  /\ Clickable(c) /\ ~rejectModalOpen /\ MaySend(Single)
  /\ Send(r, "approve", {c}, updatingIds \cup {c})
  /\ updatingIds' = updatingIds \cup {c}
  /\ UNCHANGED <<status, suggestions, selectedIds, rejectingId, rejectModalOpen, modalFor, bar, load>>

HandleRejectClick(c) ==
  /\ Clickable(c) /\ ~rejectModalOpen /\ MaySend(Single)
  /\ rejectingId' = c
  /\ modalFor' = c
  /\ rejectModalOpen' = TRUE
  /\ UNCHANGED <<status, suggestions, updatingIds, selectedIds, bar, call, load, overlapped>>

\* The modal insists on a reason; without a card the handler returns at once
\* and leaves it open.
HandleRejectConfirm(r) ==
  /\ rejectModalOpen
  /\ rejectingId # None
  /\ Send(r, "reject", {rejectingId}, updatingIds \cup {rejectingId})
  /\ updatingIds' = updatingIds \cup {rejectingId}
  /\ rejectModalOpen' = FALSE
  /\ modalFor' = None
  /\ UNCHANGED <<status, suggestions, selectedIds, rejectingId, bar, load>>

HandleRejectCancel ==
  /\ rejectModalOpen
  /\ rejectModalOpen' = FALSE
  /\ rejectingId' = None
  /\ modalFor' = None
  /\ UNCHANGED <<status, suggestions, updatingIds, selectedIds, bar, call, load, overlapped>>

\* Mutant: the card goes whatever the API answers.
DecidedOrNot(r) ==
  /\ call[r].pc \in {"done", "failed"} /\ call[r].op \in Single
  /\ suggestions' = [c \in DOMAIN suggestions \ call[r].ids |-> suggestions[c]]
  /\ Conclude(r)
  /\ UNCHANGED <<status, selectedIds, rejectModalOpen, modalFor, bar, load, overlapped>>

\* The card goes when the API has confirmed the decision.
Decided(r) ==
  /\ call[r].pc = "done" /\ call[r].op \in Single
  /\ suggestions' = [c \in DOMAIN suggestions \ call[r].ids |-> suggestions[c]]
  /\ Conclude(r)
  /\ UNCHANGED <<status, selectedIds, rejectModalOpen, modalFor, bar, load, overlapped>>

\* After an error the handler awaits a load, of the filter it was created with.
Refused(r) ==
  /\ call[r].pc = "failed" /\ call[r].op \in Single
  /\ call' = [call EXCEPT ![r].pc = "reloading"]
  /\ LoadSuggestions(call[r].view, r)
  /\ UNCHANGED <<status, page, bar, overlapped>>

(***************************************************************************)
(* Selection and decisions on many cards.                                  *)
(***************************************************************************)

HandleToggleSelect(c) ==
  /\ c \in DOMAIN suggestions /\ ~rejectModalOpen /\ MaySend(Bulk)
  /\ selectedIds' = IF c \in selectedIds THEN selectedIds \ {c} ELSE selectedIds \cup {c}
  /\ UNCHANGED <<status, suggestions, updatingIds, rejectingId, rejectModalOpen, modalFor, bar, call, load, overlapped>>

\* Select-all compares numbers, not members.
HandleSelectAll ==
  /\ DOMAIN suggestions # {} /\ ~rejectModalOpen /\ MaySend(Bulk)
  /\ selectedIds' = IF Cardinality(selectedIds) = Cardinality(DOMAIN suggestions)
                    THEN {} ELSE DOMAIN suggestions
  /\ UNCHANGED <<status, suggestions, updatingIds, rejectingId, rejectModalOpen, modalFor, bar, call, load, overlapped>>

\* handleBulkApprove and handleBulkReject: what is ticked is sent, shown or
\* not; one bulk operation at a time.
HandleBulk(r) ==
  /\ selectedIds # {} /\ ~Processing /\ ~rejectModalOpen
  /\ Send(r, "bulk", selectedIds, {})
  /\ UNCHANGED <<status, page, bar, load>>

\* The answer's list of failures is not looked at.
BulkDone(r) ==
  /\ call[r].pc = "done" /\ call[r].op \in Bulk
  /\ selectedIds' = {}
  /\ call' = [call EXCEPT ![r].pc = "refreshing"]
  /\ UNCHANGED <<status, suggestions, updatingIds, rejectingId, rejectModalOpen, modalFor, bar, load, overlapped>>

BulkFailed(r) ==
  /\ call[r].pc = "failed" /\ call[r].op \in Bulk
  /\ call' = [call EXCEPT ![r] = [NoCall EXCEPT !.pc = "over"]]
  /\ UNCHANGED <<status, page, bar, load, overlapped>>

\* Half a second later the selection, by now maybe a new one, is cleared again.
HandleBulkActionComplete(r) ==
  /\ call[r].pc = "refreshing"
  /\ selectedIds' = {}
  /\ LoadSuggestions(call[r].view, None)
  /\ call' = [call EXCEPT ![r] = [NoCall EXCEPT !.pc = "over"]]
  /\ UNCHANGED <<status, suggestions, updatingIds, rejectingId, rejectModalOpen, modalFor, bar, overlapped>>

-----------------------------------------------------------------------------
Init ==
  /\ status = [c \in Card |-> "none"]
  /\ suggestions = NoItems
  /\ filter = "PENDING"
  /\ updatingIds = {} /\ selectedIds = {} /\ overlapped = FALSE
  /\ rejectingId = None /\ rejectModalOpen = FALSE /\ modalFor = None
  /\ call = [r \in Request |-> NoCall]
  /\ load = [l \in Load |-> FreeLoad]
  /\ habit \in {Single, Bulk}

Answers(r) == Serve(r) \/ Decided(r) \/ Refused(r) \/ BulkDone(r) \/ BulkFailed(r)
              \/ HandleBulkActionComplete(r)

Clicks(r) ==
  \/ \E c \in Card : HandleApprove(r, c)
  \/ HandleRejectConfirm(r)
  \/ HandleBulk(r)
  \/ \E f \in Filter : ChangeFilter(r, f)

Next ==
  \/ Poll
  \/ \E c \in Card : Arrive(c) \/ DecidedElsewhere(c) \/ HandleRejectClick(c) \/ HandleToggleSelect(c)
  \/ \E l \in Load : ShowList(l) \/ LoadFails(l)
  \/ \E r \in Request : Answers(r) \/ Clicks(r)
  \/ HandleRejectCancel \/ HandleSelectAll

Spec == Init /\ [][Next]_vars

\* The interval fires, the API answers, and an answer, once there, is shown
\* unless its connection fails, which does not happen every time.
Fairness ==
  /\ WF_vars(Poll)
  /\ \A l \in Load : SF_vars(ShowList(l))
  /\ SF_vars(\E r \in Request : Answers(r))

FairSpec == Spec /\ Fairness

-----------------------------------------------------------------------------
Shown == UNION {[S -> Status \ {"none"}] : S \in SUBSET Card}

\* The page shows and marks cards of the tenant, and calls are well formed.
TypeOK ==
  /\ status \in [Card -> Status]
  /\ suggestions \in Shown
  /\ filter \in Filter
  /\ updatingIds \subseteq Card /\ selectedIds \subseteq Card
  /\ {rejectingId, modalFor} \subseteq Card \cup {None}
  /\ {rejectModalOpen, overlapped} \subseteq BOOLEAN
  /\ call \in [Request -> [pc : {"new", "sent", "done", "failed", "reloading", "refreshing", "over"},
                           op : Single \cup Bulk, ids : SUBSET Card, mine : SUBSET Card, view : Filter]]
  /\ load \in [Load -> [pc : {"free", "answered"}, items : Shown, for : Request \cup {None}]]

\* A card leaves the page without a new list only after it has been decided
\* for good: no answer, late or lost, hides a suggestion that still waits.
OnlyDecidedVanish ==
  [][\A c \in DOMAIN suggestions \ DOMAIN suggestions' :
       status[c] # "PENDING" \/ load' # load]_vars

\* A rejection goes to the card whose modal was opened last, though an older
\* rejection that ends clears the page's note of which card that is.
ModalRejectsItsCard ==
  [][\A r \in Request : call[r].pc = "new" /\ call'[r].pc = "sent" /\ call'[r].op = "reject"
       => call'[r].ids = {modalFor}]_vars

\* Once the users are done, stale answers and answers to an old filter are
\* overwritten for good: the page shows what the server has, no decision is
\* left unanswered, and no card that still waits is left disabled - unless two
\* decisions on cards overlapped, as each of them puts its own copy of the set
\* of disabled cards back.
PageSettles ==
  <>[](/\ suggestions = ListSuggestions(filter)
       /\ \A r \in Request : ~InFlight(r)
       /\ overlapped \/ \A c \in updatingIds \cap DOMAIN suggestions :
                         suggestions[c] # "PENDING")
=============================================================================
