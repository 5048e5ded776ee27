------------------------- MODULE SuggestionDecisions -------------------------
(***************************************************************************)
(* What the suggestion API promises however its requests interleave.  The  *)
(* row is a register whose last writer wins, never the documented state    *)
(* machine; the promise is about the record kept beside it.  Decisions are *)
(* never forgotten, each operation decides at most once, a row that nobody *)
(* decided can still expire and a decided one cannot, and only an approval *)
(* on record is handed to the worker, once per operation.                  *)
(***************************************************************************)
CONSTANTS Suggestion, Correlation

VARIABLES status, decisions, handed

vars == <<status, decisions, handed>>

Verdict == {"suggestion.approved", "suggestion.rejected"}

Init ==
  /\ status = [s \in Suggestion |-> "ABSENT"]
  /\ decisions = {}
  /\ handed = {}

Appear(s) ==
  /\ status[s] = "ABSENT"
  /\ status' = [status EXCEPT ![s] = "PENDING"]
  /\ UNCHANGED <<decisions, handed>>

Decide(s, r, v) ==
  /\ status[s] # "ABSENT"
  /\ \A d \in decisions : d.by # r
  /\ decisions' = decisions \cup {[action |-> v, suggestion |-> s, by |-> r]}
  /\ status' = [status EXCEPT ![s] = IF v = "suggestion.approved"
                                     THEN "APPROVED" ELSE "REJECTED"]
  /\ UNCHANGED handed

\* Expiry takes rows without a decision, as many as it likes.
Expire ==
  /\ \E S \in SUBSET {s \in Suggestion : status[s] = "PENDING"} :
       /\ \A d \in decisions : d.suggestion \notin S
       /\ status' = [s \in Suggestion |-> IF s \in S THEN "EXPIRED" ELSE status[s]]
  /\ UNCHANGED <<decisions, handed>>

HandOver(s, r) ==
  /\ [action |-> "suggestion.approved", suggestion |-> s, by |-> r] \in decisions
  /\ \A m \in handed : m.by # r
  /\ handed' = handed \cup {[suggestion |-> s, by |-> r]}
  /\ UNCHANGED <<status, decisions>>

Next ==
  \/ Expire
  \/ \E s \in Suggestion :
       \/ Appear(s)
       \/ \E r \in Correlation :
            HandOver(s, r) \/ \E v \in Verdict : Decide(s, r, v)

Spec == Init /\ [][Next]_vars
=============================================================================
