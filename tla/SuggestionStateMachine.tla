----------------------- MODULE SuggestionStateMachine -----------------------
(***************************************************************************)
(* The suggestion state machine as the repository documents it: a row is   *)
(* created PENDING and leaves PENDING once, for APPROVED, REJECTED or      *)
(* EXPIRED.  This is the header of suggestions.service.ts (lines 10-13),   *)
(* the comment on SUGGESTION_STATUS and PR 10 of the PRD ("Any attempt to  *)
(* transition from APPROVED, REJECTED, or EXPIRED must throw an error").   *)
(* CREATED, SENT, ACCEPTED and FAILED belong to handlers the repository    *)
(* does not contain.                                                       *)
(***************************************************************************)
CONSTANT Suggestion

VARIABLE status

Resolution == {"APPROVED", "REJECTED", "EXPIRED"}

TypeOK == status \in [Suggestion -> Resolution \cup {"ABSENT", "PENDING"}]

Init == status \in [Suggestion -> {"ABSENT", "PENDING"}]

\* A use-case handler or POST /suggestions inserts the row.
Appear(s) ==
  /\ status[s] = "ABSENT"
  /\ status' = [status EXCEPT ![s] = "PENDING"]

\* The operator decides a pending suggestion.
Decide(s) ==
  /\ status[s] = "PENDING"
  /\ \E d \in {"APPROVED", "REJECTED"} : status' = [status EXCEPT ![s] = d]

\* The expiry job resolves a batch of pending suggestions at once.
Expire ==
  \E S \in SUBSET {s \in Suggestion : status[s] = "PENDING"} :
    status' = [s \in Suggestion |-> IF s \in S THEN "EXPIRED" ELSE status[s]]

Next == Expire \/ \E s \in Suggestion : Appear(s) \/ Decide(s)

Spec == Init /\ [][Next]_status

=============================================================================
