-------------------------- MODULE SuggestionLedger --------------------------
(***************************************************************************)
(* What the use-case handlers promise those who read their suggestions: a  *)
(* ledger that only grows.  An actor writes for one handling at a time,    *)
(* never again for an earlier one; a handling writes about one thing, as   *)
(* often as its path allows, and not before its last row has its audit     *)
(* entry; an entry its handling did not make is never made.  However often *)
(* an event comes back, no more than MaxDelivery handlings write for it.   *)
(* Offers, messages, locks and failures do not appear.                     *)
(***************************************************************************)
EXTENDS Naturals, Sequences, FiniteSets

CONSTANTS
  Actor,
  Event, Learner,  \* what a suggestion can be about: an event, a student
  Limit,           \* rows a handling may write, by path
  MaxDelivery      \* handlings an event may have

VARIABLES
  handled,  \* per actor: handlings begun
  rows,
  audited   \* rows with an audit entry

vars == <<handled, rows, audited>>

Current(a) == <<a, handled[a]>>

RowsBy(h) == {r \in DOMAIN rows : rows[r].by = h}

WritersAbout(t) == {rows[r].by : r \in {r \in DOMAIN rows : rows[r].task = t}}

Init ==
  /\ handled = [a \in Actor |-> 0]
  /\ rows = <<>>
  /\ audited = {}

Begin(a) ==
  /\ handled' = [handled EXCEPT ![a] = @ + 1]
  /\ UNCHANGED <<rows, audited>>

Write(a, p, t) ==
  /\ Cardinality(RowsBy(Current(a))) < Limit[p]
  /\ \A r \in RowsBy(Current(a)) :
       r \in audited /\ rows[r].path = p /\ rows[r].task = t
  /\ t \in Event => Cardinality(WritersAbout(t) \cup {Current(a)}) <= MaxDelivery
  /\ rows' = Append(rows, [by |-> Current(a), path |-> p, task |-> t,
                           status |-> "PENDING"])
  /\ UNCHANGED <<handled, audited>>

Enter(a) ==
  /\ \E r \in RowsBy(Current(a)) \ audited : audited' = audited \cup {r}
  /\ UNCHANGED <<handled, rows>>

\* Others decide about a suggestion, once.
Resolve(r) ==
  /\ rows[r].status = "PENDING"
  /\ rows' = [rows EXCEPT ![r].status = "RESOLVED"]
  /\ UNCHANGED <<handled, audited>>

Next ==
  \/ \E a \in Actor :
       \/ Begin(a) \/ Enter(a)
       \/ \E p \in DOMAIN Limit, t \in Event \cup Learner : Write(a, p, t)
  \/ \E r \in DOMAIN rows : Resolve(r)

Spec == Init /\ [][Next]_vars
=============================================================================
