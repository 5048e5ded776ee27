----------------------------- MODULE ChangeFeed -----------------------------
(***************************************************************************)
(* What change detection promises those who read a tenant's changes: a     *)
(* feed that only grows and is never wrong.  A change is recorded when it  *)
(* has happened in FSP, once or several times, and announced no more often *)
(* than it is recorded; what is noted of a poll is a list FSP once gave.   *)
(* Polls, replicas, jobs, snapshots and failures do not appear, and that   *)
(* everything is announced is not promised.                                *)
(***************************************************************************)
EXTENDS Naturals

CONSTANTS
  Reservation,
  Change,   \* records of a type and a reservation
  Student,  \* the reservations that are a student's
  Crewed    \* those with an aircraft and an instructor

VARIABLES
  schedule,   \* the reservations as they are in FSP
  recorded,   \* per change: its rows
  announced,  \* per change: its messages
  noted       \* the list last worked off, in a set; none at first

vars == <<schedule, recorded, announced, noted>>

Init ==
  /\ schedule \in [Reservation -> {"none", "open"}]
  /\ recorded = [c \in Change |-> 0]
  /\ announced = [c \in Change |-> 0]
  /\ noted = {}

\* What becomes of a reservation in the end; nothing leads back.
Later(s) == CASE s = "none" -> {"open", "done", "cancelled", "withdrawn", "deleted"}
              [] s = "open" -> {"done", "cancelled", "withdrawn", "deleted"}
              [] s = "done" -> {"deleted"}
              [] s = "cancelled" -> {"withdrawn"}
              [] OTHER -> {}

\* Cancelled or off the list, which readers are not told apart.
Over(r) == schedule[r] \in {"cancelled", "withdrawn", "deleted"}

Happened(c) ==
  CASE c.type = "CANCELLATION" -> c.id \in Student /\ Over(c.id)
    [] c.type = "NEW_OPENING" -> c.id \in Crewed /\ Over(c.id)
    [] OTHER -> schedule[c.id] \notin {"none", "open"}

\* Every reservation is as the list has it, or further on.
WasListed(list) ==
  \A r \in DOMAIN list : schedule[r] \in {list[r]} \cup Later(list[r])

Move(r) ==
  /\ \E s \in Later(schedule[r]) : schedule' = [schedule EXCEPT ![r] = s]
  /\ UNCHANGED <<recorded, announced, noted>>

Record(c) ==
  /\ Happened(c)
  /\ recorded' = [recorded EXCEPT ![c] = @ + 1]
  /\ UNCHANGED <<schedule, announced, noted>>

Announce(c) ==
  /\ announced[c] < recorded[c]
  /\ announced' = [announced EXCEPT ![c] = @ + 1]
  /\ UNCHANGED <<schedule, recorded, noted>>

Note ==
  /\ \E list \in noted' : noted' = {list} /\ WasListed(list)
  /\ UNCHANGED <<schedule, recorded, announced>>

Next ==
  \/ \E r \in Reservation : Move(r)
  \/ \E c \in Change : Record(c) \/ Announce(c)
  \/ Note

Spec == Init /\ [][Next]_vars

\* No message goes out for what has not happened, nor without a row.
AnnouncedHasHappened ==
  \A c \in Change :
    /\ announced[c] <= recorded[c]
    /\ recorded[c] > 0 => Happened(c)
=============================================================================
