-------------------------- MODULE ReservationDiff --------------------------
(***************************************************************************)
(* The pure part of change detection: ReservationDiffService of            *)
(* apps/worker/src/change-detection.  A poll answers a list of             *)
(* reservations, which may name one reservation several times.  The        *)
(* operators below turn a list into a table (a function from reservation   *)
(* ids to reservations), hash it and compare two tables.                   *)
(***************************************************************************)
EXTENDS Naturals, Sequences

CONSTANTS
  Reservation,  \* reservation ids
  Student,      \* the reservations with a studentId; the rest is maintenance
  Crewed        \* the reservations with an aircraft and an instructor

ASSUME ReservationAssumption ==
  Student \subseteq Reservation /\ Crewed \subseteq Reservation

Listed == {"open", "done", "cancelled"}  \* status, as far as the diff looks
Entry == [id : Reservation, status : Listed]
Ids(list) == {list[i].id : i \in DOMAIN list}

\* new Map(list.map(...)): the last entry of an id wins.
ToMap(list) ==
  [r \in Ids(list) |->
     list[CHOOSE i \in DOMAIN list :
            /\ list[i].id = r
            /\ \A j \in DOMAIN list : list[j].id = r => j <= i].status]

\* deduplicateById: the first entry of an id is kept.
DeduplicateById(list) ==
  [r \in Ids(list) |->
     list[CHOOSE i \in DOMAIN list :
            /\ list[i].id = r
            /\ \A j \in DOMAIN list : list[j].id = r => i <= j].status]

\* computeHash: SHA-256 of the sorted, deduplicated list.  Equal digests are
\* taken for equal tables.
ComputeHash(list) == DeduplicateById(list)

Change == [type : {"CANCELLATION", "NEW_OPENING", "STATUS_CHANGE"},
           id : Reservation]

\* Mutation: a status that says "cancelled" is not looked at.
FreedByAbsence(next, r) == r \notin DOMAIN next

Freed(next, r) == r \notin DOMAIN next \/ next[r] = "cancelled"

\* Mutation: maintenance blocks count as lessons.
ChangesOfAnyone(prev, next) ==
  LET freed == {r \in DOMAIN prev : Freed(next, r)}
  IN  {[type |-> "CANCELLATION", id |-> r] : r \in freed}
      \cup {[type |-> "NEW_OPENING", id |-> r] : r \in freed \cap Crewed}
      \cup {[type |-> "STATUS_CHANGE", id |-> r] :
              r \in {x \in DOMAIN prev \ freed : prev[x] # next[x]}}

\* detectChanges, on tables.
DetectChanges(prev, next) ==
  LET freed == {r \in DOMAIN prev : Freed(next, r)}
  IN  {[type |-> "CANCELLATION", id |-> r] : r \in freed \cap Student}
      \cup {[type |-> "NEW_OPENING", id |-> r] : r \in freed \cap Crewed}
      \cup {[type |-> "STATUS_CHANGE", id |-> r] :
              r \in {x \in DOMAIN prev \ freed : prev[x] # next[x]}}
=============================================================================
