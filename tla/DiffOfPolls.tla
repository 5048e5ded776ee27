---------------------------- MODULE DiffOfPolls ----------------------------
(***************************************************************************)
(* ReservationDiff applied to polls that follow one another: the state is  *)
(* the list of the previous poll and the list of the current one.          *)
(***************************************************************************)
EXTENDS ReservationDiff, SequencesExt

CONSTANT MaxList   \* length of the lists

VARIABLES previousPoll, currentPoll

polls == <<previousPoll, currentPoll>>

Lists == BoundedSeq(Entry, MaxList)

DiffInit == previousPoll = <<>> /\ currentPoll = <<>>

\* Two polls make every pair of lists.
Poll ==
  /\ previousPoll = <<>>
  /\ previousPoll' = currentPoll /\ currentPoll' \in Lists

DiffSpec == DiffInit /\ [][Poll]_polls

Changes == DetectChanges(ToMap(previousPoll), DeduplicateById(currentPoll))

\* No list names a reservation twice, as FSP is expected to answer.
Clean(list) == Len(list) = Cardinality(Ids(list))
Open(list) == {r \in Ids(list) : ToMap(list)[r] # "cancelled"}
Gone(list) == Reservation \ Open(list)

\* What the diff says of a reservation is what the header of the service
\* promises: a student's booking that went away is a cancellation, a crewed
\* one an opening, and only what is still there has a changed status.  The
\* early exit on an equal hash keeps none of it from being said.
DiffIsAsDescribed ==
  Clean(previousPoll) /\ Clean(currentPoll) =>
    \A r \in Open(previousPoll) :
      /\ [type |-> "CANCELLATION", id |-> r] \in Changes
           <=> r \in Gone(currentPoll) /\ r \in Student
      /\ [type |-> "NEW_OPENING", id |-> r] \in Changes
           <=> r \in Gone(currentPoll) /\ r \in Crewed
      /\ [type |-> "STATUS_CHANGE", id |-> r] \in Changes
           <=> r \in Open(currentPoll) /\ ToMap(previousPoll)[r] # ToMap(currentPoll)[r]
      /\ ComputeHash(previousPoll) = ComputeHash(currentPoll)
           => \A c \in Changes : c.id # r
=============================================================================
