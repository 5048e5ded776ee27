------------------------- MODULE MCCandidatePayload -------------------------
(* Small instances of CandidatePayload for TLC. *)
EXTENDS CandidatePayload

From(start, end) == [startDateTime |-> start, endDateTime |-> end]

MCReservations ==
  {From("mon9", "mon11") ++ [studentId |-> "amy", instructorId |-> "ike",
                             aircraftId |-> "n1", locationId |-> "east"],
   From("mon9", "mon11") ++ [studentId |-> "bob"],
   From("tue9", "tue10") ++ [instructorId |-> "ike", aircraftId |-> "n1"]}

MCSlots ==
  {From("wed9", "wed10"),
   From("wed9", "wed10") ++ [aircraftId |-> "n1"],
   From("thu8", "thu9") ++ [instructorId |-> "ike", aircraftId |-> "n1"]}

MCSolverEvents == {[eventId |-> "e1"], [eventId |-> "e2"] ++ From("fri9", "fri10")}

MCLesson ==
  [p \in Pupil |-> [id |-> "solo", enrollment |-> "private"]]

\* A client may post FSP's own fields, or another tenant's number.
MCHandMade ==
  {[note |-> "call them"],
   From("sat9", "sat10") ++ [operatorId |-> "another", studentId |-> "amy"]}
=============================================================================
