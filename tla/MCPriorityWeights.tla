------------------------- MODULE MCPriorityWeights -------------------------
(***************************************************************************)
(* The instance of the ranking.                                            *)
(***************************************************************************)
EXTENDS PriorityWeights

Flight(day, cancelled) == [day |-> day, cancelled |-> cancelled]
Histories ==
  {{}, {Flight(-2, FALSE), Flight(1, TRUE)},
   {Flight(-1, FALSE), Flight(-3, TRUE), Flight(2, FALSE)}}

MCCandidates ==
  [id : {1}, flights : Histories, required : {2}, completed : {1}, custom : {{}}]
    \cup [id : {2}, flights : Histories, required : {2}, completed : {3}, custom : {{}}]
    \cup [id : {3}, flights : {{Flight(-2, FALSE)}}, required : {0}, completed : {1},
          custom : {{-1}, {6}}]

Weighing(past, next, hours, custom, higherIsBetter) ==
  [since |-> past, until |-> next, hours |-> hours, custom |-> custom,
   higherIsBetter |-> higherIsBetter]
MCWeights ==
  {Weighing(1, 0, 0, 0, FALSE), Weighing(1, 1, 2, 0, FALSE),
   Weighing(0, 0, 1, 1, TRUE), Weighing(0, 0, 0, 1, FALSE)}
=============================================================================
