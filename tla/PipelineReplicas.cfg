CONSTANTS
  Reservation = {lesson}
  Student = {lesson}
  Crewed = {lesson}
  Replica = {w1, w2}
  Job = {j1, j2}
  PollMinutes = 5
  TtlMinutes = 10
  MaxDelivery = 2
  Failure = {"publish", "lock", "crash"}
SPECIFICATION Spec
SYMMETRY Symmetry
PROPERTIES
  PipelineIsAFeed
  HashFollowsEvents
CHECK_DEADLOCK FALSE
