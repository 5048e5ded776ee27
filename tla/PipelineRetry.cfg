CONSTANTS
  Reservation = {lesson}
  Student = {lesson}
  Crewed = {lesson}
  Replica = {w1}
  Job = {j1, j2, j3}
  PollMinutes = 1
  TtlMinutes = 10
  MaxDelivery = 2
  Failure = {"publish"}
SPECIFICATION Spec
INVARIANT
  NothingMissed
CHECK_DEADLOCK FALSE
