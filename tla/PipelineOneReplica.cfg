CONSTANTS
  Reservation = {lesson}
  Student = {lesson}
  Crewed = {lesson}
  Replica = {w1}
  Job = {j1, j2}
  PollMinutes = 5
  TtlMinutes = 10
  MaxDelivery = 2
  Failure = {"fsp", "throttle", "publish", "database", "lock", "crash"}
SPECIFICATION FairSpec
INVARIANT
  NothingMissedUnharmed
PROPERTY
  JobsEnd
CHECK_DEADLOCK FALSE
