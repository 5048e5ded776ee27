CONSTANTS
  c1 = c1
  c2 = c2
  x1 = x1
  x2 = x2
  m1 = m1
  m2 = m2
  st1 = st1
  st2 = st2
  o1 = o1
  o2 = o2
  o3 = o3
  Consumer = {c1}
  Scanner = {x1}
  Message = {m1}
  Student = {st1}
  Offer = {o1, o2}
  EndsInDark = {o2}
  StartsInDark = {o1}
  Eligible = {o1}
  Squawked = {m1}
  Placed = {m1, st1}
  MaxTries = 2
  MaxReschedules = 2
  MaxDiscoveries = 1
  MaxLessons = 1
  MaxDelivery = 2
  MaxScans = 2
  MaxHandlings = 2
  Failure = {"database", "lock", "crash"}
SPECIFICATION FairSpec
INVARIANTS
  OffersAreSound
  AuditKeepsUp
  ScanAddsToNothing
PROPERTIES
  WritesALedger
  EventsEnd
CHECK_DEADLOCK FALSE
