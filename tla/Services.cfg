CONSTANTS
  Caller = {consumer}
  Capacity = 2
  Interval = 3
  Pause = 5
  Horizon = 10
  Reservation = {a, b}
  Student = {a}
  Crewed = {b}
  MaxList = 3
  Row = {r1, r2, r3}
  ForeignRow = {r3}
  PageSize = 1
  BatchSize = 1
  Year = 0
  LastTime = 2
  MaxAnswers = 2
  MaxShown = 3
  Section = {policy}
  Field = {setting, template}
  MapEntry = {template}
  Checked = {setting}
  Other = {other}
  Null = Null
  Booking = {b1}
  Viewer = {v1, v2}
  Life = 2
  MaxRun = 1
  Day = 1
  Week = 2
  LastDay = 4
  Visit = {q1, q2}
  Token = {t1, t2}
  Org = {o1, o2}
  Known = {o1}
  Manages <- MCManages
  NoToken = NoToken
  TokenLife = 5
  Buffer = 3
  MaxDelay = 1
  LastMinute = 14
  FspOperator = {f1, f2}
  FspRetries = 2
  Notice = {mail, text}
  Sms = {text}
  Offer <- MCOffer
  Contact <- MCContact
  OwnTemplates <- MCOwnTemplates
  Size = {100, 161}
  Letter = {"m1", "m2", "m3"}
  Queues <- MCQueues
  QueueOf <- MCQueueOf
  Sweep = {w1, w2}
  MaxReceive = 2
  MaxHandles = 2
  MaxReports = 2
  Ask = {a1, a2}
  Claims = {2, 9, 12}
  Checks <- MCChecks
  Timeout = 2
  Override = 8
  EnoughPassed = 5
  Fallback = 5
  LastTick = 4
  Candidates <- MCCandidates
  Weights <- MCWeights
  Scale = 4
  Cap = 2
  MaxCandidates = 3
  Ulps = 8
  Epsilon = 2
  Rounding = {0, 1, 3}
  Nil = Nil
  Tenant = "school"
  Reservations <- MCReservations
  Slots <- MCSlots
  SolverEvents <- MCSolverEvents
  Pupil = {"amy", "zoe"}
  Lesson <- MCLesson
  Site = {"east"}
  EligibleCraft = {"n1"}
  EligibleTutor = {}
  HandMade <- MCHandMade
SPECIFICATION ServicesSpec
INVARIANTS
  ServicesTypeOK
  AtMostTwoBuckets
  DiffIsAsDescribed
  FeedSkipsNothing
  FiguresAreFresh
  HandlersSeeTheirOwn
  TokenKeepsWorking
  CallsAreAccounted
  RecordsAreHonest
  LettersAreReported
  RationaleIsSettledOnce
  RankingIsByNeed
  CardSaysWhatFspAccepted
PROPERTIES
  BucketIsALimiter
  LoneUpdateIsExact
CHECK_DEADLOCK FALSE
