CONSTANTS
  Nil = Nil
  Tenant = "school"
  Reservations <- MCReservations
  Slots <- MCSlots
  SolverEvents <- MCSolverEvents
  Pupil = {"amy", "zoe"}
  Lesson <- MCLesson
  Site = {"east"}
  EligibleCraft = {"n1"}
  EligibleTutor = {}
  HandMade <- MCHandMade
SPECIFICATION PayloadSpec
INVARIANT
  ApprovalValidatesTheOffer
CHECK_DEADLOCK FALSE
