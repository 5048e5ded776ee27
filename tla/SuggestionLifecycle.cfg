CONSTANTS
  s1 = s1
  s2 = s2
  o1 = o1
  o2 = o2
  Suggestion = {s1, s2}
  Call = {c1, c2}
  Operator = {o1, o2}
  OwnerOf <- TwoOwners
  Expiring = {s1}
  IdLists <- AllLists
  MaxIds = 2
  MaxInFlight = 2
SPECIFICATION FairSpec
INVARIANTS
  RowAgreesWithAudit
  HandedOverWasApproved
  LateRequestsDecideNothing
  SuccessIsReal
PROPERTIES
  ImplementsDecisions
  RequestsEnd
  OverdueIsResolved
CHECK_DEADLOCK FALSE
