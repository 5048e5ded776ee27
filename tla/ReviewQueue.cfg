CONSTANTS
  c1 = c1
  c2 = c2
  r1 = r1
  r2 = r2
  l1 = l1
  l2 = l2
  Card = {c1, c2}
  Request = {r1, r2}
  Load = {l1, l2}
  None = None
  Failure = {"network", "declined"}
SPECIFICATION FairSpec
PROPERTIES
  OnlyDecidedVanish
  ModalRejectsItsCard
  PageSettles
CHECK_DEADLOCK FALSE
