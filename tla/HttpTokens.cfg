CONSTANTS
  poll1 = poll1
  poll2 = poll2
  handler = handler
  core = core
  curriculum = curriculum
  t1 = t1
  t2 = t2
  Call = {poll1, handler}
  Client = {core, curriculum}
  ClientOf <- OneClient
  TokenOf <- TwoTokens
  Setter = {poll1}
  MaxRetries = 2
  Pause = 4
  Backoff <- Delays
SPECIFICATION Spec
INVARIANT
  TokensStayApart
CHECK_DEADLOCK FALSE
