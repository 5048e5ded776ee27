CONSTANTS
  poll1 = poll1
  poll2 = poll2
  handler = handler
  core = core
  curriculum = curriculum
  t1 = t1
  t2 = t2
  Call = {poll1, poll2, handler}
  Client = {core, curriculum}
  ClientOf <- Clients
  TokenOf <- Tokens
  Setter = {poll1, poll2}
  MaxRetries = 2
  Pause = 3
  Backoff <- Delays
SPECIFICATION FairSpec
PROPERTIES
  AloneKeepsPause
  CallsEnd
CHECK_DEADLOCK FALSE
