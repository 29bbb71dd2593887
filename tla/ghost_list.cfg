SPECIFICATION FairSpec
CONSTANTS
  Sessions = {s1}
  Clients = {c1}
  None = None
  MaxConns = 2
  OutCap = 1
  SinkCap = 1
  PromptResolve = TRUE
PROPERTY
  GoneIsUnlisted
CHECK_DEADLOCK FALSE
