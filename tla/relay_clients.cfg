SPECIFICATION Spec
CONSTANTS
  Sessions = {s1}
  Clients = {c1, c2}
  None = None
  MaxConns = 2
  OutCap = 1
  SinkCap = 1
  PromptResolve = TRUE
INVARIANTS
  TypeOK
  
  ReplyIsOwn
SYMMETRY ClientSymmetry
CHECK_DEADLOCK FALSE
