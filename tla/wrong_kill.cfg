SPECIFICATION Spec
CONSTANTS
  Sessions <- OneName
  Layouts = {1, 2}
  Requests = {1}
  None = None
PROPERTY KillsTheConfirmed
CHECK_DEADLOCK FALSE
