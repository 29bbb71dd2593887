SPECIFICATION SuiteSpec
CONSTANTS
  c1 = c1
  c2 = c2
  u1 = u1
  u2 = u2
  o1 = o1
  o2 = o2
  d1 = d1
  d2 = d2
  l1 = l1
  l2 = l2
  none = none
  Users = {u1, u2}
  Agents = {1, 2}
  Names = {"a", "b"}
  OwnerOf <- AgentOwners
  LabelOf <- AgentLabels
  RowSet <- ShareRows
  Pool = {u1}
  Cap = 1
  Callers = {c1, c2}
  MaxCalls = 2
  MaxChanges = 1
  None = none
INVARIANTS TypesHold GrantsAreConsented AccessHolds CredentialsInPlace MailIsAccounted  TurnsAndBudgets
PROPERTIES PlansFollow
SYMMETRY CallerSymmetry
CHECK_DEADLOCK FALSE
