SPECIFICATION Spec
CONSTANTS
  Names = {n1}
  NoName = NoName
  Pids = {p1, p2, p3}
  NoPid = NoPid
  Clients = {c1}
  Worker = Worker
  Main = Main
  Ops = {"create", "restart"}
  SpawnMayFail = FALSE
  SerialCreate = TRUE
  PromptReaper = TRUE
SYMMETRY PidSymmetry
INVARIANTS
  MarkerHasOwner
