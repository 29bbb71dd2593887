SPECIFICATION Spec
CONSTANTS
  Names = {n1}
  NoName = NoName
  Pids = {p1, p2}
  NoPid = NoPid
  Clients = {c1, c2}
  Worker = Worker
  Main = Main
  Ops = {"create","restart","update"}
  SpawnMayFail = FALSE
  SerialCreate = TRUE
  PromptReaper = TRUE
SYMMETRY BothSymmetry
INVARIANTS
  RestartExclusive
