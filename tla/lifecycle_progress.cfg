SPECIFICATION FairSpec
CONSTANTS
  Names = {n1}
  NoName = NoName
  Pids = {p1, p2}
  NoPid = NoPid
  Clients = {c1}
  Worker = Worker
  Main = Main
  Ops = {"create", "delete", "restart", "restore", "mark"}
  SpawnMayFail = TRUE
  SerialCreate = FALSE
  PromptReaper = FALSE
INVARIANTS
  MarksAgree
PROPERTIES
  ExitedLeavesList
  RequestsFinish
