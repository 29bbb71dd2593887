-------------------------- MODULE SessionLifecycle --------------------------
(***************************************************************************)
(* The life of a terminal session inside the agent: the in-memory registry *)
(* of live sessions, the manifest on disk that decides what comes back     *)
(* after a redeploy, the reaper thread each child process gets, the        *)
(* `restarting` markers that tell a reaper "this exit is not a goodbye",   *)
(* the one assistant-update job, and the request threads (web handlers and *)
(* hub commands) that create, delete, restart, restore and mark sessions.  *)
(*                                                                         *)
(* src/src/engine.rs (AppState), src/src/manifest.rs, and the handlers     *)
(* that drive them in src/src/handlers.rs, src/src/ops.rs and              *)
(* src/src/assistants.rs.  Each lock section of the code is one action, so *)
(* whatever can happen between two lock sections can happen here.          *)
(***************************************************************************)
EXTENDS Naturals, FiniteSets

CONSTANTS
  Names,        \* full session names, "<prefix>-<short>"
  NoName,       \* a thread that works on no session
  Pids,         \* child processes; a slot is reused once nobody knows it
  NoPid,        \* "no process"
  Clients,      \* request threads: axum handlers and the hub command loop
  Worker,       \* the thread `start_job` spawns for the update job
  Main,         \* the thread that runs startup
  Ops,          \* the operations clients issue in this instance
  SpawnMayFail, \* whether `Session::spawn` may return an error
  SerialCreate, \* usage assumption: no two creates of one name overlap
                \* between the contains_key check and the insert
  PromptReaper  \* timing assumption: a reaper that has started finishes its
                \* few lock sections before a fork and exec of the same name

Threads == Clients \cup {Worker, Main}

ASSUME ThreadAssumption ==
  /\ Worker # Main
  /\ Worker \notin Clients
  /\ Main \notin Clients
ASSUME NoneAssumption == NoPid \notin Pids /\ NoName \notin Names
ASSUME SwitchAssumption ==
  /\ SpawnMayFail \in BOOLEAN
  /\ SerialCreate \in BOOLEAN
  /\ PromptReaper \in BOOLEAN

VARIABLES
  phase,      \* "down" (no agent process), "boot" (startup), "serving"
  registry,   \* Inner.registry: the process each name is live on
  restarting, \* Inner.restarting: the names marked as being restarted
  job,        \* whether Inner.update_job is running
  manifest,   \* sessions.json: each name's entry, with its mark (colour/label)
  child,      \* the state of each child process
  owner,      \* the session name each child was spawned for
  tint,       \* Session.color: the mark each live session carries
  reaper,     \* where each child's reaper thread is
  th,         \* the request, job and startup threads
  ledger      \* history: what the user has said about each name so far

agentVars == <<phase, registry, restarting, job>>
childVars == <<child, owner, tint, reaper>>
vars == <<phase, registry, restarting, job, manifest, child, owner, tint,
          reaper, th, ledger>>

-----------------------------------------------------------------------------
(* A manifest entry is absent, or present without or with a mark.          *)
Entry == {"absent", "plain", "marked"}

(* "asked" had /exit typed at it by the agent; "killed" has the kill       *)
(* delivered and its death pending; "ok" and "failed" are exit statuses.   *)
ChildState == {"free", "running", "asked", "killed", "ok", "failed"}
ReaperState == {"none", "wait", "unregister", "consume", "forget"}

(* "young" and "reborn": created, for the first time or again, but not yet *)
(* recorded; "owed" and "again": recorded, and not ended by the user since *)
Ledger == {"never", "young", "owed", "left", "reborn", "again"}
OpName == {"none", "create", "delete", "restart", "update", "restore", "mark"}
Label == {"idle",
          "check", "spawn", "insert", "record", "relive", "reentry",
          "forget", "signal",
          "tint", "stain",
          "job", "reserve", "lookup", "snapshot", "remark", "exit",
          "graceful", "forced", "release",
          "seed", "fleet",
          "live", "entries", "pick"}

Blank == [n \in Names |-> "absent"]

(* A thread: its place in the code, the operation it runs, the session it  *)
(* works on, the Arc<Session> it holds, the manifest it read, the mark it  *)
(* has to put back (or to set), and the names a loop still has to visit.   *)
Thread == [pc : Label, op : OpName, name : Names \cup {NoName},
           held : Pids \cup {NoPid}, snap : [Names -> Entry],
           mark : BOOLEAN, todo : SUBSET Names]

Idle == [pc |-> "idle", op |-> "none", name |-> NoName, held |-> NoPid,
         snap |-> Blank, mark |-> FALSE, todo |-> {}]

TypeOK ==
  /\ phase \in {"down", "boot", "serving"}
  /\ registry \in [Names -> Pids \cup {NoPid}]
  /\ restarting \in SUBSET Names
  /\ job \in BOOLEAN
  /\ manifest \in [Names -> Entry]
  /\ child \in [Pids -> ChildState]
  /\ owner \in [Pids -> Names \cup {NoName}]
  /\ tint \in [Pids -> BOOLEAN]
  /\ reaper \in [Pids -> ReaperState]
  /\ th \in [Threads -> Thread]
  /\ ledger \in [Names -> Ledger]

Live(n) == registry[n] # NoPid
LiveNames == {n \in Names : Live(n)}
Recorded(n) == manifest[n] # "absent"
Exited(p) == child[p] \in {"ok", "failed"}

Init ==
  /\ phase = "down"
  /\ registry = [n \in Names |-> NoPid]
  /\ restarting = {}
  /\ job = FALSE
  /\ manifest = Blank
  /\ child = [p \in Pids |-> "free"]
  /\ owner = [p \in Pids |-> NoName]
  /\ tint = [p \in Pids |-> FALSE]
  /\ reaper = [p \in Pids |-> "none"]
  /\ th = [t \in Threads |-> Idle]
  /\ ledger = [n \in Names |-> "never"]

-----------------------------------------------------------------------------
(* Threads.  A request arrives at an idle client thread while the agent    *)
(* serves; Enter starts an operation on a session at a label.              *)
At(t, l) == th[t].pc = l
Free(t, o) == /\ phase = "serving"
              /\ t \in Clients
              /\ At(t, "idle")
              /\ o \in Ops
Enter(t, o, n, l) ==
  th' = [th EXCEPT ![t] = [Idle EXCEPT !.pc = l, !.op = o, !.name = n]]
Goto(t, l) == th' = [th EXCEPT ![t].pc = l]
Finish(t) == th' = [th EXCEPT ![t] = Idle]

(* A thread that is done with one session returns, or, in a loop over      *)
(* several, goes on with what it has left to visit.                        *)
NextItem(t) ==
  th' = [th EXCEPT ![t] =
           IF th[t].op = "update"
           THEN [Idle EXCEPT !.pc = "fleet", !.op = "update", !.todo = th[t].todo]
           ELSE IF th[t].op = "restore"
           THEN [Idle EXCEPT !.pc = "pick", !.op = "restore",
                             !.todo = th[t].todo, !.snap = th[t].snap]
           ELSE Idle]

(* A failed single restart still has its outer marker to drop.             *)
RestartEnds(t) == IF th[t].op = "restart" THEN Goto(t, "release") ELSE NextItem(t)

(* `graceful_exit`: type /exit, unless the prompt is not at its prompt.    *)
Asked(p) == IF p \in Pids /\ child[p] = "running"
            THEN [child EXCEPT ![p] = "asked"] ELSE child
(* `kill`: signal the child.  A stuck child may stay in "killed" forever.  *)
Killed(p) == IF p \in Pids /\ child[p] \in {"running", "asked"}
             THEN [child EXCEPT ![p] = "killed"] ELSE child

-----------------------------------------------------------------------------
(* AppState::create, called by a create request, by restart and by         *)
(* restore.  The contains_key check, the spawn, the registry insert and    *)
(* the manifest record are four separate lock sections.                    *)
CreateRequest(t, n) ==
  /\ Free(t, "create")
  /\ Enter(t, "create", n, "check")
  /\ UNCHANGED <<agentVars, manifest, childVars, ledger>>

(* What the caller does with create's error: restore reports it, a restart *)
(* re-records the entry it read ("keep it restorable rather than lost").   *)
CreateFails(t) ==
  LET n == th[t].name
      old == th[t].snap[n]
  IN /\ manifest' = IF th[t].op \in {"restart", "update"} /\ old # "absent"
                    THEN [manifest EXCEPT ![n] = old] ELSE manifest
     /\ RestartEnds(t)

MidCreate(n) == \E t \in Threads :
  th[t].name = n /\ th[t].pc \in {"spawn", "insert"}

(* Slip: the check is left out.                                            *)
SlipCreateCheck(t) ==
  /\ At(t, "check")
  /\ Goto(t, "spawn")
  /\ UNCHANGED <<agentVars, manifest, childVars, ledger>>

CreateCheck(t) ==
  /\ At(t, "check")
  /\ SerialCreate => ~MidCreate(th[t].name)
  /\ \/ /\ ~Live(th[t].name)
        /\ Goto(t, "spawn")
        /\ UNCHANGED manifest
     \/ /\ Live(th[t].name)
        /\ CreateFails(t)
  /\ UNCHANGED <<agentVars, childVars, ledger>>

(* A slot nobody refers to any more stands for a fresh process.            *)
Fresh(p) == child[p] = "free" /\ \A t \in Threads : th[t].held # p

MidReap(n) == \E p \in Pids :
  owner[p] = n /\ reaper[p] \in {"unregister", "consume", "forget"}

CreateSpawn(t, p) ==
  /\ At(t, "spawn")
  /\ Fresh(p)
  /\ PromptReaper => ~MidReap(th[t].name)
  /\ child' = [child EXCEPT ![p] = "running"]
  /\ owner' = [owner EXCEPT ![p] = th[t].name]
  /\ tint' = [tint EXCEPT ![p] = FALSE]
  /\ th' = [th EXCEPT ![t].pc = "insert", ![t].held = p]
  /\ ledger' = IF th[t].op # "create" THEN ledger
               ELSE [ledger EXCEPT ![th[t].name] =
                       IF @ = "never" THEN "young"
                       ELSE IF @ = "left" THEN "reborn" ELSE @]
  /\ UNCHANGED <<agentVars, manifest, reaper>>

CreateSpawnFails(t) ==
  /\ SpawnMayFail
  /\ At(t, "spawn")
  /\ CreateFails(t)
  /\ UNCHANGED <<agentVars, childVars, ledger>>

CreateInsert(t) ==
  /\ At(t, "insert")
  /\ registry' = [registry EXCEPT ![th[t].name] = th[t].held]
  /\ Goto(t, "record")
  /\ UNCHANGED <<phase, restarting, job, manifest, childVars, ledger>>

(* Recording overwrites whatever entry was there with an unmarked one, and *)
(* only then does the reaper thread start.                                 *)
(* Slip: no reaper for a child that has exited already.                    *)
SlipCreateRecord(t) ==
  LET n == th[t].name
  IN /\ At(t, "record")
     /\ manifest' = [manifest EXCEPT ![n] = "plain"]
     /\ reaper' = IF Exited(th[t].held) THEN reaper
                  ELSE [reaper EXCEPT ![th[t].held] = "wait"]
     /\ IF th[t].mark THEN Goto(t, "relive") ELSE NextItem(t)
     /\ UNCHANGED <<agentVars, child, owner, tint, ledger>>

CreateRecord(t) ==
  LET n == th[t].name
  IN /\ At(t, "record")
     /\ manifest' = [manifest EXCEPT ![n] = "plain"]
     /\ reaper' = [reaper EXCEPT ![th[t].held] = "wait"]
     /\ ledger' = [ledger EXCEPT ![n] = IF @ = "young" THEN "owed"
                                        ELSE IF @ = "reborn" THEN "again" ELSE @]
     /\ IF th[t].mark THEN Goto(t, "relive") ELSE NextItem(t)
     /\ UNCHANGED <<agentVars, child, owner, tint>>

(* Restore and restart put the saved mark back: first on whatever session  *)
(* the name is live on now, then on its manifest entry.                    *)
(* Slip: only the entry gets its mark back.                                *)
SlipReapplyLive(t) ==
  /\ At(t, "relive")
  /\ Goto(t, "reentry")
  /\ UNCHANGED <<agentVars, manifest, childVars, ledger>>

ReapplyLive(t) ==
  LET p == registry[th[t].name]
  IN /\ At(t, "relive")
     /\ tint' = IF p \in Pids THEN [tint EXCEPT ![p] = TRUE] ELSE tint
     /\ Goto(t, "reentry")
     /\ UNCHANGED <<agentVars, manifest, child, owner, reaper, ledger>>

(* manifest::set_color: a no-op when the session is not recorded.          *)
(* Slip: the colour overwrites the entry it should be a field of.          *)
SlipWithMark(n, m) == [manifest EXCEPT ![n] = IF m THEN "colour" ELSE "absent"]
WithMark(n, m) ==
  IF Recorded(n) THEN [manifest EXCEPT ![n] = IF m THEN "marked" ELSE "plain"]
  ELSE manifest

ReapplyEntry(t) ==
  /\ At(t, "reentry")
  /\ manifest' = WithMark(th[t].name, TRUE)
  /\ NextItem(t)
  /\ UNCHANGED <<agentVars, childVars, ledger>>

-----------------------------------------------------------------------------
(* The reaper thread: child.wait() returns, the name leaves the registry   *)
(* (by name, whoever it is live on), the marker is consumed, and an        *)
(* unmarked clean exit is forgotten.                                       *)
ReaperWaits(p) ==
  /\ reaper[p] = "wait"
  /\ Exited(p)
  /\ reaper' = [reaper EXCEPT ![p] = "unregister"]
  /\ UNCHANGED <<agentVars, manifest, child, owner, tint, th, ledger>>

(* Slip: only a clean exit takes the session off the list.                 *)
SlipReaperUnregisters(p) ==
  /\ reaper[p] = "unregister"
  /\ registry' = IF child[p] = "ok" THEN [registry EXCEPT ![owner[p]] = NoPid]
                 ELSE registry
  /\ reaper' = [reaper EXCEPT ![p] = "consume"]
  /\ UNCHANGED <<phase, restarting, job, manifest, child, owner, tint, th, ledger>>

ReaperUnregisters(p) ==
  /\ reaper[p] = "unregister"
  /\ registry' = [registry EXCEPT ![owner[p]] = NoPid]
  /\ reaper' = [reaper EXCEPT ![p] = "consume"]
  /\ UNCHANGED <<phase, restarting, job, manifest, child, owner, tint, th, ledger>>

(* The slot of a reaped child is clean again once its reaper has ended.    *)
ReaperEnds(p) ==
  /\ reaper' = [reaper EXCEPT ![p] = "none"]
  /\ child' = [child EXCEPT ![p] = "free"]
  /\ owner' = [owner EXCEPT ![p] = NoName]

(* Slip: every clean exit is a goodbye, marked or not.                     *)
SlipReaperConsumes(p) ==
  /\ reaper[p] = "consume"
  /\ restarting' = restarting \ {owner[p]}
  /\ IF child[p] = "ok"
     THEN /\ reaper' = [reaper EXCEPT ![p] = "forget"]
          /\ UNCHANGED <<child, owner>>
     ELSE ReaperEnds(p)
  /\ UNCHANGED <<phase, registry, job, manifest, tint, th, ledger>>

ReaperConsumes(p) ==
  /\ reaper[p] = "consume"
  /\ restarting' = restarting \ {owner[p]}
  /\ IF child[p] = "ok" /\ owner[p] \notin restarting
     THEN /\ reaper' = [reaper EXCEPT ![p] = "forget"]
          /\ UNCHANGED <<child, owner>>
     ELSE ReaperEnds(p)
  /\ UNCHANGED <<phase, registry, job, manifest, tint, th, ledger>>

ReaperForgets(p) ==
  /\ reaper[p] = "forget"
  /\ manifest' = [manifest EXCEPT ![owner[p]] = "absent"]
  /\ ReaperEnds(p)
  /\ UNCHANGED <<agentVars, tint, th, ledger>>

-----------------------------------------------------------------------------
(* The child processes, which the agent does not control.  A clean exit    *)
(* nobody in the agent asked for is the user typing /exit: a goodbye.      *)
UserExits(p) ==
  /\ child[p] = "running"
  /\ child' = [child EXCEPT ![p] = "ok"]
  /\ ledger' = [ledger EXCEPT ![owner[p]] = "left"]
  /\ UNCHANGED <<agentVars, manifest, owner, tint, reaper, th>>

ObeysExit(p) ==
  /\ child[p] = "asked"
  /\ child' = [child EXCEPT ![p] = "ok"]
  /\ UNCHANGED <<agentVars, manifest, owner, tint, reaper, th, ledger>>

(* A crash, or the kill taking effect.                                     *)
ChildDies(p) ==
  /\ child[p] \in {"running", "asked", "killed"}
  /\ child' = [child EXCEPT ![p] = "failed"]
  /\ UNCHANGED <<agentVars, manifest, owner, tint, reaper, th, ledger>>

-----------------------------------------------------------------------------
(* delete_session and Cmd::Delete: look the session up, forget its entry,  *)
(* then stop it.  The web handler answers 400 to a mode it does not know,  *)
(* after forgetting the entry and without stopping anything.               *)
DeleteRequest(t, n) ==
  /\ Free(t, "delete")
  /\ Live(n)
  /\ th' = [th EXCEPT ![t] = [Idle EXCEPT !.pc = "forget", !.op = "delete",
                                        !.name = n, !.held = registry[n]]]
  /\ UNCHANGED <<agentVars, manifest, childVars, ledger>>

DeleteForgets(t) ==
  /\ At(t, "forget")
  /\ manifest' = [manifest EXCEPT ![th[t].name] = "absent"]
  /\ ledger' = [ledger EXCEPT ![th[t].name] = "left"]
  /\ Goto(t, "signal")
  /\ UNCHANGED <<agentVars, childVars>>

DeleteSignals(t) ==
  /\ At(t, "signal")
  /\ child' \in {Asked(th[t].held), Killed(th[t].held), child}
  /\ Finish(t)
  /\ UNCHANGED <<agentVars, manifest, owner, tint, reaper, ledger>>

-----------------------------------------------------------------------------
(* set_color_core and set_label_core: the live session first, the entry    *)
(* afterwards.  The mark is set or cleared.                                *)
MarkRequest(t, n, m) ==
  /\ Free(t, "mark")
  /\ Live(n)
  /\ th' = [th EXCEPT ![t] = [Idle EXCEPT !.pc = "tint", !.op = "mark", !.name = n,
                                        !.held = registry[n], !.mark = m]]
  /\ UNCHANGED <<agentVars, manifest, childVars, ledger>>

MarkLive(t) ==
  /\ At(t, "tint")
  /\ tint' = [tint EXCEPT ![th[t].held] = th[t].mark]
  /\ Goto(t, "stain")
  /\ UNCHANGED <<agentVars, manifest, child, owner, reaper, ledger>>

MarkEntry(t) ==
  /\ At(t, "stain")
  /\ manifest' = WithMark(th[t].name, th[t].mark)
  /\ Finish(t)
  /\ UNCHANGED <<agentVars, childVars, ledger>>

-----------------------------------------------------------------------------
(* restart_one: refuse an unknown session, then while an update job runs,  *)
(* then when the name is already marked; otherwise reserve the name.  The  *)
(* three tests are three lock sections.                                    *)
RestartRequest(t, n) ==
  /\ Free(t, "restart")
  /\ Live(n)
  /\ Enter(t, "restart", n, "job")
  /\ UNCHANGED <<agentVars, manifest, childVars, ledger>>

RestartChecksJob(t) ==
  /\ At(t, "job")
  /\ IF job THEN Finish(t) ELSE Goto(t, "reserve")
  /\ UNCHANGED <<agentVars, manifest, childVars, ledger>>

RestartReserves(t) ==
  /\ At(t, "reserve")
  /\ IF th[t].name \in restarting
     THEN Finish(t) /\ UNCHANGED restarting
     ELSE Goto(t, "lookup") /\ restarting' = restarting \cup {th[t].name}
  /\ UNCHANGED <<phase, registry, job, manifest, childVars, ledger>>

(* restart_session_inner, shared with the update job: the session may be   *)
(* gone ("skipped"); otherwise read the manifest before stopping it.  The  *)
(* mark to put back is the entry's, or the live session's when the name    *)
(* has no entry.                                                           *)
RestartLooksUp(t) ==
  /\ At(t, "lookup")
  /\ IF Live(th[t].name)
     THEN th' = [th EXCEPT ![t].pc = "snapshot", ![t].held = registry[th[t].name]]
     ELSE RestartEnds(t)
  /\ UNCHANGED <<agentVars, manifest, childVars, ledger>>

RestartSnapshots(t) ==
  LET n == th[t].name
  IN /\ At(t, "snapshot")
     /\ th' = [th EXCEPT ![t].pc = "remark",
                 ![t].snap = [Blank EXCEPT ![n] = manifest[n]],
                 ![t].mark = IF Recorded(n) THEN manifest[n] = "marked"
                             ELSE tint[th[t].held]]
     /\ UNCHANGED <<agentVars, manifest, childVars, ledger>>

(* Slip: the shared body relies on the reservation restart_one made.       *)
SlipRestartMarks(t) ==
  /\ At(t, "remark")
  /\ Goto(t, "exit")
  /\ UNCHANGED <<agentVars, manifest, childVars, ledger>>

RestartMarks(t) ==
  /\ At(t, "remark")
  /\ restarting' = restarting \cup {th[t].name}
  /\ Goto(t, "exit")
  /\ UNCHANGED <<phase, registry, job, manifest, childVars, ledger>>

RestartTypesExit(t) ==
  /\ At(t, "exit")
  /\ child' = Asked(th[t].held)
  /\ Goto(t, "graceful")
  /\ UNCHANGED <<agentVars, manifest, owner, tint, reaper, ledger>>

(* wait_gone watches the name, not the process.                            *)
RestartSeesGone(t) ==
  /\ \/ At(t, "graceful")
     \/ At(t, "forced")
  /\ ~Live(th[t].name)
  /\ Goto(t, "check")
  /\ UNCHANGED <<agentVars, manifest, childVars, ledger>>

(* The 10 s and 5 s budgets.  A prompt reaper is not starved for seconds,  *)
(* so they run out only when none has work left to do for the name.        *)
Lingers(n) ==
  /\ Live(n)
  /\ PromptReaper => \A p \in Pids : owner[p] = n => ~Exited(p)

RestartGracePasses(t) ==
  /\ At(t, "graceful")
  /\ Lingers(th[t].name)
  /\ child' = Killed(th[t].held)
  /\ Goto(t, "forced")
  /\ UNCHANGED <<agentVars, manifest, owner, tint, reaper, ledger>>

(* Slip: the second wait has no budget of its own.                         *)
SlipRestartGivesUp(t) ==
  /\ At(t, "forced")
  /\ Lingers(th[t].name)
  /\ UNCHANGED vars

RestartGivesUp(t) ==
  /\ At(t, "forced")
  /\ Lingers(th[t].name)
  /\ restarting' = restarting \ {th[t].name}
  /\ RestartEnds(t)
  /\ UNCHANGED <<phase, registry, job, manifest, childVars, ledger>>

(* restart_one drops the marker whenever the row is not "resumed".         *)
RestartReleases(t) ==
  /\ At(t, "release")
  /\ restarting' = restarting \ {th[t].name}
  /\ Finish(t)
  /\ UNCHANGED <<phase, registry, job, manifest, childVars, ledger>>

-----------------------------------------------------------------------------
(* The update job.  begin_update_job refuses while a job runs or any       *)
(* session is marked, under the job's lock.                                *)
UpdateRequest(t) ==
  /\ Free(t, "update")
  /\ ~job
  /\ restarting = {}
  /\ job' = TRUE
  /\ th' = [th EXCEPT ![Worker] = [Idle EXCEPT !.pc = "seed", !.op = "update"]]
  /\ UNCHANGED <<phase, registry, restarting, manifest, childVars, ledger>>

(* run_job, after updating the CLIs: the sessions to restart are the live  *)
(* ones of the tools that changed.                                         *)
UpdateSeeds(S) ==
  /\ At(Worker, "seed")
  /\ S \subseteq LiveNames
  /\ th' = [th EXCEPT ![Worker].pc = "fleet", ![Worker].todo = S]
  /\ UNCHANGED <<agentVars, manifest, childVars, ledger>>

UpdateNext(n) ==
  /\ At(Worker, "fleet")
  /\ n \in th[Worker].todo
  /\ th' = [th EXCEPT ![Worker].pc = "lookup", ![Worker].name = n,
                      ![Worker].todo = @ \ {n}]
  /\ UNCHANGED <<agentVars, manifest, childVars, ledger>>

(* After the restarts, a job that installed a CLI restores what was        *)
(* recorded for it; then, or otherwise at once, the job is done.           *)
UpdateRestores ==
  /\ At(Worker, "fleet")
  /\ th[Worker].todo = {}
  /\ Enter(Worker, "restore", NoName, "live")
  /\ UNCHANGED <<agentVars, manifest, childVars, ledger>>

UpdateEnds ==
  /\ At(Worker, "fleet")
  /\ th[Worker].todo = {}
  /\ job' = FALSE
  /\ Finish(Worker)
  /\ UNCHANGED <<phase, registry, restarting, manifest, childVars, ledger>>

-----------------------------------------------------------------------------
(* restore_matching, run at startup, by a request and by the job: read the *)
(* live names, then the manifest, then create what is recorded and was not *)
(* live, one at a time.                                                    *)
RestoreRequest(t) ==
  /\ Free(t, "restore")
  /\ Enter(t, "restore", NoName, "live")
  /\ UNCHANGED <<agentVars, manifest, childVars, ledger>>

RestoreReadsLive(t) ==
  /\ At(t, "live")
  /\ th' = [th EXCEPT ![t].pc = "entries", ![t].todo = Names \ LiveNames]
  /\ UNCHANGED <<agentVars, manifest, childVars, ledger>>

RestoreReadsEntries(t) ==
  /\ At(t, "entries")
  /\ th' = [th EXCEPT ![t].pc = "pick", ![t].snap = manifest,
                      ![t].todo = {n \in @ : Recorded(n)}]
  /\ UNCHANGED <<agentVars, manifest, childVars, ledger>>

RestoreCreates(t, n) ==
  /\ At(t, "pick")
  /\ n \in th[t].todo
  /\ th' = [th EXCEPT ![t].pc = "check", ![t].name = n, ![t].todo = @ \ {n},
                      ![t].mark = (th[t].snap[n] = "marked")]
  /\ UNCHANGED <<agentVars, manifest, childVars, ledger>>

(* Its tool is unknown or not installed, or its directory is gone.         *)
RestoreSkips(t, n) ==
  /\ At(t, "pick")
  /\ n \in th[t].todo
  /\ th' = [th EXCEPT ![t].todo = @ \ {n}]
  /\ UNCHANGED <<agentVars, manifest, childVars, ledger>>

RestoreEnds(t) ==
  /\ At(t, "pick")
  /\ th[t].todo = {}
  /\ phase' = IF t = Main THEN "serving" ELSE phase
  /\ job' = IF t = Worker THEN FALSE ELSE job
  /\ Finish(t)
  /\ UNCHANGED <<registry, restarting, manifest, childVars, ledger>>

-----------------------------------------------------------------------------
(* The agent process: a redeploy or crash takes every child, thread and    *)
(* in-memory structure with it and leaves the manifest.  Startup restores  *)
(* before it serves, unless --no-restore.                                  *)
AgentStops ==
  /\ phase # "down"
  /\ phase' = "down"
  /\ registry' = [n \in Names |-> NoPid]
  /\ restarting' = {}
  /\ job' = FALSE
  /\ child' = [p \in Pids |-> "free"]
  /\ owner' = [p \in Pids |-> NoName]
  /\ tint' = [p \in Pids |-> FALSE]
  /\ reaper' = [p \in Pids |-> "none"]
  /\ th' = [t \in Threads |-> Idle]
  /\ ledger' = [n \in Names |-> IF ledger[n] = "young" THEN "never"
                                ELSE IF ledger[n] = "reborn" THEN "left"
                                ELSE ledger[n]]
  /\ UNCHANGED manifest

AgentBoots ==
  /\ phase = "down"
  /\ \/ /\ phase' = "boot"
        /\ Enter(Main, "restore", NoName, "live")
     \/ /\ phase' = "serving"
        /\ UNCHANGED th
  /\ UNCHANGED <<registry, restarting, job, manifest, childVars, ledger>>

-----------------------------------------------------------------------------
Request(t) ==
  \/ RestoreRequest(t)
  \/ UpdateRequest(t)
  \/ \E n \in Names : \/ CreateRequest(t, n)
                      \/ DeleteRequest(t, n)
                      \/ RestartRequest(t, n)
                      \/ \E m \in BOOLEAN : MarkRequest(t, n, m)

ThreadStep(t) ==
  \/ CreateCheck(t) \/ (\E p \in Pids : CreateSpawn(t, p)) \/ CreateSpawnFails(t)
  \/ CreateInsert(t) \/ CreateRecord(t) \/ ReapplyLive(t) \/ ReapplyEntry(t)
  \/ DeleteForgets(t) \/ DeleteSignals(t) \/ MarkLive(t) \/ MarkEntry(t)
  \/ RestartChecksJob(t) \/ RestartReserves(t) \/ RestartLooksUp(t)
  \/ RestartSnapshots(t) \/ RestartMarks(t) \/ RestartTypesExit(t)
  \/ RestartSeesGone(t) \/ RestartGracePasses(t) \/ RestartGivesUp(t)
  \/ RestartReleases(t)
  \/ RestoreReadsLive(t) \/ RestoreReadsEntries(t) \/ RestoreEnds(t)
  \/ \E n \in Names : RestoreCreates(t, n) \/ RestoreSkips(t, n)

WorkerStep ==
  \/ UpdateRestores \/ UpdateEnds
  \/ \E S \in SUBSET Names : UpdateSeeds(S)
  \/ \E n \in Names : UpdateNext(n)

ReaperStep(p) == ReaperWaits(p) \/ ReaperUnregisters(p) \/ ReaperConsumes(p)
                 \/ ReaperForgets(p)

ChildStep(p) == UserExits(p) \/ ObeysExit(p) \/ ChildDies(p)

Next ==
  \/ \E t \in Threads : Request(t) \/ ThreadStep(t)
  \/ WorkerStep
  \/ \E p \in Pids : ReaperStep(p) \/ ChildStep(p)
  \/ AgentStops
  \/ AgentBoots

Spec == Init /\ [][Next]_vars

(* The operating system schedules the agent's threads, and the clock       *)
(* behind the two budgets runs whatever the session does meanwhile.        *)
(* Nothing is assumed of the users, the children, or the agent's restarts. *)
Fairness ==
  /\ \A t \in Threads : /\ WF_vars(ThreadStep(t))
                        /\ SF_vars(RestartGracePasses(t) \/ RestartGivesUp(t))
  /\ WF_vars(WorkerStep)
  /\ \A p \in Pids : WF_vars(ReaperStep(p))

FairSpec == Spec /\ Fairness

-----------------------------------------------------------------------------
(* A session the list shows is one whose reaper has yet to take it off the *)
(* list, so no dead session stays listed for good: `create` starts the     *)
(* reaper after the insert, and the reaper removes by name.                *)
ListedIsReaped ==
  \A n \in Names : Live(n) =>
    \/ /\ owner[registry[n]] = n
       /\ reaper[registry[n]] \in {"wait", "unregister"}
    \/ \E t \in Threads : /\ At(t, "record")
                          /\ th[t].name = n
                          /\ th[t].held = registry[n]

(* A session its user never deleted and never exited stays in the manifest *)
(* through every restart, update job, crash and redeploy (manifest.rs, the *)
(* header; restart_session_inner: "nothing here removes a manifest entry").*)
NeverForgottenUnasked == \A n \in Names : ledger[n] = "owed" => Recorded(n)

(* A marker is only ever in the set on behalf of a restart that is still   *)
(* running or of an exit whose reaper has not read it yet: otherwise every *)
(* later restart of the name is refused as busy.                           *)
Restarting(t, n) ==
  /\ th[t].name = n
  /\ th[t].op \in {"restart", "update"}
  /\ th[t].pc \notin {"job", "reserve"}
MarkerHasOwner ==
  \A n \in restarting :
    \/ \E t \in Threads : Restarting(t, n)
    \/ \E p \in Pids : /\ owner[p] = n
                       /\ Exited(p)
                       /\ reaper[p] \in {"wait", "unregister", "consume"}

(* A restart and the update job, or two restarts, never both stop one       *)
(* session (restart_one's comments).                                       *)
Stopping(t, p) ==
  /\ th[t].op \in {"restart", "update"}
  /\ th[t].pc \in {"snapshot", "remark", "exit", "graceful", "forced"}
  /\ th[t].held = p
RestartExclusive ==
  \A p \in Pids : \A s, t \in Threads : Stopping(s, p) /\ Stopping(t, p) => s = t

(* Once a name is created again after a goodbye, it is recorded again.     *)
RecreatedIsRecorded == \A n \in Names : ledger[n] = "again" => Recorded(n)

(* At most one process of a session is alive.                              *)
OneProcessPerSession ==
  \A p, q \in Pids : owner[p] = owner[q] /\ owner[p] # NoName /\ p # q =>
     Exited(p) \/ Exited(q)

(* The mark a live session shows is the one its entry would bring back,    *)
(* once no thread is working on the name, whatever its reapers do.         *)
Busy(n) == \E t \in Threads : th[t].name = n
MarksAgree ==
  \A n \in Names : Live(n) /\ Recorded(n) /\ ~Busy(n) =>
    (tint[registry[n]] <=> manifest[n] = "marked")

(* An exited session leaves the list.                                      *)
ExitedLeavesList ==
  \A n \in Names : \A p \in Pids :
    (registry[n] = p /\ Exited(p)) ~> (registry[n] # p)

(* Every request is answered, also when the session will not die.          *)
RequestsFinish == \A t \in Threads : ~At(t, "idle") ~> At(t, "idle")
=============================================================================
