------------------------------ MODULE Updates -------------------------------
(* The update job of a machine: the agent replaces itself and hands the rest *)
(* of the job to the process started from the new binary (self_update.rs),   *)
(* and the assistants' command line tools are installed or updated one after *)
(* the other (assistants.rs, provision.rs), the ones whose installer edits   *)
(* the user's shell profile under a guard (vendor_guard.rs).                 *)
(*                                                                           *)
(* Versions are numbers, 0 is "not there". What the job does to sessions is  *)
(* in SessionLifecycle.                                                      *)
EXTENDS Naturals, FiniteSets, Sequences

CONSTANTS Tools,          \* the selected tools, in order
          Guarded,        \* those whose vendor's installer needs the guard
          Needs,          \* those whose installer needs the prerequisite
          Candidates,     \* [tools -> how many update commands there are]
          MaxRelease, MaxJobs, MaxEdits,
          Outlives        \* a command can outlive the shell killed at its timeout

ToolSet == {Tools[i] : i \in 1..Len(Tools)}
UpdatesAssumption ==
  /\ MaxRelease \in Nat \ {0} /\ MaxJobs \in Nat /\ MaxEdits \in Nat
  /\ Guarded \subseteq ToolSet /\ Needs \subseteq ToolSet
  /\ Candidates \in [ToolSet -> Nat] /\ Outlives \in BOOLEAN

VARIABLES release,      \* the newest release
          disk,         \* the version of the installed binary
          agent,        \* the process: [up, version]
          marker,       \* agent-update.json
          job,          \* update_job: its snapshot
          worker,       \* the thread of every job
          cli,          \* the version of each tool the session PATH finds
          prereq,       \* the prerequisite is on the install PATH
          profile,      \* the shell profile: the user's edits, and the vendor's
          strays,       \* commands that outlived their shell
          jobs,         \* jobs started
          runs,         \* history: jobs whose assistants' step began, in order
          spoilt        \* history: what a crash, a stray or a late edit undid

updatesVars == <<release, disk, agent, marker, job, worker, cli, prereq,
                 profile, strays, jobs, runs, spoilt>>

Jobs == 1..MaxJobs
NoRow == [state |-> "none", from |-> 0, to |-> 0]
Row(s, from, to) == [state |-> s, from |-> from, to |-> to]
NoJob == [id |-> 0, phase |-> "idle", agent |-> NoRow, rows |-> [t \in ToolSet |-> NoRow]]
Gone == [at |-> "gone", left |-> <<>>, install |-> FALSE, latest |-> 0, before |-> 0,
         cand |-> 0, ok |-> FALSE, snap |-> {}, elsewhere |-> FALSE]
NoMarker == [job |-> 0, from |-> 0, to |-> 0, install |-> FALSE, stale |-> FALSE]

\* A running command is at "runs"; the rest of the steps are the agent's own.
TypeOK ==
  /\ release \in 1..MaxRelease /\ disk \in 1..MaxRelease
  /\ agent.up \in {"down", "starting", "serving"} /\ agent.version \in 1..MaxRelease
  /\ marker.job \in 0..MaxJobs /\ job.id \in 0..MaxJobs
  /\ job.phase \in {"idle", "updating", "restarting", "done"}
  /\ \A j \in Jobs :
       worker[j].at \in {"gone", "agent", "install", "probe", "handover", "exit", "tools",
                         "prereq", "guard", "command", "runs", "restore", "verdict", "sessions"}
  /\ cli \in [ToolSet -> Nat] /\ prereq \in BOOLEAN
  /\ profile.mine \subseteq 1..MaxEdits /\ profile.vendor \in BOOLEAN
  /\ strays \subseteq ToolSet
  /\ jobs \in 0..MaxJobs /\ spoilt \subseteq {"crash", "stray", "edit"}

\* The agent may be a build ahead of the release.
Init ==
  /\ release \in 1..MaxRelease
  /\ disk \in 1..MaxRelease /\ agent = [up |-> "serving", version |-> disk]
  /\ marker = NoMarker /\ job = NoJob /\ worker = [j \in Jobs |-> Gone]
  /\ cli \in [ToolSet -> {0, 1}] /\ prereq = FALSE
  /\ profile = [mine |-> {}, vendor |-> FALSE]
  /\ strays = {} /\ jobs = 0 /\ runs = <<>> /\ spoilt = {}

At(j, step) == worker[j].at = step
Running == job.phase \in {"updating", "restarting"}
Next1(j) == Head(worker[j].left)
Goes(j, step) == worker' = [worker EXCEPT ![j].at = step]
AgentRow(s, to) == job' = [job EXCEPT !.agent = Row(s, agent.version, to)]
ToolRow(t, s, from, to) == [job EXCEPT !.rows[t] = Row(s, from, to)]
machine == <<release, disk, agent, marker>>
others == <<strays, jobs, runs, spoilt>>
-----------------------------------------------------------------------------
\* begin_update_job: refused while a job runs.
MayBegin == ~Running

Begun(j, withAgent) ==
  [id |-> j, phase |-> "updating",
   agent |-> IF withAgent THEN Row("pending", agent.version, 0) ELSE NoRow,
   rows |-> [t \in ToolSet |-> Row("pending", 0, 0)]]

Starts(withAgent, install) ==
  /\ agent.up = "serving" /\ MayBegin /\ jobs < MaxJobs
  /\ jobs' = jobs + 1 /\ job' = Begun(jobs + 1, withAgent)
  /\ worker' = [worker EXCEPT ![jobs + 1] =
       [Gone EXCEPT !.at = IF withAgent THEN "agent" ELSE "tools", !.left = Tools,
                    !.install = install]]
  /\ runs' = IF withAgent THEN runs ELSE Append(runs, jobs + 1)
  /\ UNCHANGED <<machine, cli, prereq, profile, strays, spoilt>>

\* run_agent_step ends with Continue: the assistants are next.
Continues(j, state, to) ==
  /\ AgentRow(state, to) /\ Goes(j, "tools") /\ runs' = Append(runs, j)

AgentSkips(j) ==
  /\ At(j, "agent") /\ \E s \in {"skipped", "failed"} : Continues(j, s, 0)
  /\ UNCHANGED <<machine, cli, prereq, profile, strays, jobs, spoilt>>

\* A mutant: any other version counts as newer.
SlipNewer(want, have) == want # have

Newer(want, have) == want > have

AgentFetches(j) ==
  /\ At(j, "agent")
  /\ IF Newer(release, agent.version)
     THEN /\ worker' = [worker EXCEPT ![j].at = "install", ![j].latest = release]
          /\ job' = [job EXCEPT !.agent = Row("updating", agent.version, 0)]
          /\ UNCHANGED runs
     ELSE Continues(j, "current", agent.version)
  /\ UNCHANGED <<machine, cli, prereq, profile, strays, jobs, spoilt>>

\* The installer: whatever it says, the binary was replaced or it was not.
AgentInstalls(j) ==
  /\ At(j, "install") /\ disk' \in {disk, worker[j].latest}
  /\ \/ Goes(j, "probe") /\ UNCHANGED <<job, runs>>
     \/ Continues(j, "failed", 0)
  /\ UNCHANGED <<release, agent, marker, cli, prereq, profile, strays, jobs, spoilt>>

AgentProbes(j) ==
  /\ At(j, "probe")
  /\ IF disk = worker[j].latest
     THEN AgentRow("restarting", disk) /\ Goes(j, "handover") /\ UNCHANGED runs
     ELSE Continues(j, "failed", 0)
  /\ UNCHANGED <<machine, cli, prereq, profile, strays, jobs, spoilt>>

HandsOver(j) ==
  /\ At(j, "handover")
  /\ \/ /\ marker' = [job |-> j, from |-> agent.version, to |-> worker[j].latest,
                      install |-> worker[j].install, stale |-> FALSE]
        /\ Goes(j, "exit") /\ UNCHANGED <<job, runs>>
     \/ Continues(j, "failed", 0) /\ UNCHANGED marker
  /\ UNCHANGED <<release, disk, agent, cli, prereq, profile, strays, jobs, spoilt>>

\* The process is gone, and with it the job, its threads and their commands.
Stops ==
  /\ agent' = [agent EXCEPT !.up = "down"]
  /\ job' = NoJob /\ worker' = [j \in Jobs |-> Gone]

Exits(j) ==
  /\ At(j, "exit") /\ Stops
  /\ UNCHANGED <<release, disk, marker, cli, prereq, profile, strays, jobs, runs, spoilt>>

Crashes ==
  /\ agent.up # "down" /\ "crash" \notin spoilt /\ Stops
  /\ spoilt' = spoilt \cup {"crash"}
  /\ UNCHANGED <<release, disk, marker, cli, prereq, profile, strays, jobs, runs>>

\* The service manager starts what is installed.
Boots ==
  /\ agent.up = "down" /\ agent' = [up |-> "starting", version |-> disk]
  /\ UNCHANGED <<release, disk, marker, job, worker, cli, prereq, profile, others>>

\* take_marker removes it first: a crash during what follows does not loop.
TakeMarker == marker' = NoMarker

Landed(m) == agent.version = m.to

\* resume_after_restart, before the server answers anyone.
Resumes ==
  LET m == marker  state == IF Landed(m) THEN "updated" ELSE "failed" IN
  /\ agent.up = "starting" /\ TakeMarker
  /\ agent' = [agent EXCEPT !.up = "serving"]
  /\ IF m.job # 0 /\ ~m.stale
     THEN /\ job' = [Begun(m.job, TRUE) EXCEPT !.agent = Row(state, m.from, m.to)]
          /\ worker' = [worker EXCEPT ![m.job] = [Gone EXCEPT !.at = "tools", !.left = Tools,
                                                              !.install = m.install]]
          /\ runs' = Append(runs, m.job)
     ELSE UNCHANGED <<job, worker, runs>>
  /\ UNCHANGED <<release, disk, cli, prereq, profile, strays, jobs, spoilt>>

Ages == /\ marker.job # 0 /\ agent.up = "down"
        /\ marker' = [marker EXCEPT !.stale = TRUE]
        /\ UNCHANGED <<release, disk, agent, job, worker, cli, prereq, profile, others>>
-----------------------------------------------------------------------------
\* run_job. A missing tool is installed if that was asked, or else skipped.
Finished(j, t, state, from, to) ==
  /\ job' = ToolRow(t, state, from, to)
  /\ worker' = [worker EXCEPT ![j] = [Gone EXCEPT !.at = "tools", !.left = Tail(worker[j].left),
                                                  !.install = worker[j].install]]

TakesTool(j) ==
  LET w == worker[j]  t == Next1(j) IN
  /\ At(j, "tools") /\ w.left # <<>>
  /\ CASE cli[t] = 0 /\ w.install ->
            /\ job' = ToolRow(t, "installing", 0, 0) /\ Goes(j, "prereq")
       [] cli[t] = 0 /\ ~w.install -> Finished(j, t, "skipped", 0, 0)
       [] cli[t] # 0 /\ Candidates[t] = 0 -> Finished(j, t, "skipped", 0, 0)
       [] OTHER ->
            /\ job' = ToolRow(t, "updating", 0, 0)
            /\ worker' = [worker EXCEPT ![j].at = "guard", ![j].before = cli[t],
                                        ![j].cand = 1]
  /\ UNCHANGED <<machine, cli, prereq, profile, others>>

\* install_tool probes again: somebody else may have installed it by now.
Prerequisite(j) ==
  LET t == Next1(j) IN
  /\ At(j, "prereq")
  /\ \/ cli[t] # 0 /\ Finished(j, t, "current", 0, cli[t]) /\ UNCHANGED prereq
     \/ /\ cli[t] = 0 /\ prereq' = (prereq \/ t \in Needs) /\ UNCHANGED job
        /\ worker' = [worker EXCEPT ![j].at = "guard", ![j].before = 0]
     \/ /\ cli[t] = 0 /\ t \in Needs /\ ~prereq /\ UNCHANGED prereq
        /\ Finished(j, t, "failed", 0, 0)
  /\ UNCHANGED <<machine, cli, profile, others>>

\* Guard::begin: what the profile says now is what it will say again.
Guards(j) ==
  LET t == Next1(j) IN
  /\ At(j, "guard")
  /\ \/ /\ t \in Guarded /\ UNCHANGED job
        /\ worker' = [worker EXCEPT ![j].at = "command", ![j].snap = {profile}]
     \/ t \in Guarded /\ Finished(j, t, "failed", 0, worker[j].before)
     \/ t \notin Guarded /\ Goes(j, "command") /\ UNCHANGED job
  /\ UNCHANGED <<machine, cli, prereq, profile, others>>

Command(j) ==
  /\ At(j, "command") /\ Goes(j, "runs")
  /\ UNCHANGED <<machine, job, cli, prereq, profile, others>>

\* What a command did by its end: the tool moved, or landed off the PATH.
Moves(t) == cli' = [cli EXCEPT ![t] = @ + 1]
Edits(t) == profile' = IF t \in Guarded THEN [profile EXCEPT !.vendor = TRUE] ELSE profile

CommandEnds(j) ==
  LET t == Next1(j) IN
  /\ At(j, "runs") /\ Edits(t)
  /\ \E ok \in BOOLEAN :
       \/ /\ cli[t] <= worker[j].before /\ Moves(t)
          /\ worker' = [worker EXCEPT ![j].at = "restore", ![j].ok = ok]
       \/ /\ UNCHANGED cli
          /\ worker' = [worker EXCEPT ![j].at = "restore", ![j].ok = ok,
                                      ![j].elsewhere = (worker[j].before = 0 /\ ok)]
       \/ /\ UNCHANGED cli
          /\ worker' = [worker EXCEPT ![j].at = "restore", ![j].ok = ok]
  /\ UNCHANGED <<machine, job, prereq, others>>

\* run_shell_ex kills the shell at the timeout; what the shell started goes on.
TimesOut(j) ==
  LET t == Next1(j) IN
  /\ At(j, "runs")
  /\ worker' = [worker EXCEPT ![j].at = "restore", ![j].ok = FALSE]
  /\ IF Outlives THEN strays' = strays \cup {t} /\ spoilt' = spoilt \cup {"stray"}
     ELSE UNCHANGED <<strays, spoilt>>
  /\ UNCHANGED <<machine, job, cli, prereq, profile, jobs, runs>>

StrayEnds(t) ==
  /\ t \in strays /\ strays' = strays \ {t} /\ Edits(t)
  /\ cli' \in {cli, [cli EXCEPT ![t] = IF @ < 2 THEN @ + 1 ELSE @]}
  /\ UNCHANGED <<machine, job, worker, prereq, jobs, runs, spoilt>>

Restored(now, snap) == snap

GuardEnds(j) ==
  LET snap == worker[j].snap IN
  /\ At(j, "restore")
  /\ worker' = [worker EXCEPT ![j].at = "verdict", ![j].snap = {}]
  /\ IF snap = {} THEN UNCHANGED <<profile, spoilt>>
     ELSE \E p \in snap :
            /\ profile' = Restored(profile, p)
            /\ spoilt' = IF p.mine # profile.mine THEN spoilt \cup {"edit"} ELSE spoilt
  /\ UNCHANGED <<machine, job, cli, prereq, strays, jobs, runs>>

\* An install is landed in ~/.local/bin if need be, and probed on the PATH.
InstallVerdict(j) ==
  LET t == Next1(j)  w == worker[j] IN
  /\ At(j, "verdict") /\ w.cand = 0
  /\ \E lands \in BOOLEAN :
       /\ cli' = IF cli[t] = 0 /\ w.elsewhere /\ lands THEN [cli EXCEPT ![t] = 1] ELSE cli
       /\ IF cli'[t] # 0 THEN Finished(j, t, "installed", 0, cli'[t])
          ELSE Finished(j, t, "failed", 0, 0)
  /\ UNCHANGED <<machine, prereq, profile, others>>

\* The version decides, then the exit code; a failure tries the next command.
Moved(j, after) == after # worker[j].before

\* A mutant: the command that failed is tried again.
SlipNextCandidate(c) == c

NextCandidate(c) == c + 1

UpdateVerdict(j) ==
  LET t == Next1(j)  w == worker[j] IN
  /\ At(j, "verdict") /\ w.cand > 0
  /\ CASE Moved(j, cli[t]) -> Finished(j, t, "updated", w.before, cli[t])
       [] ~Moved(j, cli[t]) /\ w.ok -> Finished(j, t, "current", 0, cli[t])
       [] OTHER ->
            IF w.cand < Candidates[t]
            THEN /\ worker' = [worker EXCEPT ![j].at = "guard", ![j].cand = NextCandidate(w.cand)]
                 /\ UNCHANGED job
            ELSE Finished(j, t, "failed", 0, cli[t])
  /\ UNCHANGED <<machine, cli, prereq, profile, others>>

ToolsDone(j) ==
  /\ At(j, "tools") /\ worker[j].left = <<>>
  /\ job' = [job EXCEPT !.phase = "restarting"] /\ Goes(j, "sessions")
  /\ UNCHANGED <<machine, cli, prereq, profile, others>>

Ends(j) ==
  /\ At(j, "sessions") /\ job' = [job EXCEPT !.phase = "done"] /\ Goes(j, "gone")
  /\ UNCHANGED <<machine, cli, prereq, profile, others>>
-----------------------------------------------------------------------------
\* doctor --install in a terminal, the user's editor, a new release.
InstalledByHand(t) ==
  /\ cli[t] = 0 /\ cli' = [cli EXCEPT ![t] = 1]
  /\ UNCHANGED <<machine, job, worker, prereq, profile, others>>

\* `cc-screen-rust update` on the machine; its restart is a stop like any other.
UpdatedByHand ==
  /\ release > disk /\ disk' = release
  /\ UNCHANGED <<release, agent, marker, job, worker, cli, prereq, profile, others>>

UserEdits ==
  /\ \E n \in 1..MaxEdits \ profile.mine :
       profile' = [profile EXCEPT !.mine = @ \cup {n}]
  /\ UNCHANGED <<machine, job, worker, cli, prereq, others>>

Released ==
  /\ release < MaxRelease /\ release' = release + 1
  /\ UNCHANGED <<disk, agent, marker, job, worker, cli, prereq, profile, others>>

Work(j) ==
  \/ AgentSkips(j) \/ AgentFetches(j) \/ AgentInstalls(j) \/ AgentProbes(j)
  \/ HandsOver(j) \/ Exits(j)
  \/ TakesTool(j) \/ Prerequisite(j) \/ Guards(j) \/ Command(j)
  \/ CommandEnds(j) \/ TimesOut(j) \/ GuardEnds(j)
  \/ InstallVerdict(j) \/ UpdateVerdict(j) \/ ToolsDone(j) \/ Ends(j)

Next ==
  \/ \E withAgent, install \in BOOLEAN : Starts(withAgent, install)
  \/ \E j \in Jobs : Work(j)
  \/ Boots \/ Resumes \/ Ages \/ Crashes
  \/ \E t \in ToolSet : StrayEnds(t) \/ InstalledByHand(t)
  \/ UserEdits \/ Released \/ UpdatedByHand

Spec == Init /\ [][Next]_updatesVars
-----------------------------------------------------------------------------
(* The installed binary is never older than the agent that runs, however the *)
(* installers fail and whatever build the machine had (run_agent_step).      *)
NeverBackwards == agent.up # "down" => disk >= agent.version

(* One job works at a time, through the hand-over too, and the assistants'   *)
(* step of a job is begun once, whatever crashes in between                  *)
(* (begin_update_job, take_marker, continue_job).                            *)
OneAtATime ==
  /\ Cardinality({j \in Jobs : worker[j].at # "gone"}) <= 1
  /\ \A i, k \in 1..Len(runs) : runs[i] = runs[k] => i = k

(* What a row claims is so: an updated agent is the one that runs, a tool    *)
(* said to be installed or current is found on the sessions' PATH, one said  *)
(* to be updated has moved (resume_after_restart, install_tool, update_tool).*)
RowsTellTheTruth ==
  /\ job.agent.state = "updated" => agent.version = job.agent.to
  /\ \A t \in ToolSet :
       /\ job.rows[t].state \in {"installed", "current", "updated"} =>
            job.rows[t].to \in 1..cli[t]
       /\ job.rows[t].state = "updated" => job.rows[t].to > job.rows[t].from

(* Outside a guarded command the shell profile is the user's own, unless the *)
(* agent crashed inside one or the command outlived it (Guard::finish).      *)
ProfileIsTheUsers ==
  (\A j \in Jobs : worker[j].snap = {}) /\ spoilt \cap {"crash", "stray"} = {} =>
    ~profile.vendor

(* A job that began is done in the end, by this process or by the one it     *)
(* handed over to, unless the agent crashed or was down for so long that the *)
(* marker is void (run_job, resume_after_restart).                           *)
Begins == Running
Concluded == job.phase = "done" \/ "crash" \in spoilt \/ marker.stale
JobsEnd == Begins ~> Concluded

UpdatesHold == NeverBackwards /\ OneAtATime /\ RowsTellTheTruth /\ ProfileIsTheUsers
=============================================================================
