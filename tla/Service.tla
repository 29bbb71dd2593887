------------------------------ MODULE Service -------------------------------
(* How a machine's agent and the hub are set up as services and come up:     *)
(* `install` merges its options into web.env, writes what the service        *)
(* manager starts and restarts it (service.rs of both), the device flow      *)
(* keeps the uplink token it was given in enroll.json (enroll.rs), and a     *)
(* starting process reads its settings, brings its sessions back, picks its  *)
(* token and refuses to serve what nothing guards (main.rs, config.rs,       *)
(* netguard.rs).                                                             *)
(*                                                                           *)
(* A setting that is not there is "". A static uplink token is the name of   *)
(* the hub that gave it, one of the device flow is its number.               *)
EXTENDS Naturals, Sequences, FiniteSets

CONSTANTS Role,         \* "agent" or "hub"
          Platform,     \* "linux", "macos" or "windows"
          Options,      \* what install may be told: [set, addr, enroll, restore]
          UserEdits,    \* <<key, value>> the owner may write to web.env
          Tools,        \* tools of the owner's own, named like a shim
          MaxTokens, MaxInstalls, MaxEdits

Keys == {"ADDR", "PASSWORD", "API_TOKEN", "HUB_URL", "HUB_TOKEN", "HUB_ONLY",
         "HUB_ENROLL", "AGENT_TOKENS", "ALLOW_REMOTE", "ALLOW_OPEN"}

ServiceAssumption ==
  /\ Role \in {"agent", "hub"} /\ Platform \in {"linux", "macos", "windows"}
  /\ \A o \in Options : /\ DOMAIN o.set \subseteq Keys \ {"ADDR"}
                        /\ o.addr \in {"", "loopback", "routable"}
                        /\ o.enroll \in BOOLEAN /\ o.restore \in BOOLEAN
  /\ \A e \in UserEdits : e[1] \in Keys
  /\ MaxTokens \in Nat /\ MaxInstalls \in Nat /\ MaxEdits \in Nat

VARIABLES env,        \* web.env
          unit,       \* {} or what the manager starts: [restore, inlined]
          proc,       \* the process: [state, env, token], 0 if it has no saved one
          saved,      \* the token of enroll.json, 0 if none
          minted,     \* the tokens of the device flow: [hub, live]
          installer,  \* install at work: [at, o, enrolled]
          shim,       \* a shim's name in ~/.local/bin: [now, backup]
          said,       \* history: the last thing said of each setting
          behind,     \* history: said since the process took its settings
          enrolled,   \* history: the hub an install enrolled with, or ""
          found,      \* history: the owner's tools the installer came upon
          installs, edits

serviceVars == <<env, unit, proc, saved, minted, installer, shim, said, behind,
                 enrolled, found, installs, edits>>

Unset == [k \in Keys |-> ""]
Idle == [at |-> "idle", o |-> {}, enrolled |-> "", env |-> Unset]
Down == [state |-> "down", env |-> Unset, token |-> 0]

TypeOK ==
  /\ DOMAIN env = Keys /\ Cardinality(unit) <= 1
  /\ proc.state \in {"down", "starting", "enrolling", "binding", "hub only", "serving"}
  /\ saved \in 0..Len(minted) /\ Len(minted) <= MaxTokens
  /\ installer.at \in {"idle", "enroll", "code", "env", "unit", "shim"}
  /\ shim.now \in {"none", "old", "ours", "binary"} \cup Tools
  /\ behind \in BOOLEAN /\ installs \in 0..MaxInstalls /\ edits \in 0..MaxEdits

Init ==
  /\ env = Unset /\ unit = {} /\ proc = Down /\ saved = 0 /\ minted = <<>>
  /\ installer = Idle /\ shim = [now |-> "none", backup |-> "none"]
  /\ said = Unset /\ behind = FALSE /\ enrolled = "" /\ found = <<>>
  /\ installs = 0 /\ edits = 0

histories == <<said, behind, enrolled, found>>
At(step) == installer.at = step
Goes(step) == installer' = [installer EXCEPT !.at = step]
-----------------------------------------------------------------------------
(* install.                                                                  *)
\* The hub install --enroll asks: its option, and on Windows web.env's too.
HubOf(o) == IF "HUB_URL" \in DOMAIN o.set THEN o.set["HUB_URL"]
            ELSE IF Platform = "windows" THEN env["HUB_URL"] ELSE ""

Begins(o) ==
  /\ At("idle") /\ installs < MaxInstalls /\ installs' = installs + 1
  /\ o.enroll => HubOf(o) # ""
  /\ installer' = [at |-> IF o.enroll THEN "enroll" ELSE "env", o |-> {o}, enrolled |-> "",
                  env |-> Unset]
  /\ UNCHANGED <<env, unit, proc, saved, minted, shim, histories, edits>>

Honours(hub, n) == n \in 1..Len(minted) /\ minted[n].hub = hub /\ minted[n].live

\* validate_token: the hub's answer, unless it cannot be asked.
Answers(hub, n) == {IF Honours(hub, n) THEN "valid" ELSE "revoked", "unknown"}

(* ensure_token: a saved token stays unless the hub says it is not good; it  *)
(* is then forgotten before another is had, even one its own hub honours.    *)
Validates ==
  /\ At("enroll")
  /\ \E o \in installer.o :
       LET hub == HubOf(o) IN
       IF saved = 0 THEN Goes("code") /\ UNCHANGED <<saved, enrolled>>
       ELSE \E answer \in Answers(hub, saved) :
              CASE answer = "valid" ->
                     /\ installer' = [installer EXCEPT !.at = "env", !.enrolled = hub]
                     /\ UNCHANGED <<saved, enrolled>>
                [] answer = "unknown" -> Goes("env") /\ UNCHANGED <<saved, enrolled>>
                [] OTHER -> Goes("code") /\ saved' = 0 /\ enrolled' = ""
  /\ UNCHANGED <<env, unit, proc, minted, shim, said, behind, found, installs, edits>>

Mint(hub) ==
  /\ Len(minted) < MaxTokens
  /\ minted' = Append([n \in DOMAIN minted |-> IF minted[n].hub = hub
                         THEN [minted[n] EXCEPT !.live = FALSE] ELSE minted[n]],
                      [hub |-> hub, live |-> TRUE])
  /\ saved' = Len(minted) + 1

Approved ==
  /\ At("code")
  /\ \E o \in installer.o :
       /\ Mint(HubOf(o))
       /\ installer' = [installer EXCEPT !.at = "env", !.enrolled = HubOf(o)]
  /\ UNCHANGED <<env, unit, proc, shim, histories, installs, edits>>

\* A denial, an error, or the owner's ^C: what was done so far stays.
Stops ==
  /\ ~At("idle") /\ installer' = Idle
  /\ UNCHANGED <<env, unit, proc, saved, minted, shim, histories, installs, edits>>

\* A mutant: web.env is written anew.
SlipMerged(now, o, addr) ==
  [k \in Keys |-> IF k = "ADDR" THEN addr
                  ELSE IF k \in DOMAIN o.set THEN o.set[k] ELSE ""]

Merged(now, o, addr) ==
  [k \in Keys |->
     CASE k = "ADDR" -> addr
       [] k # "ADDR" /\ k \in DOMAIN o.set -> o.set[k]
       [] k = "HUB_TOKEN" /\ k \notin DOMAIN o.set /\ o.enroll -> ""
       [] k = "API_TOKEN" /\ k \notin DOMAIN o.set /\ "PASSWORD" \in DOMAIN o.set
            /\ now[k] = "" -> "generated"
       [] OTHER -> now[k]]

\* What the options say themselves, against which the file is held.
Says(o) ==
  [k \in Keys |-> IF k \in DOMAIN o.set THEN o.set[k]
                  ELSE IF k = "HUB_TOKEN" /\ o.enroll THEN "" ELSE said[k]]

WritesEnv ==
  /\ At("env")
  /\ \E o \in installer.o, detected \in {"loopback", "routable"} :
       /\ env' = Merged(env, o, IF o.addr # "" THEN o.addr ELSE detected)
       /\ said' = Says(o)
  /\ installer' = [installer EXCEPT !.at = "unit", !.env = env']
  /\ behind' = TRUE /\ enrolled' = ""
  /\ UNCHANGED <<unit, proc, saved, minted, shim, found, installs, edits>>

\* A start: the settings are web.env's, or those inlined in the plist.
Settings(u) == IF Platform = "macos" THEN u.inlined ELSE env
Started(u) == [state |-> "starting", env |-> Settings(u), token |-> 0]

\* What the manager is given: the agent's unit has a flag, the hub's has none.
AgentUnit(o, text) ==
  [restore |-> o.restore, inlined |-> IF Platform = "macos" THEN text ELSE Unset]
HubUnit(text) == [restore |-> FALSE, inlined |-> IF Platform = "macos" THEN text ELSE Unset]

(* The manager's definition, and a restart: Task Scheduler runs no second    *)
(* instance, so that an agent that runs goes on as it was. Either may fail,  *)
(* and install with it.                                                      *)
WritesUnit ==
  /\ At("unit")
  /\ \E o \in installer.o :
       LET u == IF Role = "agent" THEN AgentUnit(o, installer.env)
                ELSE HubUnit(installer.env) IN
       /\ unit' = {u}
       /\ \/ /\ proc' = IF Platform = "windows" /\ proc.state # "down" THEN proc
                        ELSE Started(u)
             /\ behind' = \/ Platform = "windows" /\ proc.state # "down"
                          \/ Platform = "macos" /\ installer.env # env
             /\ enrolled' = installer.enrolled /\ Goes("shim")
          \/ UNCHANGED <<proc, behind, enrolled>> /\ installer' = Idle
  /\ UNCHANGED <<env, saved, minted, shim, said, found, installs, edits>>

\* write_shims_into: the first text in the way is set aside.
SetAside(backup) == backup = "none"

Shims ==
  /\ shim' = [now |-> "ours",
              backup |-> IF shim.now \in Tools /\ SetAside(shim.backup) THEN shim.now
                         ELSE shim.backup]
  /\ found' = IF shim.now \in Tools THEN Append(found, shim.now) ELSE found

WritesShims ==
  /\ Role = "agent" /\ Platform # "windows" /\ At("shim") /\ Shims /\ installer' = Idle
  /\ UNCHANGED <<env, unit, proc, saved, minted, said, behind, enrolled, installs, edits>>
NoShims ==
  /\ ~(Role = "agent" /\ Platform # "windows") /\ At("shim") /\ installer' = Idle
  /\ UNCHANGED <<env, unit, proc, saved, minted, shim, histories, installs, edits>>
-----------------------------------------------------------------------------
(* The process.                                                              *)
\* `update`, the manager, a login or a boot.
Starts ==
  /\ \E u \in unit : proc' = Started(u)
  /\ behind' = (Platform = "macos" /\ behind)
  /\ UNCHANGED <<env, unit, saved, minted, installer, shim, said, enrolled, found,
                 installs, edits>>

Is(state) == proc.state = state
Becomes(state) == proc' = [proc EXCEPT !.state = state]

\* The uplink's token: web.env's, else the saved one, else the device flow's.
TakesToken ==
  /\ Is("starting")
  /\ proc' = IF Role = "hub" \/ proc.env["HUB_URL"] = "" THEN [proc EXCEPT !.state = "binding"]
             ELSE IF proc.env["HUB_TOKEN"] # "" THEN [proc EXCEPT !.state = "binding"]
             ELSE IF saved # 0 THEN [proc EXCEPT !.state = "binding", !.token = saved]
             ELSE [proc EXCEPT !.state = IF proc.env["HUB_ENROLL"] # "" THEN "enrolling"
                                         ELSE "binding"]
  /\ UNCHANGED <<env, unit, saved, minted, installer, shim, histories, installs, edits>>

\* The device flow of the process: its token replaces what install may have saved.
Enrols ==
  /\ Is("enrolling") /\ Mint(proc.env["HUB_URL"])
  /\ proc' = [proc EXCEPT !.state = "binding", !.token = saved']
  /\ enrolled' = "" /\ installer' = [installer EXCEPT !.enrolled = ""]
  /\ UNCHANGED <<env, unit, shim, said, behind, found, installs, edits>>

Gated(e) == e["PASSWORD"] # "" \/ e["API_TOKEN"] # ""

\* require_safe_bind; with no address at all the default is loopback.
SafeBind(e) == Gated(e) \/ e["ALLOW_REMOTE"] # "" \/ e["ADDR"] \in {"", "loopback"}
\* require_gated_uplink.
GatedUplink(e) == e["AGENT_TOKENS"] # "" \/ e["ALLOW_OPEN"] # ""

Parks(e) == e["HUB_ONLY"] # "" /\ e["HUB_URL"] # ""
AgentBinds ==
  /\ Role = "agent" /\ Is("binding")
  /\ \/ Parks(proc.env) /\ Becomes("hub only")
     \/ ~Parks(proc.env) /\ SafeBind(proc.env) /\ Becomes("serving")
  /\ UNCHANGED <<env, unit, saved, minted, installer, shim, histories, installs, edits>>
HubBinds ==
  /\ Role = "hub" /\ Is("binding")
  /\ SafeBind(proc.env) /\ GatedUplink(proc.env) /\ Becomes("serving")
  /\ UNCHANGED <<env, unit, saved, minted, installer, shim, histories, installs, edits>>

\* It refuses to serve, enrolment is denied, or it crashes.
Exits ==
  /\ ~Is("down") /\ proc' = Down
  /\ UNCHANGED <<env, unit, saved, minted, installer, shim, histories, installs, edits>>

Uninstall ==
  /\ At("idle") /\ unit # {} /\ unit' = {} /\ proc' = Down
  /\ UNCHANGED <<env, saved, minted, installer, shim, histories, installs, edits>>
-----------------------------------------------------------------------------
(* The owner: an editor, a dashboard, a tool of their own.                   *)
Edits(k, v) ==
  /\ edits < MaxEdits /\ edits' = edits + 1
  /\ env' = [env EXCEPT ![k] = v] /\ said' = [said EXCEPT ![k] = v] /\ behind' = TRUE
  /\ enrolled' = ""
  /\ UNCHANGED <<unit, proc, saved, minted, installer, shim, found, installs>>

Unlinks(n) ==
  /\ minted[n].live /\ minted' = [minted EXCEPT ![n].live = FALSE] /\ enrolled' = ""
  /\ installer' = [installer EXCEPT !.enrolled = ""]
  /\ UNCHANGED <<env, unit, proc, saved, shim, said, behind, found, installs, edits>>

Occupies(what) ==
  /\ edits < MaxEdits /\ edits' = edits + 1
  /\ shim.now # what /\ shim' = [shim EXCEPT !.now = what]
  /\ UNCHANGED <<env, unit, proc, saved, minted, installer, histories, installs>>

Next ==
  \/ \E o \in Options : Begins(o)
  \/ Validates \/ Approved \/ Stops \/ WritesEnv \/ WritesUnit \/ WritesShims \/ NoShims
  \/ Starts \/ TakesToken \/ Enrols \/ AgentBinds \/ HubBinds \/ Exits \/ Uninstall
  \/ \E e \in UserEdits : Edits(e[1], e[2])
  \/ \E n \in DOMAIN minted : Unlinks(n)
  \/ \E what \in Tools \cup {"binary", "old"} : Occupies(what)

Spec == Init /\ [][Next]_serviceVars
-----------------------------------------------------------------------------
(* A process started since then runs with what was last said of every        *)
(* setting, by an install or an edit, over any number of installs (install's *)
(* merge, the unit, config::load); the address is the latest install's, told *)
(* or detected, and a password brings an API token with it.                  *)
RunsWhatWasSaid ==
  proc.state # "down" /\ ~behind =>
    \A k \in Keys \ {"ADDR"} :
      \/ proc.env[k] = said[k]
      \/ k = "API_TOKEN" /\ said[k] = "" /\ proc.env[k] = "generated"

(* What is served beyond the machine has a gate or an override of its own,   *)
(* whatever the settings have become meanwhile (require_safe_bind), and a    *)
(* hub-only agent listens nowhere.                                           *)
NeverOpen ==
  Is("serving") =>
    /\ proc.env["ADDR"] = "routable" => Gated(proc.env) \/ proc.env["ALLOW_REMOTE"] # ""
    /\ Role = "agent" => ~Parks(proc.env)

(* When an install has enrolled with a hub that answered, the agent it       *)
(* started presents a token of that hub, whatever token web.env and          *)
(* enroll.json had before, until it is unlinked, told otherwise, or another  *)
(* enrolment of the machine is begun or approved (install, ensure_token).    *)
EnrolledIsHonoured ==
  enrolled # "" /\ ~behind /\ proc.state \in {"binding", "hub only", "serving"} =>
    proc.env["HUB_TOKEN"] # "" \/ Honours(enrolled, proc.token)

(* The first tool of the owner's found under a shim's name stays set aside,  *)
(* however often shims are installed over others (write_shims_into).         *)
FirstIsKept == found # <<>> => shim.backup = Head(found)

ServiceHolds == RunsWhatWasSaid /\ NeverOpen /\ EnrolledIsHonoured /\ FirstIsKept
=============================================================================
