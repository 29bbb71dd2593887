----------------------------- MODULE ClientHome -----------------------------
(* What `ccs` keeps in its config directory (crates/tui/src/config.rs): the  *)
(* server it talks to and the user's own settings in config.toml, one token  *)
(* a server in credentials.toml; and the commands that change them (main.rs, *)
(* actions.rs): a plain start, `activate`, `logout` and `uninstall`.         *)
(*                                                                           *)
(* Several of them may run at once, in as many terminals, and nothing locks  *)
(* either file: a command reads a file whole, changes what it read and       *)
(* writes it whole. config.toml is truncated and filled in place; on unix    *)
(* credentials.toml is replaced by a rename from a temporary file, the same  *)
(* for every command, on Windows in place too. Signing in asks a hub for a   *)
(* code and polls until the code is approved, denied or gone.                *)
EXTENDS Naturals, FiniteSets

CONSTANTS Runs,        \* commands in progress
          Servers,
          Local,       \* the server of a fresh config
          Hosted,      \* DEFAULT_HOSTED_HUB
          Hubs,        \* servers that can do device sign-in
          Renames,     \* unix
          MaxCommands, MaxOverlapping,        \* commands: bounds
          MaxTokens, MaxEdits,
          Static,      \* a token the user gave: by --token, or as api_token
          None

ClientHomeAssumption ==
  /\ Local \in Servers /\ Hosted \in Hubs /\ Hubs \subseteq Servers
  /\ Renames \in BOOLEAN
  /\ MaxCommands \in Nat /\ MaxOverlapping \in Nat /\ MaxTokens \in Nat /\ MaxEdits \in Nat
  /\ None \notin Servers

VARIABLES overlap,     \* commands may overlap: fixed
          config,      \* config.toml
          bad,         \* the user's text in config.toml.bad, 0 if none
          creds, tmp,  \* credentials.toml and credentials.toml.tmp
          runs,        \* the commands in progress
          home,        \* token -> the hub that minted it
          live,        \* tokens the hubs still accept
          commands, edits

\* What the invariants compare with.
VARIABLES due,         \* server -> the token the last command about it left
          dueServer,   \* the server the last command saved, or None
          dueOwn,      \* the user's own settings are there
          broke,       \* the last text of the user's that did not parse, or 0
          raced,       \* two commands were between a reading and its writing
          failed       \* a write failed

homeVars == <<overlap, config, bad, creds, tmp, runs, home, live, commands, edits,
              due, dueServer, dueOwn, broke, raced, failed>>

Tokens == 1..MaxTokens
Held == Tokens \cup {Static, 0}
\* A file of credentials; one cut short has none.
Creds(of, ok, there) == [of |-> of, ok |-> ok, there |-> there]
NoneHeld == [s \in Servers |-> 0]
NoCreds == Creds(NoneHeld, TRUE, FALSE)
Cut == Creds(NoneHeld, FALSE, TRUE)

\* A config: missing, cut short, not TOML (the user's text `by`), or read.
Config(st, server, own, by) == [st |-> st, server |-> server, own |-> own, by |-> by]
Missing == Config("missing", Local, FALSE, 0)
Empty == Config("empty", Local, FALSE, 0)

Idle == [at |-> "idle", cmd |-> "none", server |-> Local, token |-> 0, flag |-> FALSE,
         own |-> FALSE, corrupt |-> FALSE, of |-> NoneHeld, fd |-> "none",
         code |-> "none"]

TypeOK ==
  /\ overlap \in BOOLEAN /\ raced \in BOOLEAN /\ failed \in BOOLEAN /\ dueOwn \in BOOLEAN
  /\ config \in [st : {"missing", "empty", "broken", "ok"}, server : Servers,
                 own : BOOLEAN, by : 0..MaxEdits]
  /\ bad \in 0..MaxEdits /\ broke \in 0..MaxEdits
  /\ \A file \in {creds, tmp} : file.of \in [Servers -> Held]
  /\ \A r \in Runs : runs[r].server \in Servers /\ runs[r].token \in Held
  /\ home \in [Tokens -> Servers \cup {None}] /\ live \subseteq Tokens
  /\ due \in [Servers -> Held] /\ dueServer \in Servers \cup {None}

Init ==
  /\ overlap \in BOOLEAN
  /\ config \in {Missing, Config("ok", Local, TRUE, 0)} /\ bad = 0
  /\ creds = NoCreds /\ tmp = NoCreds
  /\ runs = [r \in Runs |-> Idle]
  /\ home = [t \in Tokens |-> None] /\ live = {}
  /\ commands = 0 /\ edits = 0
  /\ due = NoneHeld /\ dueServer = None /\ dueOwn = config.own
  /\ broke = 0 /\ raced = FALSE /\ failed = FALSE

-----------------------------------------------------------------------------
Quiet == \A r \in Runs : runs[r].at \in {"idle", "running"}
At(r, stage) == runs[r].at = stage
Go(r, stage) == runs' = [runs EXCEPT ![r].at = stage]
End(r) == runs' = [runs EXCEPT ![r] = Idle]

\* Another command is in the middle of the same file.
Saving == {"save", "fill"}
Storing == {"open", "put", "rename"}
Races(r, stages) == raced' = (raced \/ \E q \in Runs \ {r} : runs[q].at \in stages)

(* Config::load: what is missing, or was cut to nothing, is the defaults;    *)
(* what does not parse is too, and is marked.                                *)
Defaults == [server |-> Local, own |-> FALSE, corrupt |-> FALSE]
LoadConfig ==
  CASE config.st = "ok"     -> [Defaults EXCEPT !.server = config.server, !.own = config.own]
    [] config.st = "broken" -> [Defaults EXCEPT !.corrupt = TRUE]
    [] OTHER                -> Defaults

\* load_credentials: no file, or one that does not parse, holds no token.
LoadCredentials == creds.of

MayStart(r) ==
  /\ At(r, "idle") /\ commands' = commands + 1
  /\ commands < IF overlap THEN MaxOverlapping ELSE MaxCommands
  /\ overlap \/ Quiet

Begin(r, cmd, stage, server, flag, token) ==
  runs' = [runs EXCEPT ![r] =
    [Idle EXCEPT !.cmd = cmd, !.at = stage, !.server = server, !.flag = flag, !.token = token,
                 !.own = LoadConfig.own, !.corrupt = LoadConfig.corrupt]]

(* main: the config is read; a server named by --server is saved at once,    *)
(* and a token named by --token is stored.                                   *)
Start(r) ==
  /\ MayStart(r)
  /\ \/ \E s \in Servers, t \in {0, Static} :
          Begin(r, "start", "save", s, TRUE, t) /\ Races(r, Saving)
     \/ Begin(r, "start", "read", LoadConfig.server, FALSE, Static) /\ UNCHANGED raced
     \/ Begin(r, "start", "resolve", LoadConfig.server, FALSE, 0) /\ UNCHANGED raced
  /\ UNCHANGED <<overlap, config, bad, creds, tmp, home, live, edits,
                 due, dueServer, dueOwn, broke, failed>>

(* resolve_activate_server: the saved server if it answers as a hub that     *)
(* does device sign-in, else the hosted one. A probe may not be answered.    *)
ActivateServer(saved, s) == s = Hosted \/ (s = saved /\ s \in Hubs)

Activate(r) ==
  /\ MayStart(r)
  /\ \E s \in Servers, flag \in BOOLEAN :
       /\ flag \/ ActivateServer(IF config.st = "missing" THEN None ELSE LoadConfig.server, s)
       /\ Begin(r, "activate", "ask", s, flag, 0)
  /\ UNCHANGED <<overlap, config, bad, creds, tmp, home, live, edits,
                 due, dueServer, dueOwn, broke, raced, failed>>

\* run_logout: without a token there is nothing to do.
Logout(r) ==
  /\ MayStart(r)
  /\ \E s \in Servers, flag \in BOOLEAN :
       /\ flag \/ s = LoadConfig.server
       /\ IF LoadCredentials[s] = 0 THEN UNCHANGED runs
          ELSE runs' = [runs EXCEPT ![r] =
                 [Idle EXCEPT !.cmd = "logout", !.at = "revoke", !.server = s,
                              !.token = LoadCredentials[s]]]
  /\ UNCHANGED <<overlap, config, bad, creds, tmp, home, live, edits,
                 due, dueServer, dueOwn, broke, raced, failed>>

\* run_uninstall removes the directory; the hubs are not told.
Uninstall(r) ==
  /\ MayStart(r) /\ Quiet
  /\ config' = Missing /\ bad' = 0 /\ creds' = NoCreds /\ tmp' = NoCreds
  /\ due' = NoneHeld /\ dueServer' = None /\ dueOwn' = FALSE /\ broke' = 0
  /\ UNCHANGED <<overlap, runs, home, live, edits, raced, failed>>

-----------------------------------------------------------------------------
(* Config::save: a config that did not parse is moved aside first, whether   *)
(* that succeeds or not; the file is then truncated, and filled.             *)
Save(r) ==
  /\ At(r, "save")
  /\ LET aside == runs[r].corrupt /\ config.st # "missing" IN
     /\ \/ /\ bad' = IF aside THEN config.by ELSE bad
           /\ failed' = failed
        \/ aside /\ ~failed /\ failed' = TRUE /\ bad' = bad
     /\ runs' = [q \in Runs |->
          IF q = r THEN [runs[r] EXCEPT !.at = "fill", !.corrupt = FALSE, !.fd = "config"]
          ELSE IF aside /\ bad' # bad /\ At(q, "fill") THEN [runs[q] EXCEPT !.fd = "bad"]
          ELSE runs[q]]
  /\ config' = Empty
  /\ Races(r, Saving)
  /\ UNCHANGED <<overlap, creds, tmp, home, live, commands, edits,
                 due, dueServer, dueOwn, broke>>

\* Where a save leads: a token given is stored next, a sign-in is complete.
AfterSave(r) ==
  CASE runs[r].cmd = "activate" -> runs' = [runs EXCEPT ![r] = Idle]
    [] runs[r].cmd = "first"    -> Go(r, "running")
    [] OTHER                     -> Go(r, IF runs[r].token = 0 THEN "resolve" ELSE "read")

Fill(r) ==
  /\ At(r, "fill")
  /\ LET mine == Config("ok", runs[r].server, runs[r].own, 0) IN
     \/ /\ IF runs[r].fd = "bad" THEN bad' = 0 /\ config' = config
           ELSE /\ bad' = bad
                /\ \/ config' = mine
                   \/ config.st # "empty" /\ config' = Config("broken", Local, FALSE, 0)
        /\ dueServer' = runs[r].server /\ failed' = failed
        /\ AfterSave(r)
     \/ /\ ~failed /\ failed' = TRUE
        /\ End(r) /\ UNCHANGED <<config, bad, dueServer>>
  /\ UNCHANGED <<overlap, creds, tmp, home, live, commands, edits,
                 due, dueOwn, broke, raced>>

-----------------------------------------------------------------------------
(* store_credential and remove_credential read every server's token; what is *)
(* written is what was read but for one server.                              *)
Read(r) ==
  /\ At(r, "read")
  /\ runs' = [runs EXCEPT ![r].at = "open",
                          ![r].of = [LoadCredentials EXCEPT ![runs[r].server] = runs[r].token]]
  /\ Races(r, Storing)
  /\ UNCHANGED <<overlap, config, bad, creds, tmp, home, live, commands, edits,
                 due, dueServer, dueOwn, broke, failed>>

(* write_credentials: the temporary file is truncated, filled and renamed;   *)
(* whoever has it open keeps it, under its new name.                         *)
Open(r) ==
  /\ At(r, "open")
  /\ IF Renames
     THEN tmp' = Cut /\ creds' = creds /\ runs' = [runs EXCEPT ![r].at = "put", ![r].fd = "tmp"]
     ELSE creds' = Cut /\ tmp' = tmp /\ runs' = [runs EXCEPT ![r].at = "put", ![r].fd = "creds"]
  /\ Races(r, Storing)
  /\ UNCHANGED <<overlap, config, bad, home, live, commands, edits,
                 due, dueServer, dueOwn, broke, failed>>

\* What two writers of one file leave: the later text, or a mixture.
Written(r, file) ==
  {Creds(runs[r].of, TRUE, TRUE)} \cup (IF file.ok THEN {Cut} ELSE {})

\* Where a store leads: a sign-in saves its server, a start resolves its token.
AfterStore(r) ==
  /\ due' = [due EXCEPT ![runs[r].server] = runs[r].token]
  /\ dueServer' = IF runs[r].cmd \in {"activate", "first"} THEN runs[r].server ELSE dueServer
  /\ runs' = [q \in Runs |->
       IF q = r
       THEN IF runs[r].cmd = "logout" THEN Idle
            ELSE [runs[r] EXCEPT !.fd = "none", !.of = NoneHeld,
                    !.at = IF runs[r].cmd = "start" THEN "resolve" ELSE "load"]
       ELSE IF Renames /\ runs[q].fd \in {"tmp", "creds"}
       THEN [runs[q] EXCEPT !.fd = IF @ = "tmp" THEN "creds" ELSE "gone"]
       ELSE runs[q]]

Put(r) ==
  /\ At(r, "put")
  /\ \/ /\ tmp' \in IF runs[r].fd = "tmp" THEN Written(r, tmp) ELSE {tmp}
        /\ creds' \in IF runs[r].fd = "creds" THEN Written(r, creds) ELSE {creds}
        /\ failed' = failed
        /\ IF Renames THEN Go(r, "rename") /\ UNCHANGED <<due, dueServer>> ELSE AfterStore(r)
     \/ /\ ~failed /\ failed' = TRUE
        /\ End(r) /\ UNCHANGED <<creds, tmp, due, dueServer>>
  /\ UNCHANGED <<overlap, config, bad, home, live, commands, edits,
                 dueOwn, broke, raced>>

\* The temporary file is gone if another command has renamed it.
Rename(r) ==
  /\ At(r, "rename")
  /\ IF tmp.there
     THEN creds' = tmp /\ tmp' = NoCreds /\ failed' = failed /\ AfterStore(r)
     ELSE failed' = TRUE /\ End(r) /\ UNCHANGED <<creds, tmp, due, dueServer>>
  /\ UNCHANGED <<overlap, config, bad, home, live, commands, edits,
                 dueOwn, broke, raced>>

\* persist_login reads the config again before it saves the server.
Load(r) ==
  /\ At(r, "load")
  /\ runs' = [runs EXCEPT ![r].at = "save", ![r].own = LoadConfig.own,
                          ![r].corrupt = LoadConfig.corrupt]
  /\ Races(r, Saving)
  /\ UNCHANGED <<overlap, config, bad, creds, tmp, home, live, commands, edits,
                 due, dueServer, dueOwn, broke, failed>>

-----------------------------------------------------------------------------
(* resolve_token: the token given, the server's own, the one of the config.  *)
(* Without any, at a terminal, a start signs in: to the server named if it   *)
(* is a hub, else to the saved one or the hosted one.                        *)
ResolveToken(r) ==
  IF runs[r].token # 0 THEN runs[r].token
  ELSE IF LoadCredentials[runs[r].server] # 0 THEN LoadCredentials[runs[r].server]
  ELSE IF runs[r].own THEN Static ELSE 0

Resolve(r) ==
  /\ At(r, "resolve")
  /\ \/ runs' = [runs EXCEPT ![r].at = "running", ![r].token = ResolveToken(r)]
     \/ /\ ResolveToken(r) = 0
        /\ \E s \in Servers :
             /\ IF runs[r].flag THEN s = runs[r].server /\ s \in Hubs
                ELSE ActivateServer(runs[r].server, s)
             /\ runs' = [runs EXCEPT ![r].at = "ask", ![r].cmd = "first", ![r].server = s]
  /\ UNCHANGED <<overlap, config, bad, creds, tmp, home, live, commands, edits,
                 due, dueServer, dueOwn, broke, raced, failed>>

\* run_activate: only a hub that does device sign-in gives a code.
Ask(r) ==
  /\ At(r, "ask")
  /\ \/ runs[r].server \in Hubs /\ runs' = [runs EXCEPT ![r].at = "poll", ![r].code = "pending"]
     \/ End(r)
  /\ UNCHANGED <<overlap, config, bad, creds, tmp, home, live, commands, edits,
                 due, dueServer, dueOwn, broke, raced, failed>>

\* The hub: a user approves the code, which mints a token; or denies it.
Approve(r) ==
  /\ At(r, "poll") /\ runs[r].code = "pending"
  /\ \/ \E t \in Tokens :
          /\ home[t] = None /\ \A u \in 1..(t - 1) : home[u] # None
          /\ home' = [home EXCEPT ![t] = runs[r].server] /\ live' = live \cup {t}
          /\ runs' = [runs EXCEPT ![r].code = "approved", ![r].token = t]
     \/ runs' = [runs EXCEPT ![r].code = "gone"] /\ UNCHANGED <<home, live>>
  /\ UNCHANGED <<overlap, config, bad, creds, tmp, commands, edits,
                 due, dueServer, dueOwn, broke, raced, failed>>

(* One poll: a token to keep, the end of the flow, or no answer, which ends  *)
(* it too, whatever the hub did. A code still pending is asked for again.    *)
Poll(r) ==
  /\ At(r, "poll")
  /\ \/ runs[r].code = "approved" /\ runs' = [runs EXCEPT ![r].at = "read", ![r].code = "none"]
     \/ End(r)
  /\ UNCHANGED <<overlap, config, bad, creds, tmp, home, live, commands, edits,
                 due, dueServer, dueOwn, broke, raced, failed>>

\* The hub is told if it can be reached; the entry is dropped either way.
Revoke(r) ==
  /\ At(r, "revoke")
  /\ \/ live' = live \ {runs[r].token}
     \/ live' = live
  /\ Go(r, "drop")
  /\ UNCHANGED <<overlap, config, bad, creds, tmp, home, commands, edits,
                 due, dueServer, dueOwn, broke, raced, failed>>

\* remove_credential: nothing is written if there is no entry any more.
Drop(r) ==
  /\ At(r, "drop")
  /\ runs' = [runs EXCEPT ![r] =
       IF LoadCredentials[runs[r].server] = 0 THEN Idle
       ELSE [@ EXCEPT !.at = "open", !.token = 0,
               !.of = [LoadCredentials EXCEPT ![runs[r].server] = 0]]]
  /\ due' = [due EXCEPT ![runs[r].server] = 0]
  /\ Races(r, Storing)
  /\ UNCHANGED <<overlap, config, bad, creds, tmp, home, live, commands, edits,
                 dueServer, dueOwn, broke, failed>>

Quit(r) ==
  /\ At(r, "running") /\ End(r)
  /\ UNCHANGED <<overlap, config, bad, creds, tmp, home, live, commands, edits,
                 due, dueServer, dueOwn, broke, raced, failed>>

\* The user's editor: the config gets the settings, or stops being TOML.
Edit ==
  /\ edits < MaxEdits /\ edits' = edits + 1
  /\ Quiet /\ config.st = "ok"
  /\ \/ config' = [config EXCEPT !.own = TRUE] /\ dueOwn' = TRUE /\ UNCHANGED <<broke, dueServer>>
     \/ /\ config' = Config("broken", Local, FALSE, edits + 1)
        /\ broke' = edits + 1 /\ dueOwn' = FALSE /\ dueServer' = None
  /\ UNCHANGED <<overlap, bad, creds, tmp, runs, home, live, commands, due, raced, failed>>

Next ==
  \/ Edit
  \/ \E r \in Runs :
       \/ Start(r) \/ Activate(r) \/ Logout(r) \/ Uninstall(r)
       \/ Save(r) \/ Fill(r) \/ Read(r) \/ Open(r) \/ Put(r) \/ Rename(r) \/ Load(r)
       \/ Resolve(r) \/ Ask(r) \/ Approve(r) \/ Poll(r) \/ Revoke(r) \/ Drop(r) \/ Quit(r)

Spec == Init /\ [][Next]_homeVars

-----------------------------------------------------------------------------
(* Where no two commands were inside one file at once and no write failed,   *)
(* the files are what the commands said: every server has the token of the   *)
(* last command about it, a sign-in to one leaves the others alone, a logout *)
(* leaves nothing behind whether the hub was reached or not, and no token    *)
(* that was revoked is kept; the server is the one last named or signed in   *)
(* to, and the user's own settings are there (config.rs, actions.rs). So the *)
(* next plain `ccs` connects as it was told.                                 *)
KeepsWhatWasSaid ==
  Quiet /\ ~raced /\ ~failed =>
    /\ creds.of = due /\ \A s \in Servers : due[s] \in Tokens => due[s] \in live
    /\ dueServer # None => config.server = dueServer
    /\ config.own = dueOwn

(* A config the user wrote that does not parse is never overwritten unseen:  *)
(* it is in config.toml, or in config.toml.bad (Config::save).               *)
UserFileKept ==
  broke # 0 /\ ~raced /\ ~failed => config.by = broke \/ bad = broke

(* Whatever races or fails, a token a hub minted is kept for that hub only,  *)
(* and presented to no other (host_key, credential_for).                     *)
TokensAtHome ==
  /\ \A s \in Servers : creds.of[s] \in Tokens => home[creds.of[s]] = s
  /\ \A r \in Runs : runs[r].token \in Tokens => home[runs[r].token] = runs[r].server

ClientHomeHolds == KeepsWhatWasSaid /\ UserFileKept /\ TokensAtHome
=============================================================================
