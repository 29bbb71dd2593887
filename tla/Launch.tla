------------------------------- MODULE Launch -------------------------------
(* How a session's assistant is started (src/tools.rs): the tools are read   *)
(* from tools.conf when the agent starts, completed with what is known of    *)
(* the built-in assistants, and every launch, fresh or resumed, is a command *)
(* line made from the tool and from what was chosen for the session: whether *)
(* the assistant may skip its permission prompts, and whether it may be      *)
(* remote controlled by its vendor's app.                                    *)
(*                                                                           *)
(* A command line is a sequence of words, what was never said is {} and what *)
(* was said once is the singleton of it.                                     *)
EXTENDS Naturals, Sequences, FiniteSetsExt, SequencesExt

CONSTANTS Confs,      \* the texts tools.conf may have: sequences of lines
          Extra,      \* the session's extra directories, a sequence
          Windows,    \* the agent's platform
          MaxEdits    \* edits of tools.conf

Keys == {"tool", "extra", "resume", "yolo", "off", "on"}

LaunchAssumption ==
  /\ \A c \in Confs : \A l \in ToSet(c) : l.key \in Keys
  /\ Windows \in BOOLEAN /\ MaxEdits \in Nat

VARIABLES conf,       \* tools.conf on disk
          loaded,     \* its text when the agent started
          files,      \* per binary, the extensions of its files on the PATH
          offFile,    \* claude-remote-off.json is there
          entry,      \* the session's entry of the manifest: {} or one
          run,        \* the command lines of its shell: the first one runs
          dangling,   \* history: it was launched with its file missing
          edits

launchVars == <<conf, loaded, files, offFile, entry, run, dangling, edits>>

-----------------------------------------------------------------------------
(* The lines of tools.conf.                                                  *)
ToolLine(cmd, prefix, tmpl) == [key |-> "tool", cmd |-> cmd, of |-> prefix, value |-> tmpl]
Says(key, of, value) == [key |-> key, cmd |-> "", of |-> of, value |-> value]

NewTool(cmd, prefix, tmpl) ==
  [cmd |-> cmd, prefix |-> prefix, tmpl |-> tmpl, extra |-> {}, resume |-> {},
   keep |-> FALSE, yolo |-> {}, off |-> {}, on |-> {}]

\* What the last line of its kind says of a tool, by command or by prefix.
Declared(c, key, t) ==
  LET at == {i \in DOMAIN c : c[i].key = key /\ c[i].of \in {t.cmd, t.prefix}}
  IN IF at = {} THEN {} ELSE {c[Max(at)].value}

\* The first line of each prefix is its tool; the rest is said of tools.
Listed(c) ==
  FoldLeft(LAMBDA tools, l :
             IF l.key # "tool" \/ \E t \in ToSet(tools) : t.prefix = l.of THEN tools
             ELSE Append(tools, NewTool(l.cmd, l.of, l.value)), <<>>, c)

Parse(c) ==
  LET Completed(t) ==
        [t EXCEPT !.extra = Declared(c, "extra", t), !.resume = Declared(c, "resume", t),
                  !.keep = Declared(c, "resume", t) # {}, !.yolo = Declared(c, "yolo", t),
                  !.off = Declared(c, "off", t), !.on = Declared(c, "on", t)]
      tools == Listed(c)
  IN [k \in DOMAIN tools |-> Completed(tools[k])]

Defaults ==
  <<NewTool("cc", "claude", <<"claude">>), NewTool("kc", "kimi", <<"kimi">>),
    NewTool("gc", "gemini", <<"gemini", "--skip-trust">>),
    NewTool("coc", "codex", <<"codex">>), NewTool("oc", "opencode", <<"opencode">>),
    NewTool("gk", "grok", <<"grok">>), NewTool("tt", "shell", <<"$SHELL", "-l">>)>>

-----------------------------------------------------------------------------
(* with_defaults: what a tool is known by, and what it then gets.            *)
Is(t, cmd, prefix) == t.prefix = prefix \/ t.cmd = cmd
Claude(t) == Is(t, "cc", "claude")
Kimi(t) == Is(t, "kc", "kimi")
Gemini(t) == Is(t, "gc", "gemini")
Codex(t) == Is(t, "coc", "codex")
Continues(t) == Is(t, "oc", "opencode") \/ Is(t, "gk", "grok")

Or(own, known) == IF own # {} THEN own ELSE known

ExtraOf(t) ==
  Or(t.extra, IF Claude(t) \/ Kimi(t) \/ Codex(t) THEN {<<"--add-dir">>}
              ELSE IF Gemini(t) THEN {<<"--include-directories">>} ELSE {})
ResumeOf(t) ==
  Or(t.resume, IF Claude(t) \/ Kimi(t) THEN {<<"--continue">>}
               ELSE IF Gemini(t) THEN {<<"--resume", "latest">>}
               ELSE IF Codex(t) THEN {<<"resume", "--last">>}
               ELSE IF Continues(t) THEN {<<"--continue">>} ELSE {})
KeepOf(t) == t.keep \/ (t.resume = {} /\ (Claude(t) \/ Kimi(t) \/ Gemini(t)))

YoloFlag(t) ==
  IF Claude(t) THEN {"--dangerously-skip-permissions"}
  ELSE IF Kimi(t) \/ Gemini(t) THEN {"-y"}
  ELSE IF Codex(t) THEN {"--dangerously-bypass-approvals-and-sandbox"}
  ELSE IF Is(t, "oc", "opencode") THEN {"--auto"}
  ELSE IF Is(t, "gk", "grok") THEN {"--always-approve"} ELSE {}
YoloOf(t) == Or(t.yolo, {<<f>> : f \in YoloFlag(t) \ ToSet(t.tmpl)})

\* The template carries the vendor's remote control by hand.
InlinesRemote(tmpl) == ToSet(tmpl) \cap {"--rc", "--remote-control", "disableRemoteControl"} # {}
Governed(t) == Claude(t) /\ ~InlinesRemote(t.tmpl)

OffFlag == <<"--settings", "off.json">>
OffOf(t) == Or(t.off, IF Governed(t) THEN {OffFlag} ELSE {}) \ {<<>>}
OnOf(t) == Or(t.on, IF Governed(t) THEN {<<"--rc">>} ELSE {}) \ {<<>>}

WithDefaults(tools) ==
  [k \in DOMAIN tools |->
     LET t == tools[k] IN
     [t EXCEPT !.extra = ExtraOf(t), !.resume = ResumeOf(t), !.keep = KeepOf(t),
               !.yolo = YoloOf(t), !.off = OffOf(t), !.on = OnOf(t)]]

LoadTools(c) == LET tools == Parse(c) IN WithDefaults(IF tools # <<>> THEN tools ELSE Defaults)

-----------------------------------------------------------------------------
(* The launch line: (resume) || (fresh), both with the session's flags.      *)
Said(option) == IF option = {} THEN <<>> ELSE CHOOSE words \in option : TRUE

DirFlags(t) == IF t.extra = {} THEN <<>>
               ELSE FlattenSeq([i \in DOMAIN Extra |-> Said(t.extra) \o <<Extra[i]>>])
Flags(t, skip, rc) ==
  (IF skip THEN Said(t.yolo) ELSE <<>>) \o Said(IF rc THEN t.on ELSE t.off)

\* Slip: what resumes has the session's flags no more.
SlipBuildLaunch(t, resume, skip, rc) ==
  LET fresh == t.tmpl \o DirFlags(t) \o Flags(t, skip, rc)
      again == t.tmpl \o Said(t.resume) \o (IF t.keep THEN DirFlags(t) ELSE <<>>)
  IN IF resume /\ t.resume # {} /\ again # fresh THEN <<again, fresh>> ELSE <<fresh>>

BuildLaunch(t, resume, skip, rc) ==
  LET fresh == t.tmpl \o DirFlags(t) \o Flags(t, skip, rc)
      again == t.tmpl \o Said(t.resume) \o (IF t.keep THEN DirFlags(t) ELSE <<>>)
                 \o Flags(t, skip, rc)
  IN IF resume /\ t.resume # {} /\ again # fresh THEN <<again, fresh>> ELSE <<fresh>>

\* The probe: the binary's name as written, then with an extension of PATHEXT.
Extensions == IF Windows THEN {"", ".exe", ".cmd"} ELSE {""}
Resolves(head) == files[head] \cap Extensions # {}
MissingBinary(t) == LET head == Head(t.tmpl) IN head \in DOMAIN files /\ ~Resolves(head)

Loads == [c \in Confs |-> LoadTools(c)]
FindTool(key) ==
  LET tools == Loads[loaded]
      at == {i \in DOMAIN tools : key \in {tools[i].cmd, tools[i].prefix}}
  IN IF at = {} THEN {} ELSE {tools[Min(at)]}

-----------------------------------------------------------------------------
Init ==
  /\ conf \in Confs /\ loaded = conf
  /\ files = [b \in {"claude"} |-> {IF Windows THEN ".cmd" ELSE ""}]
  /\ offFile = TRUE /\ entry = {} /\ run = <<>> /\ dangling = FALSE /\ edits = 0

Uses(line) == "off.json" \in ToSet(line)
\* create: the launch, and the entry that records what was asked for.
Launches(t, resume, skip, rc) ==
  /\ offFile' = TRUE
  /\ run' = BuildLaunch(t, resume, skip, rc)
  /\ dangling' = (Uses(run'[1]) /\ ~offFile')
  /\ entry' = {[cmd |-> t.cmd, prefix |-> t.prefix, skip |-> skip, rc |-> rc]}

Create(prefix, skip, rc) ==
  /\ entry = {} /\ run = <<>>
  /\ \E t \in FindTool(prefix) : ~MissingBinary(t) /\ Launches(t, FALSE, skip, rc)
  /\ UNCHANGED <<conf, loaded, files, edits>>

\* The tool of an entry: by its prefix, else by its command.
ToolOf(e) ==
  LET known == FindTool(e.prefix) IN IF known # {} THEN known ELSE FindTool(e.cmd)

\* restart: the process is stopped and the line built again.
Restart ==
  /\ run # <<>>
  /\ \E e \in entry : \E t \in ToolOf(e) :
       Launches(t, TRUE, e.skip, e.rc)
  /\ UNCHANGED <<conf, loaded, files, edits>>

(* The shell's line ends: what failed to resume starts afresh, a clean exit  *)
(* is a goodbye, and any other exit keeps the entry.                         *)
Ends(clean) ==
  /\ run # <<>>
  /\ IF ~clean /\ Len(run) > 1
     THEN run' = Tail(run) /\ UNCHANGED entry
     ELSE /\ run' = <<>>
          /\ entry' = IF clean THEN {} ELSE entry
  /\ dangling' = FALSE /\ UNCHANGED <<conf, loaded, files, offFile, edits>>

\* The agent stops with its sessions, starts again and may restore them.
AgentStarts ==
  /\ loaded' = conf /\ offFile' = TRUE /\ run' = <<>> /\ dangling' = FALSE
  /\ UNCHANGED <<conf, files, entry, edits>>

Restore ==
  /\ run = <<>>
  /\ \E e \in entry : \E t \in ToolOf(e) :
       ~MissingBinary(t) /\ Launches(t, TRUE, e.skip, e.rc)
  /\ UNCHANGED <<conf, loaded, files, edits>>

\* What others do: edit tools.conf, remove the file, or the binary.
Edit ==
  /\ edits < MaxEdits /\ edits' = edits + 1 /\ conf' \in Confs
  /\ UNCHANGED <<loaded, files, offFile, entry, run, dangling>>
Wipe ==
  /\ offFile' = FALSE
  /\ UNCHANGED <<conf, loaded, files, entry, run, dangling, edits>>
Reinstall(b, there) ==
  /\ files' = [files EXCEPT ![b] = there]
  /\ UNCHANGED <<conf, loaded, offFile, entry, run, dangling, edits>>

Next ==
  \/ \E prefix \in {"claude", "mine"}, skip, rc \in BOOLEAN : Create(prefix, skip, rc)
  \/ Restart \/ Restore \/ AgentStarts \/ Edit \/ Wipe
  \/ \E clean \in BOOLEAN : Ends(clean)
  \/ \E b \in DOMAIN files, there \in {{}, {""}, {".cmd"}} : Reinstall(b, there)

Spec == Init /\ [][Next]_launchVars

-----------------------------------------------------------------------------
Words == ToSet(Head(run))
\* What tools.conf, when it lists a tool, says of the session's one.
NamesOf(e) == {e.cmd, e.prefix} \cup
                {l.cmd : l \in {l \in ToSet(loaded) : l.key = "tool" /\ l.of = e.prefix}}
Lines(e, key) == {l \in ToSet(loaded) : l.key = key /\ l.of \in NamesOf(e)}
Own(e) == IF \E l \in ToSet(loaded) : l.key = "tool"
          THEN UNION {ToSet(l.value) : l \in {l \in ToSet(loaded) : l.key = "tool"}} ELSE {}
Spoken(e, key) == Own(e) # {} /\ Lines(e, key) # {}
Remote == {"--rc", "--remote-control"}

(* Every process of a claude session, its fallback included and however      *)
(* often it is restarted or restored, has the stance chosen when it was      *)
(* created: unless the template spells one out, which is then left alone, or *)
(* tools.conf says otherwise (build_launch, with_defaults).                  *)
StanceKept ==
  run # <<>> => \A e \in entry :
    e.prefix = "claude" /\ ~Spoken(e, "off") /\ ~Spoken(e, "on") =>
      IF Own(e) \cap (Remote \cup {"disableRemoteControl"}) # {}
      THEN ~Uses(Head(run)) /\ Words \cap Remote \subseteq Own(e)
      ELSE (Uses(Head(run)) <=> ~e.rc) /\ ("--rc" \in Words <=> e.rc)

(* A stance tools.conf clears is not taken: nothing is added for it.         *)
ClearedIsClear ==
  run # <<>> => \A e \in entry :
    \A key \in {"off", "on"} :
      Spoken(e, key) /\ (\A l \in Lines(e, key) : l.value = <<>>) /\ (e.rc <=> key = "on")
        => ~Uses(Head(run)) /\ Words \cap Remote \subseteq Own(e)

(* A session that is to ask for permission is not started with the bypass    *)
(* unless its template has it, and no built-in bypass is given twice.        *)
Bypass == {"--dangerously-skip-permissions"}
AsksFirst ==
  run # <<>> => \A e \in entry :
    /\ ~e.skip => Words \cap Bypass \subseteq Own(e)
    /\ e.skip /\ e.prefix = "claude" /\ ~Spoken(e, "yolo") => Bypass \subseteq Words
    /\ ~Spoken(e, "yolo") =>
         Cardinality({i \in DOMAIN Head(run) : Head(run)[i] \in Bypass}) <= 1

(* No launch names the settings file while the file is missing (create's     *)
(* ensure_remote_off_file); a fallback that starts later may still.          *)
FileIsThere == ~dangling

LaunchHolds == StanceKept /\ ClearedIsClear /\ AsksFirst /\ FileIsThere
TypeOK ==
  /\ conf \in Confs /\ loaded \in Confs /\ offFile \in BOOLEAN /\ dangling \in BOOLEAN
  /\ Cardinality(entry) <= 1 /\ Len(run) <= 2 /\ edits \in 0..MaxEdits
=============================================================================
