----------------------------- MODULE Assistants -----------------------------
(* The registry of the supported assistants (src/tools.rs): how each is      *)
(* installed, brought up to date and probed on a platform, and what          *)
(* tools.conf may say instead. A command stands for the way it installs; the *)
(* empty one is "".                                                          *)
EXTENDS Naturals, Sequences, SequencesExt

Platforms == {"macos", "linux", "windows"}

Same(cmd) == [p \in Platforms |-> cmd]
Unix(cmd, windows) == [p \in Platforms |-> IF p = "windows" THEN windows ELSE cmd]

Descriptor(install, update, self, needs) ==
  [install |-> install, update |-> update, self |-> self, needs |-> needs]

ASSISTANTS ==
  [claude |-> Descriptor(Unix("sh", "ps1"), Unix("sh", "ps1"), "claude update", Same({})),
   codex |-> Descriptor(Same("npm"), Same("npm"), "codex update", Same({"npm"})),
   gemini |-> Descriptor(Same("npm"), Same("npm"), "", Same({"npm"})),
   kimi |-> Descriptor(Same("uv"), Same("uv"), "", Same({"uv"})),
   opencode |-> Descriptor(Unix("sh", "npm"), Same(""), "opencode upgrade",
                           Unix({}, {"npm"})),
   grok |-> Descriptor(Unix("sh", "ps1"), Same(""), "grok update", Same({}))]

\* assistant_for: by the tool's prefix. `hint` and `command` are what tools.conf says.
Known(tool) == tool \in DOMAIN ASSISTANTS

InstallCommand(tool, platform, hint) ==
  IF hint # "" THEN hint
  ELSE IF Known(tool) THEN ASSISTANTS[tool].install[platform] ELSE ""

PrereqsFor(tool, platform, hint) ==
  IF hint = "" /\ Known(tool) THEN ASSISTANTS[tool].needs[platform] ELSE {}

\* In order: what tools.conf says, the assistant's own, the package manager's.
UpdateCommands(tool, platform, command) ==
  LET all == <<command>> \o (IF Known(tool) THEN <<ASSISTANTS[tool].self,
                               ASSISTANTS[tool].update[platform]>> ELSE <<>>)
      First(i) == all[i] # "" /\ \A j \in 1..i-1 : all[j] # all[i]
      at == SetToSortSeq({i \in DOMAIN all : First(i)}, LAMBDA i, j : i < j)
  IN [k \in DOMAIN at |-> all[at[k]]]
=============================================================================
