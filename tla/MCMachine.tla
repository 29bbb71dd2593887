------------------------------ MODULE MCMachine ------------------------------
(* The parts of an agent and of the terminal client that share no state with *)
(* one another, each on a small instance: a behaviour exercises one of them, *)
(* the one `part` names, and s1, s2, ... are its variables. The promises of  *)
(* each part are stated in its own module.                                   *)
EXTENDS Naturals, FiniteSets, Sequences, TLC

CONSTANTS c1, c2, c3, c4, d1, d2, u1, u2, none

VARIABLES part,   \* the component this behaviour exercises: fixed
          s1, s2, s3, s4, s5, s6, s7, s8, s9, s10, s11, s12, s13, s14, s15,
          s16   \* its variables, in order

slots == <<s1, s2, s3, s4, s5, s6, s7, s8, s9, s10, s11, s12, s13, s14, s15,
          s16>>
suiteVars == <<part, slots>>

PartsSymmetry == Permutations({c1, c2}) \cup Permutations({d1, d2})

\* One name on two machines, and the tools of two machines.
OneName == {<<c1, "a">>, <<c2, "a">>}
ToolLists == (1 :> <<TRUE, FALSE>>) @@ (2 :> <<FALSE>>)

\* Two uploads of one name; and one of two files.
Sending(name, mode) == [name |-> name, mode |-> mode]
OneNameTwice == u1 :> <<Sending("a", "rename")>> @@ u2 :> <<Sending("a", "rename")>>
TwoFiles == u1 :> <<Sending("a", "rename"), Sending("b", "overwrite")>>
PasteSizes == (1 :> 1) @@ (2 :> 2) @@ (3 :> 1)

\* A file, a directory, and a name in it that is free.
Names == {<<"a">>, <<"d">>, <<"d", "a">>}
Node(kind, ver, mode) ==
  [kind |-> kind, ver |-> ver, mtime |-> IF kind = "file" THEN 1 ELSE 0,
   mode |-> mode, due |-> mode]
OneTree ==
  {(<<"a">> :> Node("file", 1, "shared"))
     @@ (<<"d">> :> Node("dir", 0, "-")) @@ (<<"d", "a">> :> Node("absent", 0, "-"))}

\* The tools of the machine, and what is known of them; every assistant there
\* is can be installed on every platform.
As == INSTANCE Assistants
Selected == <<"codex", "grok">>
NeedIn(tools) == {t \in tools : As!PrereqsFor(t, "linux", "") # {}}
Commands(tools) == [t \in tools |-> Len(As!UpdateCommands(t, "linux", ""))]
ASSUME Installable ==
  \A t \in DOMAIN As!ASSISTANTS, p \in As!Platforms : As!InstallCommand(t, p, "") # ""

\* What tools.conf may say: of claude, of a tool of the owner's own, twice.
Line(key, cmd, of, value) == [key |-> key, cmd |-> cmd, of |-> of, value |-> value]
Claude(tmpl) == Line("tool", "cc", "claude", tmpl)
ToolsConfs ==
  {<<>>, <<Line("off", "", "claude", <<>>)>>,
   <<Claude(<<"claude">>)>>,
   <<Claude(<<"claude", "--dangerously-skip-permissions">>)>>,
   <<Claude(<<"claude", "--remote-control">>), Claude(<<"claude">>)>>,
   <<Line("tool", "my", "claude", <<"claude">>), Line("off", "", "my", <<>>)>>,
   <<Line("on", "", "cc", <<>>), Line("yolo", "", "claude", <<"--plan">>),
     Claude(<<"claude">>)>>,
   <<Claude(<<"claude">>), Line("off", "", "claude", <<"--settings", "mine.json">>),
     Line("resume", "", "cc", <<>>)>>,
   <<Line("tool", "my", "mine", <<"mine">>), Line("extra", "", "mine", <<"-d">>)>>}

\* What an install is told, and what the owner writes to web.env.
Told(set, addr, enroll) ==
  [set |-> set, addr |-> addr, enroll |-> enroll, restore |-> TRUE]
AgentOptions ==
  {Told(<<>>, "", FALSE), Told("PASSWORD" :> "p", "routable", FALSE),
   Told("HUB_URL" :> "h1", "loopback", TRUE), Told("HUB_URL" :> "h2", "loopback", TRUE),
   Told(("HUB_URL" :> "h1") @@ ("HUB_TOKEN" :> "h1") @@ ("HUB_ONLY" :> "1"),
        "loopback", FALSE)}
AgentEdits == {<<"PASSWORD", "">>, <<"HUB_ENROLL", "1">>}
HubOptions ==
  {Told(<<>>, "", FALSE), Told("PASSWORD" :> "p", "routable", FALSE),
   Told("AGENT_TOKENS" :> "a", "routable", FALSE)}
HubEdits == {<<"ALLOW_OPEN", "1">>, <<"ALLOW_REMOTE", "1">>}

\* Two clients of one server, and of two.
OneServer == c1 :> "h" @@ c2 :> "h"
TwoServers == c1 :> "h" @@ c2 :> "g"

\* The sessions of a hub, one of whose machines is not listed yet; what a
\* query matches in the menu.
HubSessions == <<<<"m1", "a">>, <<"m2", "a">>, <<"m1", "b">>>>
HitsOf == "q" :> <<<<"m1", "b">>, <<"rename">>, <<"new">>, <<"m2", "a">>>>

\* Texts to search: of an agent's sessions, and of a hub's two of one name.
Text(name, label, cwd, meta, machine) ==
  [name |-> name, label |-> label, cwd |-> cwd, meta |-> meta, machine |-> machine]
SearchLists ==
  {<<Text(<<"a">>, <<>>, <<"/", "b", "/", "a", "/">>, <<"b", "b">>, <<>>),
     Text(<<"a", "b">>, <<"b", "-", "a">>, <<"/", "a", "b">>, <<"a">>, <<>>),
     Text(<<"b">>, <<>>, <<"/", "b">>, <<"a", "b">>, <<>>)>>,
   <<Text(<<"a">>, <<>>, <<"/", "a">>, <<>>, <<"b">>),
     Text(<<"a">>, <<"b">>, <<"/", "b">>, <<>>, <<"a">>),
     Text(<<"b", "a">>, <<>>, <<"/">>, <<"a", "/", "b">>, <<"b">>)>>}
Words ==
  ("layout" :> {<<"l">>, <<"b", " ", "a">>}) @@ ("new" :> {<<"a">>})
    @@ ("rename" :> {<<"a", "b">>}) @@ ("clear" :> {<<"b">>}) @@ ("quit" :> {<<"a", "a", "b">>})

\* A home with links to where the walk has been, out of the home and to what
\* is pruned or hidden; the same with one entry more than a walk sees.
InHome(kind, days, entries) == [kind |-> kind, inside |-> TRUE, days |-> days, entries |-> entries]
Leading(name, to) == [name |-> name, to |-> to]
HomeTree(last) ==
  [nodes |->
     <<InHome("dir", 1, {Leading(<<"a">>, 2), Leading(<<".", "a">>, 6), Leading(<<"o">>, 5),
                         Leading(<<"v">>, 6), Leading(<<"b", "a">>, 3), Leading(<<"b">>, 7)}),
       InHome("dir", 1, {Leading(<<"a", "b">>, 3), Leading(<<"b">>, 2), Leading(<<"a">>, 4)}),
       InHome("dir", 20, {Leading(<<"a">>, 4), Leading(<<"b">>, 1), Leading(<<"b", "-", "a">>, 8)}),
       InHome("file", 100, {}),
       [InHome("dir", 1, {Leading(<<"a">>, 2)}) EXCEPT !.inside = FALSE],
       InHome("dir", 1, {}), InHome("file", 1, {}), InHome("dir", 3, {Leading(<<"b">>, 9)}),
       InHome("dir", 3, last)>>,
   home |-> 1, places |-> "sub" :> 2 @@ "out" :> 0, rel |-> 1 :> <<>> @@ 2 :> <<<<"a">>>>,
   sessions |-> {<<<<"a">>, <<"a", "b">>>>}]
\* One where a path matches better than a name, and a session in the last folder.
FlatTree ==
  [nodes |->
     <<InHome("dir", 1, {Leading(<<"a", "b", "a", "b">>, 2), Leading(<<"o", "a", "b", "o", "a", "b">>, 3),
                         Leading(<<"o", "a">>, 5), Leading(<<"v", "a">>, 6), Leading(<<"a">>, 7)}),
       InHome("dir", 1, {Leading(<<"o">>, 4)}), InHome("file", 100, {}), InHome("file", 1, {}),
       InHome("dir", 3, {}), InHome("dir", 3, {}), InHome("dir", 20, {})>>,
   home |-> 1, places |-> "sub" :> 2, rel |-> 1 :> <<>> @@ 2 :> <<<<"a", "b", "a", "b">>>>,
   sessions |-> {<<<<"v", "a">>>>}]
HomeTrees == {HomeTree({}), HomeTree({Leading(<<"a">>, 4)}), FlatTree}
PathQueries == {<<"a">>, <<"b">>, <<"a", "b">>, <<"a", "b", "a", "b">>, <<>>}
\* Two files and a folder, in one folder.
KindOf == "a" :> "file" @@ "b" :> "file" @@ "d" :> "dir"
PathLetters == <<"-", ".", "/", "a", "b", "o", "v", "~">>
DirNames == <<<<".", "a">>, <<"a">>, <<"a", "a", "b">>, <<"a", "-", "b">>, <<"b", "a", "b">>>>

At ==
  INSTANCE Attach WITH ring <- s1, cols <- s2, master <- s3, sizes <- s4,
    pump <- s5, child <- s6, reaper <- s7, closed <- s8, loop <- s9,
    out <- s10, line <- s11, view <- s12, Clients <- {c1, c2},
    Widths <- {1, 2}, InitCols <- 2, RingCap <- 1, OutCap <- 1,
    MaxVersions <- 0, SerialResize <- TRUE

Bx ==
  INSTANCE Boxes WITH running <- s1, listed <- s2, mode <- s3, overlay <- s4,
    gridOverlay <- s5, panes <- s6, active <- s7, fill <- s8, scroll <- s9,
    requests <- s10, owed <- s11, Sessions <- OneName, Layouts <- {1, 2},
    Requests <- {1}, None <- none

Nf ==
  INSTANCE NewForm WITH known <- s1, toolsFrom <- s2, open <- s3,
    field <- s4, toolIdx <- s5, machineIdx <- s6, dir <- s7, key <- s8,
    raw <- s9, cands <- s10, sel <- s11, fetches <- s12, Machines <- {1, 2},
    ToolsOf <- ToolLists, Dirs <- {"home", "sub"}, Home <- "home",
    Entries <- 2, MaxFetches <- 2

Wa ==
  INSTANCE Watch WITH overlap <- s1, present <- s2, byDir <- s3,
    byClient <- s4, watched <- s5, pending <- s6, client <- s7,
    orphans <- s8, call <- s9, bridge <- s10, line <- s11, behind <- s12,
    lost <- s13, Clients <- {c3, c4}, Relayed <- {c4}, Dirs <- {1},
    MaxDirs <- 1, LineCap <- 1

Wd ==
  INSTANCE Watch WITH overlap <- s1, present <- s2, byDir <- s3,
    byClient <- s4, watched <- s5, pending <- s6, client <- s7,
    orphans <- s8, call <- s9, bridge <- s10, line <- s11, behind <- s12,
    lost <- s13, Clients <- {c1}, Relayed <- {}, Dirs <- {d1, d2},
    MaxDirs <- 1, LineCap <- 1

Tr ==
  INSTANCE Transfers WITH overlap <- s1, request <- s2, slots <- s3,
    agent <- s4, at <- s5, disk <- s6, written <- s7, errors <- s8,
    clobbered <- s9, torn <- s10, latest <- s11, Uploads <- {u1, u2},
    FilesOf <- OneNameTwice, Suffixes <- 1

Bk ==
  INSTANCE Transfers WITH overlap <- s1, request <- s2, slots <- s3,
    agent <- s4, at <- s5, disk <- s6, written <- s7, errors <- s8,
    clobbered <- s9, torn <- s10, latest <- s11, Uploads <- {u1},
    FilesOf <- TwoFiles, Suffixes <- 1

Pa ==
  INSTANCE Pastes WITH overlap <- s1, live <- s2, recorded <- s3,
    deleting <- s4, reaper <- s5, paste <- s6, disk <- s7, files <- s8,
    bytes <- s9, total <- s10, seen <- s11, late <- s12, Sessions <- {c1},
    Pastes <- {1, 2, 3}, SizeOf <- PasteSizes, MaxFiles <- 2, MaxBytes <- 3,
    MaxTotal <- 3

Fi ==
  INSTANCE Files WITH overlap <- s1, tree <- s2, clock <- s3, versions <- s4,
    moves <- s5, open <- s6, doing <- s7, temps <- s8, lost <- s9,
    Callers <- {c1, c2}, Paths <- Names, Trees <- OneTree, MaxVersions <- 4,
    MaxClock <- 2, MaxMoves <- 1

Up ==
  INSTANCE Updates WITH release <- s1, disk <- s2, agent <- s3, marker <- s4,
    job <- s5, worker <- s6, cli <- s7, prereq <- s8, profile <- s9,
    strays <- s10, jobs <- s11, runs <- s12, spoilt <- s13,
    Tools <- <<"codex">>, Guarded <- {}, Needs <- NeedIn({"codex"}),
    Candidates <- Commands({"codex"}), MaxRelease <- 3, MaxJobs <- 2,
    MaxEdits <- 0, Outlives <- FALSE

In ==
  INSTANCE Updates WITH release <- s1, disk <- s2, agent <- s3, marker <- s4,
    job <- s5, worker <- s6, cli <- s7, prereq <- s8, profile <- s9,
    strays <- s10, jobs <- s11, runs <- s12, spoilt <- s13,
    Tools <- Selected, Guarded <- {"grok"},
    Needs <- NeedIn({"codex", "grok"}),
    Candidates <- Commands({"codex", "grok"}), MaxRelease <- 1, MaxJobs <- 1,
    MaxEdits <- 1, Outlives <- TRUE

Rp ==
  INSTANCE Repaint WITH term <- s1, half <- s2, cache <- s3, client <- s4,
    exact <- s5, clean <- s6, Lines <- {1}, Modes <- {"paste", "origin"},
    Restored <- {"paste"}, Height <- 1, MaxLines <- 3

La ==
  INSTANCE Launch WITH conf <- s1, loaded <- s2, files <- s3, offFile <- s4,
    entry <- s5, run <- s6, dangling <- s7, edits <- s8, Confs <- ToolsConfs,
    Extra <- <<"/src">>, Windows <- TRUE, MaxEdits <- 1

Sv ==
  INSTANCE Service WITH env <- s1, unit <- s2, proc <- s3, saved <- s4,
    minted <- s5, installer <- s6, shim <- s7, said <- s8, behind <- s9,
    enrolled <- s10, found <- s11, installs <- s12, edits <- s13,
    Role <- "agent", Platform <- "linux", Options <- AgentOptions,
    UserEdits <- AgentEdits, Tools <- {"t1", "t2"}, MaxTokens <- 2,
    MaxInstalls <- 2, MaxEdits <- 1

Sm ==
  INSTANCE Service WITH env <- s1, unit <- s2, proc <- s3, saved <- s4,
    minted <- s5, installer <- s6, shim <- s7, said <- s8, behind <- s9,
    enrolled <- s10, found <- s11, installs <- s12, edits <- s13,
    Role <- "agent", Platform <- "macos", Options <- AgentOptions,
    UserEdits <- AgentEdits, Tools <- {"t1", "t2"}, MaxTokens <- 2,
    MaxInstalls <- 2, MaxEdits <- 1

Sw ==
  INSTANCE Service WITH env <- s1, unit <- s2, proc <- s3, saved <- s4,
    minted <- s5, installer <- s6, shim <- s7, said <- s8, behind <- s9,
    enrolled <- s10, found <- s11, installs <- s12, edits <- s13,
    Role <- "agent", Platform <- "windows", Options <- AgentOptions,
    UserEdits <- AgentEdits, Tools <- {"t1", "t2"}, MaxTokens <- 2,
    MaxInstalls <- 2, MaxEdits <- 1

Sh ==
  INSTANCE Service WITH env <- s1, unit <- s2, proc <- s3, saved <- s4,
    minted <- s5, installer <- s6, shim <- s7, said <- s8, behind <- s9,
    enrolled <- s10, found <- s11, installs <- s12, edits <- s13,
    Role <- "hub", Platform <- "linux", Options <- HubOptions,
    UserEdits <- HubEdits, Tools <- {"t1", "t2"}, MaxTokens <- 1,
    MaxInstalls <- 3, MaxEdits <- 2

Re ==
  INSTANCE Recents WITH file <- s1, torn <- s2, boxes <- s3, focus <- s4,
    recents <- s5, dwell <- s6, writing <- s7, steps <- s8, mru <- s9,
    own <- s10, stale <- s11, raced <- s12, failed <- s13,
    Clients <- {c1, c2}, Sessions <- {"a", "b"}, ScopeOf <- OneServer,
    MaxRecents <- 2, Renames <- TRUE, MaxSteps <- 3, None <- none

Rw ==
  INSTANCE Recents WITH file <- s1, torn <- s2, boxes <- s3, focus <- s4,
    recents <- s5, dwell <- s6, writing <- s7, steps <- s8, mru <- s9,
    own <- s10, stale <- s11, raced <- s12, failed <- s13,
    Clients <- {c1, c2}, Sessions <- {"a", "b"}, ScopeOf <- TwoServers,
    MaxRecents <- 2, Renames <- FALSE, MaxSteps <- 2, None <- none

Sl ==
  INSTANCE Switcher WITH snap <- s1, machines <- s2, mode <- s3, panes <- s4,
    active <- s5, fill <- s6, recents <- s7, query <- s8, selected <- s9,
    menu <- s10, toast <- s11, focused <- s12, left <- s13,
    mountedThen <- s14, steps <- s15, Sessions <- HubSessions,
    MachineLists <- {<<"m2", "m3">>}, Layouts <- {1, 2},
    Statuses <- {"gone", "busy", "ready"}, Queries <- {"q"}, Hits <- HitsOf,
    MaxRecents <- 2, MaxSteps <- 4, Render <- 1, None <- none

Se ==
  INSTANCE Search WITH query <- s1, sessions <- s2,
    Chars <- {"a", "b", "/", "."}, MaxQuery <- 3, Dirs <- DirNames,
    Terms <- Words, Listings <- SearchLists

Ps ==
  INSTANCE PathSearch WITH tree <- s1, kind <- s2, query <- s3, root <- s4,
    queue <- s5, here <- s6, todo <- s7, visited <- s8, count <- s9,
    hits <- s10, stage <- s11, Trees <- HomeTrees, Queries <- PathQueries,
    Pruned <- {<<"v">>}, Letters <- PathLetters, MaxDepth <- 3,
    MaxVisited <- 13, MaxResults <- 3, DirNameBonus <- 20,
    FileNameBonus <- 10000

Br ==
  INSTANCE Browse WITH inodes <- s1, disk <- s2, moves <- s3, at <- s4,
    op <- s5, name <- s6, asked <- s7, total <- s8, range <- s9, fd <- s10,
    body <- s11, left <- s12, listed <- s13, touched <- s14,
    rewritten <- s15, away <- s16, Names <- {"a", "b", "d"}, Kinds <- KindOf,
    MaxSize <- 2, MaxMoves <- 1

\* The instances satisfy what the modules assume of their constants.
ASSUME PartsAssumption ==
  /\ Bx!BoxesAssumption
  /\ Nf!NewFormAssumption
  /\ Wa!WatchAssumption
  /\ Wd!WatchAssumption
  /\ Tr!TransfersAssumption
  /\ Bk!TransfersAssumption
  /\ Pa!PastesAssumption
  /\ Fi!FilesAssumption
  /\ Up!UpdatesAssumption
  /\ In!UpdatesAssumption
  /\ Rp!RepaintAssumption
  /\ La!LaunchAssumption
  /\ Sv!ServiceAssumption
  /\ Sm!ServiceAssumption
  /\ Sw!ServiceAssumption
  /\ Sh!ServiceAssumption
  /\ Re!RecentsAssumption
  /\ Rw!RecentsAssumption
  /\ Sl!SwitcherAssumption
  /\ Se!SearchAssumption
  /\ Ps!PathSearchAssumption
  /\ Br!BrowseAssumption

\* The slots a component leaves over hold nothing.
Unused(s) == s = "unused"

Init ==
  \/ part = "widths" /\ At!Init
     /\ Unused(s13) /\ Unused(s14) /\ Unused(s15) /\ Unused(s16)
  \/ part = "boxes" /\ Bx!Init
     /\ Unused(s12) /\ Unused(s13) /\ Unused(s14) /\ Unused(s15) /\ Unused(s16)
  \/ part = "newform" /\ Nf!Init
     /\ Unused(s13) /\ Unused(s14) /\ Unused(s15) /\ Unused(s16)
  \/ part = "watch" /\ Wa!Init
     /\ Unused(s14) /\ Unused(s15) /\ Unused(s16)
  \/ part = "watchdirs" /\ Wd!Init
     /\ Unused(s14) /\ Unused(s15) /\ Unused(s16)
  \/ part = "transfers" /\ Tr!Init
     /\ Unused(s12) /\ Unused(s13) /\ Unused(s14) /\ Unused(s15) /\ Unused(s16)
  \/ part = "bulk" /\ Bk!Init
     /\ Unused(s12) /\ Unused(s13) /\ Unused(s14) /\ Unused(s15) /\ Unused(s16)
  \/ part = "pastes" /\ Pa!Init
     /\ Unused(s13) /\ Unused(s14) /\ Unused(s15) /\ Unused(s16)
  \/ part = "files" /\ Fi!Init
     /\ Unused(s10) /\ Unused(s11) /\ Unused(s12) /\ Unused(s13) /\ Unused(s14)
     /\ Unused(s15) /\ Unused(s16)
  \/ part = "updates" /\ Up!Init
     /\ Unused(s14) /\ Unused(s15) /\ Unused(s16)
  \/ part = "installs" /\ In!Init
     /\ Unused(s14) /\ Unused(s15) /\ Unused(s16)
  \/ part = "repaint" /\ Rp!Init
     /\ Unused(s7) /\ Unused(s8) /\ Unused(s9) /\ Unused(s10) /\ Unused(s11)
     /\ Unused(s12) /\ Unused(s13) /\ Unused(s14) /\ Unused(s15) /\ Unused(s16)
  \/ part = "launch" /\ La!Init
     /\ Unused(s9) /\ Unused(s10) /\ Unused(s11) /\ Unused(s12) /\ Unused(s13)
     /\ Unused(s14) /\ Unused(s15) /\ Unused(s16)
  \/ part = "service" /\ Sv!Init
     /\ Unused(s14) /\ Unused(s15) /\ Unused(s16)
  \/ part = "servicemac" /\ Sm!Init
     /\ Unused(s14) /\ Unused(s15) /\ Unused(s16)
  \/ part = "servicewin" /\ Sw!Init
     /\ Unused(s14) /\ Unused(s15) /\ Unused(s16)
  \/ part = "hubservice" /\ Sh!Init
     /\ Unused(s14) /\ Unused(s15) /\ Unused(s16)
  \/ part = "recents" /\ Re!Init
     /\ Unused(s14) /\ Unused(s15) /\ Unused(s16)
  \/ part = "recentswin" /\ Rw!Init
     /\ Unused(s14) /\ Unused(s15) /\ Unused(s16)
  \/ part = "switcher" /\ Sl!Init
     /\ Unused(s16)
  \/ part = "search" /\ Se!Init
     /\ Unused(s3) /\ Unused(s4) /\ Unused(s5) /\ Unused(s6) /\ Unused(s7)
     /\ Unused(s8) /\ Unused(s9) /\ Unused(s10) /\ Unused(s11) /\ Unused(s12)
     /\ Unused(s13) /\ Unused(s14) /\ Unused(s15) /\ Unused(s16)
  \/ part = "pathsearch" /\ Ps!Init
     /\ Unused(s12) /\ Unused(s13) /\ Unused(s14) /\ Unused(s15) /\ Unused(s16)
  \/ part = "browse" /\ Br!Init

Next ==
  /\ UNCHANGED part
  /\ \/ part = "widths" /\ At!Next /\ UNCHANGED <<s13, s14, s15, s16>>
     \/ part = "boxes" /\ Bx!Next /\ UNCHANGED <<s12, s13, s14, s15, s16>>
     \/ part = "newform" /\ Nf!Next /\ UNCHANGED <<s13, s14, s15, s16>>
     \/ part = "watch" /\ Wa!Next /\ UNCHANGED <<s14, s15, s16>>
     \/ part = "watchdirs" /\ Wd!Next /\ UNCHANGED <<s14, s15, s16>>
     \/ part = "transfers" /\ Tr!Next /\ UNCHANGED <<s12, s13, s14, s15, s16>>
     \/ part = "bulk" /\ Bk!Next /\ UNCHANGED <<s12, s13, s14, s15, s16>>
     \/ part = "pastes" /\ Pa!Next /\ UNCHANGED <<s13, s14, s15, s16>>
     \/ part = "files" /\ Fi!Next /\ UNCHANGED <<s10, s11, s12, s13, s14, s15, s16>>
     \/ part = "updates" /\ Up!Next /\ UNCHANGED <<s14, s15, s16>>
     \/ part = "installs" /\ In!Next /\ UNCHANGED <<s14, s15, s16>>
     \/ part = "repaint" /\ Rp!Next /\ UNCHANGED <<s7, s8, s9, s10, s11, s12, s13, s14, s15, s16>>
     \/ part = "launch" /\ La!Next /\ UNCHANGED <<s9, s10, s11, s12, s13, s14, s15, s16>>
     \/ part = "service" /\ Sv!Next /\ UNCHANGED <<s14, s15, s16>>
     \/ part = "servicemac" /\ Sm!Next /\ UNCHANGED <<s14, s15, s16>>
     \/ part = "servicewin" /\ Sw!Next /\ UNCHANGED <<s14, s15, s16>>
     \/ part = "hubservice" /\ Sh!Next /\ UNCHANGED <<s14, s15, s16>>
     \/ part = "recents" /\ Re!Next /\ UNCHANGED <<s14, s15, s16>>
     \/ part = "recentswin" /\ Rw!Next /\ UNCHANGED <<s14, s15, s16>>
     \/ part = "switcher" /\ Sl!Next /\ UNCHANGED <<s16>>
     \/ part = "search" /\ Se!Next /\ UNCHANGED <<s3, s4, s5, s6, s7, s8, s9, s10, s11, s12, s13, s14, s15, s16>>
     \/ part = "pathsearch" /\ Ps!Next /\ UNCHANGED <<s12, s13, s14, s15, s16>>
     \/ part = "browse" /\ Br!Next

Spec == Init /\ [][Next]_suiteVars

-----------------------------------------------------------------------------
(* The terminal client's screen: a session in one box at most, a modal of    *)
(* the grid always about a box there is; the new-session form's highlighted  *)
(* candidate on screen and its lists those of what was typed, whatever       *)
(* arrives; its lists show every session once, the one left last where two   *)
(* keys reach it, and find what was typed (app.rs, config.rs, ready.rs);     *)
(* what a client that attaches is sent paints the screen, its scrollback and *)
(* its modes as they are (render.rs, pane.rs); and whoever attaches, reports *)
(* a size or leaves, one at a time, the terminal is as wide as its narrowest *)
(* client (engine.rs, attach.rs).                                            *)
ScreenHolds ==
  /\ part = "widths" => At!TypeOK /\ At!PinnedToNarrowest
  /\ part = "boxes" => Bx!TypeOK /\ Bx!ScreenHolds
  /\ part = "newform" => Nf!TypeOK /\ Nf!FormHolds
  /\ part = "repaint" => Rp!TypeOK /\ Rp!RepaintHolds
  /\ part = "recents" => Re!TypeOK /\ Re!RecentsHold
  /\ part = "recentswin" => Rw!TypeOK /\ Rw!RecentsHold
  /\ part = "switcher" => Sl!TypeOK /\ Sl!ListsHold
  /\ part = "search" => Se!TypeOK /\ Se!SearchHolds

(* While calls do not overlap, whoever asked for a directory is subscribed,  *)
(* every directory subscribed to is watched and nobody who left is still     *)
(* told; what changes reaches all who asked (watch.rs, watch_ws.rs).         *)
WatchHolds ==
  /\ part = "watch" => Wa!TypeOK /\ Wa!WatchHolds
  /\ part = "watchdirs" => Wd!TypeOK /\ Wd!WatchHolds

(* No save, upload or paste loses what it was not told to replace, and the   *)
(* files, modes and counters left behind are what the reports say, however   *)
(* requests overlap, are cut or fail (files.rs, fileops.rs, confine.rs,      *)
(* upload.rs, bulk.rs, clip_attachment.rs); a search finds what is there,    *)
(* once, and lists the best of it (dirsearch.rs); a download is a piece of   *)
(* one version and a listing has what stayed (files.rs).                     *)
FilesHold ==
  /\ part = "files" => Fi!TypeOK /\ Fi!FilesHold
  /\ part = "transfers" => Tr!TypeOK /\ Tr!TransfersHold
  /\ part = "bulk" => Bk!TypeOK /\ Bk!TransfersHold
  /\ part = "pastes" => Pa!TypeOK /\ Pa!PastesHold
  /\ part = "pathsearch" => Ps!TypeOK /\ Ps!PathSearchHolds
  /\ part = "browse" => Br!TypeOK /\ Br!BrowseHolds

(* One update job at a time, over the agent's own replacement too; what its  *)
(* rows say is so, and the user's shell profile comes back as it was         *)
(* (assistants.rs, self_update.rs, vendor_guard.rs).                         *)
UpdatesHold ==
  /\ part = "updates" => Up!TypeOK /\ Up!UpdatesHold
  /\ part = "installs" => In!TypeOK /\ In!UpdatesHold

(* A session is launched, fresh or again, the way it was last told to be,    *)
(* whatever tools.conf says and becomes, and with the flags it was told only *)
(* (tools.rs, engine.rs).                                                    *)
LaunchHolds ==
  /\ part = "launch" => La!TypeOK /\ La!LaunchHolds

(* A service runs with what was said last of every setting, nothing serves   *)
(* strangers unasked, an enrolled machine presents its hub's token, and the  *)
(* owner's own tools are kept, over installs, edits and restarts (service.rs,*)
(* enroll.rs, config.rs, netguard.rs).                                       *)
ServiceHolds ==
  /\ part = "service" => Sv!TypeOK /\ Sv!ServiceHolds
  /\ part = "servicemac" => Sm!TypeOK /\ Sm!ServiceHolds
  /\ part = "servicewin" => Sw!TypeOK /\ Sw!ServiceHolds
  /\ part = "hubservice" => Sh!TypeOK /\ Sh!ServiceHolds
=============================================================================
