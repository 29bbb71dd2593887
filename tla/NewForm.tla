------------------------------- MODULE NewForm -------------------------------
(* The new-session form of the terminal client (crates/tui/src/app.rs): a    *)
(* tool, a machine of the hub, a directory with completion, and switches.    *)
(* The lists it offers are fetched by spawned requests, each for the machine *)
(* and directory selected at that moment; answers arrive in any order.       *)
(*                                                                           *)
(* A machine is a number, since the hub lists machines in the order of their *)
(* ids; the form remembers an index into that list. A listing is named by    *)
(* where it was taken, <<machine, directory>>; which of its entries match    *)
(* the fragment typed so far is any number of them up to Entries.            *)
EXTENDS Naturals, SequencesExt

CONSTANTS Machines,     \* machine ids, numbers
          ToolsOf,      \* machine -> its tools, TRUE where it offers remote control
          Dirs, Home,   \* directories one can type, and the first
          Entries,      \* entries of a listing: a bound
          MaxFetches    \* bound: fetches in progress

NewFormAssumption ==
  /\ Machines \subseteq Nat \ {0} /\ Home \in Dirs
  /\ ToolsOf \in [Machines -> Seq(BOOLEAN)]
  /\ Entries \in Nat /\ MaxFetches \in Nat

VARIABLES known,      \* the machines the hub lists
          toolsFrom,  \* the machine the tool list was fetched from
          open,       \* a form is open
          field, toolIdx, machineIdx,
          dir,        \* the directory part of what is typed
          key,        \* dir_parent: what raw was listed for, "none" if nothing
          raw,        \* dir_raw: the listing held, <<0, "none">> when cleared
          cands, sel, \* candidates shown, the highlighted one or 0
          fetches     \* spawned requests: <<"dirs" or "tools", machine, directory>>

newFormVars == <<known, toolsFrom, open, field, toolIdx, machineIdx, dir, key,
                 raw, cands, sel, fetches>>

Cleared == <<0, "none">>
List == SetToSortSeq(known, <)
Selected == IF machineIdx \in DOMAIN List THEN List[machineIdx] ELSE 0
Tools == IF toolsFrom = 0 THEN <<>> ELSE ToolsOf[toolsFrom]
Capable(i, tools) == i \in DOMAIN tools /\ tools[i]

\* form_fields, in Tab order.
Fields(capable) == <<"tool", "machine", "name", "dir", "skip">> \o (IF capable THEN <<"remote">> ELSE <<>>)

TypeOK ==
  /\ known \subseteq Machines /\ toolsFrom \in Machines \cup {0}
  /\ open \in BOOLEAN /\ field \in {"tool", "machine", "name", "dir", "skip", "remote"}
  /\ toolIdx \in Nat \ {0} /\ machineIdx \in Nat \ {0}
  /\ dir \in Dirs /\ key \in Dirs \cup {"none"}
  /\ raw \in (Machines \X Dirs) \cup {Cleared}
  /\ cands \in 0..Entries /\ sel \in 0..Entries
  /\ fetches \subseteq ({"dirs", "tools"} \X (Machines \cup {0}) \X Dirs)

Init ==
  /\ known \in SUBSET Machines \ {{}}
  /\ toolsFrom = Min(known) /\ open = FALSE
  /\ field = "name" /\ toolIdx = 1 /\ machineIdx = 1
  /\ dir = Home /\ key = "none" /\ raw = Cleared /\ cands = 0 /\ sel = 0
  /\ fetches = {}

\* spawn_dir_fetch, spawn_tools_fetch: for the machine selected now.
Fetch(kinds, machine, d) ==
  /\ fetches' = fetches \cup {<<k, machine, d>> : k \in kinds}
  /\ Cardinality(fetches') <= MaxFetches

-----------------------------------------------------------------------------
(* open_newform: a form needs a tool; the first online machine is selected   *)
(* and the first listing asked for.                                          *)
Open ==
  /\ ~open /\ Tools # <<>>
  /\ open' = TRUE /\ field' = "name" /\ toolIdx' = 1
  /\ machineIdx' \in DOMAIN List
  /\ dir' = Home /\ key' = "none" /\ raw' = Cleared /\ cands' = 0 /\ sel' = 0
  /\ Fetch({"dirs"}, List[machineIdx'], Home)
  /\ UNCHANGED <<known, toolsFrom>>

\* Esc, or the answer of the create.
Close ==
  /\ open /\ open' = FALSE
  /\ UNCHANGED <<known, toolsFrom, field, toolIdx, machineIdx, dir, key, raw, cands, sel, fetches>>

\* newform_key's last step: a tool without the switch takes the focus off it.
Parked(f, i) == IF f = "remote" /\ ~Capable(i, Tools) THEN "skip" ELSE f

StepField ==
  /\ open
  /\ ~(field = "dir" /\ sel # 0)
  /\ LET fs == Fields(Capable(toolIdx, Tools))
         at == IF \E i \in DOMAIN fs : fs[i] = field THEN CHOOSE i \in DOMAIN fs : fs[i] = field ELSE 1
         n == Len(fs) IN
     \E next \in {(at % n) + 1, ((at + n - 2) % n) + 1} : field' = Parked(fs[next], toolIdx)
  /\ UNCHANGED <<known, toolsFrom, open, toolIdx, machineIdx, dir, key, raw, cands, sel, fetches>>

StepTool ==
  /\ open /\ field = "tool" /\ Tools # <<>>
  /\ LET n == Len(Tools) IN toolIdx' \in {(toolIdx % n) + 1, ((toolIdx + n - 2) % n) + 1}
  /\ field' = Parked(field, toolIdx')
  /\ UNCHANGED <<known, toolsFrom, open, machineIdx, dir, key, raw, cands, sel, fetches>>

(* invalidate_dirs: another machine has another file tree and other tools.   *)
StepMachine ==
  /\ open /\ field = "machine" /\ known # {}
  /\ LET n == Len(List) IN
     /\ machineIdx' \in {(machineIdx % n) + 1, ((machineIdx + n - 2) % n) + 1}
     /\ Fetch({"dirs", "tools"}, List[machineIdx'], dir)
  /\ key' = "none" /\ raw' = Cleared /\ cands' = 0 /\ sel' = 0
  /\ UNCHANGED <<known, toolsFrom, open, field, toolIdx, dir>>

\* refilter_dirs: the entries of the listing held that match what is typed.
Matching(listing) == IF listing = Cleared THEN {0} ELSE 0..Entries
Refilter(listing) == cands' \in Matching(listing) /\ sel' = 0

(* after_dir_edit: the same directory only filters again; another clears the *)
(* listing and asks for its own.                                             *)
EditDir(d) ==
  /\ dir' = d
  /\ IF d = key
     THEN Refilter(raw) /\ UNCHANGED <<raw, fetches>>
     ELSE /\ raw' = Cleared /\ cands' = 0 /\ sel' = 0
          /\ Fetch({"dirs"}, Selected, d)
  /\ UNCHANGED <<known, toolsFrom, open, field, toolIdx, machineIdx, key>>

TypeDir == open /\ field = "dir" /\ \E d \in Dirs : EditDir(d)
AcceptCandidate == open /\ field = "dir" /\ sel # 0 /\ \E d \in Dirs \ {dir} : EditDir(d)

\* move_cand: none, first, ..., last; up from the first is none again.
MoveCandidate ==
  /\ open /\ field = "dir"
  /\ sel' \in IF cands = 0 THEN {0}
              ELSE {IF sel < cands THEN sel + 1 ELSE cands, IF sel = 0 THEN 0 ELSE sel - 1}
  /\ UNCHANGED <<known, toolsFrom, open, field, toolIdx, machineIdx, dir, key, raw, cands, fetches>>

-----------------------------------------------------------------------------
(* handle_dir_cands: the listing is taken if the form is still about that    *)
(* directory; the answer does not say which machine it came from.            *)
Wanted(d) == open /\ dir = d

DirCands(machine, d) ==
  /\ <<"dirs", machine, d>> \in fetches
  /\ fetches' = fetches \ {<<"dirs", machine, d>>}
  /\ IF Wanted(d) /\ machine # 0
     THEN key' = d /\ raw' = <<machine, d>> /\ Refilter(raw')
     ELSE UNCHANGED <<key, raw, cands, sel>>
  /\ UNCHANGED <<known, toolsFrom, open, field, toolIdx, machineIdx, dir>>

(* handle_tools_loaded: adopt the list, keep the selection inside it.        *)
Fitted(i, tools) == IF i > Len(tools) THEN (IF tools = <<>> THEN 1 ELSE Len(tools)) ELSE i

ToolsLoaded(machine, d) ==
  /\ <<"tools", machine, d>> \in fetches
  /\ fetches' = fetches \ {<<"tools", machine, d>>}
  /\ IF machine = 0 THEN UNCHANGED <<toolsFrom, toolIdx>>
     ELSE /\ toolsFrom' = machine
          /\ toolIdx' = IF open THEN Fitted(toolIdx, ToolsOf[machine]) ELSE toolIdx
  /\ UNCHANGED <<known, open, field, machineIdx, dir, key, raw, cands, sel>>

\* The poll replaces the machine list: a machine that enrols moves the others.
Enrol ==
  /\ \E m \in Machines \ known : known' = known \cup {m}
  /\ UNCHANGED <<toolsFrom, open, field, toolIdx, machineIdx, dir, key, raw, cands, sel, fetches>>

Next ==
  \/ Open \/ Close \/ StepField \/ StepTool \/ StepMachine \/ TypeDir
  \/ AcceptCandidate \/ MoveCandidate \/ Enrol
  \/ \E m \in Machines \cup {0}, d \in Dirs : DirCands(m, d) \/ ToolsLoaded(m, d)

Spec == Init /\ [][Next]_newFormVars

-----------------------------------------------------------------------------
(* Enter never acts on a candidate that is no longer shown: whatever lists   *)
(* come and go, the highlight is one of the candidates on screen.            *)
SelectionIsShown == sel <= cands /\ (cands > 0 => raw # Cleared)

(* What Submit takes exists: the selected tool is one of the list held, also *)
(* when a shorter list arrives.                                              *)
ToolFits == open /\ Tools # <<>> => toolIdx \in DOMAIN Tools

(* The candidates shown are entries of the directory being typed.            *)
CandidatesOfDir == cands > 0 => raw[2] = dir

(* What Enter would take is what is drawn, whatever answers have arrived.    *)
FormHolds == SelectionIsShown /\ ToolFits /\ CandidatesOfDir
=============================================================================
