----------------------------- MODULE Transfers -----------------------------
(* Uploads through a hub: the slot a request opens and the agent dials back  *)
(* to claim (crates/hub/src/bulk.rs), the request replayed by the agent      *)
(* (src/bulk.rs), and the files it writes (src/upload.rs).                   *)
(*                                                                           *)
(* An upload is a sequence of files with what to do when the name is taken.  *)
(* The client may leave and the answer may come too late while the agent     *)
(* goes on. The content of a file is who wrote into it and whether the last  *)
(* writer wrote all of it.                                                   *)
EXTENDS Naturals, Sequences, FiniteSets

CONSTANTS Uploads,
          FilesOf,      \* [Uploads -> Seq([name, mode])]
          Suffixes      \* how many "name-N" next_available tries

TransfersAssumption ==
  /\ Suffixes \in Nat
  /\ \A u \in Uploads : \A i \in 1..Len(FilesOf[u]) :
       FilesOf[u][i].mode \in {"overwrite", "rename"}

VARIABLES overlap,      \* two uploads may run at once: fixed
          request,      \* the client's request, as the hub sees it
          slots,        \* BulkRegistry.slots
          agent,        \* the agent's task for it
          at,           \* the file the task is at, and the path chosen for it
          disk,         \* what is at every path
          written,      \* UploadResp.written
          errors,       \* UploadResp.errors: indices of files
          clobbered,    \* history: paths replaced though "rename" was asked
          torn,         \* history: paths a failed write left half there
          latest        \* history: the upload that ran last

transferVars == <<overlap, request, slots, agent, at, disk, written, errors,
                  clobbered, torn, latest>>

Names == UNION {{FilesOf[u][i].name : i \in 1..Len(FilesOf[u])} : u \in Uploads}
Paths == Names \X (0..Suffixes)              \* <<name, 0>> is the name itself
Absent == [by |-> {}, whole |-> FALSE]
Old == [by |-> {"old"}, whole |-> TRUE]

TypeOK ==
  /\ overlap \in BOOLEAN
  /\ request \in [Uploads -> {"new", "opened", "waiting", "left",
                              "answered", "offline", "late"}]
  /\ slots \subseteq Uploads
  /\ agent \in [Uploads -> {"none", "told", "deciding", "creating", "writing", "done", "failed"}]
  /\ at \in [Uploads -> [file : Nat, path : Paths]]
  /\ disk \in [Paths -> [by : SUBSET (Uploads \cup {"old"}), whole : BOOLEAN]]
  /\ written \in [Uploads -> SUBSET Paths] /\ errors \in [Uploads -> SUBSET Nat]
  /\ clobbered \subseteq Uploads \X Paths /\ torn \subseteq Paths
  /\ latest \in Uploads \cup {"none"}

\* Any of the names may be taken already, and so may their first suffixes.
Init ==
  /\ overlap \in BOOLEAN
  /\ request = [u \in Uploads |-> "new"] /\ slots = {}
  /\ agent = [u \in Uploads |-> "none"]
  /\ at = [u \in Uploads |-> [file |-> 1, path |-> CHOOSE p \in Paths : TRUE]]
  /\ \E T \in SUBSET Paths : disk = [p \in Paths |-> IF p \in T THEN Old ELSE Absent]
  /\ written = [u \in Uploads |-> {}] /\ errors = [u \in Uploads |-> {}]
  /\ clobbered = {} /\ torn = {} /\ latest = "none"

Running(u) == agent[u] \in {"deciding", "creating", "writing"}
Waiting(u) == request[u] \in {"opened", "waiting"}
MayStart == overlap \/ \A u \in Uploads : ~Running(u)
work == <<at, disk, written, errors, clobbered, torn, latest>>
-----------------------------------------------------------------------------
\* proxy: the slot is registered before the agent is told to dial.
Opens(u) ==
  /\ request[u] = "new"
  /\ request' = [request EXCEPT ![u] = "opened"] /\ slots' = slots \cup {u}
  /\ UNCHANGED <<overlap, agent, work>>

TellsAgent(u) ==
  /\ request[u] = "opened"
  /\ request' = [request EXCEPT ![u] = "waiting"]
  /\ agent' = [agent EXCEPT ![u] = "told"]
  /\ UNCHANGED <<overlap, slots, work>>

AgentOffline(u) ==
  /\ request[u] = "opened"
  /\ request' = [request EXCEPT ![u] = "offline"] /\ slots' = slots \ {u}
  /\ UNCHANGED <<overlap, agent, work>>

\* Thirty seconds without a head: the slot is taken back, claimed or not.
TimesOut(u) ==
  /\ request[u] = "waiting"
  /\ request' = [request EXCEPT ![u] = "late"] /\ slots' = slots \ {u}
  /\ UNCHANGED <<overlap, agent, work>>

\* The handler is dropped with its connection and takes nothing back.
ClientLeaves(u) ==
  /\ Waiting(u)
  /\ request' = [request EXCEPT ![u] = "left"]
  /\ UNCHANGED <<overlap, slots, agent, work>>

(* agent_bulk: the dial-back claims the slot of its nonce if it is of the    *)
(* machine the slot was opened for; a machine it was not opened for is sent  *)
(* away and the slot stays.                                                  *)
SlotsAfter(u, mine) == IF mine THEN slots \ {u} ELSE slots

DialsBack(u) ==
  /\ agent[u] = "told" /\ MayStart
  /\ slots' = SlotsAfter(u, TRUE)
  /\ IF u \in slots
     THEN agent' = [agent EXCEPT ![u] = "deciding"] /\ latest' = u
     ELSE agent' = [agent EXCEPT ![u] = "failed"] /\ UNCHANGED latest
  /\ UNCHANGED <<overlap, request, at, disk, written, errors, clobbered, torn>>

StrayDial(u) ==
  /\ u \in slots
  /\ slots' = SlotsAfter(u, FALSE)
  /\ UNCHANGED <<overlap, request, agent, work>>

\* OpenBulk may be lost with its connection, and the dial may fail.
NeverDials(u) ==
  /\ agent[u] = "told" /\ agent' = [agent EXCEPT ![u] = "failed"]
  /\ UNCHANGED <<overlap, request, slots, work>>

-----------------------------------------------------------------------------
File(u) == FilesOf[u][at[u].file]
More(u) == at[u].file <= Len(FilesOf[u])
Exists(p) == disk[p] # Absent

\* next_available: the first free suffix, and the name itself when none is.
NextAvailable(n) ==
  IF \A i \in 1..Suffixes : Exists(<<n, i>>) THEN <<n, 0>>
  ELSE <<n, CHOOSE i \in 1..Suffixes :
              ~Exists(<<n, i>>) /\ \A j \in 1..(i - 1) : Exists(<<n, j>>)>>

Target(f) ==
  IF Exists(<<f.name, 0>>) /\ f.mode = "rename" THEN NextAvailable(f.name) ELSE <<f.name, 0>>

\* upload: the path of the next file is chosen by looking at what is there.
Decides(u) ==
  /\ agent[u] = "deciding" /\ More(u)
  /\ at' = [at EXCEPT ![u].path = Target(File(u))]
  /\ agent' = [agent EXCEPT ![u] = "creating"]
  /\ UNCHANGED <<overlap, request, slots, disk, written, errors, clobbered, torn, latest>>

NextFile(u) ==
  /\ agent' = [agent EXCEPT ![u] = "deciding"]
  /\ at' = [at EXCEPT ![u].file = @ + 1]

\* write_field: File::create empties what is there.
Creates(u) ==
  LET p == at[u].path IN
  /\ agent[u] = "creating"
  /\ disk' = [disk EXCEPT ![p] = [by |-> {u}, whole |-> FALSE]]
  /\ clobbered' = IF Exists(p) /\ File(u).mode = "rename"
                  THEN clobbered \cup {<<u, p>>} ELSE clobbered
  /\ agent' = [agent EXCEPT ![u] = "writing"]
  /\ UNCHANGED <<overlap, request, slots, at, written, errors, torn, latest>>

\* What is written through a file removed meanwhile goes nowhere.
FileEnds(u) ==
  LET p == at[u].path IN
  /\ agent[u] = "writing"
  /\ disk' = [disk EXCEPT ![p] =
                IF @ = Absent THEN @ ELSE [by |-> @.by \cup {u}, whole |-> TRUE]]
  /\ written' = [written EXCEPT ![u] = @ \cup {p}]
  /\ NextFile(u)
  /\ UNCHANGED <<overlap, request, slots, errors, clobbered, torn, latest>>

\* The path is refused, or the file cannot be created or written: what there
\* is of it stays.
WriteFails(u) ==
  /\ Running(u) /\ More(u)
  /\ errors' = [errors EXCEPT ![u] = @ \cup {at[u].file}]
  /\ torn' = IF agent[u] = "writing" THEN torn \cup {at[u].path} ELSE torn
  /\ NextFile(u)
  /\ UNCHANGED <<overlap, request, slots, disk, written, clobbered, latest>>

(* The body ends early, for the client left or the connection broke: the     *)
(* file under way is removed, and the rest of the upload is an error.        *)
AfterCut(p) == [disk EXCEPT ![p] = Absent]

BodyCut(u) ==
  /\ \/ agent[u] = "writing" /\ disk' = AfterCut(at[u].path)
     \/ agent[u] = "deciding" /\ More(u) /\ UNCHANGED disk
  /\ errors' = [errors EXCEPT ![u] = @ \cup (at[u].file..Len(FilesOf[u]))]
  /\ at' = [at EXCEPT ![u].file = Len(FilesOf[u]) + 1]
  /\ agent' = [agent EXCEPT ![u] = "deciding"]
  /\ UNCHANGED <<overlap, request, slots, written, clobbered, torn, latest>>

\* The response goes to whoever still waits for it, if the connection holds.
Answers(u) ==
  /\ agent[u] = "deciding" /\ ~More(u)
  /\ agent' = [agent EXCEPT ![u] = "done"]
  /\ \E how \in {"answered", "late"} :
       request' = [request EXCEPT ![u] = IF Waiting(u) THEN how ELSE @]
  /\ UNCHANGED <<overlap, slots, work>>

\* The agent stops: its tasks are gone, its files stay as they are.
AgentStops ==
  /\ \E u \in Uploads : Running(u)
  /\ agent' = [u \in Uploads |-> IF Running(u) \/ agent[u] = "told" THEN "failed" ELSE agent[u]]
  /\ UNCHANGED <<overlap, request, slots, work>>

Next ==
  \/ \E u \in Uploads :
       \/ Opens(u) \/ TellsAgent(u) \/ AgentOffline(u) \/ TimesOut(u) \/ ClientLeaves(u)
       \/ DialsBack(u) \/ StrayDial(u) \/ NeverDials(u)
       \/ Decides(u) \/ Creates(u) \/ FileEnds(u) \/ WriteFails(u) \/ BodyCut(u) \/ Answers(u)
  \/ AgentStops

Spec == Init /\ [][Next]_transferVars

-----------------------------------------------------------------------------
(* As long as its client waits, the machine a transfer was opened for finds  *)
(* the slot; once the hub has answered there is none to be found.            *)
SlotsFollow ==
  \A u \in Uploads :
    /\ request[u] = "waiting" /\ agent[u] = "told" => u \in slots
    /\ request[u] \in {"answered", "offline", "late"} => u \notin slots

(* Uploads taken one at a time replace nothing that was to be kept, unless   *)
(* every suffix of the name is taken.                                        *)
RenameSpares ==
  ~overlap => \A c \in clobbered : c[2][2] = 0 /\ \A i \in 1..Suffixes : Exists(<<c[2][1], i>>)

(* What an upload reports as written is there, all of it and nobody else's,  *)
(* until another upload runs; every file is reported, as written or as an    *)
(* error; and half a file is there only where a write failed or the agent    *)
(* stopped, not because a client left.                                       *)
ReportIsTrue ==
  /\ ~overlap => \A u \in Uploads :
       /\ u = latest => \A p \in written[u] : disk[p] = [by |-> {u}, whole |-> TRUE]
       /\ \A p \in Paths \ torn : disk[p].by = {u} /\ ~disk[p].whole =>
            Running(u) \/ agent[u] = "failed"
  /\ \A u \in Uploads : agent[u] = "done" => \A i \in 1..Len(FilesOf[u]) :
       i \in errors[u] \/ \E p \in written[u] : p[1] = FilesOf[u][i].name

TransfersHold == SlotsFollow /\ RenameSpares /\ ReportIsTrue
=============================================================================
