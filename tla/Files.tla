------------------------------- MODULE Files --------------------------------
(* The file browser and the editor on one machine: the requests of files.rs, *)
(* which fileops.rs repeats for requests relayed by a hub, over the one file *)
(* system that the processes of the sessions write to as well.               *)
(*                                                                           *)
(* Paths stand for those the confinement of confine.rs let pass. A request   *)
(* looks first and acts later, and the file system moves in between. An      *)
(* editor knows a file's version only by the second of its last change.      *)
EXTENDS Naturals, FiniteSets, Sequences, SequencesExt

CONSTANTS Callers,
          Paths,        \* sequences of names under the home directory
          Trees,        \* the trees to begin with: [Paths -> Nodes]
          MaxVersions, MaxClock,
          MaxMoves      \* folder operations: made, removed, moved

FilesAssumption ==
  /\ \A p \in Paths : Len(p) > 0 /\ (Len(p) > 1 => Front(p) \in Paths)
  /\ MaxVersions \in Nat /\ MaxClock \in Nat /\ MaxMoves \in Nat

VARIABLES overlap,      \* two requests may run at once: fixed
          tree,         \* what is at every path
          clock,        \* the second
          versions,     \* versions written so far
          moves,        \* folder operations so far
          open,         \* the file each caller's editor shows
          doing,        \* the request each caller is in
          temps,        \* temporary files of saves: <<caller, folder>>
          lost          \* history: versions replaced by a save or a rename

filesVars == <<overlap, tree, clock, versions, moves, open, doing, temps, lost>>

Absent == [kind |-> "absent", ver |-> 0, mtime |-> 0, mode |-> "-", due |-> "-"]
Dir == [Absent EXCEPT !.kind = "dir"]
\* `due` is the mode the file should have: its own before the saves.
File(v, t, m, d) == [kind |-> "file", ver |-> v, mtime |-> t, mode |-> m, due |-> d]
Closed == [path |-> <<>>, base |-> 0, seen |-> 0, second |-> 0]
Idle == [step |-> "idle", path |-> <<>>, to |-> <<>>, base |-> 0, keep |-> "-",
         ver |-> 0, at |-> 0]

IsFile(p) == tree[p].kind = "file"
Exists(p) == tree[p].kind # "absent"
\* The home directory itself is always there.
Folders == {<<>>} \cup {p \in Paths : tree[p].kind = "dir"}
IsDir(p) == p \in Folders
Under(p) == {q \in Paths : IsPrefix(p, q)}            \* p and what is in it
Empty(p) == \A q \in Under(p) \ {p} : ~Exists(q)

TypeOK ==
  /\ overlap \in BOOLEAN
  /\ \A p \in Paths : /\ tree[p].kind \in {"absent", "dir", "file"}
                      /\ tree[p].mode \in {"-", "own", "shared"}
                      /\ Exists(p) => IsDir(Front(p))
  /\ clock \in 1..MaxClock /\ versions \in 0..MaxVersions /\ moves \in 0..MaxMoves
  /\ \A c \in Callers : open[c].path \in Paths \cup {<<>>} /\ open[c].base \in 0..MaxClock
  /\ \A c \in Callers :
       doing[c].step \in {"idle", "load", "open", "put", "rename", "chmod", "answer",
                          "delete", "rmdir", "prune", "relocate"}
  /\ temps \subseteq Callers \X (Paths \cup {<<>>})

Init ==
  /\ overlap \in BOOLEAN /\ tree \in Trees
  /\ clock = 1 /\ versions = 2 /\ moves = 0
  /\ open = [c \in Callers |-> Closed] /\ doing = [c \in Callers |-> Idle]
  /\ temps = {} /\ lost = {}

\* A save is one section where requests do not overlap.
Saving(c) == doing[c].step \in {"open", "put", "rename", "chmod", "answer"}
MayStart(c) == /\ doing[c].step = "idle"
               /\ overlap \/ \A d \in Callers : doing[d].step = "idle"
MayChange == overlap \/ \A c \in Callers : doing[c].step \in {"idle", "load"}
Begin(c, step, p, to, base) ==
  doing' = [doing EXCEPT ![c] = [Idle EXCEPT !.step = step, !.path = p, !.to = to,
                                             !.base = base]]
Goes(c, step) == doing' = [doing EXCEPT ![c].step = step]
Done(c) == doing' = [doing EXCEPT ![c] = Idle]
Loses(c, p, by) ==
  lost' = IF IsFile(p) /\ (by = "save" => doing[c].base # 0 /\ tree[p].ver # open[c].seen)
          THEN lost \cup {[by |-> by, ver |-> tree[p].ver, second |-> tree[p].mtime,
                           saw |-> open[c].second]}
          ELSE lost
-----------------------------------------------------------------------------
\* file_read: the size and the time first, the content in a later section.
ReadStats(c, p) ==
  /\ MayStart(c) /\ IsFile(p) /\ open[c].path = <<>>
  /\ Begin(c, "load", p, <<>>, tree[p].mtime)
  /\ UNCHANGED <<overlap, tree, clock, versions, moves, open, temps, lost>>

\* A mutant: the content goes out under the second it was read in.
SlipShown(c) ==
  [path |-> doing[c].path, base |-> clock, seen |-> tree[doing[c].path].ver,
   second |-> tree[doing[c].path].mtime]

Shown(c) ==
  [path |-> doing[c].path, base |-> doing[c].base, seen |-> tree[doing[c].path].ver,
   second |-> tree[doing[c].path].mtime]

ReadLoads(c) ==
  /\ doing[c].step = "load" /\ Done(c)
  /\ open' = IF IsFile(doing[c].path) THEN [open EXCEPT ![c] = Shown(c)] ELSE open
  /\ UNCHANGED <<overlap, tree, clock, versions, moves, temps, lost>>

Closes(c) ==
  /\ doing[c].step = "idle" /\ open[c].path # <<>>
  /\ open' = [open EXCEPT ![c] = Closed]
  /\ UNCHANGED <<overlap, tree, clock, versions, moves, doing, temps, lost>>
-----------------------------------------------------------------------------
\* file_write. A path that is gone is written anew; a forced save sends no
\* time, and whatever is there is replaced.
Unchanged(p, base) ==
  Exists(p) => /\ tree[p].kind # "dir"
               /\ base # 0 => tree[p].mtime = base

SaveChecks(c, base) ==
  LET p == open[c].path IN
  /\ MayStart(c) /\ p # <<>> /\ versions < MaxVersions
  /\ base \in {0, open[c].base}
  /\ Unchanged(p, base) /\ IsDir(Front(p))
  /\ Begin(c, "open", p, <<>>, base)
  /\ UNCHANGED <<overlap, tree, clock, versions, moves, open, temps, lost>>

\* atomic_write: the mode to keep, then the new content in a file beside it.
KeptMode(p) == IF IsFile(p) THEN tree[p].mode ELSE "-"

SaveOpens(c) ==
  LET p == doing[c].path IN
  /\ doing[c].step = "open"
  /\ IF IsDir(Front(p)) /\ versions < MaxVersions
     THEN /\ doing' = [doing EXCEPT ![c].step = "put", ![c].keep = KeptMode(p),
                                    ![c].ver = versions + 1]
          /\ temps' = temps \cup {<<c, Front(p)>>} /\ versions' = versions + 1
     ELSE Done(c) /\ UNCHANGED <<temps, versions>>
  /\ UNCHANGED <<overlap, tree, clock, moves, open, lost>>

\* The temporary file may be gone with its folder, or moved away with it.
TempThere(c) == <<c, Front(doing[c].path)>> \in temps

SavePuts(c) ==
  /\ doing[c].step = "put"
  /\ doing' = [doing EXCEPT ![c].step = "rename", ![c].at = clock]
  /\ UNCHANGED <<overlap, tree, clock, versions, moves, open, temps, lost>>

SaveFails(c) ==
  /\ doing[c].step = "put" /\ Done(c)
  /\ temps' = temps \ {<<c, Front(doing[c].path)>>}
  /\ UNCHANGED <<overlap, tree, clock, versions, moves, open, lost>>

SaveRenames(c) ==
  LET p == doing[c].path  d == doing[c] IN
  /\ d.step = "rename" /\ temps' = temps \ {<<c, Front(p)>>}
  /\ IF TempThere(c) /\ ~IsDir(p)
     THEN /\ tree' = [tree EXCEPT ![p] =
                        File(d.ver, d.at, "own", IF IsFile(p) THEN @.due ELSE "own")]
          /\ Loses(c, p, "save") /\ Goes(c, "chmod")
     ELSE Done(c) /\ UNCHANGED <<tree, lost>>
  /\ UNCHANGED <<overlap, clock, versions, moves, open>>

Restored(node, keep) ==
  IF node.kind = "file" /\ keep # "-" THEN [node EXCEPT !.mode = keep] ELSE node

SaveChmods(c) ==
  /\ doing[c].step = "chmod" /\ Goes(c, "answer")
  /\ tree' = [tree EXCEPT ![doing[c].path] = Restored(@, doing[c].keep)]
  /\ UNCHANGED <<overlap, clock, versions, moves, open, temps, lost>>

\* The answer carries the time of what is at the path by now.
SaveAnswers(c) ==
  LET p == doing[c].path IN
  /\ doing[c].step = "answer" /\ Done(c)
  /\ open' = IF Exists(p) /\ open[c].path = p
             THEN [open EXCEPT ![c].base = tree[p].mtime, ![c].seen = doing[c].ver,
                               ![c].second = tree[p].mtime]
             ELSE open
  /\ UNCHANGED <<overlap, tree, clock, versions, moves, temps, lost>>
-----------------------------------------------------------------------------
Without(S) == [p \in Paths |-> IF p \in S THEN Absent ELSE tree[p]]

DeleteChecks(c, p) ==
  /\ MayStart(c) /\ IsFile(p) /\ moves < MaxMoves /\ moves' = moves + 1
  /\ Begin(c, "delete", p, <<>>, 0)
  /\ UNCHANGED <<overlap, tree, clock, versions, open, temps, lost>>

DeleteRemoves(c) ==
  /\ doing[c].step = "delete" /\ Done(c)
  /\ tree' = IF IsFile(doing[c].path) THEN Without({doing[c].path}) ELSE tree
  /\ UNCHANGED <<overlap, clock, versions, moves, open, temps, lost>>

\* mkdir: create_dir refuses a name that is taken.
Mkdir(c, p) ==
  /\ MayStart(c) /\ ~Exists(p) /\ IsDir(Front(p))
  /\ moves < MaxMoves /\ moves' = moves + 1
  /\ tree' = [tree EXCEPT ![p] = Dir]
  /\ UNCHANGED <<overlap, clock, versions, open, doing, temps, lost>>

\* rmdir: an empty folder, or a folder with all there is in it.
RmdirChecks(c, p, recursive) ==
  /\ MayStart(c) /\ IsDir(p) /\ moves < MaxMoves /\ moves' = moves + 1
  /\ Begin(c, IF recursive THEN "prune" ELSE "rmdir", p, <<>>, 0)
  /\ UNCHANGED <<overlap, tree, clock, versions, open, temps, lost>>

HoldsTemp(p) == \E t \in temps : IsPrefix(p, t[2])

RmdirRemoves(c) ==
  LET p == doing[c].path
      goes == /\ IsDir(p)
              /\ doing[c].step = "rmdir" => Empty(p) /\ ~HoldsTemp(p) IN
  /\ doing[c].step \in {"rmdir", "prune"} /\ Done(c)
  /\ tree' = IF goes THEN Without(Under(p)) ELSE tree
  /\ temps' = IF goes THEN {t \in temps : ~IsPrefix(p, t[2])} ELSE temps
  /\ UNCHANGED <<overlap, clock, versions, moves, open, lost>>
-----------------------------------------------------------------------------
\* rename keeps the folder, move_path keeps the name.
Destination(p, to) ==
  \/ Front(p) = Front(to)
  \/ Last(p) = Last(to) /\ IsDir(Front(to))

Free(to) == ~Exists(to)

RelocateChecks(c, p, to) ==
  /\ MayStart(c) /\ Exists(p) /\ Destination(p, to) /\ p # to
  /\ ~IsPrefix(p, to) /\ Free(to)
  /\ moves < MaxMoves /\ moves' = moves + 1
  /\ Begin(c, "relocate", p, to, 0)
  /\ UNCHANGED <<overlap, tree, clock, versions, open, temps, lost>>

\* What rename(2) does: a file replaces a file, a folder an empty folder.
Accepts(p, to) ==
  /\ Exists(p) /\ IsDir(Front(to)) /\ ~IsPrefix(p, to)
  /\ Exists(to) => /\ tree[p].kind = tree[to].kind
                   /\ IsDir(to) => Empty(to)

Moved(q, p, to) == to \o SubSeq(q, Len(p) + 1, Len(q))
Fits(p, to) == \A q \in Under(p) : Exists(q) => Moved(q, p, to) \in Paths
After(p, to) ==
  [q \in Paths |-> IF IsPrefix(to, q) /\ Moved(q, to, p) \in Paths THEN tree[Moved(q, to, p)]
                   ELSE IF IsPrefix(p, q) THEN Absent ELSE tree[q]]

Relocates(c) ==
  LET p == doing[c].path  to == doing[c].to IN
  /\ doing[c].step = "relocate" /\ Done(c)
  /\ IF Accepts(p, to) /\ Fits(p, to)
     THEN /\ tree' = After(p, to) /\ Loses(c, to, "rename")
          /\ temps' = {IF IsPrefix(p, t[2]) THEN <<t[1], Moved(t[2], p, to)>> ELSE t : t \in temps}
     ELSE UNCHANGED <<tree, lost, temps>>
  /\ UNCHANGED <<overlap, clock, versions, moves, open>>
-----------------------------------------------------------------------------
\* A process of a session writes a file, in place if it is there.
External(p) ==
  /\ MayChange /\ versions < MaxVersions /\ versions' = versions + 1
  /\ IsDir(Front(p)) /\ ~IsDir(p)
  /\ tree' = [tree EXCEPT ![p] =
                IF IsFile(p) THEN [@ EXCEPT !.ver = versions + 1, !.mtime = clock]
                ELSE File(versions + 1, clock, "shared", "shared")]
  /\ UNCHANGED <<overlap, clock, moves, open, doing, temps, lost>>

Tick == /\ clock < MaxClock /\ clock' = clock + 1
        /\ UNCHANGED <<overlap, tree, versions, moves, open, doing, temps, lost>>

Save(c) ==
  \/ \E base \in 0..MaxClock : SaveChecks(c, base)
  \/ SaveOpens(c) \/ SavePuts(c) \/ SaveFails(c) \/ SaveRenames(c)
  \/ SaveChmods(c) \/ SaveAnswers(c)

Next ==
  \/ \E c \in Callers :
       \/ ReadLoads(c) \/ Closes(c) \/ Save(c)
       \/ DeleteRemoves(c) \/ RmdirRemoves(c) \/ Relocates(c)
  \/ \E c \in Callers, p \in Paths :
       \/ ReadStats(c, p) \/ DeleteChecks(c, p) \/ Mkdir(c, p)
       \/ RmdirChecks(c, p, TRUE) \/ RmdirChecks(c, p, FALSE)
       \/ \E to \in Paths : RelocateChecks(c, p, to)
  \/ \E p \in Paths : External(p)
  \/ Tick

Spec == Init /\ [][Next]_filesVars
-----------------------------------------------------------------------------
(* Where requests do not overlap, no rename replaces a file, and a save      *)
(* replaces a version its editor has not shown only if that was written in   *)
(* the second of the one shown: the time is read before the content, so a    *)
(* change between the two is refused later, not overwritten (file_read,      *)
(* file_write, rename).                                                      *)
UnseenIsSpared ==
  ~overlap => \A l \in lost : l.by = "save" /\ l.second = l.saw

(* A file keeps its mode through saves that do not overlap (atomic_write).   *)
ModesKept ==
  ~overlap /\ (\A c \in Callers : ~Saving(c)) =>
    \A p \in Paths : tree[p].mode = tree[p].due

(* A request leaves no temporary file behind, however it ended, if no folder *)
(* was moved under it (atomic_write).                                        *)
NoTempsLeft == \A t \in temps : overlap \/ Saving(t[1])

FilesHold == UnseenIsSpared /\ ModesKept /\ NoTempsLeft
=============================================================================
