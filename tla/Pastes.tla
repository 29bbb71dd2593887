------------------------------- MODULE Pastes -------------------------------
(* Images pasted into a session (src/clip.rs) and the store that keeps them  *)
(* (src/clip_attachment.rs): staged under a quota, delivered as a path typed *)
(* into the terminal, taken back when no byte of it was, and removed with    *)
(* the session: by a delete, by the reaper of a clean exit, and by the next  *)
(* start of the agent when nothing recorded claims them.                     *)
(*                                                                           *)
(* The store's methods are each one step, under one lock. What surrounds     *)
(* them is not: a paste delivers after it staged, a delete and a reaper      *)
(* forget the session before they purge it and stop or leave it after.       *)
EXTENDS Naturals, FiniteSets, Folds

CONSTANTS Sessions, Pastes,
          SizeOf,                  \* [Pastes -> size of the image]
          MaxFiles, MaxBytes,      \* per session
          MaxTotal                 \* of the agent

PastesAssumption ==
  /\ SizeOf \in [Pastes -> Nat \ {0}]
  /\ {MaxFiles, MaxBytes, MaxTotal} \subseteq Nat

VARIABLES overlap,      \* requests may overlap with deletes and reapers: fixed
          live,         \* sessions with a process
          recorded,     \* sessions of the manifest
          deleting,     \* how far a delete of the session is
          reaper,       \* how far the reaper of its last process is
          paste,        \* how far each paste is, and its session
          disk,         \* the images in the session's directory
          files, bytes, \* Usage of the session
          total,        \* total_bytes
          seen,         \* history: images some byte of whose path was typed
          late          \* history: sessions given an image while not recorded

pasteVars == <<overlap, live, recorded, deleting, reaper, paste, disk, files, bytes,
               total, seen, late>>

NoPaste(pc) == [pc |-> pc, of |-> {}]

Weight(I) == MapThenFoldSet(LAMBDA a, b : a + b, 0, LAMBDA p : SizeOf[p],
                            LAMBDA T : CHOOSE p \in T : TRUE, I)

TypeOK ==
  /\ overlap \in BOOLEAN /\ live \subseteq Sessions /\ recorded \subseteq Sessions
  /\ deleting \in [Sessions -> {"no", "purge", "stop"}]
  /\ reaper \in [Sessions -> {"no", "clean", "other", "purge"}]
  /\ paste \in [Pastes -> [pc : {"new", "staged", "undo", "done"},
                           of : SUBSET Sessions]]
  /\ disk \in [Sessions -> SUBSET Pastes] /\ seen \in [Sessions -> SUBSET Pastes]
  /\ files \in [Sessions -> Nat] /\ bytes \in [Sessions -> Nat] /\ total \in Nat
  /\ late \subseteq Sessions

Init ==
  /\ overlap \in BOOLEAN
  /\ live = {} /\ recorded = {}
  /\ deleting = [s \in Sessions |-> "no"] /\ reaper = [s \in Sessions |-> "no"]
  /\ paste = [p \in Pastes |-> NoPaste("new")]
  /\ disk = [s \in Sessions |-> {}] /\ seen = [s \in Sessions |-> {}]
  /\ files = [s \in Sessions |-> 0] /\ bytes = [s \in Sessions |-> 0] /\ total = 0
  /\ late = {}

store == <<disk, files, bytes, total>>
sessions == <<live, recorded, deleting, reaper>>
Busy(s) == \/ deleting[s] # "no" \/ reaper[s] # "no"
           \/ \E p \in Pastes : s \in paste[p].of
MayStart(s) == overlap \/ ~Busy(s)
Forgotten(s) == recorded' = recorded \ {s} /\ seen' = [seen EXCEPT ![s] = {}]
-----------------------------------------------------------------------------
\* A session is created, or a recorded one is started again.
Starts(s) ==
  /\ s \notin live /\ MayStart(s)
  /\ live' = live \cup {s} /\ recorded' = recorded \cup {s}
  /\ UNCHANGED <<overlap, deleting, reaper, paste, store, seen, late>>

\* Its process ends: with status 0, or killed, crashed or for a restart.
Ends(s, how) ==
  /\ s \in live /\ reaper[s] = "no" /\ (overlap \/ deleting[s] = "no")
  /\ live' = live \ {s} /\ reaper' = [reaper EXCEPT ![s] = how]
  /\ UNCHANGED <<overlap, recorded, deleting, paste, store, seen, late>>

\* The reaper: only a clean exit is a goodbye.
Goodbye(s) == reaper[s] = "clean"

ReaperDecides(s) ==
  /\ reaper[s] \in {"clean", "other"}
  /\ IF Goodbye(s) THEN Forgotten(s) /\ reaper' = [reaper EXCEPT ![s] = "purge"]
     ELSE reaper' = [reaper EXCEPT ![s] = "no"] /\ UNCHANGED <<recorded, seen>>
  /\ UNCHANGED <<overlap, live, deleting, paste, store, late>>

\* purge_session: the directory goes, and its usage with it.
Purges(s) ==
  /\ disk' = [disk EXCEPT ![s] = {}]
  /\ files' = [files EXCEPT ![s] = 0] /\ bytes' = [bytes EXCEPT ![s] = 0]
  /\ total' = IF bytes[s] <= total THEN total - bytes[s] ELSE 0
  /\ late' = late \ {s}

ReaperPurges(s) ==
  /\ reaper[s] = "purge" /\ Purges(s)
  /\ reaper' = [reaper EXCEPT ![s] = "no"]
  /\ UNCHANGED <<overlap, live, recorded, deleting, paste, seen>>

\* delete_session, and Cmd::Delete: forget, purge, then stop.
DeleteForgets(s) ==
  /\ s \in live /\ deleting[s] = "no" /\ MayStart(s)
  /\ deleting' = [deleting EXCEPT ![s] = "purge"] /\ Forgotten(s)
  /\ UNCHANGED <<overlap, live, reaper, paste, store, late>>

DeletePurges(s) ==
  /\ deleting[s] = "purge" /\ Purges(s)
  /\ deleting' = [deleting EXCEPT ![s] = "stop"]
  /\ UNCHANGED <<overlap, live, recorded, reaper, paste, seen>>

\* Killed, or asked to exit: then it ends when it likes, if it does.
DeleteStops(s) ==
  /\ deleting[s] = "stop" /\ deleting' = [deleting EXCEPT ![s] = "no"]
  /\ \/ /\ s \in live /\ reaper[s] = "no"
        /\ live' = live \ {s} /\ reaper' = [reaper EXCEPT ![s] = "other"]
     \/ UNCHANGED <<live, reaper>>
  /\ UNCHANGED <<overlap, recorded, paste, store, seen, late>>

-----------------------------------------------------------------------------
Into(p) == CHOOSE s \in paste[p].of : TRUE
Finished(p) == paste' = [paste EXCEPT ![p] = NoPaste("done")]

(* stage: the quotas of the session and of the agent, then a new file.       *)
Fits(s, p) ==
  /\ files[s] + 1 <= MaxFiles /\ bytes[s] + SizeOf[p] <= MaxBytes
  /\ total + SizeOf[p] <= MaxTotal

Stages(p, s) ==
  /\ paste[p].pc = "new" /\ s \in live /\ MayStart(s)
  /\ IF Fits(s, p)
     THEN /\ disk' = [disk EXCEPT ![s] = @ \cup {p}]
          /\ files' = [files EXCEPT ![s] = @ + 1]
          /\ bytes' = [bytes EXCEPT ![s] = @ + SizeOf[p]]
          /\ total' = total + SizeOf[p]
          /\ late' = IF s \in recorded THEN late ELSE late \cup {s}
          /\ paste' = [paste EXCEPT ![p] = [pc |-> "staged", of |-> {s}]]
     ELSE Finished(p) /\ UNCHANGED <<store, late>>
  /\ UNCHANGED <<overlap, sessions, seen>>

\* The path is typed, in full or in part, or no byte of it was.
SurelyUnseen(n) == n = 0

Delivers(p) ==
  LET s == Into(p) IN
  /\ paste[p].pc = "staged"
  /\ \E n \in 0..2 :                    \* none, some or all of its bytes
       /\ s \notin live => n = 0
       /\ seen' = IF n > 0 /\ s \in recorded
                  THEN [seen EXCEPT ![s] = @ \cup {p}] ELSE seen
       /\ IF SurelyUnseen(n) THEN paste' = [paste EXCEPT ![p].pc = "undo"] ELSE Finished(p)
  /\ UNCHANGED <<overlap, sessions, store, late>>

\* discard: what a purge has removed is not taken off the usage again.
Discards(p) ==
  LET s == Into(p) IN
  /\ paste[p].pc = "undo" /\ Finished(p)
  /\ IF p \in disk[s]
     THEN /\ disk' = [disk EXCEPT ![s] = @ \ {p}]
          /\ files' = [files EXCEPT ![s] = @ - 1]
          /\ bytes' = [bytes EXCEPT ![s] = @ - SizeOf[p]]
          /\ total' = total - SizeOf[p]
     ELSE UNCHANGED store
  /\ UNCHANGED <<overlap, sessions, seen, late>>

(* The agent stops and starts: open drops the directories the manifest does  *)
(* not claim and counts what is left.                                        *)
Reopens ==
  /\ overlap \/ \A s \in Sessions : ~Busy(s)
  /\ live' = {} /\ UNCHANGED recorded
  /\ deleting' = [s \in Sessions |-> "no"] /\ reaper' = [s \in Sessions |-> "no"]
  /\ paste' = [p \in Pastes |-> IF paste[p].pc = "new" THEN paste[p] ELSE NoPaste("done")]
  /\ disk' = [s \in Sessions |-> IF s \in recorded THEN disk[s] ELSE {}]
  /\ files' = [s \in Sessions |-> Cardinality(disk'[s])]
  /\ bytes' = [s \in Sessions |-> Weight(disk'[s])]
  /\ total' = Weight(UNION {disk'[s] : s \in Sessions})
  /\ late' = {}
  /\ UNCHANGED <<overlap, seen>>

Next ==
  \/ \E s \in Sessions :
       \/ Starts(s) \/ ReaperDecides(s) \/ ReaperPurges(s)
       \/ DeleteForgets(s) \/ DeletePurges(s) \/ DeleteStops(s)
       \/ \E how \in {"clean", "other"} : Ends(s, how)
       \/ \E p \in Pastes : Stages(p, s)
  \/ \E p \in Pastes : Delivers(p) \/ Discards(p)
  \/ Reopens

Spec == Init /\ [][Next]_pasteVars

-----------------------------------------------------------------------------
(* The usage the quotas are checked against is what is on disk, however      *)
(* pastes, deletes, reapers and restarts interleave, and within the quotas.  *)
UsageIsDisk ==
  /\ \A s \in Sessions :
       /\ files[s] = Cardinality(disk[s]) /\ files[s] <= MaxFiles
       /\ bytes[s] = Weight(disk[s]) /\ bytes[s] <= MaxBytes
  /\ total = Weight(UNION {disk[s] : s \in Sessions}) /\ total <= MaxTotal

(* The assistant of a recorded session can open every path it was typed a    *)
(* byte of, across restarts.                                                 *)
SeenIsThere == ~overlap => \A s \in recorded : seen[s] \subseteq disk[s]

(* Images of a session that is neither running nor recorded were pasted      *)
(* after it had been forgotten.                                              *)
NoLeftovers ==
  \A s \in Sessions \ (live \cup recorded) :
    ~Busy(s) /\ disk[s] # {} => s \in late

PastesHold == UsageIsDisk /\ SeenIsThere /\ NoLeftovers
=============================================================================
