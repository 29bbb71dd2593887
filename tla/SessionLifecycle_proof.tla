----------------------- MODULE SessionLifecycle_proof -----------------------
(***************************************************************************)
(* Proofs about SessionLifecycle, for every set of names, processes and    *)
(* request threads: types (TypeSafe); a listed session has a reaper that   *)
(* will take it off the list (ListedSafe), both whatever the switches say; *)
(* a session has one process (SingleSafe), when creates of one name do     *)
(* not overlap; and what the manifest says (KeptSafe, RecreatedSafe,       *)
(* MarksSafe), when requests do not.                                       *)
(***************************************************************************)
EXTENDS SessionLifecycle, TLAPS

(* The labels at which a thread works on one session.                      *)
NameLabel == Label \ {"idle", "seed", "fleet", "live", "entries", "pick"}

(* A thread inside an operation on a session knows its name, and one that  *)
(* is about to read or use a session holds one.                            *)
Placed ==
  \A t \in Threads :
    /\ th[t].pc \in NameLabel => th[t].name \in Names
    /\ th[t].pc \in {"insert", "record", "snapshot"} => th[t].held \in Pids

TypeInv == TypeOK /\ Placed

USE DEF Placed, NameLabel

LEMMA IdleThread == Idle \in Thread
  BY DEF Idle, Thread, Label, OpName, Blank, Entry

LEMMA InitType == Init => TypeInv
  <1> SUFFICES ASSUME Init PROVE TypeInv
    OBVIOUS
  <1>1. TypeOK
    BY IdleThread DEF Init, TypeOK, Blank, Entry, ChildState, ReaperState, Ledger
  <1>2. Placed
    BY DEF Init, Idle
  <1> QED
    BY <1>1, <1>2 DEF TypeInv

(* Replacing one thread by a well-typed, well-placed one.                  *)
LEMMA MoveThread ==
  ASSUME TypeInv, NEW t \in Threads, NEW r \in Thread,
         r.pc \in NameLabel => r.name \in Names,
         r.pc \in {"insert", "record", "snapshot"} => r.held \in Pids,
         th' = [th EXCEPT ![t] = r]
  PROVE  th' \in [Threads -> Thread] /\ Placed'
  BY DEF TypeInv, TypeOK

LEMMA GotoMoves ==
  ASSUME TypeInv, NEW t \in Threads, NEW l \in Label,
         l \in NameLabel => th[t].name \in Names,
         l \in {"insert", "record", "snapshot"} => th[t].held \in Pids,
         Goto(t, l)
  PROVE  th' \in [Threads -> Thread] /\ Placed'
  <1> DEFINE r == [th[t] EXCEPT !.pc = l]
  <1>1. th[t] \in Thread
    BY DEF TypeInv, TypeOK
  <1>2. r \in Thread /\ r.pc = l /\ r.name = th[t].name /\ r.held = th[t].held
    BY <1>1 DEF Thread
  <1>3. th' = [th EXCEPT ![t] = r]
    BY DEF Goto
  <1> QED
    BY <1>2, <1>3, MoveThread

LEMMA FinishMoves ==
  ASSUME TypeInv, NEW t \in Threads, Finish(t)
  PROVE  th' \in [Threads -> Thread] /\ Placed'
  <1>1. Idle.pc = "idle"
    BY DEF Idle
  <1> QED
    BY <1>1, IdleThread, MoveThread DEF Finish

LEMMA EnterMoves ==
  ASSUME TypeInv, NEW t \in Threads, NEW o \in OpName, NEW l \in Label,
         NEW n \in Names \cup {NoName}, Enter(t, o, n, l),
         l \in NameLabel => n \in Names,
         l \notin {"insert", "record", "snapshot"}
  PROVE  th' \in [Threads -> Thread] /\ Placed'
  <1> DEFINE r == [Idle EXCEPT !.pc = l, !.op = o, !.name = n]
  <1>1. r \in Thread /\ r.pc = l /\ r.name = n
    BY IdleThread DEF Idle, Thread
  <1>2. th' = [th EXCEPT ![t] = r]
    BY DEF Enter
  <1> QED
    BY <1>1, <1>2, MoveThread

LEMMA NextItemMoves ==
  ASSUME TypeInv, NEW t \in Threads, NextItem(t)
  PROVE  th' \in [Threads -> Thread] /\ Placed'
  <1>1. th[t] \in Thread
    BY DEF TypeInv, TypeOK
  <1>2. CASE th[t].op = "update"
    <2> DEFINE r == [Idle EXCEPT !.pc = "fleet", !.op = "update", !.todo = th[t].todo]
    <2>1. r \in Thread /\ r.pc = "fleet"
      BY <1>1, IdleThread DEF Idle, Thread, Label, OpName
    <2>2. th' = [th EXCEPT ![t] = r]
      BY <1>2 DEF NextItem
    <2> QED
      BY <2>1, <2>2, MoveThread
  <1>3. CASE th[t].op = "restore"
    <2> DEFINE r == [Idle EXCEPT !.pc = "pick", !.op = "restore",
                                 !.todo = th[t].todo, !.snap = th[t].snap]
    <2>1. r \in Thread /\ r.pc = "pick"
      BY <1>1, IdleThread DEF Idle, Thread, Label, OpName
    <2>2. th' = [th EXCEPT ![t] = r]
      BY <1>3 DEF NextItem
    <2> QED
      BY <2>1, <2>2, MoveThread
  <1>4. CASE th[t].op \notin {"update", "restore"}
    <2>1. Finish(t)
      BY <1>4 DEF NextItem, Finish
    <2> QED
      BY <2>1, FinishMoves
  <1> QED
    BY <1>2, <1>3, <1>4

LEMMA RestartEndsMoves ==
  ASSUME TypeInv, NEW t \in Threads, th[t].name \in Names, RestartEnds(t)
  PROVE  th' \in [Threads -> Thread] /\ Placed'
  <1>1. "release" \in Label
    BY DEF Label
  <1> QED
    BY <1>1, GotoMoves, NextItemMoves DEF RestartEnds

-----------------------------------------------------------------------------
(* The variables other than th keep their types: what each kind of step    *)
(* assigns them.                                                           *)
LEMMA EntryType ==
  ASSUME TypeInv, NEW n \in Names, NEW e \in Entry
  PROVE  [manifest EXCEPT ![n] = e] \in [Names -> Entry]
  BY DEF TypeInv, TypeOK

LEMMA MarkType ==
  ASSUME TypeInv, NEW n, NEW m \in BOOLEAN
  PROVE  WithMark(n, m) \in [Names -> Entry]
  BY DEF TypeInv, TypeOK, WithMark, Entry

LEMMA SignalType ==
  ASSUME TypeInv, NEW p
  PROVE  /\ Asked(p) \in [Pids -> ChildState]
         /\ Killed(p) \in [Pids -> ChildState]
  BY DEF TypeInv, TypeOK, Asked, Killed, ChildState

LEMMA ThreadType ==
  ASSUME TypeInv, NEW t \in Threads
  PROVE  /\ th[t] \in Thread
         /\ th[t].pc \in Label /\ th[t].op \in OpName
         /\ th[t].name \in Names \cup {NoName}
         /\ th[t].held \in Pids \cup {NoPid}
         /\ th[t].snap \in [Names -> Entry]
         /\ th[t].mark \in BOOLEAN /\ th[t].todo \in SUBSET Names
         /\ th[t].pc \in NameLabel => th[t].name \in Names
         /\ th[t].pc \in {"insert", "record", "snapshot"} => th[t].held \in Pids
  BY DEF TypeInv, TypeOK, Thread

(* A thread with some of its fields changed is a thread.                   *)
LEMMA ThreadWith ==
  ASSUME NEW x \in Thread, NEW l \in Label
  PROVE  /\ \A p \in Pids \cup {NoPid} : [x EXCEPT !.pc = l, !.held = p] \in Thread
         /\ \A s \in [Names -> Entry], m \in BOOLEAN :
              [x EXCEPT !.pc = l, !.snap = s, !.mark = m] \in Thread
         /\ \A d \in SUBSET Names : [x EXCEPT !.pc = l, !.todo = d] \in Thread
         /\ \A s \in [Names -> Entry], d \in SUBSET Names :
              [x EXCEPT !.pc = l, !.snap = s, !.todo = d] \in Thread
         /\ \A n \in Names, d \in SUBSET Names, m \in BOOLEAN :
              [x EXCEPT !.pc = l, !.name = n, !.todo = d, !.mark = m] \in Thread
  BY DEF Thread

(* Every action keeps the types and the placement of the threads: first the *)
(* thread that moves, then the data the action assigns.                    *)
LEMMA CreateRequestType ==
  ASSUME TypeInv, NEW t \in Threads, NEW n \in Names, CreateRequest(t, n)
  PROVE  TypeInv'
  <1>1. Enter(t, "create", n, "check")
    BY DEF CreateRequest
  <1>2. "create" \in OpName /\ "check" \in Label
    BY DEF OpName, Label
  <1>4. th' \in [Threads -> Thread] /\ Placed'
    BY <1>1, <1>2, EnterMoves DEF Threads
  <1>5. TypeOK'
    BY <1>4, ThreadType, EntryType, MarkType, SignalType DEF CreateRequest, At, TypeInv, TypeOK, agentVars, childVars, Ledger, Entry, ReaperState, ChildState, Label
  <1> QED
    BY <1>4, <1>5 DEF TypeInv

LEMMA DeleteRequestType ==
  ASSUME TypeInv, NEW t \in Threads, NEW n \in Names, DeleteRequest(t, n)
  PROVE  TypeInv'
  <1> DEFINE r == [Idle EXCEPT !.pc = "forget", !.op = "delete",
                                !.name = n, !.held = registry[n]]
  <1>0. registry[n] \in Pids \cup {NoPid}
    BY DEF TypeInv, TypeOK
  <1>1. r \in Thread /\ r.pc \in Label
    BY <1>0, IdleThread DEF Thread, Label, OpName
  <1>2. th' = [th EXCEPT ![t] = r]
    BY DEF DeleteRequest
  <1>3. /\ r.pc \in NameLabel => r.name \in Names
        /\ r.pc \in {"insert", "record", "snapshot"} => r.held \in Pids
    BY ThreadType, IdleThread DEF DeleteRequest, At, Idle, Thread, NameLabel, Label, TypeInv, TypeOK, Live
  <1>4. th' \in [Threads -> Thread] /\ Placed'
    BY <1>1, <1>2, <1>3, MoveThread DEF Threads
  <1>5. TypeOK'
    BY <1>4, ThreadType, EntryType, MarkType, SignalType DEF DeleteRequest, At, TypeInv, TypeOK, agentVars, childVars, Ledger, Entry, ReaperState, ChildState, Label
  <1> QED
    BY <1>4, <1>5 DEF TypeInv

LEMMA MarkRequestType ==
  ASSUME TypeInv, NEW t \in Threads, NEW n \in Names, NEW m \in BOOLEAN, MarkRequest(t, n, m)
  PROVE  TypeInv'
  <1> DEFINE r == [Idle EXCEPT !.pc = "tint", !.op = "mark", !.name = n,
                                !.held = registry[n], !.mark = m]
  <1>0. registry[n] \in Pids \cup {NoPid}
    BY DEF TypeInv, TypeOK
  <1>1. r \in Thread /\ r.pc \in Label
    BY <1>0, IdleThread DEF Thread, Label, OpName
  <1>2. th' = [th EXCEPT ![t] = r]
    BY DEF MarkRequest
  <1>3. /\ r.pc \in NameLabel => r.name \in Names
        /\ r.pc \in {"insert", "record", "snapshot"} => r.held \in Pids
    BY ThreadType, IdleThread DEF MarkRequest, At, Idle, Thread, NameLabel, Label, TypeInv, TypeOK, Live
  <1>4. th' \in [Threads -> Thread] /\ Placed'
    BY <1>1, <1>2, <1>3, MoveThread DEF Threads
  <1>5. TypeOK'
    BY <1>4, ThreadType, EntryType, MarkType, SignalType DEF MarkRequest, At, TypeInv, TypeOK, agentVars, childVars, Ledger, Entry, ReaperState, ChildState, Label
  <1> QED
    BY <1>4, <1>5 DEF TypeInv

LEMMA RestartRequestType ==
  ASSUME TypeInv, NEW t \in Threads, NEW n \in Names, RestartRequest(t, n)
  PROVE  TypeInv'
  <1>1. Enter(t, "restart", n, "job")
    BY DEF RestartRequest
  <1>2. "restart" \in OpName /\ "job" \in Label
    BY DEF OpName, Label
  <1>4. th' \in [Threads -> Thread] /\ Placed'
    BY <1>1, <1>2, EnterMoves DEF Threads
  <1>5. TypeOK'
    BY <1>4, ThreadType, EntryType, MarkType, SignalType DEF RestartRequest, At, TypeInv, TypeOK, agentVars, childVars, Ledger, Entry, ReaperState, ChildState, Label
  <1> QED
    BY <1>4, <1>5 DEF TypeInv

LEMMA RestoreRequestType ==
  ASSUME TypeInv, NEW t \in Threads, RestoreRequest(t)
  PROVE  TypeInv'
  <1>1. Enter(t, "restore", NoName, "live")
    BY DEF RestoreRequest
  <1>2. "restore" \in OpName /\ "live" \in Label
    BY DEF OpName, Label
  <1>4. th' \in [Threads -> Thread] /\ Placed'
    BY <1>1, <1>2, EnterMoves DEF Threads
  <1>5. TypeOK'
    BY <1>4, ThreadType, EntryType, MarkType, SignalType DEF RestoreRequest, At, TypeInv, TypeOK, agentVars, childVars, Ledger, Entry, ReaperState, ChildState, Label
  <1> QED
    BY <1>4, <1>5 DEF TypeInv

LEMMA UpdateRequestType ==
  ASSUME TypeInv, NEW t \in Threads, UpdateRequest(t)
  PROVE  TypeInv'
  <1> DEFINE r == [Idle EXCEPT !.pc = "seed", !.op = "update"]
  <1>1. r \in Thread /\ r.pc \in Label
    BY ThreadType, IdleThread DEF UpdateRequest, At, Idle, Thread, Label, OpName, Threads
  <1>2. th' = [th EXCEPT ![Worker] = r]
    BY DEF UpdateRequest
  <1>3. /\ r.pc \in NameLabel => r.name \in Names
        /\ r.pc \in {"insert", "record", "snapshot"} => r.held \in Pids
    BY ThreadType, IdleThread DEF UpdateRequest, At, Idle, Thread, NameLabel, Label, TypeInv, TypeOK, Live, Threads
  <1>4. th' \in [Threads -> Thread] /\ Placed'
    BY <1>1, <1>2, <1>3, MoveThread DEF Threads
  <1>5. TypeOK'
    BY <1>4, ThreadType, EntryType, MarkType, SignalType DEF UpdateRequest, At, TypeInv, TypeOK, agentVars, childVars, Ledger, Entry, ReaperState, ChildState, Label
  <1> QED
    BY <1>4, <1>5 DEF TypeInv

LEMMA CreateCheckType ==
  ASSUME TypeInv, NEW t \in Threads, CreateCheck(t)
  PROVE  TypeInv'
  <1>4. th' \in [Threads -> Thread] /\ Placed'
    BY GotoMoves, RestartEndsMoves DEF CreateCheck, CreateFails, At, TypeInv, Label, OpName, Threads
  <1>5. TypeOK'
    BY <1>4, ThreadType, EntryType, MarkType, SignalType DEF CreateCheck, At, TypeInv, TypeOK, CreateFails, agentVars, childVars, Ledger, Entry, ReaperState, ChildState, Label
  <1> QED
    BY <1>4, <1>5 DEF TypeInv

LEMMA CreateSpawnType ==
  ASSUME TypeInv, NEW t \in Threads, NEW p \in Pids, CreateSpawn(t, p)
  PROVE  TypeInv'
  <1> DEFINE r == [th[t] EXCEPT !.pc = "insert", !.held = p]
  <1>1. r \in Thread /\ r.pc \in Label
    <2>1. "insert" \in Label /\ th[t] \in Thread
      BY ThreadType DEF Label
    <2>2. r \in Thread
      BY <2>1, ThreadWith
    <2> QED
      BY <2>1, <2>2 DEF Thread
  <1>2. th' = [th EXCEPT ![t] = r]
    BY DEF CreateSpawn
  <1>3. /\ r.pc \in NameLabel => r.name \in Names
        /\ r.pc \in {"insert", "record", "snapshot"} => r.held \in Pids
    BY SMTT(30), ThreadType, IdleThread DEF CreateSpawn, At, Idle, Thread, NameLabel, Label, TypeInv, TypeOK, Live
  <1>4. th' \in [Threads -> Thread] /\ Placed'
    BY <1>1, <1>2, <1>3, MoveThread DEF Threads
  <1>5. TypeOK'
    BY <1>4, ThreadType, EntryType, MarkType, SignalType DEF CreateSpawn, At, TypeInv, TypeOK, agentVars, childVars, Ledger, Entry, ReaperState, ChildState, Label
  <1> QED
    BY <1>4, <1>5 DEF TypeInv

LEMMA CreateSpawnFailsType ==
  ASSUME TypeInv, NEW t \in Threads, CreateSpawnFails(t)
  PROVE  TypeInv'
  <1>4. th' \in [Threads -> Thread] /\ Placed'
    BY RestartEndsMoves DEF CreateSpawnFails, CreateFails, At, TypeInv, Label, OpName, Threads
  <1>5. TypeOK'
    BY <1>4, ThreadType, EntryType, MarkType, SignalType DEF CreateSpawnFails, At, TypeInv, TypeOK, CreateFails, agentVars, childVars, Ledger, Entry, ReaperState, ChildState, Label
  <1> QED
    BY <1>4, <1>5 DEF TypeInv

LEMMA CreateInsertType ==
  ASSUME TypeInv, NEW t \in Threads, CreateInsert(t)
  PROVE  TypeInv'
  <1>4. th' \in [Threads -> Thread] /\ Placed'
    BY GotoMoves DEF CreateInsert, At, TypeInv, Label, OpName, Threads
  <1>5. TypeOK'
    BY <1>4, ThreadType, EntryType, MarkType, SignalType DEF CreateInsert, At, TypeInv, TypeOK, agentVars, childVars, Ledger, Entry, ReaperState, ChildState, Label
  <1> QED
    BY <1>4, <1>5 DEF TypeInv

LEMMA CreateRecordType ==
  ASSUME TypeInv, NEW t \in Threads, CreateRecord(t)
  PROVE  TypeInv'
  <1>4. th' \in [Threads -> Thread] /\ Placed'
    BY GotoMoves, NextItemMoves DEF CreateRecord, At, TypeInv, Label, OpName, Threads
  <1>5. TypeOK'
    BY <1>4, ThreadType, EntryType, MarkType, SignalType DEF CreateRecord, At, TypeInv, TypeOK, agentVars, childVars, Ledger, Entry, ReaperState, ChildState, Label
  <1> QED
    BY <1>4, <1>5 DEF TypeInv

LEMMA ReapplyLiveType ==
  ASSUME TypeInv, NEW t \in Threads, ReapplyLive(t)
  PROVE  TypeInv'
  <1>4. th' \in [Threads -> Thread] /\ Placed'
    BY GotoMoves DEF ReapplyLive, At, TypeInv, Label, OpName, Threads
  <1>5. TypeOK'
    BY <1>4, ThreadType, EntryType, MarkType, SignalType DEF ReapplyLive, At, TypeInv, TypeOK, agentVars, childVars, Ledger, Entry, ReaperState, ChildState, Label
  <1> QED
    BY <1>4, <1>5 DEF TypeInv

LEMMA ReapplyEntryType ==
  ASSUME TypeInv, NEW t \in Threads, ReapplyEntry(t)
  PROVE  TypeInv'
  <1>4. th' \in [Threads -> Thread] /\ Placed'
    BY NextItemMoves DEF ReapplyEntry, At, TypeInv, Label, OpName, Threads
  <1>5. TypeOK'
    BY <1>4, ThreadType, EntryType, MarkType, SignalType DEF ReapplyEntry, At, TypeInv, TypeOK, agentVars, childVars, Ledger, Entry, ReaperState, ChildState, Label
  <1> QED
    BY <1>4, <1>5 DEF TypeInv

LEMMA DeleteForgetsType ==
  ASSUME TypeInv, NEW t \in Threads, DeleteForgets(t)
  PROVE  TypeInv'
  <1>4. th' \in [Threads -> Thread] /\ Placed'
    BY GotoMoves DEF DeleteForgets, At, TypeInv, Label, OpName, Threads
  <1>5. TypeOK'
    BY <1>4, ThreadType, EntryType, MarkType, SignalType DEF DeleteForgets, At, TypeInv, TypeOK, agentVars, childVars, Ledger, Entry, ReaperState, ChildState, Label
  <1> QED
    BY <1>4, <1>5 DEF TypeInv

LEMMA DeleteSignalsType ==
  ASSUME TypeInv, NEW t \in Threads, DeleteSignals(t)
  PROVE  TypeInv'
  <1>4. th' \in [Threads -> Thread] /\ Placed'
    BY FinishMoves DEF DeleteSignals, At, TypeInv, Label, OpName, Threads
  <1>5. TypeOK'
    BY <1>4, ThreadType, EntryType, MarkType, SignalType DEF DeleteSignals, At, TypeInv, TypeOK, agentVars, childVars, Ledger, Entry, ReaperState, ChildState, Label
  <1> QED
    BY <1>4, <1>5 DEF TypeInv

LEMMA MarkLiveType ==
  ASSUME TypeInv, NEW t \in Threads, MarkLive(t)
  PROVE  TypeInv'
  <1>4. th' \in [Threads -> Thread] /\ Placed'
    BY GotoMoves DEF MarkLive, At, TypeInv, Label, OpName, Threads
  <1>5. TypeOK'
    BY <1>4, ThreadType, EntryType, MarkType, SignalType DEF MarkLive, At, TypeInv, TypeOK, agentVars, childVars, Ledger, Entry, ReaperState, ChildState, Label
  <1> QED
    BY <1>4, <1>5 DEF TypeInv

LEMMA MarkEntryType ==
  ASSUME TypeInv, NEW t \in Threads, MarkEntry(t)
  PROVE  TypeInv'
  <1>4. th' \in [Threads -> Thread] /\ Placed'
    BY FinishMoves DEF MarkEntry, At, TypeInv, Label, OpName, Threads
  <1>5. TypeOK'
    BY <1>4, ThreadType, EntryType, MarkType, SignalType DEF MarkEntry, At, TypeInv, TypeOK, agentVars, childVars, Ledger, Entry, ReaperState, ChildState, Label
  <1> QED
    BY <1>4, <1>5 DEF TypeInv

LEMMA RestartChecksJobType ==
  ASSUME TypeInv, NEW t \in Threads, RestartChecksJob(t)
  PROVE  TypeInv'
  <1>4. th' \in [Threads -> Thread] /\ Placed'
    BY GotoMoves, FinishMoves DEF RestartChecksJob, At, TypeInv, Label, OpName, Threads
  <1>5. TypeOK'
    BY <1>4, ThreadType, EntryType, MarkType, SignalType DEF RestartChecksJob, At, TypeInv, TypeOK, agentVars, childVars, Ledger, Entry, ReaperState, ChildState, Label
  <1> QED
    BY <1>4, <1>5 DEF TypeInv

LEMMA RestartReservesType ==
  ASSUME TypeInv, NEW t \in Threads, RestartReserves(t)
  PROVE  TypeInv'
  <1>4. th' \in [Threads -> Thread] /\ Placed'
    BY GotoMoves, FinishMoves DEF RestartReserves, At, TypeInv, Label, OpName, Threads
  <1>5. TypeOK'
    BY <1>4, ThreadType, EntryType, MarkType, SignalType DEF RestartReserves, At, TypeInv, TypeOK, agentVars, childVars, Ledger, Entry, ReaperState, ChildState, Label
  <1> QED
    BY <1>4, <1>5 DEF TypeInv

LEMMA RestartLooksUpType ==
  ASSUME TypeInv, NEW t \in Threads, RestartLooksUp(t)
  PROVE  TypeInv'
  <1>1. ASSUME Live(th[t].name)
        PROVE  th' \in [Threads -> Thread] /\ Placed'
    <2> DEFINE r == [th[t] EXCEPT !.pc = "snapshot", !.held = registry[th[t].name]]
    <2>1. th[t] \in Thread /\ th[t].name \in Names
      BY ThreadType DEF RestartLooksUp, At, NameLabel, Label
    <2>2. registry[th[t].name] \in Pids
      BY <1>1, <2>1 DEF TypeInv, TypeOK, Live
    <2>3. r \in Thread /\ r.name \in Names /\ r.held \in Pids
      <3>1. "snapshot" \in Label
        BY DEF Label
      <3>2. r \in Thread
        BY <2>1, <2>2, <3>1, ThreadWith
      <3> QED
        BY <2>1, <2>2, <3>2 DEF Thread
    <2>4. th' = [th EXCEPT ![t] = r]
      BY <1>1 DEF RestartLooksUp
    <2> QED
      BY <2>3, <2>4, MoveThread
  <1>2. ASSUME ~Live(th[t].name)
        PROVE  th' \in [Threads -> Thread] /\ Placed'
    BY <1>2, RestartEndsMoves DEF RestartLooksUp, At, TypeInv, Label
  <1>4. th' \in [Threads -> Thread] /\ Placed'
    BY <1>1, <1>2 DEF RestartLooksUp, Live
  <1>5. TypeOK'
    BY <1>4, ThreadType, EntryType, MarkType, SignalType DEF RestartLooksUp, At, TypeInv, TypeOK, agentVars, childVars, Ledger, Entry, ReaperState, ChildState, Label
  <1> QED
    BY <1>4, <1>5 DEF TypeInv

LEMMA RestartSnapshotsType ==
  ASSUME TypeInv, NEW t \in Threads, RestartSnapshots(t)
  PROVE  TypeInv'
  <1> DEFINE r == [th[t] EXCEPT !.pc = "remark",
                   !.snap = [Blank EXCEPT ![th[t].name] = manifest[th[t].name]],
                   !.mark = IF Recorded(th[t].name)
                            THEN manifest[th[t].name] = "marked"
                            ELSE tint[th[t].held]]
  <1>0. [Blank EXCEPT ![th[t].name] = manifest[th[t].name]] \in [Names -> Entry]
    BY ThreadType DEF RestartSnapshots, At, TypeInv, TypeOK, Blank, Entry, Label
  <1>00. (IF Recorded(th[t].name) THEN manifest[th[t].name] = "marked"
          ELSE tint[th[t].held]) \in BOOLEAN
    BY ThreadType DEF RestartSnapshots, At, TypeInv, TypeOK
  <1>1. r \in Thread /\ r.pc \in Label
    <2>1. "remark" \in Label /\ th[t] \in Thread
      BY ThreadType DEF Label
    <2>2. r \in Thread
      BY <1>0, <1>00, <2>1, ThreadWith
    <2> QED
      BY <2>1, <2>2 DEF Thread
  <1>2. th' = [th EXCEPT ![t] = r]
    BY DEF RestartSnapshots
  <1>3. /\ r.pc \in NameLabel => r.name \in Names
        /\ r.pc \in {"insert", "record", "snapshot"} => r.held \in Pids
    BY ThreadType, IdleThread DEF RestartSnapshots, At, Idle, Thread, NameLabel, Label, TypeInv, TypeOK, Live
  <1>4. th' \in [Threads -> Thread] /\ Placed'
    BY <1>1, <1>2, <1>3, MoveThread DEF Threads
  <1>5. TypeOK'
    BY <1>4, ThreadType, EntryType, MarkType, SignalType DEF RestartSnapshots, At, TypeInv, TypeOK, agentVars, childVars, Ledger, Entry, ReaperState, ChildState, Label
  <1> QED
    BY <1>4, <1>5 DEF TypeInv

LEMMA RestartMarksType ==
  ASSUME TypeInv, NEW t \in Threads, RestartMarks(t)
  PROVE  TypeInv'
  <1>4. th' \in [Threads -> Thread] /\ Placed'
    BY GotoMoves DEF RestartMarks, At, TypeInv, Label, OpName, Threads
  <1>5. TypeOK'
    BY <1>4, ThreadType, EntryType, MarkType, SignalType DEF RestartMarks, At, TypeInv, TypeOK, agentVars, childVars, Ledger, Entry, ReaperState, ChildState, Label
  <1> QED
    BY <1>4, <1>5 DEF TypeInv

LEMMA RestartTypesExitType ==
  ASSUME TypeInv, NEW t \in Threads, RestartTypesExit(t)
  PROVE  TypeInv'
  <1>4. th' \in [Threads -> Thread] /\ Placed'
    BY GotoMoves DEF RestartTypesExit, At, TypeInv, Label, OpName, Threads
  <1>5. TypeOK'
    BY <1>4, ThreadType, EntryType, MarkType, SignalType DEF RestartTypesExit, At, TypeInv, TypeOK, agentVars, childVars, Ledger, Entry, ReaperState, ChildState, Label
  <1> QED
    BY <1>4, <1>5 DEF TypeInv

LEMMA RestartSeesGoneType ==
  ASSUME TypeInv, NEW t \in Threads, RestartSeesGone(t)
  PROVE  TypeInv'
  <1>4. th' \in [Threads -> Thread] /\ Placed'
    BY GotoMoves DEF RestartSeesGone, At, TypeInv, Label, OpName, Threads
  <1>5. TypeOK'
    BY <1>4, ThreadType, EntryType, MarkType, SignalType DEF RestartSeesGone, At, TypeInv, TypeOK, agentVars, childVars, Ledger, Entry, ReaperState, ChildState, Label
  <1> QED
    BY <1>4, <1>5 DEF TypeInv

LEMMA RestartGracePassesType ==
  ASSUME TypeInv, NEW t \in Threads, RestartGracePasses(t)
  PROVE  TypeInv'
  <1>4. th' \in [Threads -> Thread] /\ Placed'
    BY GotoMoves DEF RestartGracePasses, At, TypeInv, Label, OpName, Threads
  <1>5. TypeOK'
    BY <1>4, ThreadType, EntryType, MarkType, SignalType DEF RestartGracePasses, At, TypeInv, TypeOK, agentVars, childVars, Ledger, Entry, ReaperState, ChildState, Label
  <1> QED
    BY <1>4, <1>5 DEF TypeInv

LEMMA RestartGivesUpType ==
  ASSUME TypeInv, NEW t \in Threads, RestartGivesUp(t)
  PROVE  TypeInv'
  <1>4. th' \in [Threads -> Thread] /\ Placed'
    BY RestartEndsMoves DEF RestartGivesUp, At, TypeInv, Label, OpName, Threads
  <1>5. TypeOK'
    BY <1>4, ThreadType, EntryType, MarkType, SignalType DEF RestartGivesUp, At, TypeInv, TypeOK, agentVars, childVars, Ledger, Entry, ReaperState, ChildState, Label
  <1> QED
    BY <1>4, <1>5 DEF TypeInv

LEMMA RestartReleasesType ==
  ASSUME TypeInv, NEW t \in Threads, RestartReleases(t)
  PROVE  TypeInv'
  <1>4. th' \in [Threads -> Thread] /\ Placed'
    BY FinishMoves DEF RestartReleases, At, TypeInv, Label, OpName, Threads
  <1>5. TypeOK'
    BY <1>4, ThreadType, EntryType, MarkType, SignalType DEF RestartReleases, At, TypeInv, TypeOK, agentVars, childVars, Ledger, Entry, ReaperState, ChildState, Label
  <1> QED
    BY <1>4, <1>5 DEF TypeInv

LEMMA RestoreReadsLiveType ==
  ASSUME TypeInv, NEW t \in Threads, RestoreReadsLive(t)
  PROVE  TypeInv'
  <1> DEFINE r == [th[t] EXCEPT !.pc = "entries", !.todo = Names \ LiveNames]
  <1>1. r \in Thread /\ r.pc \in Label
    <2>1. "entries" \in Label /\ th[t] \in Thread
      BY ThreadType DEF Label
    <2>2. r \in Thread
      BY <2>1, ThreadWith
    <2> QED
      BY <2>1, <2>2 DEF Thread
  <1>2. th' = [th EXCEPT ![t] = r]
    BY DEF RestoreReadsLive
  <1>3. /\ r.pc \in NameLabel => r.name \in Names
        /\ r.pc \in {"insert", "record", "snapshot"} => r.held \in Pids
    BY ThreadType, IdleThread DEF RestoreReadsLive, At, Idle, Thread, NameLabel, Label, TypeInv, TypeOK, Live
  <1>4. th' \in [Threads -> Thread] /\ Placed'
    BY <1>1, <1>2, <1>3, MoveThread DEF Threads
  <1>5. TypeOK'
    BY <1>4, ThreadType, EntryType, MarkType, SignalType DEF RestoreReadsLive, At, TypeInv, TypeOK, agentVars, childVars, Ledger, Entry, ReaperState, ChildState, Label
  <1> QED
    BY <1>4, <1>5 DEF TypeInv

LEMMA RestoreReadsEntriesType ==
  ASSUME TypeInv, NEW t \in Threads, RestoreReadsEntries(t)
  PROVE  TypeInv'
  <1> DEFINE r == [th[t] EXCEPT !.pc = "pick", !.snap = manifest,
                   !.todo = {n \in th[t].todo : Recorded(n)}]
  <1>0. /\ manifest \in [Names -> Entry]
        /\ {n \in th[t].todo : Recorded(n)} \in SUBSET Names
    BY ThreadType DEF TypeInv, TypeOK
  <1>1. r \in Thread /\ r.pc \in Label
    <2>1. "pick" \in Label /\ th[t] \in Thread
      BY ThreadType DEF Label
    <2>2. r \in Thread
      BY <1>0, <2>1, ThreadWith
    <2> QED
      BY <2>1, <2>2 DEF Thread
  <1>2. th' = [th EXCEPT ![t] = r]
    BY DEF RestoreReadsEntries
  <1>3. /\ r.pc \in NameLabel => r.name \in Names
        /\ r.pc \in {"insert", "record", "snapshot"} => r.held \in Pids
    BY ThreadType, IdleThread DEF RestoreReadsEntries, At, Idle, Thread, NameLabel, Label, TypeInv, TypeOK, Live
  <1>4. th' \in [Threads -> Thread] /\ Placed'
    BY <1>1, <1>2, <1>3, MoveThread DEF Threads
  <1>5. TypeOK'
    BY <1>4, ThreadType, EntryType, MarkType, SignalType DEF RestoreReadsEntries, At, TypeInv, TypeOK, agentVars, childVars, Ledger, Entry, ReaperState, ChildState, Label
  <1> QED
    BY <1>4, <1>5 DEF TypeInv

LEMMA RestoreEndsType ==
  ASSUME TypeInv, NEW t \in Threads, RestoreEnds(t)
  PROVE  TypeInv'
  <1>4. th' \in [Threads -> Thread] /\ Placed'
    BY FinishMoves DEF RestoreEnds, At, TypeInv, Label, OpName, Threads
  <1>5. TypeOK'
    BY <1>4, ThreadType, EntryType, MarkType, SignalType DEF RestoreEnds, At, TypeInv, TypeOK, agentVars, childVars, Ledger, Entry, ReaperState, ChildState, Label
  <1> QED
    BY <1>4, <1>5 DEF TypeInv

LEMMA RestoreCreatesType ==
  ASSUME TypeInv, NEW t \in Threads, NEW n \in Names, RestoreCreates(t, n)
  PROVE  TypeInv'
  <1> DEFINE r == [th[t] EXCEPT !.pc = "check", !.name = n, !.todo = th[t].todo \ {n},
                   !.mark = (th[t].snap[n] = "marked")]
  <1>0. th[t].todo \ {n} \in SUBSET Names /\ (th[t].snap[n] = "marked") \in BOOLEAN
    BY ThreadType
  <1>1. r \in Thread /\ r.pc \in Label
    <2>1. "check" \in Label /\ th[t] \in Thread
      BY ThreadType DEF Label
    <2>2. r \in Thread
      BY <1>0, <2>1, ThreadWith
    <2> QED
      BY <2>1, <2>2 DEF Thread
  <1>2. th' = [th EXCEPT ![t] = r]
    BY DEF RestoreCreates
  <1>3. /\ r.pc \in NameLabel => r.name \in Names
        /\ r.pc \in {"insert", "record", "snapshot"} => r.held \in Pids
    BY ThreadType, IdleThread DEF RestoreCreates, At, Idle, Thread, NameLabel, Label, TypeInv, TypeOK, Live
  <1>4. th' \in [Threads -> Thread] /\ Placed'
    BY <1>1, <1>2, <1>3, MoveThread DEF Threads
  <1>5. TypeOK'
    BY <1>4, ThreadType, EntryType, MarkType, SignalType DEF RestoreCreates, At, TypeInv, TypeOK, agentVars, childVars, Ledger, Entry, ReaperState, ChildState, Label
  <1> QED
    BY <1>4, <1>5 DEF TypeInv

LEMMA RestoreSkipsType ==
  ASSUME TypeInv, NEW t \in Threads, NEW n \in Names, RestoreSkips(t, n)
  PROVE  TypeInv'
  <1> DEFINE r == [th[t] EXCEPT !.todo = th[t].todo \ {n}]
  <1>1. r \in Thread /\ r.pc \in Label
    BY ThreadType, IdleThread DEF RestoreSkips, At, Idle, Thread, Label, OpName
  <1>2. th' = [th EXCEPT ![t] = r]
    BY DEF RestoreSkips
  <1>3. /\ r.pc \in NameLabel => r.name \in Names
        /\ r.pc \in {"insert", "record", "snapshot"} => r.held \in Pids
    BY ThreadType, IdleThread DEF RestoreSkips, At, Idle, Thread, NameLabel, Label, TypeInv, TypeOK, Live
  <1>4. th' \in [Threads -> Thread] /\ Placed'
    BY <1>1, <1>2, <1>3, MoveThread DEF Threads
  <1>5. TypeOK'
    BY <1>4, ThreadType, EntryType, MarkType, SignalType DEF RestoreSkips, At, TypeInv, TypeOK, agentVars, childVars, Ledger, Entry, ReaperState, ChildState, Label
  <1> QED
    BY <1>4, <1>5 DEF TypeInv

LEMMA UpdateRestoresType ==
  ASSUME TypeInv, UpdateRestores
  PROVE  TypeInv'
  <1>1. Enter(Worker, "restore", NoName, "live")
    BY DEF UpdateRestores
  <1>2. "restore" \in OpName /\ "live" \in Label
    BY DEF OpName, Label
  <1>4. th' \in [Threads -> Thread] /\ Placed'
    BY <1>1, <1>2, EnterMoves DEF Threads
  <1>5. TypeOK'
    BY <1>4, ThreadType, EntryType, MarkType, SignalType DEF UpdateRestores, At, TypeInv, TypeOK, agentVars, childVars, Ledger, Entry, ReaperState, ChildState, Label
  <1> QED
    BY <1>4, <1>5 DEF TypeInv

LEMMA UpdateEndsType ==
  ASSUME TypeInv, UpdateEnds
  PROVE  TypeInv'
  <1>4. th' \in [Threads -> Thread] /\ Placed'
    BY FinishMoves DEF UpdateEnds, At, TypeInv, Label, OpName, Threads
  <1>5. TypeOK'
    BY <1>4, ThreadType, EntryType, MarkType, SignalType DEF UpdateEnds, At, TypeInv, TypeOK, agentVars, childVars, Ledger, Entry, ReaperState, ChildState, Label
  <1> QED
    BY <1>4, <1>5 DEF TypeInv

LEMMA UpdateSeedsType ==
  ASSUME TypeInv, NEW S \in SUBSET Names, UpdateSeeds(S)
  PROVE  TypeInv'
  <1> DEFINE r == [th[Worker] EXCEPT !.pc = "fleet", !.todo = S]
  <1>1. r \in Thread /\ r.pc \in Label
    <2>1. "fleet" \in Label /\ th[Worker] \in Thread
      BY ThreadType DEF Label, Threads
    <2>2. r \in Thread
      BY <2>1, ThreadWith
    <2> QED
      BY <2>1, <2>2 DEF Thread
  <1>2. th' = [th EXCEPT ![Worker] = r]
    BY DEF UpdateSeeds
  <1>3. /\ r.pc \in NameLabel => r.name \in Names
        /\ r.pc \in {"insert", "record", "snapshot"} => r.held \in Pids
    BY ThreadType, IdleThread DEF UpdateSeeds, At, Idle, Thread, NameLabel, Label, TypeInv, TypeOK, Live, Threads
  <1>4. th' \in [Threads -> Thread] /\ Placed'
    BY <1>1, <1>2, <1>3, MoveThread DEF Threads
  <1>5. TypeOK'
    BY <1>4, ThreadType, EntryType, MarkType, SignalType DEF UpdateSeeds, At, TypeInv, TypeOK, agentVars, childVars, Ledger, Entry, ReaperState, ChildState, Label
  <1> QED
    BY <1>4, <1>5 DEF TypeInv

LEMMA UpdateNextType ==
  ASSUME TypeInv, NEW n \in Names, UpdateNext(n)
  PROVE  TypeInv'
  <1> DEFINE r == [th[Worker] EXCEPT !.pc = "lookup", !.name = n,
                        !.todo = th[Worker].todo \ {n}]
  <1>1. r \in Thread /\ r.pc \in Label
    BY ZenonT(60), ThreadType, IdleThread DEF UpdateNext, At, Idle, Thread, Label, OpName, Threads
  <1>2. th' = [th EXCEPT ![Worker] = r]
    BY DEF UpdateNext
  <1>3. /\ r.pc \in NameLabel => r.name \in Names
        /\ r.pc \in {"insert", "record", "snapshot"} => r.held \in Pids
    BY ThreadType, IdleThread DEF UpdateNext, At, Idle, Thread, NameLabel, Label, TypeInv, TypeOK, Live, Threads
  <1>4. th' \in [Threads -> Thread] /\ Placed'
    BY <1>1, <1>2, <1>3, MoveThread DEF Threads
  <1>5. TypeOK'
    BY <1>4, ThreadType, EntryType, MarkType, SignalType DEF UpdateNext, At, TypeInv, TypeOK, agentVars, childVars, Ledger, Entry, ReaperState, ChildState, Label
  <1> QED
    BY <1>4, <1>5 DEF TypeInv

-----------------------------------------------------------------------------
(* The steps of the reapers, the children and the agent process.           *)
LEMMA ReaperStepType ==
  ASSUME TypeInv, NEW p \in Pids, ReaperStep(p)
  PROVE  TypeInv'
  <1> USE DEF TypeInv, TypeOK, ReaperState, ChildState, agentVars, childVars
  <1>1. CASE ReaperWaits(p)
    BY <1>1 DEF ReaperWaits
  <1>2. CASE ReaperUnregisters(p)
    BY <1>2 DEF ReaperUnregisters
  <1>3. CASE ReaperConsumes(p)
    BY <1>3 DEF ReaperConsumes, ReaperEnds
  <1>4. CASE ReaperForgets(p)
    BY <1>4 DEF ReaperForgets, ReaperEnds, Entry
  <1> QED
    BY <1>1, <1>2, <1>3, <1>4 DEF ReaperStep

LEMMA ChildStepType ==
  ASSUME TypeInv, NEW p \in Pids, ChildStep(p)
  PROVE  TypeInv'
  BY DEF ChildStep, UserExits, ObeysExit, ChildDies, TypeInv, TypeOK, ChildState,
         Ledger, agentVars, childVars

LEMMA AgentStopsType ==
  ASSUME TypeInv, AgentStops
  PROVE  TypeInv'
  <1>1. th' \in [Threads -> Thread]
    BY IdleThread DEF AgentStops
  <1>2. TypeOK'
    BY <1>1 DEF AgentStops, TypeInv, TypeOK, ChildState, ReaperState, Ledger
  <1>3. Placed'
    BY DEF AgentStops, Idle
  <1> QED
    BY <1>2, <1>3 DEF TypeInv

LEMMA AgentBootsType ==
  ASSUME TypeInv, AgentBoots
  PROVE  TypeInv'
  <1>1. CASE Enter(Main, "restore", NoName, "live")
    <2>1. "restore" \in OpName /\ "live" \in Label
      BY DEF OpName, Label
    <2>2. th' \in [Threads -> Thread] /\ Placed'
      BY <1>1, <2>1, EnterMoves DEF Threads
    <2> QED
      BY <2>2 DEF AgentBoots, TypeInv, TypeOK, childVars
  <1>2. CASE UNCHANGED th
    BY <1>2 DEF AgentBoots, TypeInv, TypeOK, childVars
  <1> QED
    BY <1>1, <1>2 DEF AgentBoots

LEMMA ThreadStepType ==
  ASSUME TypeInv, NEW t \in Threads, ThreadStep(t)
  PROVE  TypeInv'
  BY CreateCheckType, CreateSpawnType, CreateSpawnFailsType, CreateInsertType,
     CreateRecordType, ReapplyLiveType, ReapplyEntryType, DeleteForgetsType,
     DeleteSignalsType, MarkLiveType, MarkEntryType, RestartChecksJobType,
     RestartReservesType, RestartLooksUpType, RestartSnapshotsType,
     RestartMarksType, RestartTypesExitType, RestartSeesGoneType,
     RestartGracePassesType, RestartGivesUpType, RestartReleasesType,
     RestoreReadsLiveType, RestoreReadsEntriesType, RestoreEndsType,
     RestoreCreatesType, RestoreSkipsType
  DEF ThreadStep

LEMMA RequestType ==
  ASSUME TypeInv, NEW t \in Threads, Request(t)
  PROVE  TypeInv'
  BY RestoreRequestType, UpdateRequestType, CreateRequestType,
     DeleteRequestType, RestartRequestType, MarkRequestType
  DEF Request

LEMMA WorkerStepType ==
  ASSUME TypeInv, WorkerStep
  PROVE  TypeInv'
  BY UpdateRestoresType, UpdateEndsType, UpdateSeedsType, UpdateNextType
  DEF WorkerStep

LEMMA NextType == TypeInv /\ [Next]_vars => TypeInv'
  <1> SUFFICES ASSUME TypeInv, [Next]_vars PROVE TypeInv'
    OBVIOUS
  <1>1. CASE UNCHANGED vars
    BY <1>1 DEF vars, TypeInv, TypeOK
  <1>2. CASE Next
    BY <1>2, RequestType, ThreadStepType, WorkerStepType, ReaperStepType,
       ChildStepType, AgentStopsType, AgentBootsType
    DEF Next
  <1> QED
    BY <1>1, <1>2

(* Every variable keeps its type in every behaviour, and a thread that is  *)
(* inside an operation knows the session it is working on.                 *)
THEOREM TypeCorrect == Spec => []TypeInv
  BY InitType, NextType, PTL DEF Spec

(* The type invariant the model checker evaluates, for every instance.     *)
THEOREM TypeSafe == Spec => []TypeOK
  <1>1. TypeInv => TypeOK
    BY DEF TypeInv
  <1> QED
    BY <1>1, TypeCorrect, PTL

-----------------------------------------------------------------------------
(* Every session on the list has a reaper that has yet to take it off.     *)
(* ListedIsReaped is not inductive alone.  A process the registry names    *)
(* may still have no reaper, between `create`'s insert and its record; so  *)
(* the invariant says what a thread between spawn and record holds (its    *)
(* own process, with no reaper, that no other thread between those points  *)
(* holds), and that a reaper's process is neither free nor nameless.  That *)
(* a job or a startup never begins over a thread still inside `create` is  *)
(* the last part.                                                          *)
Making == {"insert", "record"}

MakerHolds ==
  \A t \in Threads : th[t].pc \in Making =>
    /\ owner[th[t].held] = th[t].name
    /\ reaper[th[t].held] = "none"
    /\ child[th[t].held] # "free"

MakersApart ==
  \A s, t \in Threads :
    /\ th[s].pc \in Making
    /\ th[t].pc \in Making
    /\ th[s].held = th[t].held
    => s = t

ReaperHolds ==
  \A p \in Pids : reaper[p] # "none" => child[p] # "free" /\ owner[p] \in Names

Quiet ==
  /\ ~job => th[Worker].pc = "idle"
  /\ phase = "down" => \A t \in Threads : th[t].pc = "idle"

ListInv == MakerHolds /\ MakersApart /\ ReaperHolds /\ Quiet /\ ListedIsReaped

LEMMA InitList == Init => ListInv
  <1> SUFFICES ASSUME Init PROVE ListInv
    OBVIOUS
  <1>1. \A t \in Threads : th[t].pc = "idle"
    BY DEF Init, Idle
  <1>2. ListedIsReaped
    BY DEF Init, ListedIsReaped, Live
  <1> QED
    BY <1>1, <1>2 DEF Init, ListInv, MakerHolds, MakersApart, ReaperHolds, Quiet,
                      Making, Threads

(* What a move of one thread does to the threads.                          *)
Moves(t) == /\ th'[t].pc \notin Making
            /\ \A s \in Threads \ {t} : th'[s] = th[s]

LEMMA GotoIs ==
  ASSUME TypeInv, NEW t \in Threads, NEW l, Goto(t, l)
  PROVE  /\ th'[t].pc = l /\ th'[t].name = th[t].name /\ th'[t].held = th[t].held
         /\ \A s \in Threads \ {t} : th'[s] = th[s]
  BY DEF Goto, TypeInv, TypeOK, Thread

LEMMA FinishIs ==
  ASSUME TypeInv, NEW t \in Threads, Finish(t)
  PROVE  Moves(t) /\ th'[t].pc = "idle"
  BY DEF Finish, Idle, Moves, Making, TypeInv, TypeOK

LEMMA EnterIs ==
  ASSUME TypeInv, NEW t \in Threads, NEW o, NEW n, NEW l, Enter(t, o, n, l),
         l \notin Making
  PROVE  Moves(t)
  BY DEF Enter, Idle, Moves, TypeInv, TypeOK

LEMMA NextItemIs ==
  ASSUME TypeInv, NEW t \in Threads, NextItem(t)
  PROVE  Moves(t)
  BY DEF NextItem, Idle, Moves, Making, TypeInv, TypeOK

LEMMA RestartEndsIs ==
  ASSUME TypeInv, NEW t \in Threads, RestartEnds(t)
  PROVE  Moves(t)
  BY GotoIs, NextItemIs DEF RestartEnds, Moves, Making

(* A step of a thread that is not between spawn and record, before or      *)
(* after, and that leaves the registry and the reapers alone.              *)
Aside(t) ==
  /\ Moves(t)
  /\ th[t].pc \notin Making
  /\ registry' = registry /\ owner' = owner /\ reaper' = reaper
  /\ \A p \in Pids : child[p] # "free" => child'[p] # "free"

LEMMA AsideKeeps ==
  ASSUME TypeInv, TypeInv', ListInv, NEW t \in Threads, Aside(t)
  PROVE  MakerHolds' /\ MakersApart' /\ ReaperHolds' /\ ListedIsReaped'
  <1> USE DEF ListInv, Aside, Moves
  <1>1. \A s \in Threads : th'[s].pc \in Making => s # t /\ th'[s] = th[s]
    OBVIOUS
  <1>2. \A s \in Threads : th[s].pc \in Making => s # t /\ th'[s] = th[s]
    OBVIOUS
  <1>3. MakerHolds'
    <2> SUFFICES ASSUME NEW s \in Threads, th'[s].pc \in Making
                 PROVE  /\ owner'[th'[s].held] = th'[s].name
                        /\ reaper'[th'[s].held] = "none"
                        /\ child'[th'[s].held] # "free"
      BY DEF MakerHolds
    <2>1. th[s].held \in Pids
      BY <1>1 DEF TypeInv, Placed, Making
    <2> QED
      BY <1>1, <2>1 DEF MakerHolds
  <1>4. MakersApart'
    BY <1>1 DEF MakersApart
  <1>5. ReaperHolds'
    BY DEF ReaperHolds
  <1>6. ListedIsReaped'
    BY <1>2 DEF ListedIsReaped, Live, At, Making
  <1> QED
    BY <1>3, <1>4, <1>5, <1>6

LEMMA AsideQuiet ==
  ASSUME TypeInv, ListInv, NEW t \in Threads, Moves(t), th[t].pc # "idle",
         phase' = phase, job' = job
  PROVE  Quiet'
  BY DEF ListInv, Quiet, Moves, Threads

LEMMA SignalAlive ==
  ASSUME TypeInv, NEW q
  PROVE  /\ \A p \in Pids : child[p] # "free" => Asked(q)[p] # "free"
         /\ \A p \in Pids : child[p] # "free" => Killed(q)[p] # "free"
  BY DEF Asked, Killed, TypeInv, TypeOK

-----------------------------------------------------------------------------
(* The thread steps that are not create's own three.                       *)
OtherStep(t) ==
  \/ CreateCheck(t) \/ CreateSpawnFails(t) \/ ReapplyLive(t) \/ ReapplyEntry(t)
  \/ DeleteForgets(t) \/ DeleteSignals(t) \/ MarkLive(t) \/ MarkEntry(t)
  \/ RestartChecksJob(t) \/ RestartReserves(t) \/ RestartLooksUp(t)
  \/ RestartSnapshots(t) \/ RestartMarks(t) \/ RestartTypesExit(t)
  \/ RestartSeesGone(t) \/ RestartGracePasses(t) \/ RestartGivesUp(t)
  \/ RestartReleases(t) \/ RestoreReadsLive(t) \/ RestoreReadsEntries(t)
  \/ \E n \in Names : RestoreCreates(t, n) \/ RestoreSkips(t, n)

LEMMA OtherStepAside ==
  ASSUME TypeInv, NEW t \in Threads, OtherStep(t)
  PROVE  Aside(t) /\ th[t].pc # "idle" /\ phase' = phase /\ job' = job
  <1> USE DEF At, Making, agentVars, childVars
  <1>1. CASE CreateCheck(t) \/ CreateSpawnFails(t)
    BY <1>1, GotoIs, RestartEndsIs
    DEF CreateCheck, CreateSpawnFails, CreateFails, Aside, Moves
  <1>2. CASE ReapplyLive(t) \/ ReapplyEntry(t)
    BY <1>2, GotoIs, NextItemIs DEF ReapplyLive, ReapplyEntry, Aside, Moves
  <1>3. CASE DeleteForgets(t) \/ DeleteSignals(t)
    BY <1>3, GotoIs, FinishIs, SignalAlive
    DEF DeleteForgets, DeleteSignals, Aside, Moves
  <1>4. CASE MarkLive(t) \/ MarkEntry(t)
    BY <1>4, GotoIs, FinishIs DEF MarkLive, MarkEntry, Aside, Moves
  <1>5. CASE RestartChecksJob(t) \/ RestartReserves(t)
    BY <1>5, GotoIs, FinishIs DEF RestartChecksJob, RestartReserves, Aside, Moves
  <1>6. CASE RestartLooksUp(t)
    BY <1>6, RestartEndsIs DEF RestartLooksUp, Aside, Moves, TypeInv, TypeOK, Thread
  <1>7. CASE RestartSnapshots(t)
    BY <1>7 DEF RestartSnapshots, Aside, Moves, TypeInv, TypeOK, Thread
  <1>8. CASE RestartMarks(t) \/ RestartTypesExit(t) \/ RestartSeesGone(t)
    BY <1>8, GotoIs, SignalAlive
    DEF RestartMarks, RestartTypesExit, RestartSeesGone, Aside, Moves
  <1>9. CASE RestartGracePasses(t) \/ RestartGivesUp(t)
    BY <1>9, GotoIs, RestartEndsIs, SignalAlive
    DEF RestartGracePasses, RestartGivesUp, Aside, Moves
  <1>10. CASE RestartReleases(t)
    BY <1>10, FinishIs DEF RestartReleases, Aside, Moves
  <1>11. CASE RestoreReadsLive(t)
    BY <1>11 DEF RestoreReadsLive, Aside, Moves, TypeInv, TypeOK, Thread
  <1>12. CASE RestoreReadsEntries(t)
    BY <1>12 DEF RestoreReadsEntries, Aside, Moves, TypeInv, TypeOK, Thread
  <1>13. CASE \E n \in Names : RestoreCreates(t, n)
    BY <1>13 DEF RestoreCreates, Aside, Moves, TypeInv, TypeOK, Thread
  <1>14. CASE \E n \in Names : RestoreSkips(t, n)
    BY <1>14 DEF RestoreSkips, Aside, Moves, TypeInv, TypeOK, Thread
  <1> QED
    BY <1>1, <1>2, <1>3, <1>4, <1>5, <1>6, <1>7, <1>8, <1>9, <1>10, <1>11,
       <1>12, <1>13, <1>14
    DEF OtherStep

LEMMA OtherStepList ==
  ASSUME TypeInv, TypeInv', ListInv, NEW t \in Threads, OtherStep(t)
  PROVE  ListInv'
  <1>1. Aside(t) /\ Moves(t)
    BY OtherStepAside DEF Aside
  <1>2. Quiet'
    BY <1>1, OtherStepAside, AsideQuiet
  <1> QED
    BY <1>1, <1>2, AsideKeeps DEF ListInv

(* A startup or a job ends, and the thread that ran it is idle again.      *)
LEMMA EndsList ==
  ASSUME TypeInv, TypeInv', ListInv, NEW t \in Threads,
         \/ RestoreEnds(t)
         \/ UpdateEnds /\ t = Worker
  PROVE  ListInv'
  <1>1. Finish(t) /\ th[t].pc \in {"pick", "fleet"} /\ UNCHANGED <<registry, childVars>>
    BY DEF RestoreEnds, UpdateEnds, At
  <1>2. Moves(t) /\ th'[t].pc = "idle"
    BY <1>1, FinishIs
  <1>3. Aside(t)
    BY <1>1, <1>2 DEF Aside, Making, childVars
  <1>4. phase # "down"
    BY <1>1 DEF ListInv, Quiet
  <1>5. job' # job => t = Worker
    BY DEF RestoreEnds, UpdateEnds, TypeInv, TypeOK
  <1>6. phase' # "down"
    BY <1>4 DEF RestoreEnds, UpdateEnds
  <1>7. Quiet'
    <2>1. CASE t = Worker
      BY <2>1, <1>2, <1>6 DEF Quiet
    <2>2. CASE t # Worker
      BY <2>2, <1>2, <1>5, <1>6 DEF Quiet, Moves, ListInv, Threads
    <2> QED
      BY <2>1, <2>2
  <1> QED
    BY <1>3, <1>7, AsideKeeps DEF ListInv

-----------------------------------------------------------------------------
(* A request begins on an idle thread, and a job on the idle worker.       *)
LEMMA RequestList ==
  ASSUME TypeInv, TypeInv', ListInv, NEW t \in Threads, Request(t)
  PROVE  ListInv'
  <1> USE DEF At, Making, agentVars, childVars
  <1>1. CASE ~UpdateRequest(t)
    <2>1. Aside(t)
      <3>1. CASE RestoreRequest(t)
        BY <3>1, EnterIs DEF RestoreRequest, Free, Aside
      <3>2. ASSUME NEW n \in Names, CreateRequest(t, n)
            PROVE  Aside(t)
        BY <3>2, EnterIs DEF CreateRequest, Free, Aside
      <3>3. ASSUME NEW n \in Names, DeleteRequest(t, n)
            PROVE  Aside(t)
        BY <3>3 DEF DeleteRequest, Free, Aside, Moves, Idle, TypeInv, TypeOK
      <3>4. ASSUME NEW n \in Names, RestartRequest(t, n)
            PROVE  Aside(t)
        BY <3>4, EnterIs DEF RestartRequest, Free, Aside
      <3>5. ASSUME NEW n \in Names, NEW m \in BOOLEAN, MarkRequest(t, n, m)
            PROVE  Aside(t)
        BY <3>5 DEF MarkRequest, Free, Aside, Moves, Idle, TypeInv, TypeOK
      <3> QED
        BY <1>1, <3>1, <3>2, <3>3, <3>4, <3>5 DEF Request
    <2>2. phase = "serving" /\ t \in Clients /\ phase' = phase /\ job' = job
      BY <1>1 DEF Request, RestoreRequest, CreateRequest, DeleteRequest,
                  RestartRequest, MarkRequest, Free
    <2>3. Quiet'
      <3>1. t # Worker /\ Worker \in Threads
        BY <2>2, ThreadAssumption DEF Threads
      <3> QED
        BY <2>1, <2>2, <3>1 DEF Quiet, ListInv, Aside, Moves
    <2> QED
      BY <2>1, <2>3, AsideKeeps DEF ListInv
  <1>2. CASE UpdateRequest(t)
    <2>1. Worker \in Threads
      BY DEF Threads
    <2>2. th[Worker].pc = "idle"
      BY <1>2 DEF UpdateRequest, ListInv, Quiet
    <2>3. Aside(Worker)
      BY <1>2, <2>1, <2>2
      DEF UpdateRequest, Aside, Moves, Idle, TypeInv, TypeOK
    <2>4. Quiet'
      BY <1>2 DEF UpdateRequest, Free, Quiet
    <2> QED
      BY <2>1, <2>3, <2>4, AsideKeeps DEF ListInv
  <1> QED
    BY <1>1, <1>2

LEMMA WorkerList ==
  ASSUME TypeInv, TypeInv', ListInv, WorkerStep
  PROVE  ListInv'
  <1> USE DEF At, Making, agentVars, childVars
  <1>1. Worker \in Threads
    BY DEF Threads
  <1>2. CASE UpdateEnds
    BY <1>1, <1>2, EndsList
  <1>3. CASE ~UpdateEnds
    <2>1. Aside(Worker) /\ th[Worker].pc # "idle" /\ phase' = phase /\ job' = job
      <3>1. CASE UpdateRestores
        BY <1>1, <3>1, EnterIs DEF UpdateRestores, Aside
      <3>2. ASSUME NEW S \in SUBSET Names, UpdateSeeds(S)
            PROVE  /\ Aside(Worker) /\ th[Worker].pc # "idle"
                   /\ phase' = phase /\ job' = job
        BY <1>1, <3>2 DEF UpdateSeeds, Aside, Moves, TypeInv, TypeOK, Thread
      <3>3. ASSUME NEW n \in Names, UpdateNext(n)
            PROVE  /\ Aside(Worker) /\ th[Worker].pc # "idle"
                   /\ phase' = phase /\ job' = job
        BY <1>1, <3>3 DEF UpdateNext, Aside, Moves, TypeInv, TypeOK, Thread
      <3>4. CASE UpdateRestores
        BY <3>1, <3>4 DEF UpdateRestores
      <3> QED
        BY <1>3, <3>1, <3>2, <3>3, <3>4 DEF WorkerStep
    <2> QED
      BY <1>1, <2>1, AsideKeeps, AsideQuiet DEF ListInv, Aside
  <1> QED
    BY <1>2, <1>3

-----------------------------------------------------------------------------
(* create's own three steps.                                               *)
LEMMA SpawnList ==
  ASSUME TypeInv, TypeInv', ListInv, NEW t \in Threads, NEW p \in Pids,
         CreateSpawn(t, p)
  PROVE  ListInv'
  <1> USE DEF Making
  <1>0. /\ th[t].pc = "spawn" /\ Fresh(p) /\ registry' = registry
        /\ reaper' = reaper /\ phase' = phase /\ job' = job
    BY DEF CreateSpawn, At, agentVars
  <1>a. /\ child' = [child EXCEPT ![p] = "running"]
        /\ owner' = [owner EXCEPT ![p] = th[t].name]
        /\ th' = [th EXCEPT ![t].pc = "insert", ![t].held = p]
    BY DEF CreateSpawn, At, agentVars
  <1>1. reaper[p] = "none"
    BY <1>0 DEF Fresh, ListInv, ReaperHolds
  <1>2. \A s \in Threads : th[s].held # p
    BY <1>0 DEF Fresh
  <1>3. /\ th'[t].pc = "insert" /\ th'[t].held = p /\ th'[t].name = th[t].name
        /\ \A s \in Threads \ {t} : th'[s] = th[s]
    BY <1>0, <1>a DEF TypeInv, TypeOK, Thread
  <1>4. /\ owner'[p] = th[t].name /\ child'[p] = "running" /\ th[t].name \in Names
        /\ \A q \in Pids \ {p} : owner'[q] = owner[q] /\ child'[q] = child[q]
    BY <1>0, <1>a DEF TypeInv, TypeOK, Placed, NameLabel, Label
  <1>5. \A s \in Threads : th[s].pc \in Making => th[s].held \in Pids
    BY DEF TypeInv, Placed
  <1>6. MakerHolds'
    BY <1>0, <1>1, <1>2, <1>3, <1>4, <1>5 DEF MakerHolds, ListInv
  <1>7. MakersApart'
    BY <1>0, <1>2, <1>3 DEF MakersApart, ListInv
  <1>8. ReaperHolds'
    BY <1>0, <1>1, <1>4 DEF ReaperHolds, ListInv
  <1>9. Quiet'
    BY <1>0, <1>3 DEF Quiet, ListInv, Threads
  <1>10. ListedIsReaped'
    <2> SUFFICES ASSUME NEW n \in Names, registry[n] # NoPid
                 PROVE  \/ /\ owner'[registry[n]] = n
                           /\ reaper[registry[n]] \in {"wait", "unregister"}
                        \/ \E s \in Threads : /\ th'[s].pc = "record"
                                              /\ th'[s].name = n
                                              /\ th'[s].held = registry[n]
      BY <1>0 DEF ListedIsReaped, Live, At
    <2>1. registry[n] \in Pids
      BY DEF TypeInv, TypeOK
    <2>2. CASE /\ owner[registry[n]] = n
               /\ reaper[registry[n]] \in {"wait", "unregister"}
      BY <1>1, <1>4, <2>1, <2>2
    <2>3. CASE \E s \in Threads : /\ th[s].pc = "record"
                                  /\ th[s].name = n
                                  /\ th[s].held = registry[n]
      BY <1>0, <1>3, <2>3
    <2> QED
      BY <2>2, <2>3 DEF ListedIsReaped, ListInv, Live, At
  <1> QED
    BY <1>6, <1>7, <1>8, <1>9, <1>10 DEF ListInv

LEMMA InsertList ==
  ASSUME TypeInv, TypeInv', ListInv, NEW t \in Threads, CreateInsert(t)
  PROVE  ListInv'
  <1> USE DEF CreateInsert, At, Making, childVars
  <1>1. /\ th'[t].pc = "record" /\ th'[t].name = th[t].name /\ th'[t].held = th[t].held
        /\ \A s \in Threads \ {t} : th'[s] = th[s]
    BY GotoIs
  <1>2. th[t].name \in Names /\ th[t].held \in Pids
    BY DEF TypeInv, Placed, NameLabel, Label
  <1>3. MakerHolds'
    BY <1>1 DEF MakerHolds, ListInv
  <1>4. MakersApart'
    BY <1>1 DEF MakersApart, ListInv
  <1>5. ReaperHolds'
    BY DEF ReaperHolds, ListInv
  <1>6. Quiet'
    BY <1>1 DEF Quiet, ListInv, Threads
  <1>7. ListedIsReaped'
    <2> SUFFICES ASSUME NEW n \in Names, registry'[n] # NoPid
                 PROVE  \/ /\ owner[registry'[n]] = n
                           /\ reaper[registry'[n]] \in {"wait", "unregister"}
                        \/ \E s \in Threads : /\ th'[s].pc = "record"
                                              /\ th'[s].name = n
                                              /\ th'[s].held = registry'[n]
      BY DEF ListedIsReaped, Live
    <2>1. CASE n = th[t].name
      BY <1>1, <1>2, <2>1 DEF TypeInv, TypeOK
    <2>2. CASE n # th[t].name
      <3>1. registry'[n] = registry[n]
        BY <2>2 DEF TypeInv, TypeOK
      <3> QED
        BY <1>1, <2>2, <3>1 DEF ListedIsReaped, ListInv, Live
    <2> QED
      BY <2>1, <2>2
  <1> QED
    BY <1>3, <1>4, <1>5, <1>6, <1>7 DEF ListInv

LEMMA RecordList ==
  ASSUME TypeInv, TypeInv', ListInv, NEW t \in Threads, CreateRecord(t)
  PROVE  ListInv'
  <1> USE DEF CreateRecord, At, Making, agentVars
  <1> DEFINE p == th[t].held
  <1>1. Moves(t)
    BY GotoIs, NextItemIs DEF Moves
  <1>2. th[t].name \in Names /\ p \in Pids
    BY DEF TypeInv, Placed, NameLabel, Label
  <1>3. owner[p] = th[t].name /\ child[p] # "free"
    BY DEF MakerHolds, ListInv
  <1>4. reaper'[p] = "wait" /\ \A q \in Pids \ {p} : reaper'[q] = reaper[q]
    BY <1>2 DEF TypeInv, TypeOK
  <1>5. \A s \in Threads : th'[s].pc \in Making =>
          /\ s # t /\ th'[s] = th[s] /\ th[s].held # p /\ th[s].held \in Pids
    BY <1>1 DEF Moves, MakersApart, ListInv, TypeInv, Placed
  <1>6. MakerHolds'
    BY <1>4, <1>5 DEF MakerHolds, ListInv
  <1>7. MakersApart'
    BY <1>5 DEF MakersApart, ListInv
  <1>8. ReaperHolds'
    BY <1>2, <1>3, <1>4 DEF ReaperHolds, ListInv
  <1>9. Quiet'
    BY <1>1, AsideQuiet
  <1>10. ListedIsReaped'
    <2> SUFFICES ASSUME NEW n \in Names, registry[n] # NoPid
                 PROVE  \/ /\ owner[registry[n]] = n
                           /\ reaper'[registry[n]] \in {"wait", "unregister"}
                        \/ \E s \in Threads : /\ th'[s].pc = "record"
                                              /\ th'[s].name = n
                                              /\ th'[s].held = registry[n]
      BY DEF ListedIsReaped, Live
    <2>1. registry[n] \in Pids
      BY DEF TypeInv, TypeOK
    <2>2. CASE /\ owner[registry[n]] = n
               /\ reaper[registry[n]] \in {"wait", "unregister"}
      BY <1>4, <2>1, <2>2
    <2>3. ASSUME NEW s \in Threads, th[s].pc = "record", th[s].name = n,
                 th[s].held = registry[n]
          PROVE  \/ /\ owner[registry[n]] = n
                    /\ reaper'[registry[n]] \in {"wait", "unregister"}
                 \/ \E r \in Threads : /\ th'[r].pc = "record"
                                       /\ th'[r].name = n
                                       /\ th'[r].held = registry[n]
      BY <1>1, <1>3, <1>4, <2>3 DEF Moves
    <2> QED
      BY <2>2, <2>3 DEF ListedIsReaped, ListInv, Live
  <1> QED
    BY <1>6, <1>7, <1>8, <1>9, <1>10 DEF ListInv

-----------------------------------------------------------------------------
(* The reaper keeps what it says of a process until the name is off the    *)
(* list, and frees the slot only then.                                     *)
LEMMA ReaperList ==
  ASSUME TypeInv, TypeInv', ListInv, NEW p \in Pids, ReaperStep(p)
  PROVE  ListInv'
  <1> USE DEF At, Making, agentVars
  <1>1. /\ th' = th /\ phase' = phase /\ job' = job
        /\ reaper[p] \in {"wait", "unregister", "consume", "forget"}
        /\ \A q \in Pids \ {p} : /\ reaper'[q] = reaper[q]
                                 /\ child'[q] = child[q]
                                 /\ owner'[q] = owner[q]
    BY DEF ReaperStep, ReaperWaits, ReaperUnregisters, ReaperConsumes,
           ReaperForgets, ReaperEnds, TypeInv, TypeOK
  <1>2. reaper'[p] # "none" => child'[p] = child[p] /\ owner'[p] = owner[p]
    BY DEF ReaperStep, ReaperWaits, ReaperUnregisters, ReaperConsumes,
           ReaperForgets, ReaperEnds, TypeInv, TypeOK
  <1>3. \A t \in Threads : th[t].pc \in Making => th[t].held \in Pids \ {p}
    BY <1>1 DEF ListInv, MakerHolds, TypeInv, Placed
  <1>4. MakerHolds'
    BY <1>1, <1>3 DEF MakerHolds, ListInv
  <1>5. MakersApart'
    BY <1>1 DEF MakersApart, ListInv
  <1>6. ReaperHolds'
    BY <1>1, <1>2 DEF ReaperHolds, ListInv
  <1>7. Quiet'
    BY <1>1 DEF Quiet, ListInv
  <1>8. ListedIsReaped'
    <2>1. /\ owner[p] \in Names
          /\ \A n \in Names : registry'[n] # NoPid => registry'[n] = registry[n]
      BY <1>1 DEF ReaperStep, ReaperWaits, ReaperUnregisters, ReaperConsumes,
             ReaperForgets, TypeInv, TypeOK, ListInv, ReaperHolds
    <2>2. \A n \in Names : registry'[n] = p /\ registry'[n] # NoPid =>
             owner'[p] = n /\ reaper'[p] \in {"wait", "unregister"}
      <3> SUFFICES ASSUME NEW n \in Names, registry'[n] = p, registry'[n] # NoPid
                   PROVE  owner'[p] = n /\ reaper'[p] \in {"wait", "unregister"}
        OBVIOUS
      <3>1. registry[n] = p /\ owner[p] = n /\ reaper[p] \in {"wait", "unregister"}
        BY <1>3, <2>1 DEF ListedIsReaped, ListInv, Live
      <3>2. ReaperWaits(p)
        BY <3>1 DEF ReaperStep, ReaperUnregisters, ReaperConsumes,
               ReaperForgets, TypeInv, TypeOK
      <3> QED
        BY <3>1, <3>2 DEF ReaperWaits, TypeInv, TypeOK
    <2> SUFFICES ASSUME NEW n \in Names, registry'[n] # NoPid
                 PROVE  \/ /\ owner'[registry'[n]] = n
                           /\ reaper'[registry'[n]] \in {"wait", "unregister"}
                        \/ \E s \in Threads : /\ th'[s].pc = "record"
                                              /\ th'[s].name = n
                                              /\ th'[s].held = registry'[n]
      BY DEF ListedIsReaped, Live
    <2>3. registry'[n] \in Pids
      BY DEF TypeInv, TypeOK
    <2>4. CASE registry'[n] = p
      BY <2>2, <2>4
    <2>5. CASE registry'[n] # p
      BY <1>1, <2>1, <2>3, <2>5 DEF ListedIsReaped, ListInv, Live
    <2> QED
      BY <2>4, <2>5
  <1> QED
    BY <1>4, <1>5, <1>6, <1>7, <1>8 DEF ListInv

LEMMA ChildList ==
  ASSUME TypeInv, TypeInv', ListInv, NEW p \in Pids, ChildStep(p)
  PROVE  ListInv'
  <1> USE DEF ChildStep, UserExits, ObeysExit, ChildDies, At, Making, agentVars
  <1>1. /\ th' = th /\ phase' = phase /\ job' = job /\ registry' = registry
        /\ owner' = owner /\ reaper' = reaper
        /\ \A q \in Pids : child[q] # "free" => child'[q] # "free"
    BY DEF TypeInv, TypeOK
  <1>2. \A t \in Threads : th[t].pc \in Making => th[t].held \in Pids
    BY DEF TypeInv, Placed
  <1>3. MakerHolds'
    BY <1>1, <1>2 DEF MakerHolds, ListInv
  <1>4. MakersApart' /\ ReaperHolds' /\ Quiet' /\ ListedIsReaped'
    BY <1>1 DEF MakersApart, ReaperHolds, Quiet, ListedIsReaped, Live, ListInv
  <1> QED
    BY <1>3, <1>4 DEF ListInv

-----------------------------------------------------------------------------
(* The agent's own stops and starts.                                       *)
LEMMA StopList ==
  ASSUME TypeInv', AgentStops
  PROVE  ListInv'
  <1>1. \A t \in Threads : th'[t].pc = "idle"
    BY DEF AgentStops, Idle
  <1>2. (\A n \in Names : registry'[n] = NoPid) /\ \A p \in Pids : reaper'[p] = "none"
    BY DEF AgentStops
  <1> QED
    BY <1>1, <1>2 DEF ListInv, MakerHolds, MakersApart, ReaperHolds, Quiet,
                      ListedIsReaped, Live, Making, Threads

LEMMA BootList ==
  ASSUME TypeInv, TypeInv', ListInv, AgentBoots
  PROVE  ListInv'
  <1> USE DEF Making, childVars
  <1>1. \A t \in Threads : th[t].pc = "idle" /\ th'[t].pc \notin Making
    BY DEF AgentBoots, ListInv, Quiet, Enter, Idle, TypeInv, TypeOK
  <1>2. MakerHolds' /\ MakersApart'
    BY <1>1 DEF MakerHolds, MakersApart
  <1>3. ReaperHolds'
    BY DEF AgentBoots, ReaperHolds, ListInv
  <1>4. Quiet'
    BY ThreadAssumption DEF AgentBoots, Quiet, ListInv, Enter, TypeInv, TypeOK,
       Threads
  <1>5. ListedIsReaped'
    BY <1>1 DEF AgentBoots, ListedIsReaped, ListInv, Live, At
  <1> QED
    BY <1>2, <1>3, <1>4, <1>5 DEF ListInv

-----------------------------------------------------------------------------
LEMMA StutterList ==
  ASSUME ListInv, UNCHANGED vars
  PROVE  ListInv'
  BY DEF vars, ListInv, MakerHolds, MakersApart, ReaperHolds, Quiet,
         ListedIsReaped, Live, At

LEMMA NextList ==
  ASSUME TypeInv, TypeInv', ListInv, [Next]_vars
  PROVE  ListInv'
  <1>1. ASSUME NEW t \in Threads, Request(t)
        PROVE  ListInv'
    BY <1>1, RequestList
  <1>2. ASSUME NEW t \in Threads, ThreadStep(t)
        PROVE  ListInv'
    <2>1. CASE OtherStep(t)
      BY <2>1, OtherStepList
    <2>2. CASE RestoreEnds(t)
      BY <2>2, EndsList
    <2>3. CASE \E p \in Pids : CreateSpawn(t, p)
      BY <2>3, SpawnList
    <2>4. CASE CreateInsert(t)
      BY <2>4, InsertList
    <2>5. CASE CreateRecord(t)
      BY <2>5, RecordList
    <2> QED
      BY <1>2, <2>1, <2>2, <2>3, <2>4, <2>5 DEF ThreadStep, OtherStep
  <1>3. ASSUME NEW p \in Pids, ReaperStep(p) \/ ChildStep(p)
        PROVE  ListInv'
    BY <1>3, ReaperList, ChildList
  <1> QED
    BY <1>1, <1>2, <1>3, WorkerList, StopList, BootList, StutterList DEF Next

(* Whatever the threads, reapers, children and restarts of the agent do, a *)
(* session on the list (Inner.registry) has a reaper that will take it off *)
(* the list, or a `create` that is about to start one.                     *)
THEOREM ListedSafe == Spec => []ListedIsReaped
  <1>1. Init => ListInv
    BY InitList
  <1>2. TypeInv /\ TypeInv' /\ ListInv /\ [Next]_vars => ListInv'
    BY NextList
  <1>3. ListInv => ListedIsReaped
    BY DEF ListInv
  <1> QED
    BY <1>1, <1>2, <1>3, TypeCorrect, PTL DEF Spec

-----------------------------------------------------------------------------
(* At most one process of a session is alive, when no two creates of one   *)
(* name overlap.  `create` sees that the name is not listed and lists it   *)
(* three lock sections later; so the invariant says that nobody lists the  *)
(* name in between (MidUnlisted), and that every process that has not been *)
(* taken off the list is the one its name is listed on.                    *)
Mid == {"spawn", "insert"}

MidApart ==
  \A s, t \in Threads :
    th[s].pc \in Mid /\ th[t].pc \in Mid /\ th[s].name = th[t].name => s = t

MidUnlisted ==
  \A t \in Threads : th[t].pc \in Mid => registry[th[t].name] = NoPid

MakerListed ==
  \A t \in Threads : th[t].pc = "record" => registry[th[t].name] = th[t].held

ReaperListed ==
  \A p \in Pids : reaper[p] \in {"wait", "unregister"} => registry[owner[p]] = p

Accounted ==
  \A p \in Pids : owner[p] # NoName =>
    \/ reaper[p] # "none"
    \/ \E t \in Threads : th[t].pc \in Making /\ th[t].held = p

Ended ==
  \A p \in Pids : reaper[p] \in {"unregister", "consume", "forget"} => Exited(p)

SingleInv ==
  MidApart /\ MidUnlisted /\ MakerListed /\ ReaperListed /\ Accounted /\ Ended

LEMMA SingleSuffices ==
  ASSUME TypeInv, ListInv, SingleInv
  PROVE  OneProcessPerSession
  <1> USE DEF SingleInv, ListInv, Making, Mid
  <1> SUFFICES ASSUME NEW p \in Pids, NEW q \in Pids, owner[p] = owner[q],
                      owner[p] # NoName, ~Exited(p), ~Exited(q)
               PROVE  p = q
    BY DEF OneProcessPerSession
  <1>1. \A r \in {p, q} : \/ reaper[r] = "wait" /\ registry[owner[r]] = r
                          \/ \E t \in Threads : th[t].pc \in Making /\ th[t].held = r
    BY DEF Accounted, Ended, ReaperListed, TypeInv, TypeOK, ReaperState
  <1>2. \A t \in Threads : th[t].pc \in Making => /\ owner[th[t].held] = th[t].name
                                                  /\ th[t].held # NoPid
    BY NoneAssumption DEF MakerHolds, TypeInv, Placed
  <1>3. \A r \in {p, q} : \A t \in Threads :
          th[t].pc \in Making /\ th[t].held = r =>
            \/ th[t].pc = "record" /\ registry[owner[r]] = r
            \/ th[t].pc = "insert" /\ registry[owner[r]] = NoPid /\ th[t].name = owner[r]
    BY <1>2 DEF MidUnlisted, MakerListed
  <1>4. p # NoPid /\ q # NoPid
    BY NoneAssumption
  <1> QED
    BY <1>1, <1>3, <1>4 DEF MidApart

LEMMA InitSingle == Init => SingleInv
  BY DEF Init, Idle, SingleInv, MidApart, MidUnlisted, MakerListed, ReaperListed,
         Accounted, Ended, Mid, Making

(* A step of a thread that neither begins nor makes a process.             *)
LEMMA AsideSingle ==
  ASSUME TypeInv, TypeInv', ListInv, SingleInv, NEW t \in Threads, Aside(t),
         th'[t].pc \notin Mid, \A p \in Pids : Exited(p) => Exited(p)'
  PROVE  SingleInv'
  <1> USE DEF SingleInv, Aside, Moves, Making, Mid
  <1>1. \A s \in Threads : th'[s].pc \in {"spawn", "insert", "record"} =>
          s # t /\ th'[s] = th[s]
    OBVIOUS
  <1>2. MidApart'
    BY <1>1 DEF MidApart
  <1>3. MidUnlisted' /\ MakerListed'
    BY <1>1 DEF MidUnlisted, MakerListed
  <1>4. ReaperListed' /\ Ended'
    BY DEF ReaperListed, Ended
  <1>5. Accounted'
    BY DEF Accounted
  <1> QED
    BY <1>2, <1>3, <1>4, <1>5

LEMMA SignalExited ==
  ASSUME TypeInv, NEW q
  PROVE  \A p \in Pids : Exited(p) => /\ Asked(q)[p] \in {"ok", "failed"}
                                      /\ Killed(q)[p] \in {"ok", "failed"}
  BY DEF Asked, Killed, Exited, TypeInv, TypeOK

LEMMA OtherStepExited ==
  ASSUME TypeInv, NEW t \in Threads, OtherStep(t)
  PROVE  \A p \in Pids : Exited(p) => Exited(p)'
  <1>1. \/ child' = child
        \/ \E q : child' = Asked(q) \/ child' = Killed(q)
    BY DEF OtherStep, CreateCheck, CreateSpawnFails, ReapplyLive, ReapplyEntry,
           DeleteForgets, DeleteSignals, MarkLive, MarkEntry, RestartChecksJob,
           RestartReserves, RestartLooksUp, RestartSnapshots, RestartMarks,
           RestartTypesExit, RestartSeesGone, RestartGracePasses, RestartGivesUp,
           RestartReleases, RestoreReadsLive, RestoreReadsEntries, RestoreCreates,
           RestoreSkips, childVars
  <1> QED
    BY <1>1, SignalExited DEF Exited

(* The label a step leads to: only create's check leads to the spawn.      *)
LEMMA NextItemLabel ==
  ASSUME TypeInv, NEW t \in Threads, NextItem(t)
  PROVE  th'[t].pc \notin Mid
  BY DEF NextItem, Idle, Mid, TypeInv, TypeOK

LEMMA RestartEndsLabel ==
  ASSUME TypeInv, NEW t \in Threads, RestartEnds(t)
  PROVE  th'[t].pc \notin Mid
  BY GotoIs, NextItemLabel DEF RestartEnds, Mid

LEMMA OtherStepLabel ==
  ASSUME TypeInv, NEW t \in Threads, OtherStep(t)
  PROVE  \/ th'[t].pc \notin Mid
         \/ /\ CreateCheck(t) /\ ~Live(th[t].name)
            /\ th'[t].pc = "spawn" /\ th'[t].name = th[t].name
  <1> USE DEF Mid
  <1>1. CASE CreateCheck(t) \/ CreateSpawnFails(t)
    BY <1>1, GotoIs, RestartEndsLabel DEF CreateCheck, CreateSpawnFails, CreateFails
  <1>2. CASE ReapplyLive(t) \/ ReapplyEntry(t)
    BY <1>2, GotoIs, NextItemLabel DEF ReapplyLive, ReapplyEntry
  <1>3. CASE DeleteForgets(t) \/ DeleteSignals(t) \/ MarkLive(t) \/ MarkEntry(t)
    BY <1>3, GotoIs, FinishIs DEF DeleteForgets, DeleteSignals, MarkLive, MarkEntry
  <1>4. CASE RestartChecksJob(t) \/ RestartReserves(t) \/ RestartReleases(t)
    BY <1>4, GotoIs, FinishIs DEF RestartChecksJob, RestartReserves, RestartReleases
  <1>5. CASE RestartLooksUp(t)
    BY <1>5, RestartEndsLabel DEF RestartLooksUp, TypeInv, TypeOK, Thread
  <1>6. CASE RestartSnapshots(t)
    BY <1>6 DEF RestartSnapshots, TypeInv, TypeOK, Thread
  <1>7. CASE RestartMarks(t) \/ RestartTypesExit(t) \/ RestartSeesGone(t)
             \/ RestartGracePasses(t) \/ RestartGivesUp(t)
    BY <1>7, GotoIs, RestartEndsLabel
    DEF RestartMarks, RestartTypesExit, RestartSeesGone, RestartGracePasses, RestartGivesUp
  <1>8. CASE RestoreReadsLive(t) \/ RestoreReadsEntries(t)
    BY <1>8 DEF RestoreReadsLive, RestoreReadsEntries, TypeInv, TypeOK, Thread
  <1>9. CASE \E n \in Names : RestoreCreates(t, n) \/ RestoreSkips(t, n)
    BY <1>9 DEF RestoreCreates, RestoreSkips, At, TypeInv, TypeOK, Thread
  <1> QED
    BY <1>1, <1>2, <1>3, <1>4, <1>5, <1>6, <1>7, <1>8, <1>9 DEF OtherStep

LEMMA OtherStepSingle ==
  ASSUME TypeInv, TypeInv', ListInv, SingleInv, SerialCreate, NEW t \in Threads,
         OtherStep(t)
  PROVE  SingleInv'
  <1>1. Aside(t) /\ \A p \in Pids : Exited(p) => Exited(p)'
    BY OtherStepAside, OtherStepExited
  <1>2. CASE th'[t].pc \notin Mid
    BY <1>1, <1>2, AsideSingle
  <1>3. CASE /\ CreateCheck(t) /\ ~Live(th[t].name)
             /\ th'[t].pc = "spawn" /\ th'[t].name = th[t].name
    <2> USE DEF SingleInv, Aside, Moves, Making, Mid
    <2>1. \A s \in Threads : th[s].name = th[t].name => th[s].pc \notin Mid
      BY <1>3 DEF CreateCheck, MidCreate
    <2>2. registry[th[t].name] = NoPid /\ registry' = registry
      BY <1>1, <1>3 DEF Live
    <2>3. \A s \in Threads \ {t} : th'[s] = th[s]
      BY <1>1
    <2>4. MidApart'
      BY <1>3, <2>1, <2>3 DEF MidApart
    <2>5. MidUnlisted' /\ MakerListed'
      BY <1>3, <2>2, <2>3 DEF MidUnlisted, MakerListed
    <2>6. ReaperListed' /\ Ended'
      BY <1>1 DEF ReaperListed, Ended
    <2>7. Accounted'
      BY <1>1 DEF Accounted
    <2> QED
      BY <2>4, <2>5, <2>6, <2>7
  <1> QED
    BY <1>2, <1>3, OtherStepLabel

(* Requests, the job's own steps and ends move a thread without making.    *)
LEMMA EndsSingle ==
  ASSUME TypeInv, TypeInv', ListInv, SingleInv, NEW t \in Threads,
         RestoreEnds(t) \/ (UpdateEnds /\ t = Worker)
  PROVE  SingleInv'
  <1>1. /\ Finish(t) /\ th[t].pc \in {"pick", "fleet"}
        /\ UNCHANGED <<registry, childVars>>
    BY DEF RestoreEnds, UpdateEnds, At
  <1>2. Moves(t) /\ th'[t].pc = "idle"
    BY <1>1, FinishIs
  <1>3. Aside(t) /\ \A p \in Pids : Exited(p) => Exited(p)'
    BY <1>1, <1>2 DEF Aside, Making, childVars, Exited
  <1> QED
    BY <1>2, <1>3, AsideSingle DEF Mid

LEMMA BeginsSingle ==
  ASSUME TypeInv, TypeInv', ListInv, SingleInv, NEW t \in Threads,
         th[t].pc \in {"idle", "seed", "fleet"}, th'[t].pc \notin Mid \cup Making,
         \A s \in Threads \ {t} : th'[s] = th[s], UNCHANGED <<registry, childVars>>
  PROVE  SingleInv'
  <1>1. Aside(t) /\ \A p \in Pids : Exited(p) => Exited(p)'
    BY DEF Aside, Moves, Making, childVars, Exited
  <1> QED
    BY <1>1, AsideSingle

LEMMA RequestSingle ==
  ASSUME TypeInv, TypeInv', ListInv, SingleInv, NEW t \in Threads, Request(t)
  PROVE  SingleInv'
  <1> USE DEF Mid, Making
  <1>1. CASE UpdateRequest(t)
    <2>1. Worker \in Threads /\ th[Worker].pc = "idle"
      BY <1>1 DEF UpdateRequest, ListInv, Quiet, Threads
    <2>2. /\ th'[Worker].pc = "seed" /\ \A s \in Threads \ {Worker} : th'[s] = th[s]
          /\ UNCHANGED <<registry, childVars>>
      BY <1>1, <2>1 DEF UpdateRequest, Idle, TypeInv, TypeOK
    <2> QED
      BY <2>1, <2>2, BeginsSingle
  <1>2. CASE ~UpdateRequest(t)
    <2> DEFINE begins ==
                 /\ th[t].pc = "idle" /\ th'[t].pc \in {"live", "check", "forget", "job", "tint"}
                 /\ \A s \in Threads \ {t} : th'[s] = th[s]
    <2>1. begins
      <3>1. CASE RestoreRequest(t)
        BY <3>1 DEF RestoreRequest, Free, At, Enter, Idle, TypeInv, TypeOK
      <3>2. ASSUME NEW n \in Names, CreateRequest(t, n) \/ RestartRequest(t, n)
            PROVE  begins
        BY ZenonT(60), <3>2 DEF CreateRequest, RestartRequest, Free, At, Enter, Idle, TypeInv, TypeOK
      <3>3. ASSUME NEW n \in Names, DeleteRequest(t, n)
            PROVE  begins
        BY <3>3 DEF DeleteRequest, Free, At, Idle, TypeInv, TypeOK
      <3>4. ASSUME NEW n \in Names, NEW m \in BOOLEAN, MarkRequest(t, n, m)
            PROVE  begins
        BY <3>4 DEF MarkRequest, Free, At, Idle, TypeInv, TypeOK
      <3> QED
        BY <1>2, <3>1, <3>2, <3>3, <3>4 DEF Request
    <2>2. UNCHANGED <<registry, childVars>>
      BY <1>2
      DEF Request, RestoreRequest, CreateRequest, DeleteRequest, RestartRequest, MarkRequest,
          agentVars
    <2> QED
      BY <2>1, <2>2, BeginsSingle
  <1> QED
    BY <1>1, <1>2

LEMMA WorkerSingle ==
  ASSUME TypeInv, TypeInv', ListInv, SingleInv, WorkerStep
  PROVE  SingleInv'
  <1>1. Worker \in Threads
    BY DEF Threads
  <1>2. CASE UpdateEnds
    BY <1>1, <1>2, EndsSingle
  <1>3. CASE ~UpdateEnds
    <2>1. UNCHANGED <<registry, childVars>>
      BY <1>3 DEF WorkerStep, UpdateRestores, UpdateSeeds, UpdateNext, agentVars
    <2> DEFINE goes ==
                 /\ th[Worker].pc \in {"seed", "fleet"}
                 /\ th'[Worker].pc \in {"live", "fleet", "lookup"}
                 /\ \A s \in Threads \ {Worker} : th'[s] = th[s]
    <2>2. goes
      <3>1. CASE UpdateRestores
        BY <1>1, <3>1 DEF UpdateRestores, At, Enter, Idle, TypeInv, TypeOK
      <3>2. ASSUME NEW S \in SUBSET Names, UpdateSeeds(S)
            PROVE  goes
        BY <1>1, <3>2 DEF UpdateSeeds, At, TypeInv, TypeOK, Thread
      <3>3. ASSUME NEW n \in Names, UpdateNext(n)
            PROVE  goes
        BY <1>1, <3>3 DEF UpdateNext, At, TypeInv, TypeOK, Thread
      <3> QED
        BY <1>3, <3>1, <3>2, <3>3 DEF WorkerStep
    <2> QED
      BY <1>1, <2>1, <2>2, BeginsSingle DEF Mid, Making
  <1> QED
    BY <1>2, <1>3

-----------------------------------------------------------------------------
(* create's three steps, the reapers and the children.                     *)
LEMMA SpawnSingle ==
  ASSUME TypeInv, TypeInv', ListInv, SingleInv, NEW t \in Threads, NEW p \in Pids,
         CreateSpawn(t, p)
  PROVE  SingleInv'
  <1> USE DEF SingleInv, Making, Mid
  <1>1. /\ th[t].pc = "spawn" /\ Fresh(p) /\ registry' = registry /\ reaper' = reaper
        /\ th'[t].pc = "insert" /\ th'[t].held = p /\ th'[t].name = th[t].name
        /\ \A s \in Threads \ {t} : th'[s] = th[s]
    BY DEF CreateSpawn, At, agentVars, TypeInv, TypeOK, Thread
  <1>2. /\ \A q \in Pids \ {p} : child'[q] = child[q] /\ owner'[q] = owner[q]
        /\ reaper[p] = "none"
    BY <1>1 DEF CreateSpawn, Fresh, ListInv, ReaperHolds, TypeInv, TypeOK
  <1>3. MidApart'
    BY <1>1 DEF MidApart
  <1>4. MidUnlisted' /\ MakerListed'
    BY <1>1 DEF MidUnlisted, MakerListed
  <1>5. ReaperListed' /\ Ended'
    BY <1>1, <1>2 DEF ReaperListed, Ended, Exited
  <1>6. Accounted'
    <2>1. ASSUME NEW q \in Pids \ {p}, owner'[q] # NoName
          PROVE  \/ reaper'[q] # "none"
                 \/ \E s \in Threads : th'[s].pc \in Making /\ th'[s].held = q
      BY <1>1, <1>2, <2>1 DEF Accounted
    <2> QED
      BY <1>1, <2>1 DEF Accounted
  <1> QED
    BY <1>3, <1>4, <1>5, <1>6

LEMMA InsertSingle ==
  ASSUME TypeInv, TypeInv', ListInv, SingleInv, NEW t \in Threads, CreateInsert(t)
  PROVE  SingleInv'
  <1> USE DEF SingleInv, Making, Mid
  <1> DEFINE n == th[t].name
             p == th[t].held
  <1>1. /\ th[t].pc = "insert" /\ UNCHANGED childVars /\ n \in Names /\ p \in Pids
        /\ registry' = [registry EXCEPT ![n] = p]
        /\ th'[t].pc = "record" /\ th'[t].name = n /\ th'[t].held = p
        /\ \A s \in Threads \ {t} : th'[s] = th[s]
    BY GotoIs DEF CreateInsert, At, TypeInv, Placed, NameLabel, Label
  <1>2. /\ registry'[n] = p /\ registry[n] = NoPid
        /\ \A m \in Names \ {n} : registry'[m] = registry[m]
    BY <1>1 DEF TypeInv, TypeOK, MidUnlisted
  <1>3. \A s \in Threads : th[s].pc \in {"spawn", "insert", "record"} =>
          th[s].name \in Names /\ (th[s].pc = "record" => th[s].held \in Pids)
    BY DEF TypeInv, Placed, NameLabel, Label
  <1>4. MidApart'
    BY <1>1 DEF MidApart
  <1>5. MidUnlisted'
    <2>1. \A s \in Threads \ {t} : th[s].pc \in Mid => th[s].name # n
      BY <1>1 DEF MidApart
    <2> QED
      BY <1>1, <1>2, <1>3, <2>1 DEF MidUnlisted
  <1>6. MakerListed'
    <2>1. \A s \in Threads : th[s].pc = "record" => th[s].name # n
      BY <1>2, <1>3, NoneAssumption DEF MakerListed
    <2> QED
      BY <1>1, <1>2, <1>3, <2>1 DEF MakerListed
  <1>7. ReaperListed'
    <2>1. \A q \in Pids : reaper[q] \in {"wait", "unregister"} =>
            owner[q] \in Names /\ owner[q] # n
      BY <1>2, NoneAssumption DEF ReaperListed, ListInv, ReaperHolds
    <2> QED
      BY <1>1, <1>2, <2>1 DEF ReaperListed, childVars
  <1>8. Ended' /\ Accounted'
    BY <1>1 DEF Ended, Accounted, Exited, childVars
  <1> QED
    BY <1>4, <1>5, <1>6, <1>7, <1>8

LEMMA RecordSingle ==
  ASSUME TypeInv, TypeInv', ListInv, SingleInv, NEW t \in Threads, CreateRecord(t)
  PROVE  SingleInv'
  <1> USE DEF SingleInv, Making, Mid
  <1> DEFINE p == th[t].held
  <1>1. /\ th[t].pc = "record" /\ p \in Pids /\ owner[p] = th[t].name
        /\ UNCHANGED <<registry, child, owner>>
        /\ reaper'[p] = "wait" /\ \A q \in Pids \ {p} : reaper'[q] = reaper[q]
    BY DEF CreateRecord, At, agentVars, TypeInv, TypeOK, Placed, ListInv, MakerHolds
  <1>2. th'[t].pc \notin Mid \cup Making /\ \A s \in Threads \ {t} : th'[s] = th[s]
    BY GotoIs, NextItemIs, NextItemLabel DEF CreateRecord, Moves
  <1>3. MidApart' /\ MidUnlisted' /\ MakerListed'
    BY <1>1, <1>2 DEF MidApart, MidUnlisted, MakerListed
  <1>4. ReaperListed'
    BY <1>1 DEF ReaperListed, MakerListed
  <1>5. Ended'
    BY <1>1 DEF Ended, Exited
  <1>6. Accounted'
    BY <1>1, <1>2 DEF Accounted
  <1> QED
    BY <1>3, <1>4, <1>5, <1>6

LEMMA ReaperSingle ==
  ASSUME TypeInv, TypeInv', ListInv, SingleInv, NEW p \in Pids, ReaperStep(p)
  PROVE  SingleInv'
  <1> USE DEF SingleInv, Making, Mid
  <1>1. /\ th' = th /\ owner[p] \in Names
        /\ reaper[p] \in {"wait", "unregister", "consume", "forget"}
        /\ \A q \in Pids \ {p} : /\ reaper'[q] = reaper[q]
                                 /\ child'[q] = child[q]
                                 /\ owner'[q] = owner[q]
    BY DEF ReaperStep, ReaperWaits, ReaperUnregisters, ReaperConsumes,
           ReaperForgets, ReaperEnds, agentVars, TypeInv, TypeOK, ListInv, ReaperHolds
  <1>2. MidApart'
    BY <1>1 DEF MidApart
  <1>3. Accounted'
    <2>1. reaper'[p] # "none" \/ owner'[p] = NoName
      BY DEF ReaperStep, ReaperWaits, ReaperUnregisters, ReaperConsumes,
             ReaperForgets, ReaperEnds, TypeInv, TypeOK
    <2> QED
      BY <1>1, <2>1 DEF Accounted
  <1>4. Ended'
    <2>1. reaper'[p] # "none" => child'[p] = child[p]
      BY DEF ReaperStep, ReaperWaits, ReaperUnregisters, ReaperConsumes,
             ReaperForgets, ReaperEnds, TypeInv, TypeOK
    <2>2. reaper'[p] # "none" => Exited(p)
      BY DEF ReaperStep, ReaperWaits, ReaperUnregisters, ReaperConsumes,
             ReaperForgets, ReaperEnds, TypeInv, TypeOK, Ended
    <2> QED
      BY <1>1, <2>1, <2>2 DEF Ended, Exited
  <1>5. CASE ReaperUnregisters(p)
    <2> DEFINE n == owner[p]
    <2>1. /\ registry'[n] = NoPid /\ registry[n] = p /\ owner' = owner
          /\ \A m \in Names \ {n} : registry'[m] = registry[m]
          /\ reaper'[p] = "consume"
      BY <1>1, <1>5 DEF ReaperUnregisters, ReaperListed, TypeInv, TypeOK
    <2>2. \A s \in Threads : th[s].pc \in {"spawn", "insert", "record"} => th[s].name \in Names
      BY DEF TypeInv, Placed, NameLabel, Label
    <2>3. MidUnlisted'
      BY <1>1, <2>1, <2>2 DEF MidUnlisted
    <2>4. MakerListed'
      <3>1. \A s \in Threads : th[s].pc = "record" => th[s].held # p
        BY <1>1 DEF ListInv, MakerHolds
      <3>2. \A s \in Threads : th[s].pc = "record" => th[s].name # n
        BY <2>1, <3>1 DEF MakerListed
      <3> QED
        BY <1>1, <2>1, <2>2, <3>2 DEF MakerListed
    <2>5. ReaperListed'
      <3>1. \A q \in Pids \ {p} : reaper[q] \in {"wait", "unregister"} =>
              owner[q] \in Names /\ owner[q] # n
        BY <2>1 DEF ReaperListed, ListInv, ReaperHolds
      <3> QED
        BY <1>1, <2>1, <3>1 DEF ReaperListed
    <2> QED
      BY <1>2, <1>3, <1>4, <2>3, <2>4, <2>5
  <1>6. CASE ~ReaperUnregisters(p)
    <2>1. registry' = registry
      BY <1>6 DEF ReaperStep, ReaperWaits, ReaperConsumes, ReaperForgets, agentVars
    <2>2. reaper'[p] \in {"wait", "unregister"} =>
            reaper[p] \in {"wait", "unregister"} /\ owner'[p] = owner[p]
      BY <1>6 DEF ReaperStep, ReaperWaits, ReaperConsumes, ReaperForgets, ReaperEnds,
                  TypeInv, TypeOK
    <2>3. MidUnlisted' /\ MakerListed' /\ ReaperListed'
      BY <1>1, <2>1, <2>2 DEF MidUnlisted, MakerListed, ReaperListed
    <2> QED
      BY <1>2, <1>3, <1>4, <2>3
  <1> QED
    BY <1>5, <1>6

LEMMA ChildSingle ==
  ASSUME TypeInv, SingleInv, NEW p \in Pids, ChildStep(p)
  PROVE  SingleInv'
  <1>1. UNCHANGED <<registry, owner, reaper, th>>
    BY DEF ChildStep, UserExits, ObeysExit, ChildDies, agentVars
  <1>2. \A q \in Pids : Exited(q) => Exited(q)'
    BY DEF ChildStep, UserExits, ObeysExit, ChildDies, Exited, TypeInv, TypeOK
  <1> QED
    BY <1>1, <1>2
    DEF SingleInv, MidApart, MidUnlisted, MakerListed, ReaperListed, Accounted, Ended

LEMMA NextSingle ==
  ASSUME TypeInv, TypeInv', ListInv, SingleInv, SerialCreate, [Next]_vars
  PROVE  SingleInv'
  <1>1. ASSUME NEW t \in Threads, ThreadStep(t)
        PROVE  SingleInv'
    <2>1. CASE OtherStep(t)
      BY <2>1, OtherStepSingle
    <2>2. CASE RestoreEnds(t)
      BY <2>2, EndsSingle
    <2>3. CASE (\E p \in Pids : CreateSpawn(t, p)) \/ CreateInsert(t) \/ CreateRecord(t)
      BY <2>3, SpawnSingle, InsertSingle, RecordSingle
    <2> QED
      BY <1>1, <2>1, <2>2, <2>3 DEF ThreadStep, OtherStep
  <1>2. CASE AgentStops
    BY <1>2
    DEF AgentStops, Idle, SingleInv, MidApart, MidUnlisted, MakerListed, ReaperListed,
        Accounted, Ended, Mid, Making
  <1>3. CASE AgentBoots
    <2>1. Main \in Threads /\ th[Main].pc = "idle" /\ UNCHANGED <<registry, childVars>>
      BY <1>3 DEF AgentBoots, ListInv, Quiet, Threads
    <2>2. th'[Main].pc \in {"idle", "live"} /\ \A s \in Threads \ {Main} : th'[s] = th[s]
      BY <1>3, <2>1 DEF AgentBoots, Enter, Idle, TypeInv, TypeOK
    <2> QED
      BY <2>1, <2>2, BeginsSingle DEF Mid, Making
  <1>4. CASE UNCHANGED vars
    BY <1>4
    DEF vars, SingleInv, MidApart, MidUnlisted, MakerListed, ReaperListed, Accounted, Ended,
        Exited
  <1> QED
    BY <1>1, <1>2, <1>3, <1>4, RequestSingle, WorkerSingle, ReaperSingle, ChildSingle DEF Next

(* When creates of one name do not overlap, a session never has two        *)
(* processes that are alive, however requests, the update job, startup,    *)
(* reapers and launches that fail interleave.                              *)
THEOREM SingleSafe ==
  ASSUME SerialCreate
  PROVE  Spec => []OneProcessPerSession
  <1>1. Init => ListInv /\ SingleInv
    BY InitList, InitSingle
  <1>2. TypeInv /\ TypeInv' /\ ListInv /\ SingleInv /\ [Next]_vars => ListInv' /\ SingleInv'
    BY NextList, NextSingle
  <1>3. TypeInv /\ ListInv /\ SingleInv => OneProcessPerSession
    BY SingleSuffices
  <1> QED
    BY <1>1, <1>2, <1>3, TypeCorrect, PTL DEF Spec

-----------------------------------------------------------------------------
(***************************************************************************)
(* What the manifest says of a session when requests come one at a time:   *)
(* a session nobody ended stays in it, through every restart, update job,  *)
(* crash and redeploy (KeptSafe), one created again is in it again         *)
(* (RecreatedSafe), and the mark it would bring back is the one that shows *)
(* (MarksSafe).                                                            *)
(*                                                                         *)
(* An entry is removed by a delete, which is the user's word, and by the   *)
(* reaper of a process that exited cleanly without a marker.  So the proof *)
(* is about the excuse a clean exit has: the user has left the session, or *)
(* its name is marked and the thread that asked for the exit has not come  *)
(* to the point where it takes the marker away (Excused).                  *)
(***************************************************************************)

(* Requests are served one at a time.                                      *)
OneRequest == \A s, t \in Clients : s = t

-----------------------------------------------------------------------------
(* Moves of a thread, with the operation it runs and what it holds.        *)
Others(t) == \A s \in Threads \ {t} : th'[s] = th[s]

LEMMA GotoMove ==
  ASSUME TypeInv, NEW t \in Threads, NEW l, Goto(t, l)
  PROVE  /\ th'[t].pc = l /\ th'[t].op = th[t].op /\ th'[t].name = th[t].name
         /\ th'[t].held = th[t].held /\ th'[t].mark = th[t].mark
         /\ Others(t)
  BY DEF Goto, Others, TypeInv, TypeOK, Thread

LEMMA FinishMove ==
  ASSUME TypeInv, NEW t \in Threads, Finish(t)
  PROVE  /\ th'[t].pc = "idle" /\ th'[t].op = "none" /\ th'[t].name = NoName
         /\ Others(t)
  BY DEF Finish, Idle, Others, TypeInv, TypeOK

LEMMA EnterMove ==
  ASSUME TypeInv, NEW t \in Threads, NEW o, NEW n, NEW l, Enter(t, o, n, l)
  PROVE  /\ th'[t].pc = l /\ th'[t].op = o /\ th'[t].name = n /\ th'[t].held = NoPid
         /\ Others(t)
  BY DEF Enter, Idle, Others, TypeInv, TypeOK

(* Where a loop or a request goes when one session is done.                *)
Passes(t) ==
  /\ th'[t].name = NoName
  /\ \/ th'[t].pc = "idle" /\ th'[t].op = "none"
     \/ th'[t].pc = "fleet" /\ th'[t].op = "update" /\ th[t].op = "update"
     \/ th'[t].pc = "pick" /\ th'[t].op = "restore" /\ th[t].op = "restore"
  /\ Others(t)

LEMMA NextItemMove ==
  ASSUME TypeInv, NEW t \in Threads, NextItem(t)
  PROVE  Passes(t)
  BY DEF NextItem, Idle, Passes, Others, TypeInv, TypeOK

LEMMA RestartEndsMove ==
  ASSUME TypeInv, NEW t \in Threads, RestartEnds(t)
  PROVE  \/ /\ th[t].op = "restart" /\ th'[t].op = "restart"
            /\ th'[t].pc = "release" /\ th'[t].name = th[t].name
            /\ Others(t)
         \/ Passes(t)
  BY GotoMove, NextItemMove DEF RestartEnds

-----------------------------------------------------------------------------
(* Which operation is at which label, and whose it is.                     *)
OpFit(t) ==
  /\ th[t].pc = "idle" => th[t].op = "none"
  /\ th[t].pc \in {"job", "reserve", "release"} => th[t].op = "restart"
  /\ th[t].pc \in {"lookup", "snapshot", "remark", "exit", "graceful", "forced"} =>
       th[t].op \in {"restart", "update"}
  /\ th[t].pc \in {"seed", "fleet"} => th[t].op = "update"
  /\ th[t].pc \in {"live", "entries", "pick"} => th[t].op = "restore"
  /\ th[t].pc \in {"forget", "signal"} => th[t].op = "delete"
  /\ th[t].op \in {"create", "delete", "restart"} => t \in Clients
  /\ th[t].op = "update" => t = Worker
  /\ th[t].op = "restart" /\ th[t].pc # "job" => ~job

OpsFit == \A t \in Threads : OpFit(t)

LEMMA OpsMove ==
  ASSUME OpsFit, NEW t \in Threads, Others(t), OpFit(t)', job' = job
  PROVE  OpsFit'
  <1>1. \A s \in Threads \ {t} : OpFit(s)'
    BY DEF OpsFit, OpFit, Others
  <1> QED
    BY <1>1 DEF OpsFit

LEMMA PassesFit ==
  ASSUME NEW t \in Threads, OpFit(t), Passes(t)
  PROVE  OpFit(t)'
  BY DEF OpFit, Passes

LEMMA StepOps ==
  ASSUME TypeInv, OpsFit, NEW t \in Threads,
         OtherStep(t) \/ (\E p \in Pids : CreateSpawn(t, p)) \/ CreateInsert(t) \/ CreateRecord(t)
  PROVE  OpsFit'
  <1> USE DEF At
  <1>0. OpFit(t) /\ th[t] \in Thread
    BY ThreadType DEF OpsFit
  <1>a. ASSUME Passes(t), job' = job PROVE OpsFit'
    BY <1>0, <1>a, PassesFit, OpsMove DEF Passes
  <1>b. ASSUME RestartEnds(t), job' = job, th[t].pc # "job" PROVE OpsFit'
    <2>1. CASE Passes(t)
      BY <1>a, <1>b, <2>1
    <2>2. CASE ~Passes(t)
      BY <1>0, <1>b, <2>2, RestartEndsMove, OpsMove DEF OpFit
    <2> QED
      BY <2>1, <2>2
  <1>1. CASE CreateCheck(t)
    <2>1. CASE Goto(t, "spawn")
      BY <1>0, <1>1, <2>1, GotoMove, OpsMove DEF CreateCheck, OpFit, agentVars
    <2>2. CASE RestartEnds(t)
      BY <1>1, <2>2, <1>b DEF CreateCheck, agentVars
    <2> QED
      BY <1>1, <2>1, <2>2 DEF CreateCheck, CreateFails
  <1>2. CASE CreateSpawnFails(t)
    BY <1>2, <1>b DEF CreateSpawnFails, CreateFails, agentVars
  <1>3. CASE ReapplyLive(t) \/ DeleteForgets(t) \/ MarkLive(t)
    BY <1>0, <1>3, GotoMove, OpsMove DEF ReapplyLive, DeleteForgets, MarkLive, OpFit, agentVars
  <1>4. CASE ReapplyEntry(t)
    BY <1>4, <1>a, NextItemMove DEF ReapplyEntry, agentVars
  <1>5. CASE DeleteSignals(t) \/ MarkEntry(t) \/ RestartReleases(t)
    BY <1>5, FinishMove, OpsMove DEF DeleteSignals, MarkEntry, RestartReleases, OpFit, agentVars
  <1>6. CASE RestartChecksJob(t) \/ RestartReserves(t)
    <2>1. CASE Finish(t)
      BY <1>6, <2>1, FinishMove, OpsMove DEF RestartChecksJob, RestartReserves, OpFit, agentVars
    <2>2. CASE ~Finish(t)
      BY <1>0, <1>6, <2>2, GotoMove, OpsMove
      DEF RestartChecksJob, RestartReserves, OpFit, agentVars
    <2> QED
      BY <2>1, <2>2
  <1>7. CASE RestartLooksUp(t)
    <2>1. CASE Live(th[t].name)
      <3>1. /\ th'[t].pc = "snapshot" /\ th'[t].op = th[t].op /\ th[t].pc = "lookup"
            /\ Others(t) /\ job' = job
        BY <1>0, <1>7, <2>1 DEF RestartLooksUp, Others, TypeInv, TypeOK, Thread, agentVars
      <3> QED
        BY <1>0, <3>1, OpsMove DEF OpFit
    <2>2. CASE ~Live(th[t].name)
      BY <1>7, <2>2, <1>b DEF RestartLooksUp, agentVars
    <2> QED
      BY <2>1, <2>2
  <1>8. CASE RestartSnapshots(t)
    <2>1. /\ th'[t].pc = "remark" /\ th'[t].op = th[t].op /\ th[t].pc = "snapshot"
          /\ Others(t) /\ job' = job
      BY <1>0, <1>8 DEF RestartSnapshots, Others, TypeInv, TypeOK, Thread, agentVars
    <2> QED
      BY <1>0, <2>1, OpsMove DEF OpFit
  <1>9. CASE RestartMarks(t) \/ RestartTypesExit(t) \/ RestartSeesGone(t) \/ RestartGracePasses(t)
    <2>1. \E l \in {"exit", "graceful", "check", "forced"} : Goto(t, l)
      BY <1>9 DEF RestartMarks, RestartTypesExit, RestartSeesGone, RestartGracePasses
    <2>2. /\ th[t].pc \in {"remark", "exit", "graceful", "forced"}
          /\ job' = job
      BY <1>9 DEF RestartMarks, RestartTypesExit, RestartSeesGone, RestartGracePasses, agentVars
    <2>3. /\ th'[t].pc \in {"exit", "graceful", "check", "forced"}
          /\ th'[t].op = th[t].op /\ Others(t)
      BY <2>1, GotoMove
    <2> QED
      BY <1>0, <2>2, <2>3, OpsMove DEF OpFit
  <1>10. CASE RestartGivesUp(t)
    BY <1>10, <1>b DEF RestartGivesUp
  <1>11. CASE RestoreReadsLive(t) \/ RestoreReadsEntries(t)
              \/ \E n \in Names : RestoreCreates(t, n) \/ RestoreSkips(t, n)
    <2> DEFINE moves ==
                /\ th[t].pc \in {"live", "entries", "pick"} /\ th'[t].op = th[t].op
                /\ th'[t].pc \in {"entries", "pick", "check"}
                /\ Others(t) /\ job' = job
    <2>1. moves
      <3>1. CASE RestoreReadsLive(t) \/ RestoreReadsEntries(t)
        BY <1>0, <3>1 DEF RestoreReadsLive, RestoreReadsEntries, Others, TypeInv, TypeOK, Thread,
                          agentVars
      <3>2. ASSUME NEW n \in Names, RestoreCreates(t, n) \/ RestoreSkips(t, n)
            PROVE  moves
        BY <1>0, <3>2 DEF RestoreCreates, RestoreSkips, Others, TypeInv, TypeOK, Thread, agentVars
      <3> QED
        BY <1>11, <3>1, <3>2
    <2> QED
      BY <1>0, <2>1, OpsMove DEF OpFit
  <1>12. CASE \E p \in Pids : CreateSpawn(t, p)
    <2>0. PICK p \in Pids : CreateSpawn(t, p)
      BY <1>12
    <2>1. /\ th[t].pc = "spawn" /\ th'[t].op = th[t].op /\ th'[t].pc = "insert"
          /\ Others(t) /\ job' = job
      BY <1>0, <2>0 DEF CreateSpawn, Others, TypeInv, TypeOK, Thread, agentVars
    <2> QED
      BY <1>0, <2>1, OpsMove DEF OpFit
  <1>13. CASE CreateInsert(t)
    BY <1>0, <1>13, GotoMove, OpsMove DEF CreateInsert, OpFit
  <1>14. CASE CreateRecord(t)
    <2>1. CASE th[t].mark
      BY <1>0, <1>14, <2>1, GotoMove, OpsMove DEF CreateRecord, OpFit, agentVars
    <2>2. CASE ~th[t].mark
      BY <1>14, <2>2, <1>a, NextItemMove DEF CreateRecord, agentVars
    <2> QED
      BY <2>1, <2>2
  <1> QED
    BY <1>1, <1>2, <1>3, <1>4, <1>5, <1>6, <1>7, <1>8, <1>9, <1>10, <1>11, <1>12, <1>13, <1>14
    DEF OtherStep

LEMMA EndsOps ==
  ASSUME TypeInv, ListInv, OpsFit, NEW t \in Threads,
         RestoreEnds(t) \/ (UpdateEnds /\ t = Worker)
  PROVE  OpsFit'
  <1>1. /\ th'[t].pc = "idle" /\ th'[t].op = "none" /\ Others(t)
        /\ job' \in {job, FALSE}
    BY FinishMove DEF RestoreEnds, UpdateEnds
  <1>2. \A s \in Threads \ {t} : OpFit(s)'
    BY <1>1 DEF OpsFit, OpFit, Others, TypeInv, TypeOK
  <1>3. OpFit(t)'
    BY <1>1 DEF OpFit
  <1> QED
    BY <1>2, <1>3 DEF OpsFit

LEMMA RequestOps ==
  ASSUME TypeInv, ListInv, OpsFit, OneRequest, NEW t \in Threads, Request(t)
  PROVE  OpsFit'
  <1>0. t \in Clients /\ th[t].pc = "idle" /\ th[t].op = "none"
    BY DEF Request, RestoreRequest, UpdateRequest, CreateRequest, DeleteRequest, RestartRequest,
           MarkRequest, Free, At, OpsFit, OpFit
  <1>1. CASE UpdateRequest(t)
    <2>1. /\ th'[Worker].pc = "seed" /\ th'[Worker].op = "update"
          /\ \A s \in Threads \ {Worker} : th'[s] = th[s]
      BY <1>1 DEF UpdateRequest, Idle, TypeInv, TypeOK, Threads
    <2>2. \A s \in Threads : th[s].op # "restart"
      BY <1>0 DEF OpsFit, OpFit, OneRequest
    <2>3. OpFit(Worker)'
      BY <2>1 DEF OpFit
    <2>4. \A s \in Threads \ {Worker} : OpFit(s)'
      BY <2>1, <2>2 DEF OpFit, OpsFit
    <2> QED
      BY <2>3, <2>4 DEF OpsFit
  <1>2. CASE ~UpdateRequest(t)
    <2> DEFINE moves ==
                /\ \/ th'[t].pc = "live" /\ th'[t].op = "restore"
                   \/ th'[t].pc = "check" /\ th'[t].op = "create"
                   \/ th'[t].pc = "forget" /\ th'[t].op = "delete"
                   \/ th'[t].pc = "job" /\ th'[t].op = "restart"
                   \/ th'[t].pc = "tint" /\ th'[t].op = "mark"
                /\ Others(t) /\ job' = job
    <2>1. moves
      <3>1. CASE RestoreRequest(t) \/ \E n \in Names : CreateRequest(t, n) \/ RestartRequest(t, n)
        BY <3>1, EnterMove DEF RestoreRequest, CreateRequest, RestartRequest, agentVars
      <3>2. ASSUME NEW n \in Names, DeleteRequest(t, n)
            PROVE  moves
        BY <3>2 DEF DeleteRequest, Others, Idle, TypeInv, TypeOK, agentVars
      <3>3. ASSUME NEW n \in Names, NEW m \in BOOLEAN, MarkRequest(t, n, m)
            PROVE  moves
        BY <3>3 DEF MarkRequest, Others, Idle, TypeInv, TypeOK, agentVars
      <3> QED
        BY <1>2, <3>1, <3>2, <3>3 DEF Request
    <2> QED
      BY <1>0, <2>1, OpsMove DEF OpFit
  <1> QED
    BY <1>1, <1>2

LEMMA WorkerOps ==
  ASSUME TypeInv, ListInv, OpsFit, WorkerStep
  PROVE  OpsFit'
  <1>0. Worker \in Threads /\ OpFit(Worker) /\ Worker \notin Clients
    BY ThreadAssumption DEF OpsFit, Threads
  <1>1. CASE UpdateEnds
    BY <1>0, <1>1, EndsOps
  <1>2. CASE UpdateRestores
    <2>1. th'[Worker].pc = "live" /\ th'[Worker].op = "restore" /\ Others(Worker) /\ job' = job
      BY <1>0, <1>2, EnterMove DEF UpdateRestores, agentVars
    <2> QED
      BY <1>0, <2>1, OpsMove DEF OpFit
  <1>3. CASE (\E S \in SUBSET Names : UpdateSeeds(S)) \/ \E n \in Names : UpdateNext(n)
    <2> DEFINE moves ==
                /\ th[Worker].pc \in {"seed", "fleet"} /\ th'[Worker].op = th[Worker].op
                /\ th'[Worker].pc \in {"fleet", "lookup"}
                /\ Others(Worker) /\ job' = job
    <2>1. moves
      <3>1. ASSUME NEW S \in SUBSET Names, UpdateSeeds(S)
            PROVE  moves
        BY <1>0, <3>1 DEF UpdateSeeds, At, Others, TypeInv, TypeOK, Thread, agentVars
      <3>2. ASSUME NEW n \in Names, UpdateNext(n)
            PROVE  moves
        BY <1>0, <3>2 DEF UpdateNext, At, Others, TypeInv, TypeOK, Thread, agentVars
      <3> QED
        BY <1>3, <3>1, <3>2
    <2> QED
      BY <1>0, <2>1, OpsMove DEF OpFit
  <1> QED
    BY <1>1, <1>2, <1>3 DEF WorkerStep

LEMMA NextOps ==
  ASSUME TypeInv, ListInv, OpsFit, OneRequest, [Next]_vars
  PROVE  OpsFit'
  <1>1. ASSUME NEW t \in Threads, ThreadStep(t)
        PROVE  OpsFit'
    BY <1>1, StepOps, EndsOps DEF ThreadStep, OtherStep
  <1>2. ASSUME UNCHANGED <<th, job>> PROVE OpsFit'
    BY <1>2 DEF OpsFit, OpFit
  <1>3. CASE \E p \in Pids : ReaperStep(p) \/ ChildStep(p)
    BY <1>2, <1>3 DEF ReaperStep, ReaperWaits, ReaperUnregisters, ReaperConsumes, ReaperForgets,
      ChildStep, UserExits, ObeysExit, ChildDies, agentVars
  <1>4. CASE AgentStops
    BY <1>4 DEF AgentStops, Idle, OpsFit, OpFit
  <1>5. CASE AgentBoots
    <2>1. Main \in Threads /\ Main \notin Clients
      BY ThreadAssumption DEF Threads
    <2>2. CASE Enter(Main, "restore", NoName, "live")
      <3>1. th'[Main].pc = "live" /\ th'[Main].op = "restore" /\ Others(Main) /\ job' = job
        BY <1>5, <2>1, <2>2, EnterMove DEF AgentBoots
      <3> QED
        BY <2>1, <3>1, OpsMove DEF OpFit
    <2> QED
      BY <1>2, <1>5, <2>2 DEF AgentBoots
  <1>6. CASE UNCHANGED vars
    BY <1>2, <1>6 DEF vars
  <1> QED
    BY <1>1, <1>3, <1>4, <1>5, <1>6, RequestOps, WorkerOps DEF Next

(* Of a restart under way and an update job there is one at a time, and    *)
(* one thread of it.                                                       *)
LEMMA OneRestarts ==
  ASSUME ListInv, OpsFit, OneRequest, NEW s \in Threads, NEW t \in Threads,
         th[s].op \in {"restart", "update"}, th[s].pc # "job",
         th[t].op \in {"restart", "update"}, th[t].pc # "job"
  PROVE  s = t
  BY DEF OpsFit, OpFit, OneRequest, ListInv, Quiet

-----------------------------------------------------------------------------
(* No two processes have one name: with prompt reapers the last one is     *)
(* quite gone before the next is spawned.                                  *)
OwnersApart == \A p, q \in Pids : owner[p] = owner[q] /\ owner[p] # NoName => p = q
Named == \A p \in Pids : child[p] # "free" => owner[p] \in Names

(* The labels between a restart's or a delete's look at the list and the   *)
(* end of what it does with the process it found.                          *)
Stops == {"snapshot", "remark", "exit", "graceful", "forced", "check", "spawn",
          "forget", "signal"}

(* A process that exits cleanly, or has, and whose reaper has yet to judge *)
(* it; and the thread that asked it to and waits for its end.              *)
Pending(p) == child[p] = "asked" \/ (child[p] = "ok" /\ reaper[p] # "forget")
Asks(t, p) ==
  /\ th[t].op \in {"restart", "update"}
  /\ th[t].pc \in {"graceful", "check", "spawn"}
  /\ th[t].held = p
  /\ th[t].name = owner[p]

(* What a thread holds is its name's process, and one that was listed, or  *)
(* nobody's; a name is marked when its process is asked to exit; a delete  *)
(* signals what the user has left; and who goes on to create again has     *)
(* seen the process off the list.                                          *)
Fits(t) ==
  /\ /\ th[t].pc \in Stops
     /\ th[t].op \in {"restart", "update", "delete"}
     /\ th[t].held \in Pids
     => /\ owner[th[t].held] \in {th[t].name, NoName}
        /\ \A s \in Threads : th[s].pc = "insert" => th[s].held # th[t].held
  /\ /\ th[t].pc = "exit"
     /\ th[t].held \in Pids
     /\ child[th[t].held] = "running"
     => th[t].name \in restarting
  /\ th[t].pc = "signal" => ledger[th[t].name] = "left"
  /\ \A p \in Pids : Asks(t, p) /\ th[t].pc # "graceful" =>
                       reaper[p] \in {"consume", "forget"}

Excused ==
  \A p \in Pids : Pending(p) =>
    \/ ledger[owner[p]] = "left"
    \/ owner[p] \in restarting /\ \E t \in Threads : Asks(t, p)

Forgets == \A p \in Pids : reaper[p] = "forget" => ledger[owner[p]] = "left"

Kept == \A n \in Names : ledger[n] \in {"owed", "again"} => Recorded(n)

KeptInv ==
  /\ OwnersApart /\ Named
  /\ \A t \in Threads : Fits(t)
  /\ Excused /\ Forgets /\ Kept

LEMMA InitKept == Init => OpsFit /\ KeptInv
  BY DEF Init, Idle, OpsFit, OpFit, KeptInv, OwnersApart, Named, Fits, Stops, Pending, Asks,
         Excused, Forgets, Kept

(* A step of one thread that leaves the processes their names: it may ask, *)
(* mark, release or forget, provided that it spoils no excuse but its own. *)
LEMMA StepKept ==
  ASSUME TypeInv, TypeInv', ListInv, KeptInv, NEW t \in Threads, Others(t),
         th'[t] = th[t] \/ (Fits(t)' /\ th'[t].pc # "insert"),
         owner' = owner,
         \A p \in Pids : child'[p] # "free" => child[p] # "free",
         \A p \in Pids : child'[p] = "running" => child[p] = "running",
         \A p \in Pids : reaper[p] \in {"consume", "forget"} =>
                            reaper'[p] \in {"consume", "forget"},
         \A p \in Pids : reaper'[p] = "forget" => reaper[p] = "forget",
         \A n \in Names : ledger[n] = "left" => ledger'[n] = "left",
         \A s \in Threads : /\ th'[s] = th[s]
                             /\ th[s].pc = "exit"
                             /\ th[s].name \in restarting
                             => th[s].name \in restarting',
         \A p \in Pids : Pending(p)' =>
           \/ ledger'[owner[p]] = "left"
           \/ owner[p] \in restarting' /\ Asks(t, p)'
           \/ /\ Pending(p)
              /\ owner[p] \in restarting => owner[p] \in restarting'
              /\ Asks(t, p) => th'[t] = th[t],
         Kept'
  PROVE  KeptInv'
  <1> USE DEF KeptInv, Others
  <1>1. OwnersApart' /\ Named'
    BY DEF OwnersApart, Named
  <1>2. ASSUME NEW s \in Threads
        PROVE  Fits(s)'
    <2>1. CASE th'[s] = th[s]
      <3>1. \A r \in Threads : th'[r].pc = "insert" => th'[r] = th[r]
        OBVIOUS
      <3>2. th[s].pc = "signal" => th[s].name \in Names
        BY DEF TypeInv, Placed, NameLabel, Label
      <3>3. Fits(s)
        OBVIOUS
      <3>4. \A p \in Pids : Asks(s, p)' => Asks(s, p)
        BY <2>1 DEF Asks
      <3>a. /\ th'[s].pc \in Stops
            /\ th'[s].op \in {"restart", "update", "delete"}
            /\ th'[s].held \in Pids
            => /\ owner'[th'[s].held] \in {th'[s].name, NoName}
               /\ \A r \in Threads : th'[r].pc = "insert" => th'[r].held # th'[s].held
        BY <2>1, <3>1, <3>3 DEF Fits
      <3>b. /\ th'[s].pc = "exit"
            /\ th'[s].held \in Pids
            /\ child'[th'[s].held] = "running"
            => th'[s].name \in restarting'
        BY <2>1, <3>3 DEF Fits
      <3>c. th'[s].pc = "signal" => ledger'[th'[s].name] = "left"
        BY <2>1, <3>2, <3>3 DEF Fits
      <3>d. \A p \in Pids : Asks(s, p)' /\ th'[s].pc # "graceful" =>
                               reaper'[p] \in {"consume", "forget"}
        BY <2>1, <3>3, <3>4 DEF Fits
      <3> QED
        BY <3>a, <3>b, <3>c, <3>d DEF Fits
    <2>2. CASE th'[s] # th[s]
      BY <2>2
    <2> QED
      BY <2>1, <2>2
  <1>3. Excused'
    <2> SUFFICES ASSUME NEW p \in Pids, Pending(p)', ledger'[owner[p]] # "left",
                        ~(owner[p] \in restarting' /\ Asks(t, p)')
                 PROVE  owner[p] \in restarting' /\ \E s \in Threads : Asks(s, p)'
      BY DEF Excused
    <2>1. /\ Pending(p)
          /\ owner[p] \in restarting => owner[p] \in restarting'
          /\ Asks(t, p) => th'[t] = th[t]
      OBVIOUS
    <2>2. owner[p] \in Names
      BY <2>1 DEF Pending, Named
    <2>3. PICK s \in Threads : Asks(s, p) /\ owner[p] \in restarting
      BY <2>1, <2>2 DEF Excused
    <2>4. th'[s] = th[s]
      BY <2>1, <2>3
    <2>5. Asks(s, p)'
      BY <2>3, <2>4 DEF Asks
    <2> QED
      BY <2>1, <2>3, <2>5
  <1>4. Forgets'
    <2> SUFFICES ASSUME NEW p \in Pids, reaper'[p] = "forget"
                 PROVE  ledger'[owner[p]] = "left"
      BY DEF Forgets
    <2>1. reaper[p] = "forget" /\ owner[p] \in Names
      BY DEF ListInv, ReaperHolds
    <2> QED
      BY <2>1 DEF Forgets
  <1> QED
    BY <1>1, <1>2, <1>3, <1>4

(* Most moves lead off the labels between a look at the list and the end   *)
(* of what is done with what it found.                                     *)
Away(t) ==
  /\ th'[t].pc # "insert"
  /\ \/ th'[t].pc \notin Stops
     \/ th'[t].pc \in {"check", "spawn"} /\ th'[t].op \notin {"restart", "update", "delete"}

LEMMA AwayFits ==
  ASSUME NEW t, Away(t)
  PROVE  Fits(t)' /\ th'[t].pc # "insert"
  BY DEF Away, Fits, Asks, Stops

(* A step of a thread on what it holds still, which goes on as it was.     *)
LEMMA StaysFits ==
  ASSUME TypeInv, NEW t \in Threads, Fits(t), Others(t), owner' = owner,
         th[t].pc \in Stops \ {"forget", "spawn"},
         th'[t].pc \in Stops \ {"exit", "signal", "check", "spawn"},
         th'[t].op = th[t].op, th'[t].name = th[t].name, th'[t].held = th[t].held
  PROVE  Fits(t)' /\ th'[t].pc # "insert"
  <1>1. th'[t].pc # "insert"
    BY DEF Stops
  <1>2. \A s \in Threads : th'[s].pc = "insert" => th'[s] = th[s]
    BY <1>1 DEF Others
  <1>3. \A p \in Pids : Asks(t, p)' => th'[t].pc = "graceful"
    BY DEF Asks
  <1> QED
    BY <1>1, <1>2, <1>3 DEF Fits

(* A listed process is its name's, is past its insert and not yet off.     *)
LEMMA Listed ==
  ASSUME TypeInv, ListInv, NEW n \in Names, Live(n)
  PROVE  /\ registry[n] \in Pids
         /\ owner[registry[n]] = n
         /\ child[registry[n]] # "free"
         /\ reaper[registry[n]] \notin {"consume", "forget"}
         /\ \A s \in Threads : th[s].pc = "insert" => th[s].held # registry[n]
  <1>1. registry[n] \in Pids
    BY DEF Live, TypeInv, TypeOK
  <1>2. CASE owner[registry[n]] = n /\ reaper[registry[n]] \in {"wait", "unregister"}
    <2>0. child[registry[n]] # "free"
      BY <1>1, <1>2 DEF ListInv, ReaperHolds
    <2>1. \A s \in Threads : th[s].pc = "insert" => th[s].held # registry[n]
      BY <1>2 DEF ListInv, MakerHolds, Making
    <2> QED
      BY <1>1, <1>2, <2>0, <2>1
  <1>3. CASE \E t \in Threads : At(t, "record") /\ th[t].name = n /\ th[t].held = registry[n]
    <2>1. PICK t \in Threads : At(t, "record") /\ th[t].name = n /\ th[t].held = registry[n]
      BY <1>3
    <2>2. /\ owner[registry[n]] = n /\ reaper[registry[n]] = "none"
          /\ child[registry[n]] # "free"
      BY <2>1 DEF At, ListInv, MakerHolds, Making
    <2>3. \A s \in Threads : th[s].pc = "insert" => th[s].held # registry[n]
      BY <2>1 DEF At, ListInv, MakersApart, Making
    <2> QED
      BY <1>1, <2>2, <2>3
  <1> QED
    BY <1>2, <1>3 DEF ListInv, ListedIsReaped

(* So the name of a process that is off the list is on it for no other.    *)
LEMMA OffTheList ==
  ASSUME TypeInv, ListInv, OwnersApart, NEW p \in Pids, owner[p] \in Names,
         reaper[p] \in {"consume", "forget"}
  PROVE  ~Live(owner[p])
  <1> SUFFICES ASSUME Live(owner[p]) PROVE FALSE
    OBVIOUS
  <1>1. registry[owner[p]] \in Pids /\ owner[registry[owner[p]]] = owner[p]
    BY Listed
  <1>2. registry[owner[p]] = p
    BY <1>1, NoneAssumption DEF OwnersApart
  <1> QED
    BY <1>2, Listed

(* A step that leaves the processes, the markers and the user's word       *)
(* alone, of a thread that waits for nothing or goes on waiting.           *)
LEMMA PlainKept ==
  ASSUME TypeInv, TypeInv', ListInv, KeptInv, NEW t \in Threads, Others(t),
         Fits(t)' /\ th'[t].pc # "insert",
         UNCHANGED <<child, owner, reaper, restarting, ledger>>,
         \A p \in Pids : Asks(t, p) /\ Pending(p) => Asks(t, p)',
         \A n \in Names : Recorded(n) => Recorded(n)'
  PROVE  KeptInv'
  <1>1. Kept'
    BY DEF KeptInv, Kept
  <1>2. \A p \in Pids : Pending(p)' <=> Pending(p)
    BY DEF Pending
  <1>3. ASSUME NEW p \in Pids, Pending(p)'
        PROVE  \/ ledger'[owner[p]] = "left"
               \/ owner[p] \in restarting' /\ Asks(t, p)'
               \/ /\ Pending(p)
                  /\ owner[p] \in restarting => owner[p] \in restarting'
                  /\ Asks(t, p) => th'[t] = th[t]
    <2>1. Pending(p)
      BY <1>2, <1>3
    <2>2. CASE Asks(t, p) /\ owner[p] \in restarting
      BY <2>1, <2>2
    <2>3. CASE Asks(t, p) /\ owner[p] \notin restarting
      BY <2>1, <2>3 DEF KeptInv, Excused
    <2> QED
      BY <2>1, <2>2, <2>3
  <1> QED
    BY <1>1, <1>3, StepKept

(* One whose thread leaves, having waited for nothing.                     *)
LEMMA AwayKept ==
  ASSUME TypeInv, TypeInv', ListInv, KeptInv, NEW t \in Threads, Others(t), Away(t),
         UNCHANGED <<child, owner, reaper, restarting, ledger>>,
         th[t].pc \notin {"graceful", "check", "spawn"}
           \/ th[t].op \notin {"restart", "update"},
         \A n \in Names : Recorded(n) => Recorded(n)'
  PROVE  KeptInv'
  <1>1. \A p \in Pids : ~Asks(t, p)
    BY DEF Asks
  <1> QED
    BY <1>1, AwayFits, PlainKept

LEMMA RestartEndsAway ==
  ASSUME TypeInv, NEW t \in Threads, RestartEnds(t)
  PROVE  Away(t) /\ Others(t)
  BY RestartEndsMove DEF Passes, Away, Stops

LEMMA NextItemAway ==
  ASSUME TypeInv, NEW t \in Threads, NextItem(t)
  PROVE  Away(t) /\ Others(t)
  BY NextItemMove DEF Passes, Away, Stops

LEMMA FinishAway ==
  ASSUME TypeInv, NEW t \in Threads, Finish(t)
  PROVE  Away(t) /\ Others(t)
  BY FinishMove DEF Away, Stops

LEMMA WithMarkRecords ==
  ASSUME TypeInv, NEW x \in Names, NEW m, manifest' = WithMark(x, m)
  PROVE  \A n \in Names : Recorded(n) <=> Recorded(n)'
  BY DEF WithMark, Recorded, TypeInv, TypeOK

LEMMA CheckKept ==
  ASSUME TypeInv, TypeInv', ListInv, KeptInv, NEW t \in Threads, CreateCheck(t)
  PROVE  KeptInv'
  <1> DEFINE n == th[t].name
  <1>0. /\ n \in Names /\ th[t].pc = "check" /\ Fits(t)
        /\ UNCHANGED <<child, owner, reaper, restarting, ledger>>
    BY DEF CreateCheck, At, agentVars, childVars, KeptInv, TypeInv, Placed, NameLabel, Label
  <1>1. CASE ~Live(n)
    <2>1. /\ th'[t].pc = "spawn" /\ th'[t].op = th[t].op /\ th'[t].name = n
          /\ th'[t].held = th[t].held /\ Others(t) /\ manifest' = manifest
      BY <1>1, GotoMove DEF CreateCheck
    <2>2. \A s \in Threads : th'[s].pc = "insert" => th'[s] = th[s]
      BY <2>1 DEF Others
    <2>3. \A p \in Pids : Asks(t, p)' <=> Asks(t, p)
      BY <1>0, <2>1 DEF Asks
    <2>4. Fits(t)'
      BY <1>0, <2>1, <2>2, <2>3 DEF Fits, Stops
    <2> QED
      BY <1>0, <2>1, <2>3, <2>4, PlainKept DEF Recorded
  <1>2. CASE Live(n)
    <2>1. CreateFails(t)
      BY <1>2 DEF CreateCheck
    <2>2. Away(t) /\ Others(t)
      BY <2>1, RestartEndsAway DEF CreateFails
    <2>3. \A p \in Pids : ~Asks(t, p)
      <3>1. \A p \in Pids : Asks(t, p) => owner[p] = n /\ reaper[p] \in {"consume", "forget"}
        BY <1>0 DEF Fits, Asks
      <3> QED
        BY <1>0, <1>2, <3>1, OffTheList DEF KeptInv
    <2>4. \A m \in Names : Recorded(m) => Recorded(m)'
      BY <2>1 DEF CreateFails, Recorded, TypeInv, TypeOK
    <2> QED
      BY <1>0, <2>2, <2>3, <2>4, AwayFits, PlainKept
  <1> QED
    BY <1>1, <1>2

LEMMA InsertKept ==
  ASSUME TypeInv, TypeInv', ListInv, KeptInv, NEW t \in Threads, CreateInsert(t)
  PROVE  KeptInv'
  <1>1. Away(t) /\ Others(t)
    BY GotoMove DEF CreateInsert, Away, Stops
  <1> QED
    BY <1>1, AwayKept DEF CreateInsert, At, childVars, Recorded

LEMMA RecordKept ==
  ASSUME TypeInv, TypeInv', ListInv, KeptInv, NEW t \in Threads, CreateRecord(t)
  PROVE  KeptInv'
  <1> DEFINE n == th[t].name
             p == th[t].held
  <1>1. Away(t) /\ Others(t)
    <2>1. CASE th[t].mark
      BY <2>1, GotoMove DEF CreateRecord, Away, Stops
    <2>2. CASE ~th[t].mark
      BY <2>2, NextItemAway DEF CreateRecord
    <2> QED
      BY <2>1, <2>2
  <1>2. /\ th[t].pc = "record" /\ p \in Pids /\ n \in Names /\ reaper[p] = "none"
        /\ UNCHANGED <<child, owner, restarting>>
    BY DEF CreateRecord, At, agentVars, TypeInv, Placed, NameLabel, Label, ListInv, MakerHolds, Making
  <1>3. reaper'[p] = "wait" /\ \A q \in Pids \ {p} : reaper'[q] = reaper[q]
    BY <1>2 DEF CreateRecord, TypeInv, TypeOK
  <1>4. \A m \in Names : ledger[m] = "left" => ledger'[m] = "left"
    BY <1>2 DEF CreateRecord, TypeInv, TypeOK
  <1>5. Kept'
    BY <1>2 DEF CreateRecord, KeptInv, Kept, Recorded, TypeInv, TypeOK, Entry
  <1>6. \A q \in Pids : ~Asks(t, q)
    BY <1>2 DEF Asks
  <1>7. \A q \in Pids : Pending(q)' => Pending(q)
    BY <1>2, <1>3 DEF Pending
  <1>8. Fits(t)' /\ th'[t].pc # "insert"
    BY <1>1, AwayFits
  <1> QED
    BY <1>1, <1>2, <1>3, <1>4, <1>5, <1>6, <1>7, <1>8, StepKept

LEMMA ReapplyKept ==
  ASSUME TypeInv, TypeInv', ListInv, KeptInv, NEW t \in Threads,
         ReapplyLive(t) \/ ReapplyEntry(t) \/ MarkLive(t) \/ MarkEntry(t)
  PROVE  KeptInv'
  <1>1. Away(t) /\ Others(t)
    <2>1. CASE ReapplyLive(t) \/ MarkLive(t)
      BY <2>1, GotoMove DEF ReapplyLive, MarkLive, Away, Stops
    <2>2. CASE ReapplyEntry(t) \/ MarkEntry(t)
      BY <2>2, NextItemAway, FinishAway DEF ReapplyEntry, MarkEntry
    <2> QED
      BY <2>1, <2>2
  <1>2. /\ UNCHANGED <<child, owner, reaper, restarting, ledger>>
        /\ th[t].pc \in {"relive", "reentry", "tint", "stain"} /\ th[t].name \in Names
    BY DEF ReapplyLive, ReapplyEntry, MarkLive, MarkEntry, At, agentVars, childVars, TypeInv,
           Placed, NameLabel, Label
  <1>3. \A n \in Names : Recorded(n) => Recorded(n)'
    BY <1>2, WithMarkRecords DEF ReapplyLive, ReapplyEntry, MarkLive, MarkEntry, Recorded
  <1> QED
    BY <1>1, <1>2, <1>3, AwayKept

(* A delete takes the entry away on the user's word, and signals what he   *)
(* has left.                                                               *)
LEMMA DeleteForgetsKept ==
  ASSUME TypeInv, TypeInv', ListInv, OpsFit, KeptInv, NEW t \in Threads, DeleteForgets(t)
  PROVE  KeptInv'
  <1> DEFINE n == th[t].name
  <1>1. /\ th[t].pc = "forget" /\ th[t].op = "delete" /\ n \in Names /\ Fits(t)
        /\ UNCHANGED <<child, owner, reaper, restarting>>
    BY DEF DeleteForgets, At, OpsFit, OpFit, agentVars, childVars, KeptInv, TypeInv, Placed,
           NameLabel, Label
  <1>2. /\ th'[t].pc = "signal" /\ th'[t].op = "delete" /\ th'[t].name = n
        /\ th'[t].held = th[t].held /\ Others(t)
    BY <1>1, GotoMove DEF DeleteForgets
  <1>3. ledger'[n] = "left" /\ \A m \in Names : ledger'[m] # "left" =>
                                  ledger'[m] = ledger[m] /\ manifest'[m] = manifest[m]
    BY <1>1 DEF DeleteForgets, TypeInv, TypeOK
  <1>4. Fits(t)'
    <2>1. \A s \in Threads : th'[s].pc = "insert" => th'[s] = th[s]
      BY <1>2 DEF Others
    <2>2. \A p \in Pids : ~Asks(t, p)'
      BY <1>2 DEF Asks
    <2> QED
      BY <1>1, <1>2, <1>3, <2>1, <2>2 DEF Fits, Stops
  <1>5. Kept'
    BY <1>3 DEF KeptInv, Kept, Recorded
  <1>6. \A p \in Pids : ~Asks(t, p) /\ (Pending(p)' => Pending(p))
    BY <1>1 DEF Asks, Pending
  <1>7. \A m \in Names : ledger[m] = "left" => ledger'[m] = "left"
    BY <1>1 DEF DeleteForgets, TypeInv, TypeOK
  <1> QED
    BY <1>1, <1>2, <1>4, <1>5, <1>6, <1>7, StepKept

(* What asking or killing a process makes of the processes.                *)
LEMMA Signals ==
  ASSUME TypeInv, NEW q, child' \in {Asked(q), Killed(q), child}
  PROVE  /\ \A p \in Pids : child'[p] # "free" => child[p] # "free"
         /\ \A p \in Pids : child'[p] = "running" => child[p] = "running"
         /\ \A p \in Pids : child'[p] = "asked" /\ child[p] # "asked" =>
              child' = Asked(q) /\ p = q /\ child[p] = "running"
         /\ \A p \in Pids : child'[p] = "ok" => child[p] = "ok"
         /\ child' = Killed(q) /\ q \in Pids => child'[q] # "asked"
  BY DEF Asked, Killed, TypeInv, TypeOK

LEMMA DeleteSignalsKept ==
  ASSUME TypeInv, TypeInv', ListInv, OpsFit, KeptInv, NEW t \in Threads, DeleteSignals(t)
  PROVE  KeptInv'
  <1>1. /\ th[t].pc = "signal" /\ th[t].op = "delete" /\ th[t].name \in Names /\ Fits(t)
        /\ child' \in {Asked(th[t].held), Killed(th[t].held), child}
        /\ UNCHANGED <<owner, reaper, restarting, ledger, manifest>>
    BY DEF DeleteSignals, At, OpsFit, OpFit, agentVars, KeptInv, TypeInv, Placed, NameLabel, Label
  <1>2. Away(t) /\ Others(t)
    BY FinishAway DEF DeleteSignals
  <1>3. \A p \in Pids : Pending(p)' => Pending(p) \/ (p = th[t].held /\ child[p] = "running")
    BY <1>1, Signals DEF Pending
  <1>4. \A p \in Pids : p = th[t].held /\ child[p] = "running" => ledger[owner[p]] = "left"
    BY <1>1, NoneAssumption DEF Fits, Stops, KeptInv, Named
  <1>5. \A p \in Pids : ~Asks(t, p)
    BY <1>1 DEF Asks
  <1>6. Kept'
    BY <1>1 DEF KeptInv, Kept, Recorded
  <1>7. Fits(t)' /\ th'[t].pc # "insert"
    BY <1>2, AwayFits
  <1>8. /\ \A p \in Pids : child'[p] # "free" => child[p] # "free"
        /\ \A p \in Pids : child'[p] = "running" => child[p] = "running"
    BY <1>1, Signals
  <1>9. ASSUME NEW p \in Pids, Pending(p)'
        PROVE  \/ ledger'[owner[p]] = "left"
               \/ owner[p] \in restarting' /\ Asks(t, p)'
               \/ /\ Pending(p)
                  /\ owner[p] \in restarting => owner[p] \in restarting'
                  /\ Asks(t, p) => th'[t] = th[t]
    BY <1>1, <1>3, <1>4, <1>5, <1>9
  <1> QED
    BY <1>1, <1>2, <1>6, <1>7, <1>8, <1>9, StepKept

(* A restart, up to the point where it asks its process to exit.           *)
LEMMA ReservesKept ==
  ASSUME TypeInv, TypeInv', ListInv, OpsFit, KeptInv, NEW t \in Threads,
         RestartChecksJob(t) \/ RestartReserves(t)
  PROVE  KeptInv'
  <1>1. Away(t) /\ Others(t)
    <2>1. CASE Finish(t)
      BY <2>1, FinishAway
    <2>2. CASE Goto(t, "reserve") \/ Goto(t, "lookup")
      BY <2>2, GotoMove DEF Away, Stops
    <2> QED
      BY <2>1, <2>2 DEF RestartChecksJob, RestartReserves
  <1>2. /\ th[t].pc \in {"job", "reserve"}
        /\ UNCHANGED <<child, owner, reaper, ledger, manifest>>
        /\ \A n \in restarting : n \in restarting'
    BY DEF RestartChecksJob, RestartReserves, At, agentVars, childVars
  <1>3. \A p \in Pids : ~Asks(t, p) /\ (Pending(p)' => Pending(p))
    BY <1>2 DEF Asks, Pending
  <1>4. Kept' /\ Fits(t)' /\ th'[t].pc # "insert"
    BY <1>1, <1>2, AwayFits DEF KeptInv, Kept, Recorded
  <1> QED
    BY <1>1, <1>2, <1>3, <1>4, StepKept

LEMMA LooksUpKept ==
  ASSUME TypeInv, TypeInv', ListInv, OpsFit, KeptInv, NEW t \in Threads, RestartLooksUp(t)
  PROVE  KeptInv'
  <1> DEFINE n == th[t].name
  <1>1. /\ th[t].pc = "lookup" /\ n \in Names
        /\ UNCHANGED <<child, owner, reaper, restarting, ledger, manifest>>
    BY DEF RestartLooksUp, At, agentVars, childVars, TypeInv, Placed, NameLabel, Label
  <1>2. Fits(t)' /\ th'[t].pc # "insert" /\ Others(t)
    <2>1. CASE Live(n)
      <3>1. /\ th'[t].pc = "snapshot" /\ th'[t].name = n /\ th'[t].held = registry[n]
            /\ Others(t)
        BY <2>1 DEF RestartLooksUp, Others, TypeInv, TypeOK, Thread
      <3>2. \A s \in Threads : th'[s].pc = "insert" => th'[s] = th[s]
        BY <3>1 DEF Others
      <3> QED
        BY <1>1, <2>1, <3>1, <3>2, Listed DEF Fits, Asks
    <2>2. CASE ~Live(n)
      BY <2>2, RestartEndsAway, AwayFits DEF RestartLooksUp
    <2> QED
      BY <2>1, <2>2
  <1>3. \A p \in Pids : ~Asks(t, p)
    BY <1>1 DEF Asks
  <1> QED
    BY <1>1, <1>2, <1>3, PlainKept DEF Recorded

LEMMA SnapshotsKept ==
  ASSUME TypeInv, TypeInv', ListInv, OpsFit, KeptInv, NEW t \in Threads, RestartSnapshots(t)
  PROVE  KeptInv'
  <1>1. /\ th[t].pc = "snapshot" /\ Fits(t)
        /\ UNCHANGED <<child, owner, reaper, restarting, ledger, manifest>>
    BY DEF RestartSnapshots, At, agentVars, childVars, KeptInv
  <1>2. /\ th'[t].pc = "remark" /\ th'[t].op = th[t].op /\ th'[t].name = th[t].name
        /\ th'[t].held = th[t].held /\ Others(t)
    BY DEF RestartSnapshots, Others, TypeInv, TypeOK, Thread
  <1>3. Fits(t)' /\ th'[t].pc # "insert"
    BY <1>1, <1>2, StaysFits DEF Stops
  <1>4. \A p \in Pids : ~Asks(t, p)
    BY <1>1 DEF Asks
  <1> QED
    BY <1>1, <1>2, <1>3, <1>4, PlainKept DEF Recorded

LEMMA MarksKept ==
  ASSUME TypeInv, TypeInv', ListInv, OpsFit, KeptInv, NEW t \in Threads, RestartMarks(t)
  PROVE  KeptInv'
  <1>1. /\ th[t].pc = "remark" /\ Fits(t)
        /\ UNCHANGED <<child, owner, reaper, ledger, manifest>>
        /\ restarting' = restarting \cup {th[t].name}
    BY DEF RestartMarks, At, childVars, KeptInv
  <1>2. /\ th'[t].pc = "exit" /\ th'[t].op = th[t].op /\ th'[t].name = th[t].name
        /\ th'[t].held = th[t].held /\ Others(t)
    BY GotoMove DEF RestartMarks
  <1>3. Fits(t)'
    <2>1. \A s \in Threads : th'[s].pc = "insert" => th'[s] = th[s]
      BY <1>2 DEF Others
    <2>2. \A p \in Pids : ~Asks(t, p)'
      BY <1>2 DEF Asks
    <2> QED
      BY <1>1, <1>2, <2>1, <2>2 DEF Fits, Stops
  <1>4. \A p \in Pids : ~Asks(t, p) /\ (Pending(p)' => Pending(p))
    BY <1>1 DEF Asks, Pending
  <1>5. Kept'
    BY <1>1 DEF KeptInv, Kept, Recorded
  <1> QED
    BY <1>1, <1>2, <1>3, <1>4, <1>5, StepKept

LEMMA TypesExitKept ==
  ASSUME TypeInv, TypeInv', ListInv, OpsFit, KeptInv, NEW t \in Threads, RestartTypesExit(t)
  PROVE  KeptInv'
  <1>1. /\ th[t].pc = "exit" /\ th[t].op \in {"restart", "update"}
        /\ th[t].name \in Names /\ Fits(t)
        /\ child' = Asked(th[t].held)
        /\ UNCHANGED <<owner, reaper, restarting, ledger, manifest>>
    BY DEF RestartTypesExit, At, OpsFit, OpFit, agentVars, KeptInv, TypeInv, Placed, NameLabel, Label
  <1>2. /\ th'[t].pc = "graceful" /\ th'[t].op = th[t].op /\ th'[t].name = th[t].name
        /\ th'[t].held = th[t].held /\ Others(t)
    BY GotoMove DEF RestartTypesExit
  <1>3. Fits(t)' /\ th'[t].pc # "insert"
    BY <1>1, <1>2, StaysFits DEF Stops
  <1>4. \A p \in Pids : Pending(p)' => Pending(p) \/ (p = th[t].held /\ child[p] = "running")
    BY <1>1, Signals DEF Pending
  <1>5. ASSUME NEW p \in Pids, p = th[t].held, child[p] = "running"
        PROVE  owner[p] \in restarting' /\ Asks(t, p)'
    BY <1>1, <1>2, <1>5, NoneAssumption DEF Fits, Stops, Asks, KeptInv, Named
  <1>6. \A p \in Pids : ~Asks(t, p)
    BY <1>1 DEF Asks
  <1>7. Kept'
    BY <1>1 DEF KeptInv, Kept, Recorded
  <1>8. /\ \A p \in Pids : child'[p] # "free" => child[p] # "free"
        /\ \A p \in Pids : child'[p] = "running" => child[p] = "running"
    BY <1>1, Signals
  <1>9. ASSUME NEW p \in Pids, Pending(p)'
        PROVE  \/ ledger'[owner[p]] = "left"
               \/ owner[p] \in restarting' /\ Asks(t, p)'
               \/ /\ Pending(p)
                  /\ owner[p] \in restarting => owner[p] \in restarting'
                  /\ Asks(t, p) => th'[t] = th[t]
    BY <1>1, <1>4, <1>5, <1>6, <1>9
  <1> QED
    BY <1>1, <1>2, <1>3, <1>7, <1>8, <1>9, StepKept

(* wait_gone returned: the process it waited for is off the list.          *)
LEMMA SeesGoneKept ==
  ASSUME TypeInv, TypeInv', ListInv, SingleInv, OpsFit, KeptInv, NEW t \in Threads,
         RestartSeesGone(t)
  PROVE  KeptInv'
  <1> DEFINE n == th[t].name
  <1>1. /\ th[t].pc \in {"graceful", "forced"} /\ n \in Names /\ Fits(t) /\ ~Live(n)
        /\ th[t].op \in {"restart", "update"}
        /\ UNCHANGED <<child, owner, reaper, restarting, ledger, manifest>>
    BY DEF RestartSeesGone, At, agentVars, childVars, KeptInv, OpsFit, OpFit, TypeInv, Placed,
           NameLabel, Label
  <1>2. /\ th'[t].pc = "check" /\ th'[t].op = th[t].op /\ th'[t].name = n
        /\ th'[t].held = th[t].held /\ Others(t)
    BY GotoMove DEF RestartSeesGone
  <1>3. ASSUME NEW p \in Pids, p = th[t].held, owner[p] = n
        PROVE  reaper[p] \in {"consume", "forget"}
    <2>1. registry[n] = NoPid /\ p # NoPid /\ n # NoName
      BY <1>1, NoneAssumption DEF Live
    <2>2. reaper[p] \notin {"wait", "unregister"}
      BY <1>3, <2>1 DEF SingleInv, ReaperListed
    <2>3. reaper[p] # "none"
      <3> SUFFICES ASSUME reaper[p] = "none" PROVE FALSE
        OBVIOUS
      <3>1. PICK s \in Threads : th[s].pc \in Making /\ th[s].held = p
        BY <1>3, <2>1 DEF SingleInv, Accounted
      <3>2. th[s].pc # "insert"
        BY <1>1, <1>3, <3>1 DEF Fits, Stops
      <3>3. th[s].pc = "record" /\ th[s].name = n
        BY <1>3, <3>1, <3>2 DEF Making, ListInv, MakerHolds
      <3> QED
        BY <2>1, <3>1, <3>3 DEF SingleInv, MakerListed
    <2> QED
      BY <2>2, <2>3 DEF TypeInv, TypeOK, ReaperState
  <1>4. Fits(t)'
    <2>1. \A s \in Threads : th'[s].pc = "insert" => th'[s] = th[s]
      BY <1>2 DEF Others
    <2>2. \A p \in Pids : Asks(t, p)' => reaper'[p] \in {"consume", "forget"}
      BY <1>1, <1>2, <1>3 DEF Asks
    <2> QED
      BY <1>1, <1>2, <2>1, <2>2 DEF Fits, Stops
  <1>5. \A p \in Pids : Asks(t, p) => Asks(t, p)'
    BY <1>1, <1>2 DEF Asks
  <1> QED
    BY <1>1, <1>2, <1>4, <1>5, PlainKept DEF Recorded

(* The grace has passed, and no process of the name has exited: the kill   *)
(* takes the place of the exit that was asked for.                         *)
LEMMA GracePassesKept ==
  ASSUME TypeInv, TypeInv', ListInv, OpsFit, KeptInv, PromptReaper, NEW t \in Threads,
         RestartGracePasses(t)
  PROVE  KeptInv'
  <1>1. /\ th[t].pc = "graceful" /\ th[t].name \in Names /\ Fits(t)
        /\ child' = Killed(th[t].held)
        /\ \A p \in Pids : owner[p] = th[t].name => ~Exited(p)
        /\ UNCHANGED <<owner, reaper, restarting, ledger, manifest>>
    BY DEF RestartGracePasses, Lingers, At, agentVars, KeptInv, TypeInv, Placed, NameLabel, Label
  <1>2. /\ th'[t].pc = "forced" /\ th'[t].op = th[t].op /\ th'[t].name = th[t].name
        /\ th'[t].held = th[t].held /\ Others(t)
    BY GotoMove DEF RestartGracePasses
  <1>3. Fits(t)' /\ th'[t].pc # "insert"
    BY <1>1, <1>2, StaysFits DEF Stops
  <1>4. \A p \in Pids : /\ child'[p] = "asked" => child[p] = "asked"
                        /\ child'[p] = "ok" => child[p] = "ok"
                        /\ child'[p] # "free" => child[p] # "free"
                        /\ child'[p] = "running" => child[p] = "running"
                        /\ p = th[t].held => child'[p] # "asked"
    BY <1>1 DEF Killed, TypeInv, TypeOK
  <1>5. ASSUME NEW p \in Pids, Pending(p)'
        PROVE  Pending(p) /\ ~Asks(t, p)
    <2>1. Pending(p)
      BY <1>1, <1>4, <1>5 DEF Pending
    <2>2. ~Asks(t, p)
      BY <1>1, <1>4, <1>5 DEF Pending, Asks, Exited
    <2> QED
      BY <2>1, <2>2
  <1>6. Kept'
    BY <1>1 DEF KeptInv, Kept, Recorded
  <1> QED
    BY <1>1, <1>2, <1>3, <1>4, <1>5, <1>6, StepKept

(* The marker goes, and with it the excuse of the name's pending exits; but *)
(* the one thread that could be waiting for them is this one.              *)
LEMMA UnmarksKept ==
  ASSUME TypeInv, TypeInv', ListInv, OpsFit, OneRequest, KeptInv, NEW t \in Threads,
         RestartGivesUp(t) \/ RestartReleases(t)
  PROVE  KeptInv'
  <1> DEFINE n == th[t].name
  <1>0. OpFit(t)
    BY DEF OpsFit
  <1>1. /\ th[t].pc \in {"forced", "release"} /\ th[t].op \in {"restart", "update"}
        /\ restarting' = restarting \ {n}
        /\ UNCHANGED <<child, owner, reaper, ledger, manifest>>
    BY <1>0 DEF RestartGivesUp, RestartReleases, At, OpFit, childVars
  <1>2. Away(t) /\ Others(t)
    BY RestartEndsAway, FinishAway DEF RestartGivesUp, RestartReleases
  <1>3. \A s \in Threads : th[s].pc = "exit" => s # t /\ th[s].op \in {"restart", "update"}
    BY <1>1 DEF OpsFit, OpFit
  <1>4. \A s \in Threads : th[s].pc # "exit"
    BY <1>1, <1>3, OneRestarts
  <1>5. ASSUME NEW s \in Threads, NEW p \in Pids
        PROVE  ~Asks(s, p)
    <2> SUFFICES ASSUME Asks(s, p) PROVE FALSE
      OBVIOUS
    <2>1. s = t
      BY <1>1, OneRestarts DEF Asks
    <2> QED
      BY <1>1, <2>1 DEF Asks
  <1>6. \A p \in Pids : Pending(p)' => Pending(p)
    BY <1>1 DEF Pending
  <1>7. \A p \in Pids : Pending(p) => ledger[owner[p]] = "left"
    BY <1>5 DEF KeptInv, Excused
  <1>8. Kept'
    BY <1>1 DEF KeptInv, Kept, Recorded
  <1>9. Fits(t)' /\ th'[t].pc # "insert"
    BY <1>2, AwayFits
  <1> QED
    BY <1>1, <1>2, <1>4, <1>6, <1>7, <1>8, <1>9, StepKept

(* The steps of a restore, and the other ways a thread goes on or ends.    *)
LEMMA RestoreKept ==
  ASSUME TypeInv, TypeInv', ListInv, OpsFit, KeptInv, NEW t \in Threads,
         \/ RestoreReadsLive(t)
         \/ RestoreReadsEntries(t)
         \/ RestoreEnds(t)
         \/ \E n \in Names : RestoreCreates(t, n) \/ RestoreSkips(t, n)
  PROVE  KeptInv'
  <1>0. OpFit(t) /\ th[t] \in Thread
    BY ThreadType DEF OpsFit
  <1>1. /\ th[t].pc \in {"live", "entries", "pick"}
        /\ UNCHANGED <<child, owner, reaper, restarting, ledger, manifest>>
    BY DEF RestoreReadsLive, RestoreReadsEntries, RestoreEnds, RestoreCreates, RestoreSkips, At,
           agentVars, childVars
  <1> DEFINE leads == Away(t) /\ Others(t)
  <1>2. leads
    <2>1. CASE RestoreReadsLive(t) \/ RestoreReadsEntries(t)
      BY <2>1 DEF RestoreReadsLive, RestoreReadsEntries, Others, Away, Stops, TypeInv, TypeOK, Thread
    <2>2. CASE RestoreEnds(t)
      BY <2>2, FinishAway DEF RestoreEnds
    <2>3. ASSUME NEW n \in Names, RestoreCreates(t, n) \/ RestoreSkips(t, n)
          PROVE  leads
      <3>1. th[t].pc = "pick" /\ th[t].op = "restore"
        BY <1>0, <2>3 DEF RestoreCreates, RestoreSkips, At, OpFit
      <3>2. th'[t].pc \in {"check", "pick"} /\ th'[t].op = th[t].op /\ Others(t)
        <4>1. CASE RestoreCreates(t, n)
          BY <1>0, <4>1 DEF RestoreCreates, Others, TypeInv, TypeOK, Thread
        <4>2. CASE RestoreSkips(t, n)
          BY <1>0, <3>1, <4>2 DEF RestoreSkips, Others, TypeInv, TypeOK, Thread
        <4> QED
          BY <2>3, <4>1, <4>2
      <3> QED
        BY <3>1, <3>2 DEF Away, Stops
    <2> QED
      BY <2>1, <2>2, <2>3
  <1> QED
    BY <1>1, <1>2, AwayKept DEF Recorded

LEMMA RequestKept ==
  ASSUME TypeInv, TypeInv', ListInv, OpsFit, KeptInv, NEW t \in Threads, Request(t)
  PROVE  KeptInv'
  <1>0. UNCHANGED <<child, owner, reaper, restarting, ledger, manifest>>
    BY DEF Request, RestoreRequest, UpdateRequest, CreateRequest, DeleteRequest, RestartRequest,
           MarkRequest, agentVars, childVars
  <1>1. CASE UpdateRequest(t)
    <2>1. Worker \in Threads /\ th[Worker].pc = "idle"
      BY <1>1 DEF UpdateRequest, ListInv, Quiet, Threads
    <2>2. Away(Worker) /\ Others(Worker)
      BY <1>1, <2>1 DEF UpdateRequest, Idle, Others, Away, Stops, TypeInv, TypeOK
    <2> QED
      BY <1>0, <2>1, <2>2, AwayKept DEF Recorded
  <1>2. ASSUME NEW n \in Names, DeleteRequest(t, n)
        PROVE  KeptInv'
    <2>1. /\ th'[t].pc = "forget" /\ th'[t].name = n /\ th'[t].held = registry[n]
          /\ Others(t) /\ Live(n) /\ th[t].pc = "idle"
      BY <1>2 DEF DeleteRequest, Idle, Others, Free, At, TypeInv, TypeOK
    <2>2. \A s \in Threads : th'[s].pc = "insert" => th'[s] = th[s]
      BY <2>1 DEF Others
    <2>3. Fits(t)'
      BY <1>0, <2>1, <2>2, Listed DEF Fits, Asks
    <2>4. \A p \in Pids : ~Asks(t, p)
      BY <2>1 DEF Asks
    <2> QED
      BY <1>0, <2>1, <2>3, <2>4, PlainKept DEF Recorded
  <1>3. ASSUME NEW n \in Names, NEW m \in BOOLEAN, MarkRequest(t, n, m)
        PROVE  KeptInv'
    <2>1. Away(t) /\ Others(t) /\ th[t].pc = "idle"
      BY <1>3 DEF MarkRequest, Idle, Others, Away, Stops, Free, At, TypeInv, TypeOK
    <2> QED
      BY <1>0, <2>1, AwayKept DEF Recorded
  <1>4. CASE RestoreRequest(t) \/ \E n \in Names : CreateRequest(t, n) \/ RestartRequest(t, n)
    <2>1. Away(t) /\ Others(t) /\ th[t].pc = "idle"
      BY <1>4, EnterMove DEF RestoreRequest, CreateRequest, RestartRequest, Away, Stops, Free, At
    <2> QED
      BY <1>0, <2>1, AwayKept DEF Recorded
  <1> QED
    BY <1>1, <1>2, <1>3, <1>4 DEF Request

LEMMA WorkerKept ==
  ASSUME TypeInv, TypeInv', ListInv, OpsFit, KeptInv, WorkerStep
  PROVE  KeptInv'
  <1>0. Worker \in Threads
    BY DEF Threads
  <1>1. /\ th[Worker].pc \in {"seed", "fleet"}
        /\ UNCHANGED <<child, owner, reaper, restarting, ledger, manifest>>
    BY DEF WorkerStep, UpdateRestores, UpdateEnds, UpdateSeeds, UpdateNext, At, agentVars, childVars
  <1> DEFINE leads == Away(Worker) /\ Others(Worker)
  <1>2. leads
    <2>1. CASE UpdateRestores \/ UpdateEnds
      BY <1>0, <2>1, EnterMove, FinishAway DEF UpdateRestores, UpdateEnds, Away, Stops
    <2>2. ASSUME NEW S \in SUBSET Names, UpdateSeeds(S)
          PROVE  leads
      BY <1>0, <2>2 DEF UpdateSeeds, Others, Away, Stops, TypeInv, TypeOK, Thread
    <2>3. ASSUME NEW n \in Names, UpdateNext(n)
          PROVE  leads
      BY <1>0, <2>3 DEF UpdateNext, Others, Away, Stops, TypeInv, TypeOK, Thread
    <2> QED
      BY <2>1, <2>2, <2>3 DEF WorkerStep
  <1> QED
    BY <1>0, <1>1, <1>2, AwayKept DEF Recorded

(* A step of no thread: a child's, or a reaper's on its way to judge.      *)
LEMMA StillKept ==
  ASSUME TypeInv, TypeInv', ListInv, KeptInv, UNCHANGED <<th, owner, restarting, manifest>>,
         \A p \in Pids : child'[p] # "free" => child[p] # "free",
         \A p \in Pids : child'[p] = "running" => child[p] = "running",
         \A p \in Pids : reaper[p] \in {"consume", "forget"} =>
                            reaper'[p] \in {"consume", "forget"},
         \A p \in Pids : reaper'[p] = "forget" => reaper[p] = "forget",
         \A n \in Names : ledger'[n] = ledger[n] \/ ledger'[n] = "left",
         \A p \in Pids : Pending(p)' => Pending(p) \/ ledger'[owner[p]] = "left"
  PROVE  KeptInv'
  <1>1. Main \in Threads /\ Others(Main) /\ th'[Main] = th[Main]
    BY DEF Threads, Others
  <1>2. Kept'
    BY DEF KeptInv, Kept, Recorded
  <1>3. \A n \in Names : ledger[n] = "left" => ledger'[n] = "left"
    OBVIOUS
  <1> QED
    BY <1>1, <1>2, <1>3, StepKept

LEMMA ChildKept ==
  ASSUME TypeInv, TypeInv', ListInv, KeptInv, NEW p \in Pids, ChildStep(p)
  PROVE  KeptInv'
  <1>1. UNCHANGED <<th, owner, restarting, manifest, reaper>>
    BY DEF ChildStep, UserExits, ObeysExit, ChildDies, agentVars
  <1>2. /\ child[p] \in {"running", "asked", "killed"} /\ child'[p] \in {"ok", "failed"}
        /\ \A q \in Pids \ {p} : child'[q] = child[q]
        /\ \A n \in Names : ledger'[n] = ledger[n] \/ ledger'[n] = "left"
    BY DEF ChildStep, UserExits, ObeysExit, ChildDies, TypeInv, TypeOK
  <1>3. Pending(p)' => Pending(p) \/ ledger'[owner[p]] = "left"
    <2>1. CASE UserExits(p)
      BY <2>1 DEF UserExits, KeptInv, Named, TypeInv, TypeOK
    <2>2. CASE ObeysExit(p)
      BY <2>2 DEF ObeysExit, Pending
    <2>3. CASE ChildDies(p)
      BY <2>3 DEF ChildDies, Pending, TypeInv, TypeOK
    <2> QED
      BY <2>1, <2>2, <2>3 DEF ChildStep
  <1>4. \A q \in Pids : Pending(q)' => Pending(q) \/ ledger'[owner[q]] = "left"
    BY <1>1, <1>2, <1>3 DEF Pending
  <1> QED
    BY <1>1, <1>2, <1>4, StillKept

(* A child is spawned: with prompt reapers no process of the name is left, *)
(* and nobody knows the new one yet.                                       *)
LEMMA NoneLeft ==
  ASSUME TypeInv, ListInv, SingleInv, NEW t \in Threads, th[t].pc = "spawn",
         ~MidReap(th[t].name), NEW q \in Pids
  PROVE  owner[q] # th[t].name
  <1> DEFINE n == th[t].name
  <1> SUFFICES ASSUME owner[q] = n PROVE FALSE
    OBVIOUS
  <1>1. n \in Names /\ n # NoName /\ registry[n] = NoPid /\ q # NoPid
    BY NoneAssumption
    DEF TypeInv, Placed, NameLabel, Label, SingleInv, MidUnlisted, Mid
  <1>2. reaper[q] = "none"
    BY <1>1 DEF MidReap, SingleInv, ReaperListed, TypeInv, TypeOK, ReaperState
  <1>3. PICK s \in Threads : th[s].pc \in Making /\ th[s].held = q
    BY <1>1, <1>2 DEF SingleInv, Accounted
  <1>4. th[s].name = n
    BY <1>3 DEF ListInv, MakerHolds
  <1>5. CASE th[s].pc = "insert"
    BY <1>4, <1>5 DEF SingleInv, MidApart, Mid
  <1>6. CASE th[s].pc = "record"
    BY <1>1, <1>3, <1>4, <1>6 DEF SingleInv, MakerListed
  <1> QED
    BY <1>3, <1>5, <1>6 DEF Making

LEMMA SpawnKept ==
  ASSUME TypeInv, TypeInv', ListInv, SingleInv, OpsFit, OneRequest, PromptReaper, KeptInv,
         NEW t \in Threads, NEW p \in Pids, CreateSpawn(t, p)
  PROVE  KeptInv'
  <1> DEFINE n == th[t].name
  <1> USE DEF KeptInv
  <1>1. /\ th[t].pc = "spawn" /\ n \in Names /\ ~MidReap(n)
        /\ child[p] = "free" /\ \A s \in Threads : th[s].held # p
        /\ UNCHANGED <<restarting, manifest, reaper>>
    BY DEF CreateSpawn, Fresh, At, agentVars, TypeInv, Placed, NameLabel, Label
  <1>2. \A q \in Pids : owner[q] # n
    BY <1>1, NoneLeft
  <1>3. /\ th'[t].pc = "insert" /\ th'[t].held = p /\ Others(t)
        /\ owner'[p] = n /\ child'[p] = "running"
        /\ \A q \in Pids \ {p} : owner'[q] = owner[q] /\ child'[q] = child[q]
    BY DEF CreateSpawn, Others, TypeInv, TypeOK, Thread
  <1>4. /\ \A m \in Names \ {n} : ledger'[m] = ledger[m]
        /\ ledger'[n] \in {"owed", "again"} => ledger'[n] = ledger[n]
        /\ th[t].op # "create" => ledger' = ledger
    BY <1>1 DEF CreateSpawn, TypeInv, TypeOK
  <1>5. reaper[p] = "none"
    BY <1>1 DEF ListInv, ReaperHolds
  <1>6. OwnersApart' /\ Named'
    BY <1>1, <1>2, <1>3 DEF OwnersApart, Named
  <1>7. ASSUME NEW s \in Threads PROVE Fits(s)'
    <2>1. CASE s = t
      BY <1>3, <2>1 DEF Fits, Stops, Asks
    <2>2. CASE s # t
      <3>1. th'[s] = th[s] /\ th[s].held # p /\ Fits(s) /\ OpFit(s) /\ OpFit(t)
        BY <1>1, <1>3, <2>2 DEF Others, OpsFit
      <3>2. \A r \in Threads : th'[r].pc = "insert" => th'[r] = th[r] \/ th'[r].held = p
        BY <1>3 DEF Others
      <3>3. th[s].pc = "signal" => ledger'[th[s].name] = "left"
        <4> SUFFICES ASSUME th[s].pc = "signal" PROVE ledger'[th[s].name] = "left"
          OBVIOUS
        <4>1. th[t].op # "create"
          BY <2>2, <3>1 DEF OpFit, OneRequest
        <4> QED
          BY <1>4, <3>1, <4>1 DEF Fits
      <3>4. \A q \in Pids : Asks(s, q)' => q # p /\ Asks(s, q)
        BY <1>3, <3>1 DEF Asks
      <3>a. /\ th'[s].pc \in Stops
            /\ th'[s].op \in {"restart", "update", "delete"}
            /\ th'[s].held \in Pids
            => /\ owner'[th'[s].held] \in {th'[s].name, NoName}
               /\ \A r \in Threads : th'[r].pc = "insert" => th'[r].held # th'[s].held
        BY <1>3, <3>1, <3>2 DEF Fits
      <3>b. /\ th'[s].pc = "exit"
            /\ th'[s].held \in Pids
            /\ child'[th'[s].held] = "running"
            => th'[s].name \in restarting'
        BY <1>1, <1>3, <3>1 DEF Fits
      <3>c. \A q \in Pids : Asks(s, q)' /\ th'[s].pc # "graceful" =>
                               reaper'[q] \in {"consume", "forget"}
        BY <1>1, <3>1, <3>4 DEF Fits
      <3> QED
        BY <3>1, <3>3, <3>a, <3>b, <3>c DEF Fits
    <2> QED
      BY <2>1, <2>2
  <1>8. Excused'
    <2> SUFFICES ASSUME NEW q \in Pids, Pending(q)', ledger'[owner'[q]] # "left"
                 PROVE  owner'[q] \in restarting' /\ \E s \in Threads : Asks(s, q)'
      BY DEF Excused
    <2>1. q # p /\ Pending(q) /\ owner'[q] = owner[q]
      BY <1>1, <1>3 DEF Pending
    <2>2. owner[q] \in Names /\ owner[q] # n
      BY <1>2, <2>1 DEF Pending, Named
    <2>3. PICK s \in Threads : Asks(s, q) /\ owner[q] \in restarting
      BY <1>4, <2>1, <2>2 DEF Excused
    <2>4. Asks(s, q)'
      BY <1>3, <2>1, <2>2, <2>3 DEF Asks, Others
    <2> QED
      BY <1>1, <2>1, <2>3, <2>4
  <1>9. Forgets'
    <2> SUFFICES ASSUME NEW q \in Pids, reaper'[q] = "forget"
                 PROVE  ledger'[owner'[q]] = "left"
      BY DEF Forgets
    <2>1. q # p /\ reaper[q] = "forget" /\ owner[q] \in Names \ {n}
      BY <1>1, <1>2, <1>5 DEF ListInv, ReaperHolds
    <2> QED
      BY <1>3, <1>4, <2>1 DEF Forgets
  <1>10. Kept'
    BY <1>1, <1>4 DEF Kept, Recorded
  <1> QED
    BY <1>6, <1>7, <1>8, <1>9, <1>10

(* A reaper judges: the exit is forgotten when the user has left, and else *)
(* the marker goes, which served this process alone.                       *)
LEMMA JudgedKept ==
  ASSUME TypeInv, TypeInv', ListInv, SingleInv, OpsFit, KeptInv, NEW p \in Pids,
         reaper[p] \in {"consume", "forget"}, UNCHANGED <<th, ledger>>,
         \A n \in Names \ {owner[p]} : /\ n \in restarting => n \in restarting'
                                       /\ Recorded(n) => Recorded(n)',
         \A q \in Pids \ {p} : /\ owner'[q] = owner[q] /\ child'[q] = child[q]
                               /\ reaper'[q] = reaper[q],
         \/ /\ owner'[p] = NoName /\ child'[p] = "free" /\ reaper'[p] = "none"
         \/ /\ owner'[p] = owner[p] /\ child'[p] = child[p] /\ reaper'[p] = "forget"
            /\ ledger[owner[p]] = "left",
         ledger[owner[p]] = "left" \/ manifest' = manifest
  PROVE  KeptInv'
  <1> USE DEF KeptInv
  <1>0. /\ owner[p] \in Names /\ Exited(p)
        /\ \A q \in Pids \ {p} : owner[q] # owner[p]
    BY NoneAssumption DEF ListInv, ReaperHolds, SingleInv, Ended, OwnersApart
  <1>1. OwnersApart' /\ Named'
    BY <1>0 DEF OwnersApart, Named
  <1>2. ASSUME NEW s \in Threads PROVE Fits(s)'
    <2>1. Fits(s) /\ th'[s] = th[s]
      OBVIOUS
    <2>2. th[s].pc \in Stops => th[s].name \in Names /\ th[s].name # NoName
      BY NoneAssumption DEF Stops, TypeInv, Placed, NameLabel, Label
    <2>3. \A q \in Pids : owner'[q] \in {owner[q], NoName}
      OBVIOUS
    <2>4. \A q \in Pids : child'[q] = "running" => q # p /\ child[q] = "running"
      BY <1>0 DEF Exited
    <2>5. \A q \in Pids : Asks(s, q)' => Asks(s, q) /\ owner'[q] # NoName
      BY <2>1, <2>2, <2>3 DEF Asks, Stops
    <2>6. \A q \in Pids : owner'[q] # NoName /\ reaper[q] \in {"consume", "forget"} =>
                            reaper'[q] \in {"consume", "forget"}
      OBVIOUS
    <2>a. /\ th'[s].pc \in Stops
          /\ th'[s].op \in {"restart", "update", "delete"}
          /\ th'[s].held \in Pids
          => /\ owner'[th'[s].held] \in {th'[s].name, NoName}
             /\ \A r \in Threads : th'[r].pc = "insert" => th'[r].held # th'[s].held
      BY <2>1, <2>3 DEF Fits
    <2>b. /\ th'[s].pc = "exit"
          /\ th'[s].held \in Pids
          /\ child'[th'[s].held] = "running"
          => th'[s].name \in restarting'
      <3> SUFFICES ASSUME th[s].pc = "exit", th[s].held \in Pids,
                          child'[th[s].held] = "running"
                   PROVE  th[s].name \in restarting'
        OBVIOUS
      <3>1. th[s].held # p /\ child[th[s].held] = "running" /\ th[s].name \in restarting
        BY <2>1, <2>4 DEF Fits
      <3>2. th[s].op \in {"restart", "update"}
        BY DEF OpsFit, OpFit
      <3>3. owner[th[s].held] = th[s].name
        BY <2>1, <3>1, <3>2, NoneAssumption DEF Fits, Stops, Named
      <3> QED
        BY <1>0, <2>2, <3>1, <3>3 DEF Stops
    <2>c. th'[s].pc = "signal" => ledger'[th'[s].name] = "left"
      BY <2>1 DEF Fits
    <2>d. \A q \in Pids : Asks(s, q)' /\ th'[s].pc # "graceful" =>
                             reaper'[q] \in {"consume", "forget"}
      BY <2>1, <2>5, <2>6 DEF Fits
    <2> QED
      BY <2>a, <2>b, <2>c, <2>d DEF Fits
  <1>3. Excused'
    <2> SUFFICES ASSUME NEW q \in Pids, Pending(q)', ledger'[owner'[q]] # "left"
                 PROVE  owner'[q] \in restarting' /\ \E s \in Threads : Asks(s, q)'
      BY DEF Excused
    <2>1. q # p /\ Pending(q) /\ owner'[q] = owner[q]
      BY <1>0 DEF Pending, Exited
    <2>2. owner[q] \in Names /\ owner[q] # owner[p]
      BY <1>0, <2>1 DEF Pending, Named
    <2>3. PICK s \in Threads : Asks(s, q) /\ owner[q] \in restarting
      BY <2>1 DEF Excused
    <2> QED
      BY <2>1, <2>2, <2>3 DEF Asks
  <1>4. Forgets'
    BY DEF Forgets
  <1>5. Kept'
    BY <1>0 DEF Kept, Recorded
  <1> QED
    BY <1>1, <1>2, <1>3, <1>4, <1>5

LEMMA ReaperKept ==
  ASSUME TypeInv, TypeInv', ListInv, SingleInv, OpsFit, KeptInv, NEW p \in Pids, ReaperStep(p)
  PROVE  KeptInv'
  <1>0. owner[p] \in Names /\ OwnersApart /\ Forgets /\ Excused
    BY DEF ReaperStep, ReaperWaits, ReaperUnregisters, ReaperConsumes, ReaperForgets, ListInv,
           ReaperHolds, KeptInv
  <1>1. CASE ReaperWaits(p) \/ ReaperUnregisters(p)
    <2>1. UNCHANGED <<th, owner, restarting, manifest, child, ledger>>
      BY <1>1 DEF ReaperWaits, ReaperUnregisters, agentVars
    <2>2. /\ reaper[p] \in {"wait", "unregister"} /\ reaper'[p] \in {"unregister", "consume"}
          /\ \A q \in Pids \ {p} : reaper'[q] = reaper[q]
      BY <1>1 DEF ReaperWaits, ReaperUnregisters, TypeInv, TypeOK
    <2>3. \A q \in Pids : Pending(q)' => Pending(q)
      BY <2>1, <2>2 DEF Pending
    <2> QED
      BY <2>1, <2>2, <2>3, StillKept
  <1>2. CASE ReaperConsumes(p)
    <2>1. /\ reaper[p] = "consume" /\ UNCHANGED <<th, ledger, manifest>>
          /\ restarting' = restarting \ {owner[p]}
      BY <1>2 DEF ReaperConsumes
    <2>2. \A q \in Pids \ {p} : /\ owner'[q] = owner[q] /\ child'[q] = child[q]
                                /\ reaper'[q] = reaper[q]
      BY <1>2 DEF ReaperConsumes, ReaperEnds, TypeInv, TypeOK
    <2>3. \/ /\ owner'[p] = NoName /\ child'[p] = "free" /\ reaper'[p] = "none"
          \/ /\ owner'[p] = owner[p] /\ child'[p] = child[p] /\ reaper'[p] = "forget"
             /\ child[p] = "ok" /\ owner[p] \notin restarting
      BY <1>2 DEF ReaperConsumes, ReaperEnds, TypeInv, TypeOK
    <2>4. child[p] = "ok" /\ owner[p] \notin restarting => ledger[owner[p]] = "left"
      BY <1>0, <2>1 DEF Excused, Pending
    <2>5. \A n \in Names \ {owner[p]} : /\ n \in restarting => n \in restarting'
                                        /\ Recorded(n) => Recorded(n)'
      BY <2>1 DEF Recorded
    <2> QED
      BY <2>1, <2>2, <2>3, <2>4, <2>5, JudgedKept
  <1>3. CASE ReaperForgets(p)
    <2>1. /\ reaper[p] = "forget" /\ UNCHANGED <<th, ledger, restarting>>
          /\ ledger[owner[p]] = "left"
      BY <1>0, <1>3 DEF ReaperForgets, agentVars, Forgets
    <2>2. /\ owner'[p] = NoName /\ child'[p] = "free" /\ reaper'[p] = "none"
          /\ \A q \in Pids \ {p} : /\ owner'[q] = owner[q] /\ child'[q] = child[q]
                                   /\ reaper'[q] = reaper[q]
      BY <1>3 DEF ReaperForgets, ReaperEnds, TypeInv, TypeOK
    <2>3. \A n \in Names \ {owner[p]} : /\ n \in restarting => n \in restarting'
                                        /\ Recorded(n) => Recorded(n)'
      BY <1>3, <2>1 DEF ReaperForgets, Recorded, TypeInv, TypeOK
    <2> QED
      BY <2>1, <2>2, <2>3, JudgedKept
  <1> QED
    BY <1>1, <1>2, <1>3 DEF ReaperStep

LEMMA StopKept ==
  ASSUME TypeInv, KeptInv, AgentStops
  PROVE  KeptInv'
  <1>1. /\ \A p \in Pids : child'[p] = "free" /\ owner'[p] = NoName /\ reaper'[p] = "none"
        /\ \A t \in Threads : th'[t].pc = "idle" /\ th'[t].op = "none"
        /\ \A n \in Names : ledger'[n] \in {"owed", "again"} => ledger'[n] = ledger[n]
        /\ manifest' = manifest
    BY DEF AgentStops, Idle, TypeInv, TypeOK
  <1>2. OwnersApart' /\ Named' /\ Excused' /\ Forgets'
    BY <1>1 DEF OwnersApart, Named, Excused, Pending, Forgets
  <1>3. \A t \in Threads : Fits(t)'
    BY <1>1 DEF Fits, Asks, Stops
  <1>4. Kept'
    BY <1>1 DEF KeptInv, Kept, Recorded
  <1> QED
    BY <1>2, <1>3, <1>4 DEF KeptInv

LEMMA BootKept ==
  ASSUME TypeInv, TypeInv', ListInv, KeptInv, AgentBoots
  PROVE  KeptInv'
  <1>1. /\ Main \in Threads /\ th[Main].pc = "idle"
        /\ UNCHANGED <<child, owner, reaper, restarting, ledger, manifest>>
    BY DEF AgentBoots, ListInv, Quiet, Threads, childVars
  <1>2. CASE Enter(Main, "restore", NoName, "live")
    <2>1. Away(Main) /\ Others(Main)
      BY <1>1, <1>2, EnterMove DEF Away, Stops
    <2> QED
      BY <1>1, <2>1, AwayKept DEF Recorded
  <1>3. CASE UNCHANGED th
    BY <1>1, <1>3, StillKept DEF Pending
  <1> QED
    BY <1>2, <1>3 DEF AgentBoots

LEMMA StepsKept ==
  ASSUME TypeInv, TypeInv', ListInv, SingleInv, OpsFit, KeptInv, OneRequest, PromptReaper,
         ~SpawnMayFail, NEW t \in Threads, ThreadStep(t)
  PROVE  KeptInv'
  <1>1. CASE CreateCheck(t) \/ CreateInsert(t) \/ CreateRecord(t)
    BY <1>1, CheckKept, InsertKept, RecordKept
  <1>2. CASE \E p \in Pids : CreateSpawn(t, p)
    BY <1>2, SpawnKept
  <1>3. CASE ReapplyLive(t) \/ ReapplyEntry(t) \/ MarkLive(t) \/ MarkEntry(t)
    BY <1>3, ReapplyKept
  <1>4. CASE DeleteForgets(t) \/ DeleteSignals(t)
    BY <1>4, DeleteForgetsKept, DeleteSignalsKept
  <1>5. CASE RestartChecksJob(t) \/ RestartReserves(t)
    BY <1>5, ReservesKept
  <1>6. CASE RestartLooksUp(t) \/ RestartSnapshots(t) \/ RestartMarks(t) \/ RestartTypesExit(t)
    BY <1>6, LooksUpKept, SnapshotsKept, MarksKept, TypesExitKept
  <1>7. CASE RestartSeesGone(t) \/ RestartGracePasses(t)
    BY <1>7, SeesGoneKept, GracePassesKept
  <1>8. CASE RestartGivesUp(t) \/ RestartReleases(t)
    BY <1>8, UnmarksKept
  <1>9. CASE \/ RestoreReadsLive(t)
             \/ RestoreReadsEntries(t)
             \/ RestoreEnds(t)
             \/ \E n \in Names : RestoreCreates(t, n) \/ RestoreSkips(t, n)
    BY <1>9, RestoreKept
  <1>10. ~CreateSpawnFails(t)
    BY DEF CreateSpawnFails
  <1> QED
    BY <1>1, <1>2, <1>3, <1>4, <1>5, <1>6, <1>7, <1>8, <1>9, <1>10 DEF ThreadStep

LEMMA NextKept ==
  ASSUME TypeInv, TypeInv', ListInv, SingleInv, OpsFit, KeptInv, OneRequest, PromptReaper,
         ~SpawnMayFail, [Next]_vars
  PROVE  KeptInv'
  <1>1. CASE \E t \in Threads : Request(t) \/ ThreadStep(t)
    BY <1>1, RequestKept, StepsKept
  <1>2. CASE WorkerStep \/ \E p \in Pids : ReaperStep(p) \/ ChildStep(p)
    BY <1>2, WorkerKept, ReaperKept, ChildKept
  <1>3. CASE AgentStops \/ AgentBoots
    BY <1>3, StopKept, BootKept
  <1>4. CASE UNCHANGED vars
    BY <1>4, StillKept DEF vars, Pending
  <1> QED
    BY <1>1, <1>2, <1>3, <1>4 DEF Next

(* When requests come one at a time, creates of a name do not overlap,     *)
(* reapers are prompt and no launch fails, the invariant always holds.     *)
THEOREM KeptCorrect ==
  ASSUME OneRequest, SerialCreate, PromptReaper, ~SpawnMayFail
  PROVE  Spec => []KeptInv
  <1>1. Init => ListInv /\ SingleInv /\ OpsFit /\ KeptInv
    BY InitList, InitSingle, InitKept
  <1>2. TypeInv /\ TypeInv' /\ ListInv /\ SingleInv /\ OpsFit /\ KeptInv /\ [Next]_vars
          => ListInv' /\ SingleInv' /\ OpsFit' /\ KeptInv'
    BY NextList, NextSingle, NextOps, NextKept
  <1> QED
    BY <1>1, <1>2, TypeCorrect, PTL DEF Spec

(* A session its user never deleted and never exited stays in the manifest *)
(* through every restart, restore, update job, crash and redeploy          *)
(* (restart_session_inner: "nothing here removes a manifest entry").       *)
THEOREM KeptSafe ==
  ASSUME OneRequest, SerialCreate, PromptReaper, ~SpawnMayFail
  PROVE  Spec => []NeverForgottenUnasked
  <1>1. KeptInv => NeverForgottenUnasked
    BY DEF KeptInv, Kept, NeverForgottenUnasked
  <1> QED
    BY <1>1, KeptCorrect, PTL

(* One that is created again after a goodbye is in the manifest again, and *)
(* the reaper of the process that said goodbye does not take it out.       *)
THEOREM RecreatedSafe ==
  ASSUME OneRequest, SerialCreate, PromptReaper, ~SpawnMayFail
  PROVE  Spec => []RecreatedIsRecorded
  <1>1. KeptInv => RecreatedIsRecorded
    BY DEF KeptInv, Kept, RecreatedIsRecorded
  <1> QED
    BY <1>1, KeptCorrect, PTL

-----------------------------------------------------------------------------
(* The mark that shows and the mark that is recorded.  Every operation     *)
(* that touches one of them touches the other in a later lock section, so  *)
(* between the two they may differ: Settled says that it takes a thread    *)
(* there, and Marks what that thread still knows.  With one request at a   *)
(* time and no update job behind it, no other thread is at work meanwhile  *)
(* (Lone); children and reapers are, and only they.                        *)
Lone ==
  /\ th[Worker].pc = "idle"
  /\ th[Main].pc # "idle" => phase = "boot"
  /\ \A t \in Clients : th[t].pc # "idle" => phase = "serving"

Agree(n) ==
  Live(n) /\ Recorded(n) => (tint[registry[n]] <=> manifest[n] = "marked")
Unsettled == {"record", "relive", "reentry", "stain"}
Pends(t, n) == th[t].pc \in Unsettled /\ th[t].name = n
Settled == \A n \in Names : Agree(n) \/ \E t \in Threads : Pends(t, n)

(* A name that is about to be listed is not; what was made shows no mark;  *)
(* and whoever is between the two marks knows the one that shows, on the   *)
(* process it holds if that is still listed.                               *)
Marks(t) ==
  /\ th[t].pc \in {"spawn", "insert"} => ~Live(th[t].name)
  /\ th[t].pc = "check" /\ th[t].op = "restart" => ~Live(th[t].name)
  /\ th[t].pc \in {"insert", "record"} => ~tint[th[t].held]
  /\ th[t].pc \in {"record", "tint", "stain"} =>
       /\ th[t].held \in Pids
       /\ registry[th[t].name] \in {th[t].held, NoPid}
  /\ th[t].pc = "tint" => owner[th[t].held] \in {th[t].name, NoName}
  /\ th[t].pc = "stain" => tint[th[t].held] = th[t].mark
  /\ th[t].pc = "relive" => manifest[th[t].name] # "marked"
  /\ th[t].pc = "reentry" /\ Live(th[t].name) => tint[registry[th[t].name]]

MarksInv == Lone /\ Settled /\ \A t \in Threads : Marks(t)

LEMMA InitMarks == Init => MarksInv
  <1> SUFFICES ASSUME Init PROVE MarksInv
    OBVIOUS
  <1>1. \A t \in Threads : th[t].pc = "idle"
    BY DEF Init, Idle
  <1>2. Lone /\ \A t \in Threads : Marks(t)
    BY <1>1 DEF Lone, Marks, Threads
  <1>3. Settled
    BY DEF Init, Settled, Agree, Live
  <1> QED
    BY <1>2, <1>3 DEF MarksInv

LEMMA Alone ==
  ASSUME Lone, OneRequest, NEW s \in Threads, NEW t \in Threads,
         th[s].pc # "idle", th[t].pc # "idle"
  PROVE  s = t
  BY DEF Lone, OneRequest, Threads

(* At most the thread at work lets a name's marks differ.                  *)
LEMMA Unfinished ==
  ASSUME MarksInv, OneRequest, NEW t \in Threads, th[t].pc # "idle", NEW n \in Names
  PROVE  Agree(n) \/ Pends(t, n)
  BY Alone DEF MarksInv, Settled, Pends, Unsettled

LEMMA StepMarks ==
  ASSUME TypeInv, MarksInv, OneRequest, NEW t \in Threads, th[t].pc # "idle",
         Others(t), phase' = phase, Marks(t)',
         \A n \in Names : Agree(n)' \/ Pends(t, n)'
  PROVE  MarksInv'
  <1>1. \A s \in Threads \ {t} : th'[s].pc = "idle"
    BY Alone DEF Others, MarksInv
  <1>2. Lone'
    BY <1>1 DEF MarksInv, Lone, Others, Threads
  <1>3. Settled'
    BY DEF Settled
  <1>4. \A s \in Threads \ {t} : Marks(s)'
    BY <1>1 DEF Marks
  <1> QED
    BY <1>2, <1>3, <1>4 DEF MarksInv

(* A step that is about something else, of a thread that is not at a label *)
(* Marks speaks of afterwards, leaves what was agreed.                     *)
Told == {"spawn", "insert", "record", "tint", "stain", "relive", "reentry"}

LEMMA AsideMarks ==
  ASSUME TypeInv, MarksInv, OneRequest, NEW t \in Threads, th[t].pc # "idle",
         th[t].pc \notin Unsettled, Others(t), UNCHANGED <<phase, registry, tint>>,
         \A n \in Names : \/ manifest'[n] = manifest[n]
                          \/ manifest'[n] = "absent"
                          \/ ~Live(n),
         th'[t].pc \notin Told,
         th'[t].pc = "check" => th'[t].op # "restart" \/ ~Live(th'[t].name)
  PROVE  MarksInv'
  <1>1. Marks(t)'
    BY DEF Marks, Told, Live
  <1>2. ASSUME NEW n \in Names
        PROVE  Agree(n)'
    <2>1. Agree(n)
      BY Unfinished DEF Pends
    <2> QED
      BY <2>1 DEF Agree, Live, Recorded
  <1> QED
    BY <1>1, <1>2, StepMarks

(* Where a thread goes that passes on or ends: to no label Marks tells of. *)
LEMMA RestartEndsTold ==
  ASSUME TypeInv, NEW t \in Threads, RestartEnds(t)
  PROVE  th'[t].pc \notin Told /\ th'[t].pc # "check" /\ Others(t)
  BY RestartEndsMove DEF Passes, Told

LEMMA PassesTold ==
  ASSUME TypeInv, NEW t \in Threads, NextItem(t) \/ Finish(t)
  PROVE  th'[t].pc \notin Told \cup Unsettled /\ th'[t].pc # "check" /\ Others(t)
  BY NextItemMove, FinishMove DEF Passes, Told, Unsettled

LEMMA CheckMarks ==
  ASSUME TypeInv, OpsFit, MarksInv, OneRequest, NEW t \in Threads, CreateCheck(t)
  PROVE  MarksInv'
  <1>1. /\ th[t].pc = "check" /\ Marks(t) /\ UNCHANGED <<phase, registry, tint>>
        /\ th[t].op # "update"
        /\ th[t].op = "restart" => ~Live(th[t].name)
    BY DEF CreateCheck, At, agentVars, childVars, MarksInv, Lone, Marks, OpsFit, OpFit
  <1>2. CASE ~Live(th[t].name)
    <2>1. /\ th'[t].pc = "spawn" /\ th'[t].name = th[t].name /\ Others(t)
          /\ manifest' = manifest
      BY <1>2, GotoMove DEF CreateCheck
    <2>2. Marks(t)'
      BY <1>1, <1>2, <2>1 DEF Marks, Live
    <2>3. \A n \in Names : Agree(n)'
      BY <1>1, <2>1, Unfinished DEF Pends, Unsettled, Agree, Live, Recorded
    <2> QED
      BY <1>1, <2>1, <2>2, <2>3, StepMarks
  <1>3. CASE Live(th[t].name)
    <2>1. /\ manifest' = manifest /\ RestartEnds(t)
      BY <1>1, <1>3 DEF CreateCheck, CreateFails
    <2> QED
      BY <1>1, <2>1, RestartEndsTold, AsideMarks DEF Unsettled
  <1> QED
    BY <1>2, <1>3

(* What is spawned shows no mark, and is no listed process.                *)
LEMMA SpawnMarks ==
  ASSUME TypeInv, ListInv, MarksInv, OneRequest, NEW t \in Threads, NEW p \in Pids,
         CreateSpawn(t, p)
  PROVE  MarksInv'
  <1>1. /\ th[t].pc = "spawn" /\ Marks(t) /\ UNCHANGED <<phase, registry, manifest>>
        /\ child[p] = "free"
    BY DEF CreateSpawn, Fresh, At, agentVars, MarksInv
  <1>2. /\ th'[t].pc = "insert" /\ th'[t].name = th[t].name /\ th'[t].held = p /\ Others(t)
        /\ tint'[p] = FALSE /\ \A q \in Pids \ {p} : tint'[q] = tint[q]
    BY DEF CreateSpawn, Others, TypeInv, TypeOK, Thread
  <1>3. Marks(t)'
    BY <1>1, <1>2 DEF Marks, Live
  <1>4. ASSUME NEW n \in Names
        PROVE  Agree(n)'
    <2>1. Agree(n)
      BY <1>1, Unfinished DEF Pends, Unsettled
    <2>2. Live(n) => registry[n] \in Pids \ {p}
      BY <1>1, Listed
    <2> QED
      BY <1>1, <1>2, <2>1, <2>2 DEF Agree, Live, Recorded
  <1> QED
    BY <1>1, <1>2, <1>3, <1>4, StepMarks

LEMMA InsertMarks ==
  ASSUME TypeInv, MarksInv, OneRequest, NEW t \in Threads, CreateInsert(t)
  PROVE  MarksInv'
  <1> DEFINE n == th[t].name
  <1>1. /\ th[t].pc = "insert" /\ Marks(t) /\ UNCHANGED <<phase, tint, manifest>>
        /\ n \in Names /\ th[t].held \in Pids
        /\ registry'[n] = th[t].held /\ \A m \in Names \ {n} : registry'[m] = registry[m]
    BY DEF CreateInsert, At, childVars, MarksInv, TypeInv, TypeOK, Placed, NameLabel, Label
  <1>2. /\ th'[t].pc = "record" /\ th'[t].name = n /\ th'[t].held = th[t].held /\ Others(t)
    BY GotoMove DEF CreateInsert
  <1>3. Marks(t)'
    BY <1>1, <1>2 DEF Marks
  <1>4. ASSUME NEW m \in Names
        PROVE  Agree(m)' \/ Pends(t, m)'
    <2>1. Agree(m)
      BY <1>1, Unfinished DEF Pends, Unsettled
    <2> QED
      BY <1>1, <1>2, <2>1 DEF Agree, Pends, Unsettled, Live, Recorded
  <1> QED
    BY <1>1, <1>2, <1>3, <1>4, StepMarks

LEMMA RecordMarks ==
  ASSUME TypeInv, MarksInv, OneRequest, NEW t \in Threads, CreateRecord(t)
  PROVE  MarksInv'
  <1> DEFINE n == th[t].name
  <1>1. /\ th[t].pc = "record" /\ Marks(t) /\ UNCHANGED <<phase, registry, tint>>
        /\ n \in Names
        /\ manifest'[n] = "plain" /\ \A m \in Names \ {n} : manifest'[m] = manifest[m]
    BY DEF CreateRecord, At, agentVars, MarksInv, TypeInv, TypeOK, Placed, NameLabel, Label
  <1>2. ASSUME NEW m \in Names
        PROVE  Agree(m)'
    <2>1. CASE m = n
      BY <1>1, <2>1 DEF Marks, Agree, Live
    <2>2. CASE m # n
      <3>1. Agree(m)
        BY <1>1, <2>2, Unfinished DEF Pends
      <3> QED
        BY <1>1, <2>2, <3>1 DEF Agree, Live, Recorded
    <2> QED
      BY <2>1, <2>2
  <1>3. CASE th[t].mark
    <2>1. th'[t].pc = "relive" /\ th'[t].name = n /\ Others(t)
      BY <1>3, GotoMove DEF CreateRecord
    <2>2. Marks(t)'
      BY <1>1, <2>1 DEF Marks
    <2> QED
      BY <1>1, <1>2, <2>1, <2>2, StepMarks
  <1>4. CASE ~th[t].mark
    <2>1. th'[t].pc \notin Told /\ th'[t].pc # "check" /\ Others(t)
      BY <1>4, PassesTold DEF CreateRecord
    <2>2. Marks(t)'
      BY <2>1 DEF Marks, Told
    <2> QED
      BY <1>1, <1>2, <2>1, <2>2, StepMarks
  <1> QED
    BY <1>3, <1>4

(* The mark is put back, or set: where it shows, then where it is kept.    *)
LEMMA ReapplyLiveMarks ==
  ASSUME TypeInv, ListInv, MarksInv, OneRequest, NEW t \in Threads, ReapplyLive(t)
  PROVE  MarksInv'
  <1> DEFINE n == th[t].name
  <1>1. /\ th[t].pc = "relive" /\ UNCHANGED <<phase, registry, manifest>> /\ n \in Names
    BY DEF ReapplyLive, At, agentVars, TypeInv, Placed, NameLabel, Label
  <1>2. /\ Live(n) => tint'[registry[n]] = TRUE
        /\ \A q \in Pids : q # registry[n] => tint'[q] = tint[q]
    BY <1>1, Listed DEF ReapplyLive, TypeInv, TypeOK
  <1>3. th'[t].pc = "reentry" /\ th'[t].name = n /\ Others(t)
    BY GotoMove DEF ReapplyLive
  <1>4. Marks(t)'
    BY <1>1, <1>2, <1>3 DEF Marks, Live
  <1>5. ASSUME NEW m \in Names
        PROVE  Agree(m)' \/ Pends(t, m)'
    <2>1. CASE m = n
      BY <1>3, <2>1 DEF Pends, Unsettled
    <2>2. CASE m # n
      <3>1. Agree(m)
        BY <1>1, <2>2, Unfinished DEF Pends
      <3>2. Live(m) => registry[m] \in Pids /\ registry[m] # registry[n]
        <4>1. Live(m) => owner[registry[m]] = m /\ registry[m] \in Pids
          BY Listed
        <4>2. Live(n) => owner[registry[n]] = n
          BY <1>1, Listed
        <4> QED
          BY <2>2, <4>1, <4>2, NoneAssumption DEF Live
      <3> QED
        BY <1>1, <1>2, <3>1, <3>2 DEF Agree, Live, Recorded
    <2> QED
      BY <2>1, <2>2
  <1> QED
    BY <1>1, <1>3, <1>4, <1>5, StepMarks

LEMMA MarkLiveMarks ==
  ASSUME TypeInv, ListInv, MarksInv, OneRequest, NEW t \in Threads, MarkLive(t)
  PROVE  MarksInv'
  <1> DEFINE n == th[t].name
             p == th[t].held
  <1>1. /\ th[t].pc = "tint" /\ Marks(t) /\ UNCHANGED <<phase, registry, manifest>>
        /\ n \in Names
    BY DEF MarkLive, At, agentVars, MarksInv, TypeInv, Placed, NameLabel, Label
  <1>2. p \in Pids /\ registry[n] \in {p, NoPid} /\ owner[p] \in {n, NoName}
    BY <1>1 DEF Marks
  <1>3. tint'[p] = th[t].mark /\ \A q \in Pids \ {p} : tint'[q] = tint[q]
    BY <1>2 DEF MarkLive, TypeInv, TypeOK
  <1>4. /\ th'[t].pc = "stain" /\ th'[t].name = n /\ th'[t].held = p
        /\ th'[t].mark = th[t].mark /\ Others(t)
    BY GotoMove DEF MarkLive
  <1>5. Marks(t)'
    BY <1>1, <1>2, <1>3, <1>4 DEF Marks
  <1>6. ASSUME NEW m \in Names
        PROVE  Agree(m)' \/ Pends(t, m)'
    <2>1. CASE m = n
      BY <1>4, <2>1 DEF Pends, Unsettled
    <2>2. CASE m # n
      <3>1. Agree(m)
        BY <1>1, Unfinished DEF Pends, Unsettled
      <3>2. Live(m) => registry[m] \in Pids \ {p}
        BY <1>2, <2>2, Listed, NoneAssumption
      <3> QED
        BY <1>1, <1>3, <3>1, <3>2 DEF Agree, Live, Recorded
    <2> QED
      BY <2>1, <2>2
  <1> QED
    BY <1>1, <1>4, <1>5, <1>6, StepMarks

LEMMA EntryMarks ==
  ASSUME TypeInv, MarksInv, OneRequest, NEW t \in Threads, ReapplyEntry(t) \/ MarkEntry(t)
  PROVE  MarksInv'
  <1> DEFINE n == th[t].name
  <1>1. /\ th[t].pc \in {"reentry", "stain"} /\ Marks(t) /\ n \in Names
        /\ UNCHANGED <<phase, registry, tint>>
    BY DEF ReapplyEntry, MarkEntry, At, agentVars, childVars, MarksInv, TypeInv, Placed,
           NameLabel, Label
  <1>2. th'[t].pc \notin Told /\ th'[t].pc # "check" /\ Others(t)
    BY PassesTold DEF ReapplyEntry, MarkEntry
  <1>3. Marks(t)'
    BY <1>2 DEF Marks, Told
  <1>4. ASSUME NEW e \in {"marked", "plain"},
               manifest' = IF Recorded(n) THEN [manifest EXCEPT ![n] = e] ELSE manifest,
               Live(n) => (e = "marked" <=> tint[registry[n]]),
               NEW k \in Names
        PROVE  Agree(k)'
    <2>1. CASE k = n
      BY <1>1, <1>4, <2>1 DEF Agree, Live, Recorded, TypeInv, TypeOK
    <2>2. CASE k # n
      <3>1. Agree(k)
        BY <1>1, <2>2, Unfinished DEF Pends
      <3>2. manifest'[k] = manifest[k]
        BY <1>4, <2>2 DEF TypeInv, TypeOK
      <3> QED
        BY <1>1, <3>1, <3>2 DEF Agree, Live, Recorded
    <2> QED
      BY <2>1, <2>2
  <1>5. \A k \in Names : Agree(k)'
    <2>1. CASE ReapplyEntry(t)
      <3>1. /\ manifest' = IF Recorded(n) THEN [manifest EXCEPT ![n] = "marked"] ELSE manifest
            /\ Live(n) => tint[registry[n]]
        BY <2>1 DEF ReapplyEntry, WithMark, At, MarksInv, Marks
      <3> QED
        BY <1>4, <3>1
    <2>2. CASE MarkEntry(t) /\ th[t].mark
      <3>1. /\ manifest' = IF Recorded(n) THEN [manifest EXCEPT ![n] = "marked"] ELSE manifest
            /\ Live(n) => tint[registry[n]]
        BY <2>2 DEF MarkEntry, WithMark, At, MarksInv, Marks, Live
      <3> QED
        BY <1>4, <3>1
    <2>3. CASE MarkEntry(t) /\ ~th[t].mark
      <3>1. /\ manifest' = IF Recorded(n) THEN [manifest EXCEPT ![n] = "plain"] ELSE manifest
            /\ Live(n) => ~tint[registry[n]]
        BY <2>3 DEF MarkEntry, WithMark, At, MarksInv, Marks, Live
      <3> QED
        BY <1>4, <3>1
    <2> QED
      BY <2>1, <2>2, <2>3
  <1> QED
    BY <1>1, <1>2, <1>3, <1>5, StepMarks

(* The other steps of a thread touch neither mark, or take the entry away, *)
(* or put back an entry of a name that is not listed.                      *)
LEMMA OtherMarks ==
  ASSUME TypeInv, OpsFit, MarksInv, OneRequest, NEW t \in Threads, th[t].pc \notin Unsettled,
         \/ CreateSpawnFails(t) \/ DeleteForgets(t) \/ DeleteSignals(t)
         \/ RestartChecksJob(t) \/ RestartReserves(t) \/ RestartReleases(t)
  PROVE  MarksInv'
  <1>1. th[t].pc # "idle" /\ UNCHANGED <<phase, registry, tint>>
    BY DEF CreateSpawnFails, DeleteForgets, DeleteSignals, RestartChecksJob, RestartReserves,
           RestartReleases, At, agentVars, childVars
  <1>2. th'[t].pc \notin Told /\ th'[t].pc # "check" /\ Others(t)
    <2>1. CASE CreateSpawnFails(t)
      BY <2>1, RestartEndsTold DEF CreateSpawnFails, CreateFails
    <2>2. CASE Finish(t)
      BY <2>2, PassesTold
    <2>3. CASE \E l \in {"signal", "reserve", "lookup"} : Goto(t, l)
      BY <2>3, GotoMove DEF Told
    <2> QED
      BY <2>1, <2>2, <2>3
      DEF DeleteForgets, DeleteSignals, RestartChecksJob, RestartReserves, RestartReleases
  <1>3. ASSUME NEW n \in Names
        PROVE  manifest'[n] = manifest[n] \/ manifest'[n] = "absent" \/ ~Live(n)
    <2>1. CASE CreateSpawnFails(t)
      BY <2>1 DEF CreateSpawnFails, CreateFails, At, MarksInv, Marks, TypeInv, TypeOK
    <2>2. CASE ~CreateSpawnFails(t)
      BY <2>2 DEF DeleteForgets, DeleteSignals, RestartChecksJob, RestartReserves,
                  RestartReleases, TypeInv, TypeOK
    <2> QED
      BY <2>1, <2>2
  <1> QED
    BY <1>1, <1>2, <1>3, AsideMarks

LEMMA RestartMarked ==
  ASSUME TypeInv, OpsFit, MarksInv, OneRequest, NEW t \in Threads, th[t].pc \notin Unsettled,
         \/ RestartLooksUp(t) \/ RestartSnapshots(t) \/ RestartMarks(t) \/ RestartTypesExit(t)
         \/ RestartSeesGone(t) \/ RestartGracePasses(t) \/ RestartGivesUp(t)
  PROVE  MarksInv'
  <1>1. th[t].pc # "idle" /\ UNCHANGED <<phase, registry, tint, manifest>>
    BY DEF RestartLooksUp, RestartSnapshots, RestartMarks, RestartTypesExit, RestartSeesGone,
           RestartGracePasses, RestartGivesUp, At, agentVars, childVars
  <1>2. /\ Others(t) /\ th'[t].pc \notin Told
        /\ th'[t].pc = "check" => ~Live(th'[t].name)
    <2>1. CASE RestartEnds(t)
      BY <2>1, RestartEndsTold
    <2>2. CASE RestartSeesGone(t)
      BY <2>2, GotoMove DEF RestartSeesGone, Told
    <2>3. CASE \E l \in {"exit", "graceful", "forced"} : Goto(t, l)
      BY <2>3, GotoMove DEF Told
    <2>4. CASE RestartLooksUp(t) /\ ~RestartEnds(t)
      BY <2>4 DEF RestartLooksUp, Others, Told, TypeInv, TypeOK, Thread
    <2>5. CASE RestartSnapshots(t)
      BY <2>5 DEF RestartSnapshots, Others, Told, TypeInv, TypeOK, Thread
    <2> QED
      BY <2>1, <2>2, <2>3, <2>4, <2>5
      DEF RestartMarks, RestartTypesExit, RestartGracePasses, RestartGivesUp
  <1>3. th'[t].pc = "check" => ~Live(th'[t].name)
    BY <1>2
  <1> QED
    BY <1>1, <1>2, <1>3, AsideMarks

LEMMA RestoreMarks ==
  ASSUME TypeInv, OpsFit, MarksInv, OneRequest, NEW t \in Threads,
         \/ RestoreReadsLive(t)
         \/ RestoreReadsEntries(t)
         \/ \E n \in Names : RestoreCreates(t, n) \/ RestoreSkips(t, n)
  PROVE  MarksInv'
  <1>0. OpFit(t) /\ th[t] \in Thread
    BY ThreadType DEF OpsFit
  <1> DEFINE leads ==
               /\ th[t].pc \in {"live", "entries", "pick"} /\ th[t].op = "restore"
               /\ th'[t].pc \in {"entries", "pick", "check"} /\ th'[t].op = th[t].op
               /\ Others(t) /\ UNCHANGED <<phase, registry, tint, manifest>>
  <1>1. leads
    <2>1. CASE RestoreReadsLive(t) \/ RestoreReadsEntries(t)
      BY <1>0, <2>1 DEF RestoreReadsLive, RestoreReadsEntries, At, OpFit, Others, TypeInv, TypeOK,
                        Thread, agentVars, childVars
    <2>2. ASSUME NEW n \in Names, RestoreCreates(t, n)
          PROVE  leads
      BY <1>0, <2>2 DEF RestoreCreates, At, OpFit, Others, TypeInv, TypeOK, Thread, agentVars,
                        childVars
    <2>3. ASSUME NEW n \in Names, RestoreSkips(t, n)
          PROVE  leads
      BY <1>0, <2>3 DEF RestoreSkips, At, OpFit, Others, TypeInv, TypeOK, Thread, agentVars,
                        childVars
    <2> QED
      BY <2>1, <2>2, <2>3
  <1>2. th[t].pc # "idle" /\ th[t].pc \notin Unsettled /\ th'[t].pc \notin Told
    BY <1>1 DEF Unsettled, Told
  <1>3. th'[t].pc = "check" => th'[t].op # "restart"
    BY <1>1
  <1> QED
    BY <1>1, <1>2, <1>3, AsideMarks

(* Steps at whose end nobody is at work, or a thread that has just begun.  *)
LEMMA RestoreEndsMarks ==
  ASSUME TypeInv, OpsFit, MarksInv, OneRequest, NEW t \in Threads, RestoreEnds(t)
  PROVE  MarksInv'
  <1>1. /\ th[t].pc = "pick" /\ UNCHANGED <<registry, tint, manifest>>
        /\ th'[t].pc = "idle" /\ Others(t)
    BY FinishMove DEF RestoreEnds, At, childVars
  <1>2. \A s \in Threads : th'[s].pc = "idle"
    BY <1>1, Alone DEF Others, MarksInv
  <1>3. Lone' /\ \A s \in Threads : Marks(s)'
    BY <1>2 DEF Lone, Marks, Threads
  <1>4. \A n \in Names : Agree(n)'
    BY <1>1, Unfinished DEF Pends, Unsettled, Agree, Live, Recorded
  <1> QED
    BY <1>3, <1>4 DEF MarksInv, Settled

LEMMA RequestMarks ==
  ASSUME TypeInv, ListInv, MarksInv, OneRequest, "update" \notin Ops, NEW t \in Threads,
         Request(t)
  PROVE  MarksInv'
  <1>1. /\ t \in Clients /\ phase = "serving" /\ th[t].pc = "idle"
        /\ UNCHANGED <<phase, registry, tint, manifest, owner>>
    BY DEF Request, RestoreRequest, UpdateRequest, CreateRequest, DeleteRequest, RestartRequest,
           MarkRequest, Free, At, agentVars, childVars
  <1>2. \A s \in Threads : th[s].pc = "idle"
    BY <1>1 DEF MarksInv, Lone, OneRequest, Threads
  <1> DEFINE begins ==
               /\ Others(t) /\ th'[t].pc \notin Told \ {"tint"}
               /\ th'[t].pc = "check" => th'[t].op = "create"
               /\ th'[t].pc = "tint" => /\ th'[t].name \in Names /\ Live(th'[t].name)
                                        /\ th'[t].held = registry[th'[t].name]
  <1>3. begins
    <2>1. CASE RestoreRequest(t) \/ \E n \in Names : CreateRequest(t, n) \/ RestartRequest(t, n)
      BY <2>1, EnterMove DEF RestoreRequest, CreateRequest, RestartRequest, Told
    <2>2. ASSUME NEW n \in Names, DeleteRequest(t, n)
          PROVE  begins
      BY <2>2 DEF DeleteRequest, Idle, Others, Told, TypeInv, TypeOK
    <2>3. ASSUME NEW n \in Names, NEW m \in BOOLEAN, MarkRequest(t, n, m)
          PROVE  begins
      BY <2>3 DEF MarkRequest, Idle, Others, TypeInv, TypeOK
    <2>4. ~UpdateRequest(t)
      BY DEF UpdateRequest, Free
    <2> QED
      BY <2>1, <2>2, <2>3, <2>4 DEF Request
  <1>4. Lone'
    BY <1>1, <1>2, <1>3, ThreadAssumption DEF Others, Lone, Threads
  <1>5. Settled'
    BY <1>1, <1>2 DEF MarksInv, Settled, Pends, Unsettled, Agree, Live, Recorded
  <1>6. \A s \in Threads \ {t} : Marks(s)'
    BY <1>2, <1>3 DEF Others, Marks
  <1>7. Marks(t)'
    BY <1>1, <1>3, Listed DEF Marks, Told
  <1> QED
    BY <1>4, <1>5, <1>6, <1>7 DEF MarksInv

(* Children and reapers, which do not wait for a thread to be done: they   *)
(* take a name off the list and out of the manifest, never the other way.  *)
LEMMA ShrinkMarks ==
  ASSUME TypeInv, MarksInv, UNCHANGED <<phase, tint, th>>,
         \A n \in Names : registry'[n] \in {registry[n], NoPid},
         \A n \in Names : manifest'[n] \in {manifest[n], "absent"},
         \A p \in Pids : owner'[p] \in {owner[p], NoName}
  PROVE  MarksInv'
  <1>1. Lone'
    BY DEF MarksInv, Lone
  <1>2. \A n \in Names : Agree(n) => Agree(n)'
    BY DEF Agree, Live, Recorded
  <1>3. Settled'
    BY <1>2 DEF MarksInv, Settled, Pends
  <1>4. ASSUME NEW t \in Threads PROVE Marks(t)'
    <2>1. Marks(t) /\ th'[t] = th[t]
      BY DEF MarksInv
    <2>2. th[t].pc \in Told \cup {"check"} => th[t].name \in Names
      BY DEF Told, TypeInv, Placed, NameLabel, Label
    <2> QED
      BY <2>1, <2>2 DEF Marks, Told, Live
  <1> QED
    BY <1>1, <1>3, <1>4 DEF MarksInv

LEMMA ReaperMarks ==
  ASSUME TypeInv, ListInv, MarksInv, NEW p \in Pids, ReaperStep(p)
  PROVE  MarksInv'
  <1>1. /\ UNCHANGED <<phase, tint, th>>
        /\ \A n \in Names : registry'[n] \in {registry[n], NoPid}
    BY DEF ReaperStep, ReaperWaits, ReaperUnregisters, ReaperConsumes, ReaperForgets, agentVars,
           TypeInv, TypeOK
  <1>2. \A n \in Names : manifest'[n] \in {manifest[n], "absent"}
    BY DEF ReaperStep, ReaperWaits, ReaperUnregisters, ReaperConsumes, ReaperForgets,
           TypeInv, TypeOK
  <1>3. \A q \in Pids : owner'[q] \in {owner[q], NoName}
    BY DEF ReaperStep, ReaperWaits, ReaperUnregisters, ReaperConsumes, ReaperForgets, ReaperEnds,
           TypeInv, TypeOK
  <1> QED
    BY <1>1, <1>2, <1>3, ShrinkMarks

LEMMA BootMarks ==
  ASSUME TypeInv, ListInv, MarksInv, AgentBoots
  PROVE  MarksInv'
  <1>1. /\ \A s \in Threads : th[s].pc = "idle"
        /\ UNCHANGED <<registry, manifest, tint, owner>>
    BY DEF AgentBoots, ListInv, Quiet, childVars
  <1>2. Main \in Threads
    BY DEF Threads
  <1>3. Settled'
    BY <1>1 DEF MarksInv, Settled, Pends, Unsettled, Agree, Live, Recorded
  <1>4. CASE phase' = "boot" /\ Enter(Main, "restore", NoName, "live")
    <2>1. th'[Main].pc = "live" /\ Others(Main)
      BY <1>2, <1>4, EnterMove
    <2>2. Lone'
      BY <1>1, <1>4, <2>1, ThreadAssumption DEF Others, Lone, Threads
    <2>3. \A s \in Threads : Marks(s)'
      BY <1>1, <2>1 DEF Others, Marks
    <2> QED
      BY <1>3, <2>2, <2>3 DEF MarksInv
  <1>5. CASE UNCHANGED th
    BY <1>1, <1>3, <1>5 DEF MarksInv, Lone, Marks, Threads
  <1> QED
    BY <1>4, <1>5 DEF AgentBoots

LEMMA StopMarks ==
  ASSUME TypeInv, MarksInv, AgentStops
  PROVE  MarksInv'
  <1>1. /\ \A s \in Threads : th'[s].pc = "idle"
        /\ \A n \in Names : ~Live(n)'
    BY DEF AgentStops, Idle, Live
  <1>2. Lone' /\ \A s \in Threads : Marks(s)'
    BY <1>1 DEF Lone, Marks, Threads
  <1>3. Settled'
    BY <1>1 DEF Settled, Agree
  <1> QED
    BY <1>2, <1>3 DEF MarksInv

LEMMA StepsMarks ==
  ASSUME TypeInv, ListInv, OpsFit, MarksInv, OneRequest, NEW t \in Threads, ThreadStep(t)
  PROVE  MarksInv'
  <1>1. CASE CreateCheck(t) \/ (\E p \in Pids : CreateSpawn(t, p))
    BY <1>1, CheckMarks, SpawnMarks
  <1>2. CASE CreateInsert(t) \/ CreateRecord(t)
    BY <1>2, InsertMarks, RecordMarks
  <1>3. CASE ReapplyLive(t) \/ ReapplyEntry(t) \/ MarkLive(t) \/ MarkEntry(t)
    BY <1>3, ReapplyLiveMarks, MarkLiveMarks, EntryMarks
  <1>4. CASE \/ CreateSpawnFails(t) \/ DeleteForgets(t) \/ DeleteSignals(t)
             \/ RestartChecksJob(t) \/ RestartReserves(t) \/ RestartReleases(t)
    <2>1. th[t].pc \notin Unsettled
      BY <1>4 DEF CreateSpawnFails, DeleteForgets, DeleteSignals, RestartChecksJob,
                  RestartReserves, RestartReleases, At, Unsettled
    <2> QED
      BY <1>4, <2>1, OtherMarks
  <1>5. CASE \/ RestartLooksUp(t) \/ RestartSnapshots(t) \/ RestartMarks(t)
             \/ RestartTypesExit(t) \/ RestartSeesGone(t) \/ RestartGracePasses(t)
             \/ RestartGivesUp(t)
    <2>1. th[t].pc \notin Unsettled
      BY <1>5 DEF RestartLooksUp, RestartSnapshots, RestartMarks, RestartTypesExit,
                  RestartSeesGone, RestartGracePasses, RestartGivesUp, At, Unsettled
    <2> QED
      BY <1>5, <2>1, RestartMarked
  <1>6. CASE \/ RestoreReadsLive(t)
             \/ RestoreReadsEntries(t)
             \/ \E n \in Names : RestoreCreates(t, n) \/ RestoreSkips(t, n)
    BY <1>6, RestoreMarks
  <1>7. CASE RestoreEnds(t)
    BY <1>7, RestoreEndsMarks
  <1> QED
    BY <1>1, <1>2, <1>3, <1>4, <1>5, <1>6, <1>7 DEF ThreadStep

LEMMA NextMarks ==
  ASSUME TypeInv, ListInv, OpsFit, MarksInv, OneRequest, "update" \notin Ops, [Next]_vars
  PROVE  MarksInv'
  <1>1. CASE \E t \in Threads : Request(t) \/ ThreadStep(t)
    BY <1>1, RequestMarks, StepsMarks
  <1>2. ~WorkerStep
    BY DEF WorkerStep, UpdateRestores, UpdateEnds, UpdateSeeds, UpdateNext, At, MarksInv, Lone
  <1>3. CASE \E p \in Pids : ReaperStep(p)
    BY <1>3, ReaperMarks
  <1>4. CASE (\E p \in Pids : ChildStep(p)) \/ UNCHANGED vars
    <2>1. UNCHANGED <<phase, tint, th, registry, manifest, owner>>
      BY <1>4 DEF ChildStep, UserExits, ObeysExit, ChildDies, agentVars, vars
    <2> QED
      BY <2>1, ShrinkMarks
  <1>5. CASE AgentStops \/ AgentBoots
    BY <1>5, StopMarks, BootMarks
  <1> QED
    BY <1>1, <1>2, <1>3, <1>4, <1>5 DEF Next

(* The mark a live session shows is the one its entry would bring back,    *)
(* once no thread is working on the name: for one request at a time, in    *)
(* an agent that starts no update job, whatever its children and reapers   *)
(* do meanwhile, and wherever it stops and starts again.                   *)
THEOREM MarksSafe ==
  ASSUME OneRequest, "update" \notin Ops
  PROVE  Spec => []MarksAgree
  <1>1. Init => ListInv /\ OpsFit /\ MarksInv
    BY InitList, InitKept, InitMarks
  <1>2. TypeInv /\ TypeInv' /\ ListInv /\ OpsFit /\ MarksInv /\ [Next]_vars
          => ListInv' /\ OpsFit' /\ MarksInv'
    BY NextList, NextOps, NextMarks
  <1>3. MarksInv => MarksAgree
    BY DEF MarksInv, Settled, Pends, Agree, MarksAgree, Busy
  <1> QED
    BY <1>1, <1>2, <1>3, TypeCorrect, PTL DEF Spec

=============================================================================
