---------------------------- MODULE Attach_proof ----------------------------
(***************************************************************************)
(* Proofs about Attach, for every set of clients and widths, every length  *)
(* of the ring and of the outgoing queues, and any number of changes.      *)
(*                                                                         *)
(* Neither NeverTorn nor NothingMissed is inductive: whether the next      *)
(* frame fits what a client shows is decided when the loop takes a         *)
(* snapshot or an item from the ring, long before the client sees it.  So  *)
(* the invariant follows one client's stream from end to end (StreamInv):  *)
(* the view, the frames on their way, the frame in the loop's hand and the *)
(* position of its receiver form one sequence without a gap.               *)
(*                                                                         *)
(* PinnedToNarrowest says nothing while a loop applies a size; SizeInv     *)
(* says what it is doing then: the size it applies is still the one the    *)
(* reports call for, because nobody reports another meanwhile.             *)
(***************************************************************************)
EXTENDS Attach, SequenceTheorems, WellFoundedInduction, NaturalsInduction, TLAPS

(* What a client makes sense of.                                           *)
Painting == {"snapshot", "chunk", "repaint"}
Paints(f) == f.kind \in Painting

(* A loop that is applying a size has one to apply; one between frames     *)
(* holds none.                                                             *)
HasGoal(c) == Resizing(c) => loop[c].goal # 0
TypeInv == TypeOK /\ \A c \in Clients : HasGoal(c)

-----------------------------------------------------------------------------
(* The stream of one client: its view, the frames on their way, the frame  *)
(* the loop holds and the item its receiver is at follow one another.      *)

(* The frames on their way: none is newer than the terminal or older than  *)
(* what is before it, and a chunk is on top of the version before it.      *)
InOrder(c) ==
  \A i \in 1..Len(out[c]) :
    LET f == out[c][i]
        base == IF i = 1 THEN view[c].ver ELSE out[c][i - 1].ver
        good == IF i = 1 THEN view[c].state = "good" ELSE Paints(out[c][i - 1])
    IN Paints(f) =>
         /\ f.ver <= Version
         /\ base <= f.ver
         /\ i > 1 => good
         /\ f.kind = "chunk" => good /\ base + 1 = f.ver

(* The last of them, or what is shown when there is none.                  *)
Tip(c) == IF out[c] = <<>> THEN view[c].ver ELSE out[c][Len(out[c])].ver
Showing(c) == IF out[c] = <<>> THEN view[c].state = "good"
              ELSE Paints(out[c][Len(out[c])])

(* Up to its first frame a client shows nothing.                           *)
Starting(c) ==
  loop[c].pc \in {"attach", "measure", "join", "greet"} =>
    out[c] = <<>> /\ view[c] = BlankView

(* A frame in hand is the item just before the receiver, and continues     *)
(* what was sent.                                                          *)
Holding(c) ==
  LET l == loop[c]
  IN /\ l.pc \in {"measure", "join", "greet"} =>
          l.held.kind = "snapshot" /\ l.held.ver + 1 = l.next
     /\ l.pc = "send" =>
          /\ Paints(l.held)
          /\ l.held.ver + 1 = l.next
          /\ "out" \in line[c] =>
               /\ Showing(c)
               /\ Tip(c) <= l.held.ver
               /\ l.held.kind = "chunk" => Tip(c) + 1 = l.held.ver
     /\ l.pc = "bye" => l.held = Closed

(* With no frame in hand the receiver is at the item after what was sent.  *)
Following(c) ==
  loop[c].pc \in {"probe", "loop", "refit"} \/ (Resizing(c) /\ sizes[c] # 0) =>
    ("out" \in line[c] => Showing(c) /\ Tip(c) + 1 = loop[c].next)

Shown(c) == view[c].state # "torn" /\ view[c].ver <= Version
Reach(c) == loop[c].next <= Version + 1

StreamInv(c) ==
  Shown(c) /\ Reach(c) /\ InOrder(c) /\ Starting(c) /\ Holding(c) /\ Following(c)

-----------------------------------------------------------------------------
(* The size: while one loop applies a size it is the one the reported      *)
(* sizes call for, and nobody reports another meanwhile.                   *)
Reported == {sizes[d] : d \in Clients} \ {0}
ExclusiveInv ==
  \A c, d \in Clients : c # d /\ Resizing(c) => ~Resizing(d) /\ ~At(d, "measure")
GoalInv ==
  \A c \in Clients : Resizing(c) =>
    /\ Reported # {} /\ loop[c].goal = Min(Reported)
    /\ At(c, "emulator") => master = loop[c].goal
    /\ At(c, "master") => master = cols
SizeInv == ExclusiveInv /\ GoalInv /\ PinnedToNarrowest

-----------------------------------------------------------------------------
LEMMA MinType ==
  ASSUME NEW S \in SUBSET Nat, S # {}
  PROVE  Min(S) \in S
  <1> DEFINE R == OpToRel(<, Nat)
  <1>1. IsWellFoundedOn(R, Nat)
    BY NatLessThanWellFounded
  <1>2. \A x, y \in Nat : <<y, x>> \in R <=> y < x
    BY Zenon DEF OpToRel
  <1> HIDE DEF R
  <1>3. \E x \in S : \A y \in S : ~ (<<y, x>> \in R)
    BY <1>1, WFMin
  <1>4. PICK x \in S : \A y \in S : ~ (<<y, x>> \in R)
    BY <1>3
  <1>5. \A y \in S : x \in Nat /\ y \in Nat /\ ~ (y < x)
    BY <1>2, <1>4, Zenon
  <1>6. \A y \in S : x <= y
    BY <1>5
  <1> QED
    BY <1>6 DEF Min

(* The size the clients call for is one of theirs or the one there is.     *)
LEMMA TargetType ==
  ASSUME TypeOK, NEW s \in [Clients -> Cols]
  PROVE  /\ Target(s) \in Cols \ {0}
         /\ Target(s) # cols => {s[d] : d \in Clients} \ {0} # {}
  <1> DEFINE R == {s[d] : d \in Clients} \ {0}
  <1>1. R \subseteq Cols \ {0} /\ Cols \subseteq Nat
    BY SizeAssumption DEF Cols
  <1>2. R # {} => Min(R) \in R
    BY <1>1, MinType
  <1>3. cols \in Cols \ {0}
    BY DEF TypeOK
  <1>4. Target(s) = IF R = {} THEN cols ELSE Min(R)
    BY DEF Target
  <1> HIDE DEF R
  <1>5. Target(s) \in Cols \ {0} /\ (Target(s) # cols => R # {})
    BY <1>1, <1>2, <1>3, <1>4
  <1> QED
    BY <1>5 DEF R

LEMMA Constants ==
  /\ NoFrame \in Frame /\ NoFrame.kind = "none" /\ NoFrame.ver = 0
  /\ Closed \in Frame /\ Closed.kind = "closed" /\ Closed.ver = 0
  /\ BlankView \in View /\ BlankView.state = "blank" /\ BlankView.ver = 0
  /\ Gone \in Loop /\ Gone.pc = "gone" /\ Gone.next = 1 /\ Gone.goal = 0
  BY CapAssumption DEF NoFrame, Frame, Closed, BlankView, View, Gone, Loop, Label, Cols

LEMMA VersionType == TypeOK => Version \in 0..MaxVersions /\ MaxVersions \in Nat
  <1> SUFFICES ASSUME TypeOK PROVE Version \in 0..MaxVersions /\ MaxVersions \in Nat
    OBVIOUS
  <1>1. Len(ring) \in Nat
    BY LenProperties DEF TypeOK
  <1> QED
    BY <1>1, CapAssumption DEF TypeOK, Version

LEMMA SnapshotType ==
  TypeOK => Snapshot \in Frame /\ Snapshot.kind = "snapshot" /\ Snapshot.ver = Version
  BY VersionType DEF Snapshot, Frame

(* What Session::attach leaves in the loop.                                *)
LEMMA AttachedType ==
  ASSUME TypeOK, NEW l \in Loop, NEW then \in Label
  PROVE  /\ Attached(l, then) \in Loop
         /\ Attached(l, then).pc = then
         /\ Attached(l, then).held.kind = "snapshot"
         /\ Attached(l, then).held.ver = Version
         /\ Attached(l, then).next = Version + 1
         /\ Attached(l, then).goal = l.goal
  <1>1. Version + 1 \in 1..(MaxVersions + 1)
    BY VersionType
  <1> QED
    BY <1>1, SnapshotType DEF Attached, Loop

(* What one loop's step means for all of them.                             *)
LEMMA LoopSet ==
  ASSUME TypeInv, NEW c \in Clients, NEW l \in Loop,
         loop' = [loop EXCEPT ![c] = l],
         l.pc \in {"master", "emulator"} => l.goal # 0
  PROVE  /\ loop' \in [Clients -> Loop]
         /\ loop'[c] = l
         /\ \A d \in Clients \ {c} : loop'[d] = loop[d]
         /\ \A d \in Clients : HasGoal(d)'
  BY DEF TypeInv, TypeOK, HasGoal, Resizing

(* A step of one loop that changes nothing else keeps the types if its     *)
(* new state has one.                                                      *)
LEMMA LoopMoves ==
  ASSUME TypeInv, NEW c \in Clients, NEW l \in Loop,
         l.pc \in {"master", "emulator"} => l.goal # 0,
         loop' = [loop EXCEPT ![c] = l],
         UNCHANGED <<ring, pty, exit, out, wire>>
  PROVE  TypeInv'
  BY DEF TypeInv, TypeOK, HasGoal, Resizing, Version, pty, exit, wire

LEMMA LoopType ==
  ASSUME TypeInv, NEW c \in Clients
  PROVE  /\ loop[c] \in Loop
         /\ loop[c].pc \in Label /\ loop[c].held \in Frame
         /\ loop[c].next \in 1..(MaxVersions + 1) /\ loop[c].goal \in Cols
         /\ Resizing(c) => loop[c].goal # 0
  BY DEF TypeInv, TypeOK, Loop, HasGoal

LEMMA InitType == Init => TypeInv
  <1> SUFFICES ASSUME Init PROVE TypeInv
    OBVIOUS
  <1>1. /\ ring \in Seq({"chunk", "repaint"}) /\ Len(ring) = 0 /\ MaxVersions \in Nat
        /\ \A c \in Clients : out[c] = <<>> /\ Len(out[c]) <= OutCap
        /\ out \in [Clients -> Seq(Frame)]
    BY CapAssumption DEF Init
  <1>2. cols \in Cols \ {0} /\ master \in Cols \ {0} /\ sizes \in [Clients -> Cols]
    BY SizeAssumption DEF Init, Cols
  <1>3. loop \in [Clients -> Loop] /\ view \in [Clients -> View]
        /\ line \in [Clients -> SUBSET {"in", "out"}]
        /\ \A c \in Clients : loop[c].pc = "gone"
    BY Constants DEF Init
  <1>4. TypeOK
    <2>1. Version <= MaxVersions
      BY <1>1 DEF Version
    <2> QED
      BY <1>1, <1>2, <1>3, <2>1 DEF Init, TypeOK
  <1>5. \A c \in Clients : HasGoal(c)
    BY <1>3 DEF HasGoal, Resizing
  <1> QED
    BY <1>4, <1>5 DEF TypeInv

-----------------------------------------------------------------------------
LEMMA BroadcastType ==
  ASSUME TypeInv, NEW k \in {"chunk", "repaint"}, Broadcast(k),
         UNCHANGED <<pty, exit, loop, out, wire>>
  PROVE  TypeInv' /\ Version' = Version + 1
  <1>1. ring' \in Seq({"chunk", "repaint"}) /\ Len(ring') = Len(ring) + 1
    BY DEF Broadcast, TypeInv, TypeOK
  <1>2. Version' <= MaxVersions /\ Version' = Version + 1
    BY <1>1, VersionType DEF Broadcast, Version, TypeInv
  <1> QED
    BY <1>1, <1>2 DEF TypeInv, TypeOK, HasGoal, Resizing, pty, exit, wire

LEMMA MarkClosedType ==
  ASSUME TypeInv, MarkClosed
  PROVE  /\ loop' \in [Clients -> Loop] /\ closed' \in BOOLEAN
         /\ \A c \in Clients : /\ loop'[c].pc = loop[c].pc
                               /\ loop'[c].held = loop[c].held
                               /\ loop'[c].next = loop[c].next
                               /\ loop'[c].goal = loop[c].goal
  <1>1. \A c \in Clients : loop[c] \in Loop
    BY LoopType
  <1>2. \A c \in Clients : (loop[c].wake \/ Subscribed(c)) \in BOOLEAN
    BY <1>1 DEF Loop, Subscribed
  <1> QED
    BY ZenonT(60), <1>1, <1>2 DEF MarkClosed, Loop, TypeInv, TypeOK

LEMMA SessionStepType ==
  ASSUME TypeInv, SessionStep
  PROVE  TypeInv'
  <1>1. CASE PumpForwards \/ ClearsHistory
    BY <1>1, BroadcastType DEF PumpForwards, ClearsHistory
  <1>2. CASE PumpEnds
    BY <1>2, MarkClosedType
    DEF PumpEnds, TypeInv, TypeOK, HasGoal, Resizing, Version, pty, wire
  <1>3. CASE ReaperMarks
    BY <1>3, MarkClosedType
    DEF ReaperMarks, TypeInv, TypeOK, HasGoal, Resizing, Version, pty, wire
  <1>4. CASE ChildExits \/ ReaperRemoves
    BY <1>4
    DEF ChildExits, ReaperRemoves, TypeInv, TypeOK, HasGoal, Resizing, Version, pty, wire
  <1> QED
    BY <1>1, <1>2, <1>3, <1>4 DEF SessionStep

LEMMA PaintedType ==
  ASSUME NEW v \in View, NEW f \in Frame
  PROVE  Painted(v, f) \in View
  BY DEF Painted, View, Frame

LEMMA TransportStepType ==
  ASSUME TypeInv, NEW c \in Clients, TransportStep(c)
  PROVE  TypeInv'
  <1>1. CASE Opens(c)
    <2>1. [Gone EXCEPT !.pc = "attach"] \in Loop
          /\ [Gone EXCEPT !.pc = "attach"].pc = "attach"
      BY Constants DEF Loop, Label
    <2> QED
      BY <1>1, <2>1, Constants
      DEF Opens, TypeInv, TypeOK, HasGoal, Resizing, Version, pty, exit
  <1>2. ASSUME NEW d \in {"in", "out"}, Drops(c, d) PROVE TypeInv'
    <2>1. out' \in [Clients -> Seq(Frame)]
      BY <1>2 DEF Drops, TypeInv, TypeOK
    <2>2. \A e \in Clients : Len(out'[e]) <= OutCap
      BY <1>2, CapAssumption DEF Drops, TypeInv, TypeOK
    <2> QED
      BY <1>2, <2>1, <2>2
      DEF Drops, TypeInv, TypeOK, HasGoal, Resizing, Version, pty, exit
  <1>3. CASE Shows(c)
    <2>1. out[c] \in Seq(Frame) /\ out[c] # <<>> /\ view[c] \in View
      BY <1>3 DEF Shows, TypeInv, TypeOK
    <2>2. Head(out[c]) \in Frame /\ Tail(out[c]) \in Seq(Frame)
          /\ Len(Tail(out[c])) = Len(out[c]) - 1
      BY <2>1, HeadTailProperties
    <2>3. Len(out[c]) \in Nat /\ Len(out[c]) <= OutCap
      BY <2>1, LenProperties DEF TypeInv, TypeOK
    <2>4. Len(Tail(out[c])) <= OutCap
      BY <2>2, <2>3, CapAssumption
    <2>5. Painted(view[c], Head(out[c])) \in View
      BY <2>1, <2>2, PaintedType
    <2> QED
      BY <1>3, <2>2, <2>4, <2>5
      DEF Shows, TypeInv, TypeOK, HasGoal, Resizing, Version, pty, exit
  <1> QED
    BY <1>1, <1>2, <1>3 DEF TransportStep

(* reconcile, and what of it the size needs.                               *)
LEMMA ReconcileType ==
  ASSUME TypeInv, NEW c \in Clients, NEW w \in Cols, NEW then \in Loop,
         then.pc \in Label \ {"master", "emulator"},
         Reconcile(c, w, then), UNCHANGED <<ring, cols, master, exit, out, wire>>
  PROVE  /\ TypeInv' /\ sizes' = [sizes EXCEPT ![c] = w]
         /\ loop'[c].held = then.held /\ loop'[c].next = then.next
         /\ \A d \in Clients \ {c} : loop'[d] = loop[d]
         /\ \/ /\ Target(sizes') = cols
               /\ loop'[c].pc = then.pc
            \/ /\ Target(sizes') # cols
               /\ loop'[c].pc = "master" /\ loop'[c].goal = Target(sizes')
  <1> DEFINE s == [sizes EXCEPT ![c] = w]
             move == [then EXCEPT !.pc = "master", !.goal = Target(s)]
  <1>1. s \in [Clients -> Cols] /\ sizes' = s
    BY DEF TypeInv, TypeOK, Reconcile
  <1>2. Target(s) \in Cols \ {0} /\ Target(s)' = Target(s)
    BY <1>1, TargetType DEF TypeInv, Target
  <1>3. /\ move \in Loop /\ move.pc = "master" /\ move.goal = Target(s)
        /\ move.held = then.held /\ move.next = then.next
    BY <1>2 DEF Loop, Label
  <1> DEFINE l == IF Target(s) = cols THEN then ELSE move
  <1>4. loop' = [loop EXCEPT ![c] = l]
    BY DEF Reconcile
  <1>5. sizes' = [sizes EXCEPT ![c] = w] /\ Target(sizes') = Target(s)
    BY <1>1
  <1> HIDE DEF s, move
  <1>6. l \in Loop /\ (l.pc \in {"master", "emulator"} => l.goal # 0)
    BY <1>2, <1>3
  <1> HIDE DEF l
  <1>7. /\ loop' \in [Clients -> Loop] /\ loop'[c] = l
        /\ \A d \in Clients \ {c} : loop'[d] = loop[d]
        /\ \A d \in Clients : HasGoal(d)'
    BY <1>4, <1>6, LoopSet
  <1>8. TypeInv'
    BY <1>1, <1>7 DEF TypeInv, TypeOK, Version, exit, wire
  <1> QED
    BY <1>3, <1>5, <1>7, <1>8 DEF l

LEMMA TakesResizeType ==
  ASSUME TypeInv, NEW c \in Clients, NEW w \in Widths, TakesResize(c, w)
  PROVE  TypeInv'
  <1> DEFINE then == [loop[c] EXCEPT !.pc = "refit", !.sized = TRUE, !.width = w,
                                     !.first = ~loop[c].sized]
  <1>1. w \in Cols
    BY DEF Cols
  <1>2. then \in Loop /\ then.pc = "refit"
    BY <1>1, LoopType DEF Loop, Label
  <1>3. CASE w = 0
    <2>1. loop' = [loop EXCEPT ![c] = then] /\ UNCHANGED <<ring, pty, exit, out, wire>>
      BY <1>3 DEF TakesResize, pty
    <2> QED
      BY <1>2, <2>1, LoopMoves
  <1>4. CASE w # 0
    <2>1. Reconcile(c, w, then) /\ UNCHANGED <<ring, cols, master, exit, out, wire>>
      BY <1>4 DEF TakesResize
    <2> HIDE DEF then
    <2> QED
      BY <1>1, <1>2, <2>1, ReconcileType DEF Label
  <1> QED
    BY <1>3, <1>4

(* The loop leaves when nobody receives; else the frame joins the others.  *)
LEMMA SendsType ==
  ASSUME TypeInv, NEW c \in Clients, Sends(c)
  PROVE  /\ TypeInv'
         /\ \A d \in Clients \ {c} : loop'[d] = loop[d]
         /\ loop'[c].next = loop[c].next
         /\ \/ "out" \notin line[c] /\ loop'[c].pc = "leave" /\ UNCHANGED out
            \/ /\ "out" \in line[c]
               /\ out' = [out EXCEPT ![c] = Append(@, loop[c].held)]
               /\ \/ loop[c].pc = "greet" /\ loop'[c].pc = "probe"
                  \/ loop[c].pc = "send" /\ loop'[c].pc = "loop"
                  \/ loop[c].pc = "bye" /\ loop'[c].pc = "leave"
  <1> DEFINE left == [loop[c] EXCEPT !.pc = "leave", !.held = NoFrame]
             gone == [loop[c] EXCEPT !.pc = Then[loop[c].pc], !.held = NoFrame]
             then == Then[loop[c].pc]
  <1>1. loop[c] \in Loop /\ loop[c].held \in Frame
        /\ out[c] \in Seq(Frame) /\ Len(out[c]) \in Nat
    BY LoopType, LenProperties DEF TypeInv, TypeOK
  <1>2. \/ loop[c].pc = "greet" /\ then = "probe"
        \/ loop[c].pc = "send" /\ then = "loop"
        \/ loop[c].pc = "bye" /\ then = "leave"
    BY DEF Sends, Then
  <1>3. left \in Loop /\ left.pc = "leave" /\ left.next = loop[c].next
    BY <1>1, Constants DEF Loop, Label
  <1> HIDE DEF then
  <1>4. gone = [loop[c] EXCEPT !.pc = then, !.held = NoFrame]
    BY DEF then
  <1>5. gone \in Loop /\ gone.pc = then /\ gone.next = loop[c].next
    BY <1>1, <1>2, <1>4, Constants DEF Loop, Label
  <1>6. UNCHANGED <<ring, pty, exit, wire>>
    BY DEF Sends
  <1>7. CASE "out" \notin line[c]
    <2>1. loop' = [loop EXCEPT ![c] = left] /\ UNCHANGED out
      BY <1>7 DEF Sends
    <2> HIDE DEF left
    <2>2. TypeInv'
      BY <1>3, <1>6, <2>1, LoopMoves
    <2> QED
      BY <1>3, <1>7, <2>1, <2>2, LoopSet
  <1>8. CASE "out" \in line[c]
    <2>1. /\ Len(out[c]) < OutCap /\ out' = [out EXCEPT ![c] = Append(@, loop[c].held)]
          /\ loop' = [loop EXCEPT ![c] = gone]
      BY <1>8 DEF Sends
    <2>2. Append(out[c], loop[c].held) \in Seq(Frame)
          /\ Len(Append(out[c], loop[c].held)) = Len(out[c]) + 1
      BY <1>1
    <2>3. \A d \in Clients : out'[d] \in Seq(Frame) /\ Len(out'[d]) <= OutCap
      BY <1>1, <2>1, <2>2, CapAssumption DEF TypeInv, TypeOK
    <2>4. out' \in [Clients -> Seq(Frame)]
      BY <2>1, <2>3 DEF TypeInv, TypeOK
    <2> HIDE DEF gone
    <2>5. /\ loop' \in [Clients -> Loop] /\ loop'[c] = gone
          /\ \A d \in Clients \ {c} : loop'[d] = loop[d]
          /\ \A d \in Clients : HasGoal(d)'
      BY <1>2, <1>5, <2>1, LoopSet
    <2>6. TypeInv'
      BY <1>6, <2>3, <2>4, <2>5 DEF TypeInv, TypeOK, Version, pty, exit, wire
    <2> QED
      BY <1>2, <1>5, <1>8, <2>1, <2>5, <2>6
  <1> QED
    BY <1>7, <1>8

LEMMA ReceivesType ==
  ASSUME TypeInv, NEW c \in Clients, Receives(c)
  PROVE  /\ TypeInv'
         /\ loop'[c].pc = "send" /\ Paints(loop'[c].held)
         /\ loop'[c].held.ver + 1 = loop'[c].next
         /\ loop[c].next <= loop'[c].held.ver /\ loop'[c].held.ver <= Version
         /\ loop'[c].held.kind = "chunk" => loop'[c].held.ver = loop[c].next
         /\ \A d \in Clients \ {c} : loop'[d] = loop[d]
  <1> DEFINE l == loop[c]
             go == [l EXCEPT !.pc = "send", !.held = Item(l.next), !.next = l.next + 1]
             at == Attached(l, "send")
  <1>1. l \in Loop /\ l.next \in 1..(MaxVersions + 1) /\ l.next <= Version
        /\ Version \in 0..MaxVersions /\ MaxVersions \in Nat
    BY LoopType, VersionType DEF Receives, TypeInv
  <1>2. ring[l.next] \in {"chunk", "repaint"}
    BY <1>1, ElementOfSeq DEF TypeInv, TypeOK, Version
  <1>3. Item(l.next) \in Frame /\ Paints(Item(l.next)) /\ Item(l.next).ver = l.next
    BY <1>1, <1>2 DEF Item, Frame, Paints, Painting
  <1>4. /\ go \in Loop /\ go.pc = "send" /\ go.held = Item(l.next)
        /\ go.next = l.next + 1 /\ go.goal = l.goal
    <2>1. l.next + 1 \in 1..(MaxVersions + 1)
      BY <1>1
    <2>2. Item(l.next) \in Frame /\ l \in Loop
      BY <1>1, <1>3
    <2> DEFINE f == Item(l.next)
               n == l.next + 1
    <2> HIDE DEF f, n
    <2>3. ASSUME f \in Frame, n \in 1..(MaxVersions + 1)
          PROVE  LET r == [l EXCEPT !.pc = "send", !.held = f, !.next = n]
                 IN /\ r \in Loop /\ r.pc = "send" /\ r.held = f /\ r.next = n
                    /\ r.goal = l.goal
      BY <2>2, <2>3 DEF Loop, Label
    <2> QED
      BY <2>1, <2>2, <2>3 DEF f, n
  <1>5. /\ at \in Loop /\ at.pc = "send" /\ at.held.kind = "snapshot"
        /\ at.held.ver = Version /\ at.next = Version + 1 /\ at.goal = l.goal
    BY <1>1, AttachedType DEF TypeInv, Label
  <1>6. \/ loop' = [loop EXCEPT ![c] = at]
        \/ loop' = [loop EXCEPT ![c] = go]
    BY DEF Receives
  <1>7. UNCHANGED <<ring, pty, exit, out, wire>>
    BY DEF Receives
  <1> HIDE DEF go, at
  <1>8. TypeInv'
    BY <1>4, <1>5, <1>6, <1>7, LoopMoves
  <1>9. (loop'[c] = at \/ loop'[c] = go) /\ \A d \in Clients \ {c} : loop'[d] = loop[d]
    BY <1>6 DEF TypeInv, TypeOK
  <1>10. at.held.kind # "chunk" /\ Paints(at.held)
    BY <1>5 DEF Paints, Painting
  <1> QED
    BY <1>1, <1>3, <1>4, <1>5, <1>8, <1>9, <1>10

LEMMA RefitsType ==
  ASSUME TypeInv, NEW c \in Clients, Refits(c)
  PROVE  /\ TypeInv'
         /\ \/ /\ loop'[c].pc = "loop" /\ loop'[c].next = loop[c].next
            \/ /\ loop'[c].pc = "send" /\ loop'[c].held.kind = "snapshot"
               /\ loop'[c].held.ver = Version /\ loop'[c].next = Version + 1
         /\ \A d \in Clients \ {c} : loop'[d] = loop[d]
  <1> DEFINE l == loop[c]
             done == [l EXCEPT !.pc = "loop", !.first = FALSE, !.width = 0, !.snap = 0]
             at == Attached(done, "send")
  <1>1. l \in Loop
    BY LoopType
  <1>2. done \in Loop /\ done.pc = "loop" /\ done.next = l.next
    BY <1>1 DEF Loop, Label, Cols
  <1>3. /\ at \in Loop /\ at.pc = "send" /\ at.held.kind = "snapshot"
        /\ at.held.ver = Version /\ at.next = Version + 1
    BY <1>2, AttachedType DEF TypeInv, Label
  <1>4. \/ loop' = [loop EXCEPT ![c] = at]
        \/ loop' = [loop EXCEPT ![c] = done]
    BY DEF Refits
  <1>5. UNCHANGED <<ring, pty, exit, out, wire>>
    BY DEF Refits
  <1> HIDE DEF done, at
  <1>6. TypeInv'
    BY <1>2, <1>3, <1>4, <1>5, LoopMoves
  <1>7. (loop'[c] = at \/ loop'[c] = done) /\ \A d \in Clients \ {c} : loop'[d] = loop[d]
    BY <1>4 DEF TypeInv, TypeOK
  <1> QED
    BY <1>2, <1>3, <1>6, <1>7

LEMMA AttachesType ==
  ASSUME TypeInv, NEW c \in Clients, Attaches(c)
  PROVE  /\ TypeInv'
         /\ loop'[c].pc = "measure" /\ loop'[c].held.kind = "snapshot"
         /\ loop'[c].held.ver = Version /\ loop'[c].next = Version + 1
         /\ \A d \in Clients \ {c} : loop'[d] = loop[d]
  <1> DEFINE at == Attached(loop[c], "measure")
  <1>1. /\ at \in Loop /\ at.pc = "measure" /\ at.held.kind = "snapshot"
        /\ at.held.ver = Version /\ at.next = Version + 1
    BY LoopType, AttachedType DEF TypeInv, Label
  <1>2. loop' = [loop EXCEPT ![c] = at] /\ UNCHANGED <<ring, pty, exit, out, wire>>
    BY DEF Attaches, TypeInv, TypeOK
  <1> HIDE DEF at
  <1>3. TypeInv'
    BY <1>1, <1>2, LoopMoves
  <1> QED
    BY <1>1, <1>2, <1>3 DEF TypeInv, TypeOK

(* The steps that only move the loop on.                                   *)
LEMMA PlainType ==
  ASSUME TypeInv, NEW c \in Clients,
         Measures(c) \/ Joins(c) \/ Probes(c) \/ SeesClosed(c) \/ SeesDetach(c)
  PROVE  /\ TypeInv'
         /\ \A d \in Clients \ {c} : loop'[d] = loop[d]
         /\ loop'[c].next = loop[c].next
         /\ Measures(c) => loop'[c].pc = "join" /\ loop'[c].held = loop[c].held
         /\ Joins(c) => loop'[c].pc = "greet" /\ loop'[c].held = loop[c].held
         /\ loop'[c].pc \in {"join", "greet", "loop", "bye", "leave"}
         /\ Probes(c) => loop'[c].pc \in {"loop", "bye"}
         /\ SeesClosed(c) => loop'[c].pc = "bye"
         /\ SeesDetach(c) => loop'[c].pc = "leave"
         /\ loop'[c].pc = "bye" => loop'[c].held = Closed
  <1>1. loop[c] \in Loop /\ cols \in Cols /\ loop \in [Clients -> Loop]
    BY LoopType DEF TypeInv, TypeOK
  <1>2. ASSUME Measures(c)
        PROVE  loop' = [loop EXCEPT ![c] = [loop[c] EXCEPT !.pc = "join", !.snap = cols]]
    BY <1>1, <1>2 DEF Measures
  <1>3. ASSUME Joins(c)
        PROVE  loop' = [loop EXCEPT ![c] = [loop[c] EXCEPT !.pc = "greet"]]
    BY <1>1, <1>3 DEF Joins, Goto
  <1>4. ASSUME Probes(c)
        PROVE  \/ loop' = [loop EXCEPT ![c] = [loop[c] EXCEPT !.pc = "bye", !.held = Closed]]
               \/ loop' = [loop EXCEPT ![c] = [loop[c] EXCEPT !.pc = "loop", !.held = NoFrame]]
    BY <1>1, <1>4 DEF Probes
  <1>5. ASSUME SeesClosed(c)
        PROVE  loop' = [loop EXCEPT ![c] = [loop[c] EXCEPT !.pc = "bye", !.held = Closed]]
    BY <1>1, <1>5 DEF SeesClosed
  <1>6. ASSUME SeesDetach(c)
        PROVE  loop' = [loop EXCEPT ![c] = [loop[c] EXCEPT !.pc = "leave"]]
    BY <1>1, <1>6 DEF SeesDetach, Goto
  <1>7. UNCHANGED <<ring, pty, exit, out, wire>>
    BY DEF Measures, Joins, Probes, SeesClosed, SeesDetach
  <1>8. \A f \in Frame, w \in Cols, p \in Label :
          /\ [loop[c] EXCEPT !.pc = p] \in Loop
          /\ [loop[c] EXCEPT !.pc = p, !.snap = w] \in Loop
          /\ [loop[c] EXCEPT !.pc = p, !.held = f] \in Loop
          /\ [loop[c] EXCEPT !.pc = p, !.held = f].pc = p
    BY <1>1 DEF Loop
  <1>12. \E l \in Loop : /\ l.pc \notin {"master", "emulator"}
                         /\ loop' = [loop EXCEPT ![c] = l]
    <2>1. {"join", "greet", "loop", "bye", "leave"} \subseteq Label
      BY DEF Label
    <2>2. ASSUME NEW l \in Loop, l.pc \notin {"master", "emulator"},
                 loop' = [loop EXCEPT ![c] = l]
          PROVE  \E k \in Loop : /\ k.pc \notin {"master", "emulator"}
                                 /\ loop' = [loop EXCEPT ![c] = k]
      BY <2>2
    <2>3. CASE Measures(c)
      BY <1>1, <1>2, <1>8, <2>1, <2>2, <2>3 DEF Loop
    <2>4. CASE Joins(c)
      BY <1>1, <1>3, <1>8, <2>1, <2>2, <2>4 DEF Loop
    <2> DEFINE bye == [loop[c] EXCEPT !.pc = "bye", !.held = Closed]
               go == [loop[c] EXCEPT !.pc = "loop", !.held = NoFrame]
    <2>5. bye \in Loop /\ bye.pc = "bye" /\ go \in Loop /\ go.pc = "loop"
      BY <1>1, Constants DEF Loop, Label
    <2>6. Probes(c) => loop' = [loop EXCEPT ![c] = bye] \/ loop' = [loop EXCEPT ![c] = go]
      BY <1>4
    <2>7. SeesClosed(c) => loop' = [loop EXCEPT ![c] = bye]
      BY <1>5
    <2> HIDE DEF bye, go
    <2>8. CASE Probes(c)
      BY <2>2, <2>5, <2>6, <2>8
    <2>9. CASE SeesClosed(c)
      BY <2>2, <2>5, <2>7, <2>9
    <2>10. CASE SeesDetach(c)
      BY <1>1, <1>6, <1>8, <2>1, <2>2, <2>10 DEF Loop
    <2> QED
      BY <2>3, <2>4, <2>8, <2>9, <2>10
  <1>9. TypeInv'
    BY <1>7, <1>12, LoopMoves
  <1>10. \A d \in Clients \ {c} : loop'[d] = loop[d]
    BY <1>1, <1>12
  <1>11. At(c, "measure") \/ At(c, "join") \/ At(c, "probe") \/ At(c, "loop")
    BY DEF Measures, Joins, Probes, SeesClosed, SeesDetach
  <1> QED
    BY <1>1, <1>2, <1>3, <1>4, <1>5, <1>6, <1>9, <1>10, Constants
    DEF Loop, Label, At, Measures, Joins, Probes, SeesClosed, SeesDetach

LEMMA ResizesType ==
  ASSUME TypeInv, NEW c \in Clients, ResizesPty(c) \/ ResizesEmulator(c)
  PROVE  /\ TypeInv'
         /\ \A d \in Clients \ {c} : loop'[d] = loop[d]
         /\ ResizesPty(c) =>
              /\ loop'[c].pc = "emulator" /\ loop'[c].goal = loop[c].goal
              /\ loop'[c].next = loop[c].next
         /\ ResizesEmulator(c) /\ sizes[c] = 0 => loop'[c] = Gone
         /\ ResizesEmulator(c) /\ sizes[c] # 0 =>
              loop'[c].pc = "refit" /\ loop'[c].next = loop[c].next
  <1>1. loop[c] \in Loop /\ loop \in [Clients -> Loop]
    BY LoopType DEF TypeInv, TypeOK
  <1>2. loop[c].goal \in Cols \ {0}
    BY LoopType DEF ResizesPty, ResizesEmulator, Resizing, At
  <1>3. CASE ResizesPty(c)
    <2>1. loop' = [loop EXCEPT ![c] = [loop[c] EXCEPT !.pc = "emulator"]]
      BY <1>1, <1>3 DEF ResizesPty, Goto
    <2>2. [loop[c] EXCEPT !.pc = "emulator"] \in Loop
      BY <1>1 DEF Loop, Label
    <2>3. ~ResizesEmulator(c)
      BY <1>3 DEF ResizesPty, ResizesEmulator, At
    <2>4. master' \in Cols \ {0} /\ UNCHANGED <<ring, cols, sizes, exit, out, wire>>
      BY <1>2, <1>3 DEF ResizesPty
    <2> DEFINE on == [loop[c] EXCEPT !.pc = "emulator"]
    <2>5. on.pc = "emulator" /\ on.goal = loop[c].goal /\ on.next = loop[c].next
      BY <1>1 DEF Loop
    <2> HIDE DEF on
    <2>6. /\ loop' \in [Clients -> Loop] /\ loop'[c] = on
          /\ \A d \in Clients \ {c} : loop'[d] = loop[d]
          /\ \A d \in Clients : HasGoal(d)'
      BY <1>2, <2>1, <2>2, <2>5, LoopSet DEF on
    <2>7. TypeInv'
      BY <2>4, <2>6 DEF TypeInv, TypeOK, Version, exit, wire
    <2> QED
      BY <2>3, <2>5, <2>6, <2>7
  <1>4. CASE ResizesEmulator(c)
    <2> DEFINE on == [loop[c] EXCEPT !.pc = "refit", !.goal = 0]
    <2>1. loop' = [loop EXCEPT ![c] = IF sizes[c] = 0 THEN Gone ELSE on]
      BY <1>1, <1>4 DEF ResizesEmulator
    <2>2. on \in Loop /\ on.pc = "refit" /\ on.next = loop[c].next
      BY <1>1 DEF Loop, Label, Cols
    <2> HIDE DEF on
    <2>3. ~ResizesPty(c)
      BY <1>4 DEF ResizesPty, ResizesEmulator, At
    <2>4. cols' \in Cols \ {0} /\ UNCHANGED <<ring, master, sizes, exit, out, wire>>
      BY <1>2, <1>4 DEF ResizesEmulator
    <2> DEFINE l == IF sizes[c] = 0 THEN Gone ELSE on
    <2>5. l \in Loop /\ l.pc \notin {"master", "emulator"}
      BY <2>2, Constants
    <2> HIDE DEF l
    <2>6. /\ loop' \in [Clients -> Loop] /\ loop'[c] = l
          /\ \A d \in Clients \ {c} : loop'[d] = loop[d]
          /\ \A d \in Clients : HasGoal(d)'
      BY <2>1, <2>5, LoopSet DEF l
    <2>7. TypeInv'
      BY <2>4, <2>6 DEF TypeInv, TypeOK, Version, exit, wire
    <2>8. /\ sizes[c] = 0 => loop'[c] = Gone
          /\ sizes[c] # 0 => loop'[c].pc = "refit" /\ loop'[c].next = loop[c].next
      BY <2>2, <2>6 DEF l
    <2> QED
      BY <2>3, <2>6, <2>7, <2>8
  <1> QED
    BY <1>3, <1>4

LEMMA UnregistersType ==
  ASSUME TypeInv, NEW c \in Clients, Unregisters(c)
  PROVE  TypeInv'
  BY Constants, ReconcileType DEF Unregisters, Cols, Label

LEMMA LoopStepType ==
  ASSUME TypeInv, NEW c \in Clients, LoopStep(c)
  PROVE  TypeInv'
  BY AttachesType, PlainType, SendsType, ReceivesType, ResizesType, RefitsType,
     UnregistersType, TakesResizeType
  DEF LoopStep

LEMMA NextType == TypeInv /\ [Next]_vars => TypeInv'
  <1> SUFFICES ASSUME TypeInv, [Next]_vars PROVE TypeInv'
    OBVIOUS
  <1>1. CASE UNCHANGED vars
    BY <1>1 DEF vars, TypeInv, TypeOK, HasGoal, Resizing, Version, pty, exit, wire
  <1>2. CASE Next
    BY <1>2, SessionStepType, LoopStepType, TransportStepType DEF Next
  <1> QED
    BY <1>1, <1>2

LEMMA TypeCorrect == Spec => []TypeInv
  BY InitType, NextType, PTL DEF Spec

(* Every variable keeps its type in every behaviour, the outgoing queues   *)
(* their bound.                                                            *)
THEOREM TypeSafe == Spec => []TypeOK
  <1>1. TypeInv => TypeOK
    BY DEF TypeInv
  <1> QED
    BY <1>1, TypeCorrect, PTL

-----------------------------------------------------------------------------
LEMMA StreamTypes ==
  ASSUME TypeInv, NEW c \in Clients
  PROVE  /\ view[c].ver \in Nat /\ view[c].state \in {"blank", "good", "torn"}
         /\ out[c] \in Seq(Frame) /\ Len(out[c]) \in Nat
         /\ \A i \in 1..Len(out[c]) : out[c][i] \in Frame /\ out[c][i].ver \in Nat
         /\ out[c] = <<>> <=> Len(out[c]) = 0
         /\ loop[c].next \in Nat /\ loop[c].held.ver \in Nat
         /\ Version \in Nat /\ Tip(c) \in Nat
  <1>1. view[c] \in View /\ out[c] \in Seq(Frame)
    BY DEF TypeInv, TypeOK
  <1>2. \A i \in 1..Len(out[c]) : out[c][i] \in Frame
    BY <1>1, ElementOfSeq
  <1>3. Len(out[c]) \in Nat /\ (out[c] = <<>> <=> Len(out[c]) = 0)
    BY <1>1, LenProperties, EmptySeq
  <1>4. Version \in Nat /\ loop[c].next \in Nat /\ loop[c].held \in Frame
    BY VersionType, LoopType DEF TypeInv
  <1>5. \A f \in Frame : f.ver \in Nat
    BY VersionType DEF Frame, TypeInv
  <1>6. view[c].ver \in Nat /\ view[c].state \in {"blank", "good", "torn"}
    BY <1>1, VersionType DEF View, TypeInv
  <1>7. Tip(c) \in Nat
    BY <1>2, <1>3, <1>5, <1>6 DEF Tip
  <1> QED
    BY <1>1, <1>2, <1>3, <1>4, <1>5, <1>6, <1>7

(* A client whose loop stays where it is follows the terminal when that    *)
(* goes on.                                                                *)
LEMMA Quiet ==
  ASSUME TypeInv, TypeInv', NEW c \in Clients, StreamInv(c), Version <= Version',
         loop'[c].pc = loop[c].pc, loop'[c].held = loop[c].held,
         loop'[c].next = loop[c].next,
         out'[c] = out[c], line'[c] = line[c], view'[c] = view[c],
         sizes'[c] = sizes[c]
  PROVE  StreamInv(c)'
  <1>1. Version \in Nat /\ Version' \in Nat
    <2>1. ring \in Seq({"chunk", "repaint"}) /\ ring' \in Seq({"chunk", "repaint"})
      BY DEF TypeInv, TypeOK
    <2> QED
      BY <2>1, LenProperties DEF Version
  <1>2. Shown(c)'
    BY <1>1, StreamTypes DEF StreamInv, Shown
  <1>3. Reach(c)'
    BY <1>1, StreamTypes DEF StreamInv, Reach
  <1>4. InOrder(c)'
    BY <1>1, StreamTypes DEF StreamInv, InOrder, Paints
  <1>5. Starting(c)'
    BY DEF StreamInv, Starting
  <1>6. Tip(c)' = Tip(c) /\ Showing(c)' = Showing(c)
    BY DEF Tip, Showing, Paints
  <1>7. Holding(c)'
    BY <1>6 DEF StreamInv, Holding, Paints
  <1>8. Following(c)'
    BY <1>6 DEF StreamInv, Following, Resizing
  <1> QED
    BY <1>2, <1>3, <1>4, <1>5, <1>7, <1>8 DEF StreamInv

(* A step of the loop alone leaves what is on its way as it is.            *)
LEMMA Still ==
  ASSUME TypeInv, NEW c \in Clients, StreamInv(c), UNCHANGED <<ring, out, wire>>
  PROVE  /\ Shown(c)' /\ InOrder(c)' /\ Version' = Version
         /\ Tip(c)' = Tip(c) /\ Showing(c)' = Showing(c)
  BY DEF StreamInv, Shown, InOrder, Tip, Showing, Paints, Version, wire

(* A frame that continues what is on its way may join it.                  *)
LEMMA Appended ==
  ASSUME TypeInv, NEW c \in Clients, NEW f \in Frame, InOrder(c),
         out' = [out EXCEPT ![c] = Append(@, f)], UNCHANGED <<ring, wire>>,
         Paints(f) => /\ f.ver <= Version /\ Tip(c) <= f.ver
                      /\ out[c] # <<>> => Showing(c)
                      /\ f.kind = "chunk" => Showing(c) /\ Tip(c) + 1 = f.ver
  PROVE  InOrder(c)' /\ out'[c] # <<>> /\ Tip(c)' = f.ver /\ Showing(c)' = Paints(f)
  <1> DEFINE o == out[c]
             n == Len(out[c])
             p == Append(o, f)
  <1>1. o \in Seq(Frame) /\ n \in Nat /\ (o = <<>> <=> n = 0)
    BY StreamTypes
  <1>2. p \in Seq(Frame) /\ Len(p) = n + 1 /\ p[n + 1] = f
        /\ \A i \in 1..n : p[i] = o[i]
    BY <1>1
  <1>3. out'[c] = p
    BY DEF TypeInv, TypeOK
  <1>4. p # <<>>
    BY <1>1, <1>2
  <1>5. Tip(c)' = f.ver /\ Showing(c)' = Paints(f)
    BY <1>2, <1>3, <1>4 DEF Tip, Showing, Paints
  <1>6. view' = view /\ Version' = Version
    BY DEF wire, Version
  <1>7. ASSUME NEW i \in 1..(n + 1)
        PROVE  LET g == p[i]
                   base == IF i = 1 THEN view[c].ver ELSE p[i - 1].ver
                   good == IF i = 1 THEN view[c].state = "good" ELSE Paints(p[i - 1])
               IN Paints(g) =>
                    /\ g.ver <= Version
                    /\ base <= g.ver
                    /\ i > 1 => good
                    /\ g.kind = "chunk" => good /\ base + 1 = g.ver
    <2>1. CASE i = n + 1
      <3>1. p[i] = f
        BY <1>2, <2>1
      <3>2. CASE n = 0
        BY <1>1, <2>1, <3>1, <3>2 DEF Tip, Showing
      <3>3. CASE n # 0
        <4>1. i # 1 /\ i - 1 = n /\ p[i - 1] = o[n] /\ o # <<>>
          BY <1>1, <1>2, <2>1, <3>3
        <4>2. Tip(c) = p[i - 1].ver /\ Showing(c) = Paints(p[i - 1])
          BY <1>1, <4>1 DEF Tip, Showing
        <4> HIDE DEF p, n, o
        <4> QED
          BY <1>1, <3>1, <4>1, <4>2 DEF o
      <3> QED
        BY <3>2, <3>3
    <2>2. CASE i \in 1..n
      <3>1. p[i] = o[i] /\ (i # 1 => p[i - 1] = o[i - 1])
        BY <1>1, <1>2, <2>2
      <3> HIDE DEF p
      <3> QED
        BY <2>2, <3>1 DEF InOrder
    <2> QED
      BY <1>1, <2>1, <2>2
  <1>8. InOrder(c)'
    <2>1. InOrder(c)' <=>
            \A i \in 1..Len(p) :
              LET g == p[i]
                  base == IF i = 1 THEN view[c].ver ELSE p[i - 1].ver
                  good == IF i = 1 THEN view[c].state = "good" ELSE Paints(p[i - 1])
              IN Paints(g) =>
                   /\ g.ver <= Version
                   /\ base <= g.ver
                   /\ i > 1 => good
                   /\ g.kind = "chunk" => good /\ base + 1 = g.ver
      BY <1>3, <1>6 DEF InOrder, Paints
    <2> HIDE DEF p
    <2> QED
      BY <1>2, <1>7, <2>1
  <1> QED
    BY <1>3, <1>4, <1>5, <1>8

-----------------------------------------------------------------------------
(* The transport.                                                          *)
LEMMA ShowsStream ==
  ASSUME TypeInv, NEW c \in Clients, StreamInv(c), Shows(c)
  PROVE  StreamInv(c)' /\ view'[c] = Painted(view[c], out[c][1])
         /\ (Paints(out[c][1]) =>
               view'[c] = [state |-> "good", ver |-> out[c][1].ver]
               /\ view[c].ver <= out[c][1].ver /\ out[c][1].ver <= Version)
         /\ (~Paints(out[c][1]) => view'[c] = view[c])
  <1> DEFINE o == out[c]
             n == Len(o)
             t == Tail(o)
             f == o[1]
             v == view[c]
  <1>1. o \in Seq(Frame) /\ n \in Nat /\ o # <<>> /\ n # 0 /\ v \in View
    BY StreamTypes DEF Shows, TypeInv, TypeOK
  <1>2. /\ t \in Seq(Frame) /\ Len(t) = n - 1
        /\ \A i \in 1..(n - 1) : t[i] = o[i + 1]
        /\ Head(o) = f
    BY <1>1, HeadTailProperties
  <1>3. /\ out'[c] = t /\ view'[c] = Painted(v, f)
        /\ UNCHANGED <<ring, pty, exit, loop, line>>
    BY <1>2 DEF Shows, TypeInv, TypeOK
  <1>4. f \in Frame /\ f.ver \in Nat /\ v.ver \in Nat /\ Version \in Nat
        /\ Version' = Version
    BY <1>1, <1>3, StreamTypes DEF Version
  <1>5. Paints(f) => /\ f.ver <= Version /\ v.ver <= f.ver
                     /\ f.kind = "chunk" => v.state = "good" /\ v.ver + 1 = f.ver
    <2>1. 1 \in 1..n
      BY <1>1
    <2> QED
      BY <2>1 DEF StreamInv, InOrder
  <1>6. Paints(f) => view'[c] = [state |-> "good", ver |-> f.ver]
    BY <1>1, <1>3, <1>4, <1>5 DEF Painted, Paints, Painting, View
  <1>7. ~Paints(f) => view'[c] = v
    BY <1>3 DEF Painted, Paints, Painting
  <1>8. Shown(c)'
    BY <1>4, <1>5, <1>6, <1>7 DEF StreamInv, Shown
  <1>9. Reach(c)'
    BY <1>3, <1>4 DEF StreamInv, Reach
  <1>10. t = <<>> <=> n = 1
    <2>1. t = <<>> <=> Len(t) = 0
      BY <1>2, EmptySeq
    <2> QED
      BY <1>1, <1>2, <2>1
  <1>11. Showing(c) => Showing(c)' /\ Tip(c)' = Tip(c)
    <2>1. CASE n = 1
      <3>1. Showing(c) = Paints(f) /\ Tip(c) = f.ver
        BY <1>1, <2>1 DEF Showing, Tip
      <3>2. out'[c] = <<>>
        BY <1>3, <1>10, <2>1
      <3>3. (Showing(c)' <=> view'[c].state = "good") /\ Tip(c)' = view'[c].ver
        BY <3>2 DEF Showing, Tip
      <3>4. Paints(f) => view'[c].state = "good" /\ view'[c].ver = f.ver
        BY <1>6
      <3>5. Showing(c) => Paints(f)
        BY <3>1
      <3> HIDE DEF f
      <3> QED
        BY <3>1, <3>3, <3>4, <3>5
    <2>2. CASE n # 1
      <3>1. t # <<>> /\ t[Len(t)] = o[n]
        BY <1>1, <1>2, <1>10, <2>2
      <3> QED
        BY <1>1, <1>3, <3>1 DEF Showing, Tip, Paints
    <2> QED
      BY <2>1, <2>2
  <1>12. InOrder(c)'
    <2>1. ASSUME NEW i \in 1..(n - 1)
          PROVE  LET g == t[i]
                     base == IF i = 1 THEN view'[c].ver ELSE t[i - 1].ver
                     good == IF i = 1 THEN view'[c].state = "good" ELSE Paints(t[i - 1])
                 IN Paints(g) =>
                      /\ g.ver <= Version
                      /\ base <= g.ver
                      /\ i > 1 => good
                      /\ g.kind = "chunk" => good /\ base + 1 = g.ver
      <3>1. i + 1 \in 1..n /\ i + 1 # 1 /\ i + 1 > 1 /\ (i + 1) - 1 = i /\ i \in 1..n
            /\ t[i] = o[i + 1] /\ (i # 1 => t[i - 1] = o[i])
        BY <1>1, <1>2
      <3>2. Paints(o[i + 1]) =>
              /\ o[i + 1].ver <= Version
              /\ o[i].ver <= o[i + 1].ver
              /\ Paints(o[i])
              /\ o[i + 1].kind = "chunk" => o[i].ver + 1 = o[i + 1].ver
        BY <3>1 DEF StreamInv, InOrder
      <3> HIDE DEF t
      <3>3. CASE i = 1
        BY <1>6, <3>1, <3>2, <3>3
      <3>4. CASE i # 1
        BY <3>1, <3>2, <3>4
      <3> QED
        BY <3>3, <3>4
    <2>2. InOrder(c)' <=>
            \A i \in 1..Len(t) :
              LET g == t[i]
                  base == IF i = 1 THEN view'[c].ver ELSE t[i - 1].ver
                  good == IF i = 1 THEN view'[c].state = "good" ELSE Paints(t[i - 1])
              IN Paints(g) =>
                   /\ g.ver <= Version
                   /\ base <= g.ver
                   /\ i > 1 => good
                   /\ g.kind = "chunk" => good /\ base + 1 = g.ver
      BY <1>3, <1>4 DEF InOrder, Paints
    <2> HIDE DEF t
    <2> QED
      BY <1>2, <2>1, <2>2
  <1>13. Starting(c)'
    BY <1>1, <1>3 DEF StreamInv, Starting
  <1>14. Holding(c)'
    BY <1>3, <1>11 DEF StreamInv, Holding, Paints
  <1>15. Following(c)'
    BY <1>3, <1>11 DEF StreamInv, Following, Resizing, pty
  <1> QED
    BY <1>3, <1>5, <1>6, <1>7, <1>8, <1>9, <1>12, <1>13, <1>14, <1>15 DEF StreamInv

LEMMA OpensStream ==
  ASSUME TypeInv, NEW c \in Clients, StreamInv(c), Opens(c)
  PROVE  StreamInv(c)' /\ view'[c] = BlankView
  <1>1. /\ loop'[c].pc = "attach" /\ loop'[c].next = 1
        /\ out'[c] = <<>> /\ view'[c] = BlankView /\ Version' = Version
    BY Constants DEF Opens, TypeInv, TypeOK, Version, Gone
  <1>2. Version \in Nat /\ Len(<<>>) = 0
    BY StreamTypes
  <1>3. Shown(c)' /\ Reach(c)' /\ InOrder(c)'
    BY <1>1, <1>2, Constants DEF Shown, Reach, InOrder
  <1>4. Starting(c)' /\ Holding(c)' /\ Following(c)'
    BY <1>1 DEF Starting, Holding, Following, Resizing
  <1> QED
    BY <1>1, <1>3, <1>4 DEF StreamInv

LEMMA DropsStream ==
  ASSUME TypeInv, NEW c \in Clients, StreamInv(c), NEW d \in {"in", "out"}, Drops(c, d)
  PROVE  StreamInv(c)'
  <1>1. /\ UNCHANGED <<ring, pty, loop, view>> /\ line'[c] = line[c] \ {d}
        /\ IF d = "out" THEN out'[c] = <<>> ELSE out'[c] = out[c]
    BY DEF Drops, TypeInv, TypeOK
  <1>2. Version' = Version /\ Len(<<>>) = 0
    BY <1>1 DEF Version
  <1>3. Shown(c)' /\ Reach(c)'
    BY <1>1, <1>2 DEF StreamInv, Shown, Reach
  <1>4. InOrder(c)'
    <2>1. CASE d = "out"
      BY <1>1, <1>2, <2>1 DEF InOrder
    <2>2. CASE d = "in"
      BY <1>1, <1>2, <2>2 DEF StreamInv, InOrder, Paints
    <2> QED
      BY <2>1, <2>2
  <1>5. "out" \in line'[c] => "out" \in line[c] /\ Tip(c)' = Tip(c) /\ Showing(c)' = Showing(c)
    BY <1>1 DEF Tip, Showing, Paints
  <1>6. Starting(c)'
    BY <1>1 DEF StreamInv, Starting
  <1>7. Holding(c)'
    BY <1>1, <1>5 DEF StreamInv, Holding, Paints
  <1>8. Following(c)'
    BY <1>1, <1>5 DEF StreamInv, Following, Resizing, pty
  <1> QED
    BY <1>3, <1>4, <1>6, <1>7, <1>8 DEF StreamInv

-----------------------------------------------------------------------------
(* The loop.                                                               *)
LEMMA AttachesStream ==
  ASSUME TypeInv, NEW c \in Clients, StreamInv(c), Attaches(c)
  PROVE  StreamInv(c)'
  <1>1. /\ loop'[c].pc = "measure" /\ loop'[c].held.kind = "snapshot"
        /\ loop'[c].held.ver = Version /\ loop'[c].next = Version + 1
        /\ loop[c].pc = "attach" /\ UNCHANGED <<ring, out, wire>>
    BY AttachesType DEF Attaches, At
  <1>2. /\ Shown(c)' /\ InOrder(c)' /\ Version' = Version
    BY <1>1, Still
  <1>3. out[c] = <<>> /\ view[c] = BlankView
    BY <1>1 DEF StreamInv, Starting
  <1>4. Starting(c)'
    BY <1>1, <1>3 DEF Starting, wire
  <1>5. Reach(c)' /\ Holding(c)' /\ Following(c)'
    BY <1>1, <1>2, StreamTypes DEF Reach, Holding, Following, Resizing
  <1> QED
    BY <1>2, <1>4, <1>5 DEF StreamInv

LEMMA PlainStream ==
  ASSUME TypeInv, NEW c \in Clients, StreamInv(c),
         Measures(c) \/ Joins(c) \/ Probes(c) \/ SeesClosed(c) \/ SeesDetach(c)
  PROVE  StreamInv(c)'
  <1>1. UNCHANGED <<ring, pty, out, wire>>
    BY DEF Measures, Joins, Probes, SeesClosed, SeesDetach
  <1>2. /\ Shown(c)' /\ InOrder(c)' /\ Version' = Version
        /\ Tip(c)' = Tip(c) /\ Showing(c)' = Showing(c)
    BY <1>1, Still
  <1>3. loop'[c].next = loop[c].next /\ (loop'[c].pc = "bye" => loop'[c].held = Closed)
    BY PlainType
  <1>4. Reach(c)'
    BY <1>2, <1>3 DEF StreamInv, Reach
  <1>5. CASE Measures(c) \/ Joins(c)
    <2>1. /\ loop[c].pc \in {"measure", "join"} /\ loop'[c].pc \in {"join", "greet"}
          /\ loop'[c].held = loop[c].held
      BY <1>5, PlainType DEF Measures, Joins, At
    <2>2. Starting(c)' /\ Following(c)'
      BY <1>1, <2>1 DEF StreamInv, Starting, Following, Resizing, wire
    <2>3. Holding(c)'
      BY <1>3, <2>1 DEF StreamInv, Holding
    <2> QED
      BY <1>2, <1>4, <2>2, <2>3 DEF StreamInv
  <1>6. CASE Probes(c) \/ SeesClosed(c) \/ SeesDetach(c)
    <2>1. loop[c].pc \in {"probe", "loop"} /\ loop'[c].pc \in {"loop", "bye", "leave"}
      BY <1>6, PlainType DEF Probes, SeesClosed, SeesDetach, At
    <2>2. Starting(c)' /\ Holding(c)'
      BY <1>3, <2>1 DEF Starting, Holding
    <2>3. Following(c)'
      BY <1>1, <1>2, <1>3, <2>1 DEF StreamInv, Following, Resizing, wire
    <2> QED
      BY <1>2, <1>4, <2>2, <2>3 DEF StreamInv
  <1> QED
    BY <1>5, <1>6

LEMMA SendsStream ==
  ASSUME TypeInv, NEW c \in Clients, StreamInv(c), Sends(c)
  PROVE  StreamInv(c)'
  <1>1. UNCHANGED <<ring, pty, wire>> /\ loop'[c].next = loop[c].next
    BY SendsType DEF Sends
  <1>2. Version' = Version /\ view' = view
    BY <1>1 DEF Version, wire
  <1>3. Shown(c)' /\ Reach(c)'
    BY <1>1, <1>2 DEF StreamInv, Shown, Reach
  <1>4. CASE "out" \notin line[c]
    <2>1. loop'[c].pc = "leave" /\ UNCHANGED out
      BY <1>4, SendsType
    <2>2. InOrder(c)'
      BY <1>1, <2>1, Still
    <2>3. Starting(c)' /\ Holding(c)' /\ Following(c)'
      BY <2>1 DEF Starting, Holding, Following, Resizing
    <2> QED
      BY <1>3, <2>2, <2>3 DEF StreamInv
  <1>5. CASE "out" \in line[c]
    <2> DEFINE f == loop[c].held
    <2>1. /\ out' = [out EXCEPT ![c] = Append(@, f)]
          /\ \/ loop[c].pc = "greet" /\ loop'[c].pc = "probe"
             \/ loop[c].pc = "send" /\ loop'[c].pc = "loop"
             \/ loop[c].pc = "bye" /\ loop'[c].pc = "leave"
      BY <1>5, SendsType
    <2>2. /\ f \in Frame /\ f.ver \in Nat /\ Version \in Nat /\ Tip(c) \in Nat
          /\ loop[c].next \in Nat /\ loop[c].next <= Version + 1
      BY LoopType, StreamTypes DEF StreamInv, Reach
    <2>3. Paints(f) => /\ f.ver <= Version /\ Tip(c) <= f.ver
                       /\ out[c] # <<>> => Showing(c)
                       /\ f.kind = "chunk" => Showing(c) /\ Tip(c) + 1 = f.ver
      <3>1. CASE loop[c].pc = "greet"
        <4>1. f.kind = "snapshot" /\ f.ver + 1 = loop[c].next
          BY <3>1 DEF StreamInv, Holding
        <4>2. out[c] = <<>> /\ view[c] = BlankView
          BY <3>1 DEF StreamInv, Starting
        <4>3. Tip(c) = 0
          BY <4>2, Constants DEF Tip
        <4>4. f.ver <= Version /\ Tip(c) <= f.ver
          BY <2>2, <4>1, <4>3
        <4> QED
          BY <4>1, <4>2, <4>4
      <3>2. CASE loop[c].pc = "send"
        <4>1. /\ f.ver + 1 = loop[c].next /\ Showing(c) /\ Tip(c) <= f.ver
              /\ f.kind = "chunk" => Tip(c) + 1 = f.ver
          BY <1>5, <3>2 DEF StreamInv, Holding
        <4>2. f.ver <= Version
          BY <2>2, <4>1
        <4> QED
          BY <4>1, <4>2
      <3>3. CASE loop[c].pc = "bye"
        BY <3>3, Constants DEF StreamInv, Holding, Paints, Painting
      <3> QED
        BY <2>1, <3>1, <3>2, <3>3
    <2>4. InOrder(c)' /\ Tip(c)' = f.ver /\ Showing(c)' = Paints(f)
      <3> HIDE DEF f
      <3> QED
        BY <1>1, <2>1, <2>2, <2>3, Appended DEF StreamInv
    <2>5. Starting(c)' /\ Holding(c)'
      BY <2>1 DEF Starting, Holding
    <2>6. Following(c)'
      <3>1. CASE loop[c].pc \in {"greet", "send"}
        <4>1. Paints(f) /\ f.ver + 1 = loop[c].next
          BY <3>1 DEF StreamInv, Holding, Paints, Painting
        <4>2. Following(c)' <=>
                (loop'[c].pc \in {"probe", "loop", "refit"} \/ (Resizing(c)' /\ sizes'[c] # 0)
                 => ("out" \in line'[c] => Showing(c)' /\ Tip(c)' + 1 = loop'[c].next))
          BY DEF Following
        <4> QED
          BY <1>1, <2>4, <4>1, <4>2
      <3>2. CASE loop[c].pc = "bye"
        BY <2>1, <3>2 DEF Following, Resizing
      <3> QED
        BY <2>1, <3>1, <3>2
    <2> QED
      BY <1>3, <2>4, <2>5, <2>6 DEF StreamInv
  <1> QED
    BY <1>4, <1>5

LEMMA ReceivesStream ==
  ASSUME TypeInv, NEW c \in Clients, StreamInv(c), Receives(c)
  PROVE  StreamInv(c)'
  <1> DEFINE f == loop'[c].held
  <1>1. /\ loop'[c].pc = "send" /\ Paints(f) /\ f.ver + 1 = loop'[c].next
        /\ loop[c].next <= f.ver /\ f.ver <= Version
        /\ f.kind = "chunk" => f.ver = loop[c].next
        /\ TypeInv'
    BY ReceivesType
  <1>2. loop[c].pc = "loop" /\ UNCHANGED <<ring, out, wire>>
    BY DEF Receives, At
  <1>3. /\ Shown(c)' /\ InOrder(c)' /\ Version' = Version
        /\ Tip(c)' = Tip(c) /\ Showing(c)' = Showing(c)
    BY <1>2, Still
  <1>4. "out" \in line[c] => Showing(c) /\ Tip(c) + 1 = loop[c].next
    BY <1>2 DEF StreamInv, Following
  <1>5. f.ver \in Nat /\ Tip(c) \in Nat /\ loop[c].next \in Nat /\ Version \in Nat
    <2>1. loop'[c] \in Loop /\ MaxVersions \in Nat
      BY <1>1, VersionType DEF TypeInv, TypeOK
    <2> QED
      BY <2>1, StreamTypes DEF Loop, Frame
  <1> HIDE DEF f
  <1>6. "out" \in line[c] => /\ Showing(c) /\ Tip(c) <= f.ver
                             /\ f.kind = "chunk" => Tip(c) + 1 = f.ver
    BY <1>1, <1>4, <1>5
  <1>7. Holding(c)'
    BY <1>1, <1>2, <1>3, <1>6 DEF Holding, f, wire, Paints
  <1>8. Reach(c)'
    BY <1>1, <1>3, <1>5 DEF Reach
  <1>9. Starting(c)' /\ Following(c)'
    BY <1>1 DEF Starting, Following, Resizing
  <1> QED
    BY <1>3, <1>7, <1>8, <1>9 DEF StreamInv

LEMMA RefitsStream ==
  ASSUME TypeInv, NEW c \in Clients, StreamInv(c), Refits(c)
  PROVE  StreamInv(c)'
  <1>1. \/ /\ loop'[c].pc = "loop" /\ loop'[c].next = loop[c].next
        \/ /\ loop'[c].pc = "send" /\ loop'[c].held.kind = "snapshot"
           /\ loop'[c].held.ver = Version /\ loop'[c].next = Version + 1
    BY RefitsType
  <1>2. loop[c].pc = "refit" /\ UNCHANGED <<ring, out, wire>>
    BY DEF Refits, At
  <1>3. /\ Shown(c)' /\ InOrder(c)' /\ Version' = Version
        /\ Tip(c)' = Tip(c) /\ Showing(c)' = Showing(c)
    BY <1>2, Still
  <1>4. "out" \in line[c] => Showing(c) /\ Tip(c) + 1 = loop[c].next
    BY <1>2 DEF StreamInv, Following
  <1>5. Tip(c) \in Nat /\ loop[c].next \in Nat /\ Version \in Nat
        /\ loop[c].next <= Version + 1
    BY StreamTypes DEF StreamInv, Reach
  <1>6. "out" \in line[c] => Tip(c) <= Version
    BY <1>4, <1>5
  <1>7. Reach(c)'
    BY <1>1, <1>3, <1>5 DEF Reach
  <1>8. Starting(c)'
    BY <1>1 DEF Starting
  <1>9. Holding(c)'
    BY <1>1, <1>2, <1>3, <1>4, <1>6 DEF Holding, Paints, Painting, wire
  <1>10. Following(c)'
    BY <1>1, <1>2, <1>3, <1>4 DEF Following, Resizing, wire
  <1> QED
    BY <1>3, <1>7, <1>8, <1>9, <1>10 DEF StreamInv

LEMMA ResizesStream ==
  ASSUME TypeInv, NEW c \in Clients, StreamInv(c), ResizesPty(c) \/ ResizesEmulator(c)
  PROVE  StreamInv(c)'
  <1>1. UNCHANGED <<ring, sizes, out, wire>> /\ Resizing(c)
    BY DEF ResizesPty, ResizesEmulator, At, Resizing
  <1>2. /\ Shown(c)' /\ InOrder(c)' /\ Version' = Version
        /\ Tip(c)' = Tip(c) /\ Showing(c)' = Showing(c)
    BY <1>1, Still
  <1>3. Version \in Nat /\ loop[c].next \in Nat
    BY StreamTypes
  <1>4. CASE ResizesEmulator(c) /\ sizes[c] = 0
    <2>1. loop'[c].pc = "gone" /\ loop'[c].next = 1
      BY <1>4, ResizesType, Constants
    <2>2. Reach(c)'
      BY <1>2, <1>3, <2>1 DEF Reach
    <2>3. Starting(c)' /\ Holding(c)' /\ Following(c)'
      BY <2>1 DEF Starting, Holding, Following, Resizing
    <2> QED
      BY <1>2, <2>2, <2>3 DEF StreamInv
  <1>5. CASE ~(ResizesEmulator(c) /\ sizes[c] = 0)
    <2>1. loop'[c].pc \in {"emulator", "refit"} /\ loop'[c].next = loop[c].next
          /\ (loop'[c].pc = "refit" => sizes[c] # 0)
      BY <1>5, ResizesType
    <2>2. Reach(c)'
      BY <1>2, <2>1 DEF StreamInv, Reach
    <2>3. Starting(c)' /\ Holding(c)'
      BY <2>1 DEF Starting, Holding
    <2>4. Following(c)'
      BY <1>1, <1>2, <2>1 DEF StreamInv, Following, Resizing, wire
    <2> QED
      BY <1>2, <2>2, <2>3, <2>4 DEF StreamInv
  <1> QED
    BY <1>4, <1>5

LEMMA TakesResizeStream ==
  ASSUME TypeInv, NEW c \in Clients, StreamInv(c), NEW w \in Widths, TakesResize(c, w)
  PROVE  StreamInv(c)' /\ \A d \in Clients \ {c} : loop'[d] = loop[d] /\ sizes'[d] = sizes[d]
  <1> DEFINE then == [loop[c] EXCEPT !.pc = "refit", !.sized = TRUE, !.width = w,
                                     !.first = ~loop[c].sized]
  <1>1. then \in Loop /\ then.pc = "refit" /\ then.next = loop[c].next
    <2>1. w \in Cols
      BY DEF Cols
    <2> QED
      BY <2>1, LoopType DEF Loop, Label
  <1>2. UNCHANGED <<ring, cols, master, exit, out, wire>> /\ loop[c].pc = "loop"
    BY DEF TakesResize, At
  <1>3. /\ loop'[c].next = loop[c].next
        /\ loop'[c].pc = "refit" \/ (loop'[c].pc = "master" /\ sizes'[c] # 0)
        /\ \A d \in Clients \ {c} : loop'[d] = loop[d] /\ sizes'[d] = sizes[d]
    <2>1. CASE w = 0
      <3>1. loop' = [loop EXCEPT ![c] = then] /\ UNCHANGED sizes
        BY <2>1 DEF TakesResize
      <3> HIDE DEF then
      <3> QED
        BY <1>1, <3>1, LoopSet
    <2>2. CASE w # 0
      <3>1. Reconcile(c, w, then) /\ w \in Cols
        BY <2>2 DEF TakesResize, Cols
      <3> HIDE DEF then
      <3>2. /\ sizes' = [sizes EXCEPT ![c] = w] /\ loop'[c].next = then.next
            /\ \A d \in Clients \ {c} : loop'[d] = loop[d]
            /\ loop'[c].pc = then.pc \/ loop'[c].pc = "master"
        BY <1>1, <1>2, <3>1, ReconcileType DEF Label
      <3>3. sizes \in [Clients -> Cols]
        BY DEF TypeInv, TypeOK
      <3> QED
        BY <1>1, <2>2, <3>2, <3>3
    <2> QED
      BY <2>1, <2>2
  <1> HIDE DEF then
  <1>4. /\ Shown(c)' /\ InOrder(c)' /\ Version' = Version
        /\ Tip(c)' = Tip(c) /\ Showing(c)' = Showing(c)
    BY <1>2, Still
  <1>5. Reach(c)'
    BY <1>3, <1>4 DEF StreamInv, Reach
  <1>6. Starting(c)' /\ Holding(c)'
    BY <1>3 DEF Starting, Holding
  <1>7. Following(c)'
    BY <1>2, <1>3, <1>4 DEF StreamInv, Following, Resizing, wire
  <1> QED
    BY <1>3, <1>4, <1>5, <1>6, <1>7 DEF StreamInv

LEMMA UnregistersStream ==
  ASSUME TypeInv, NEW c \in Clients, StreamInv(c), Unregisters(c)
  PROVE  StreamInv(c)' /\ \A d \in Clients \ {c} : loop'[d] = loop[d] /\ sizes'[d] = sizes[d]
  <1>1. UNCHANGED <<ring, cols, master, exit, out, wire>> /\ Reconcile(c, 0, Gone)
    BY DEF Unregisters
  <1>2. /\ sizes' = [sizes EXCEPT ![c] = 0] /\ loop'[c].next = 1
        /\ \A d \in Clients \ {c} : loop'[d] = loop[d]
        /\ loop'[c].pc \in {"gone", "master"}
    BY <1>1, ReconcileType, Constants DEF Label, Cols
  <1>3. sizes'[c] = 0 /\ \A d \in Clients \ {c} : sizes'[d] = sizes[d]
    BY <1>2 DEF TypeInv, TypeOK
  <1>4. /\ Shown(c)' /\ InOrder(c)' /\ Version' = Version /\ Version \in Nat
    BY <1>1, Still, StreamTypes
  <1>5. Reach(c)'
    BY <1>2, <1>4 DEF Reach
  <1>6. Starting(c)' /\ Holding(c)' /\ Following(c)'
    BY <1>2, <1>3 DEF Starting, Holding, Following, Resizing
  <1> QED
    BY <1>2, <1>3, <1>4, <1>5, <1>6 DEF StreamInv

(* One client's steps leave what another's loop and transport hold.        *)
LEMMA Elsewhere ==
  ASSUME TypeInv, NEW c \in Clients, \A e \in Clients : StreamInv(e),
         LoopStep(c) \/ TransportStep(c), NEW d \in Clients, d # c
  PROVE  /\ Version' = Version
         /\ loop'[d] = loop[d] /\ sizes'[d] = sizes[d]
         /\ out'[d] = out[d] /\ line'[d] = line[d] /\ view'[d] = view[d]
  <1>1. CASE Attaches(c) \/ Measures(c) \/ Joins(c) \/ Probes(c) \/ Receives(c)
             \/ Refits(c) \/ SeesClosed(c) \/ SeesDetach(c)
    <2>1. UNCHANGED <<ring, pty, exit, out, wire>>
      BY <1>1 DEF Attaches, Measures, Joins, Probes, Receives, Refits, SeesClosed, SeesDetach
    <2>2. loop'[d] = loop[d]
      BY <1>1, AttachesType, PlainType, ReceivesType, RefitsType
    <2> QED
      BY <2>1, <2>2 DEF Version, pty, wire
  <1>2. CASE Sends(c)
    <2>1. loop'[d] = loop[d] /\ UNCHANGED <<ring, pty, exit, wire>>
      BY <1>2, SendsType DEF Sends
    <2>2. out'[d] = out[d]
      BY <1>2 DEF Sends, TypeInv, TypeOK
    <2> QED
      BY <2>1, <2>2 DEF Version, pty, wire
  <1>3. CASE ResizesPty(c) \/ ResizesEmulator(c)
    <2>1. loop'[d] = loop[d] /\ UNCHANGED <<ring, sizes, exit, out, wire>>
      BY <1>3, ResizesType DEF ResizesPty, ResizesEmulator
    <2> QED
      BY <2>1 DEF Version, wire
  <1>4. CASE Unregisters(c) \/ \E w \in Widths : TakesResize(c, w)
    <2>1. loop'[d] = loop[d] /\ sizes'[d] = sizes[d]
      BY <1>4, UnregistersStream, TakesResizeStream
    <2>2. UNCHANGED <<ring, out, wire>>
      BY <1>4 DEF Unregisters, TakesResize
    <2> QED
      BY <2>1, <2>2 DEF Version, wire
  <1>5. CASE TransportStep(c)
    BY <1>5 DEF TransportStep, Opens, Shows, Drops, TypeInv, TypeOK, Version, pty
  <1> QED
    BY <1>1, <1>2, <1>3, <1>4, <1>5 DEF LoopStep

LEMMA InitStream == Init => \A c \in Clients : StreamInv(c)
  <1> SUFFICES ASSUME Init, NEW c \in Clients PROVE StreamInv(c)
    OBVIOUS
  <1>1. /\ Version = 0 /\ out[c] = <<>> /\ view[c] = BlankView
        /\ loop[c].pc = "gone" /\ loop[c].next = 1 /\ Len(<<>>) = 0
    BY Constants DEF Init, Version
  <1>2. Shown(c) /\ Reach(c) /\ InOrder(c)
    BY <1>1, Constants DEF Shown, Reach, InOrder
  <1>3. Starting(c) /\ Holding(c) /\ Following(c)
    BY <1>1 DEF Starting, Holding, Following, Resizing
  <1> QED
    BY <1>2, <1>3 DEF StreamInv

StreamsInv == \A c \in Clients : StreamInv(c)

LEMMA NextStream == TypeInv /\ StreamsInv /\ [Next]_vars => StreamsInv'
  <1> SUFFICES ASSUME TypeInv, StreamsInv, [Next]_vars, NEW c \in Clients
               PROVE  StreamInv(c)'
    BY DEF StreamsInv
  <1>1. TypeInv' /\ StreamInv(c) /\ \A e \in Clients : StreamInv(e)
    BY NextType DEF StreamsInv
  <1>2. CASE UNCHANGED vars
    <2>1. Version' = Version /\ Version \in Nat /\ UNCHANGED <<loop, out, line, view, sizes>>
      BY <1>2, StreamTypes DEF vars, wire, pty, Version
    <2>2. Version <= Version'
      BY <2>1
    <2> QED
      BY <1>1, <2>1, <2>2, Quiet
  <1>3. CASE SessionStep
    <2>1. Version <= Version'
      <3>1. CASE PumpForwards \/ ClearsHistory
        <4>1. Version' = Version + 1 /\ Version \in Nat
          BY <3>1, BroadcastType, StreamTypes DEF PumpForwards, ClearsHistory
        <4> QED
          BY <4>1
      <3>2. CASE PumpEnds \/ ChildExits \/ ReaperMarks \/ ReaperRemoves
        <4>1. Version' = Version /\ Version \in Nat
          BY <3>2, StreamTypes DEF PumpEnds, ChildExits, ReaperMarks, ReaperRemoves, Version
        <4> QED
          BY <4>1
      <3> QED
        BY <1>3, <3>1, <3>2 DEF SessionStep
    <2>2. loop'[c].pc = loop[c].pc /\ loop'[c].held = loop[c].held
          /\ loop'[c].next = loop[c].next
      BY <1>3, MarkClosedType
      DEF SessionStep, PumpForwards, ClearsHistory, PumpEnds, ChildExits, ReaperMarks,
          ReaperRemoves
    <2>3. UNCHANGED <<sizes, out, line, view>>
      BY <1>3
      DEF SessionStep, PumpForwards, ClearsHistory, PumpEnds, ChildExits, ReaperMarks,
          ReaperRemoves, pty, wire
    <2> QED
      BY <1>1, <2>1, <2>2, <2>3, Quiet
  <1>4. ASSUME NEW d \in Clients, d # c, LoopStep(d) \/ TransportStep(d)
        PROVE  StreamInv(c)'
    <2>1. /\ Version' = Version /\ loop'[c] = loop[c] /\ sizes'[c] = sizes[c]
          /\ out'[c] = out[c] /\ line'[c] = line[c] /\ view'[c] = view[c]
      BY <1>1, <1>4, Elsewhere
    <2>2. Version <= Version'
      BY <2>1, StreamTypes
    <2> QED
      BY <1>1, <2>1, <2>2, Quiet
  <1>5. CASE LoopStep(c)
    BY <1>1, <1>5, AttachesStream, PlainStream, SendsStream, ReceivesStream, ResizesStream,
       RefitsStream, UnregistersStream, TakesResizeStream DEF LoopStep
  <1>6. CASE TransportStep(c)
    BY <1>1, <1>6, OpensStream, ShowsStream, DropsStream DEF TransportStep
  <1> QED
    BY <1>2, <1>3, <1>4, <1>5, <1>6 DEF Next

LEMMA StreamCorrect == Spec => [](TypeInv /\ StreamsInv)
  <1>1. Init => TypeInv /\ StreamsInv
    BY InitType, InitStream DEF StreamsInv
  <1>2. TypeInv /\ StreamsInv /\ [Next]_vars => (TypeInv /\ StreamsInv)'
    BY NextType, NextStream
  <1> QED
    BY <1>1, <1>2, PTL DEF Spec

(* However the steps of the loops, the ring and the transports interleave, *)
(* no client shows a screen the terminal was never in.                     *)
THEOREM NeverTornSafe == Spec => []NeverTorn
  <1>1. StreamsInv => NeverTorn
    BY DEF StreamsInv, StreamInv, Shown, NeverTorn
  <1> QED
    BY <1>1, StreamCorrect, PTL

(* A client whose loop has drained the ring and whose frames have arrived  *)
(* shows the terminal's last state: lagging and re-attaching lose nothing. *)
THEOREM NothingMissedSafe == Spec => []NothingMissed
  <1>1. ASSUME TypeInv, StreamsInv, NEW c \in Clients, Settled(c), "out" \in line[c]
        PROVE  view[c].state = "good" /\ view[c].ver = Version
    <2>1. /\ loop[c].pc = "loop" /\ loop[c].next = Version + 1 /\ out[c] = <<>>
          /\ Following(c)
      BY <1>1 DEF Settled, At, StreamsInv, StreamInv
    <2>2. view[c].state = "good" /\ view[c].ver + 1 = Version + 1
      BY <1>1, <2>1 DEF Following, Showing, Tip
    <2> QED
      BY <1>1, <2>2, StreamTypes
  <1>2. TypeInv /\ StreamsInv => NothingMissed
    BY <1>1 DEF NothingMissed
  <1> QED
    BY <1>2, StreamCorrect, PTL

-----------------------------------------------------------------------------
(* What the clients show, as the abstract specification sees it.           *)
Seen == [c \in Clients |-> IF view[c].state = "good" THEN <<view[c].ver>>
                           ELSE IF view[c].state = "blank" THEN <<>>
                           ELSE <<Version + 1>>]

LEMMA InitPromised == Init => Promise!Init
  <1> SUFFICES ASSUME Init PROVE Promise!Init
    OBVIOUS
  <1>1. Version = 0 /\ \A c \in Clients : view[c].state = "blank"
    BY Constants DEF Init, Version
  <1> QED
    BY <1>1 DEF Promise!Init

LEMMA SeenSame ==
  ASSUME TypeInv, StreamsInv, view' = view
  PROVE  Seen' = Seen
  <1>1. \A c \in Clients : view[c].state \in {"blank", "good"}
    BY StreamTypes DEF StreamsInv, StreamInv, Shown
  <1> QED
    BY <1>1 DEF Seen

LEMMA StepPromised ==
  ASSUME TypeInv, StreamsInv, [Next]_vars
  PROVE  [Promise!Next]_<<Version, Seen>>
  <1>1. CASE UNCHANGED vars
    BY <1>1, SeenSame DEF vars, wire, Version
  <1>2. CASE SessionStep
    <2>1. Seen' = Seen
      BY <1>2, SeenSame
      DEF SessionStep, PumpForwards, ClearsHistory, PumpEnds, ChildExits, ReaperMarks,
          ReaperRemoves, wire
    <2>2. CASE PumpForwards \/ ClearsHistory
      <3>1. Version' = Version + 1
        BY <2>2, BroadcastType DEF PumpForwards, ClearsHistory
      <3>2. Promise!Advance
        BY <2>1, <3>1 DEF Promise!Advance, Seen
      <3> QED
        BY <3>2 DEF Promise!Next
    <2>3. CASE PumpEnds \/ ChildExits \/ ReaperMarks \/ ReaperRemoves
      BY <2>1, <2>3 DEF PumpEnds, ChildExits, ReaperMarks, ReaperRemoves, Version
    <2> QED
      BY <1>2, <2>2, <2>3 DEF SessionStep
  <1>3. ASSUME NEW c \in Clients, LoopStep(c)
        PROVE  UNCHANGED <<Version, Seen>>
    <2>1. view' = view /\ ring' = ring
      BY <1>3
      DEF LoopStep, Attaches, Measures, Joins, Sends, Probes, Receives, ResizesPty,
          ResizesEmulator, Refits, SeesClosed, SeesDetach, Unregisters, TakesResize, wire
    <2> QED
      BY <2>1, SeenSame DEF Version
  <1>4. ASSUME NEW c \in Clients, Opens(c)
        PROVE  Promise!Leave(c)
    <2>1. Version' = Version /\ view' = [view EXCEPT ![c] = BlankView]
      BY <1>4 DEF Opens, Version
    <2>2. Seen' = [Seen EXCEPT ![c] = <<>>]
      BY <2>1, Constants DEF Seen, TypeInv, TypeOK
    <2> QED
      BY <2>1, <2>2 DEF Promise!Leave, Seen
  <1>5. ASSUME NEW c \in Clients, Shows(c)
        PROVE  Promise!Look(c) \/ UNCHANGED <<Version, Seen>>
    <2> DEFINE f == out[c][1]
    <2>1. StreamInv(c) /\ Version' = Version /\ \A d \in Clients \ {c} : view'[d] = view[d]
      BY <1>5 DEF StreamsInv, Shows, Version, TypeInv, TypeOK
    <2>2. /\ Paints(f) => /\ view'[c] = [state |-> "good", ver |-> f.ver]
                          /\ view[c].ver <= f.ver /\ f.ver <= Version
          /\ ~Paints(f) => view'[c] = view[c]
      BY <1>5, <2>1, ShowsStream
    <2>3. /\ \A d \in Clients : view[d].state \in {"blank", "good"}
          /\ view[c].ver \in Nat /\ Version \in Nat
      BY StreamTypes DEF StreamsInv, StreamInv, Shown
    <2>4. f.ver \in Nat
      <3>1. out[c] # <<>>
        BY <1>5 DEF Shows
      <3>2. 1 \in 1..Len(out[c])
        BY <3>1, StreamTypes
      <3> QED
        BY <3>2, StreamTypes
    <2> HIDE DEF f
    <2>5. CASE Paints(f) /\ ~(view[c].state = "good" /\ view[c].ver = f.ver)
      <3>1. view[c].state = "good" => f.ver > view[c].ver
        BY <2>2, <2>3, <2>4, <2>5
      <3>2. f.ver \in 0..Version
        BY <2>2, <2>3, <2>4, <2>5
      <3>3. /\ Seen[c] = IF view[c].state = "good" THEN <<view[c].ver>> ELSE <<>>
            /\ Seen[c] # <<>> => f.ver > Seen[c][1]
        BY <2>3, <3>1 DEF Seen
      <3>4. Seen' = [Seen EXCEPT ![c] = <<f.ver>>]
        <4>1. view'[c].state = "good" /\ view'[c].ver = f.ver
          BY <2>2, <2>5
        <4>2. Seen'[c] = <<f.ver>> /\ \A d \in Clients \ {c} : Seen'[d] = Seen[d]
          BY <2>1, <2>3, <4>1 DEF Seen
        <4> QED
          BY <4>2 DEF Seen
      <3>5. Promise!Look(c)
        BY <2>1, <3>2, <3>3, <3>4 DEF Promise!Look, Seen
      <3> QED
        BY <3>5
    <2>6. CASE Paints(f) /\ view[c].state = "good" /\ view[c].ver = f.ver
      BY <2>1, <2>2, <2>3, <2>6 DEF Seen
    <2>7. CASE ~Paints(f)
      BY <2>1, <2>2, <2>3, <2>7 DEF Seen
    <2> QED
      BY <2>5, <2>6, <2>7
  <1>6. ASSUME NEW c \in Clients, NEW d \in {"in", "out"}, Drops(c, d)
        PROVE  UNCHANGED <<Version, Seen>>
    <2>1. view' = view /\ ring' = ring
      BY <1>6 DEF Drops
    <2> QED
      BY <2>1, SeenSame DEF Version
  <1> QED
    BY <1>1, <1>2, <1>3, <1>4, <1>5, <1>6 DEF Next, TransportStep, Promise!Next

(* Attaching implements the view it promises: every step of the session,   *)
(* of a loop and of a transport is a change of the terminal, a client that *)
(* looks at a newer state of it or leaves, or nothing to be seen.          *)
THEOREM RefinesView == Spec => SeenAsPromised
  <1>1. Init => Promise!Init
    BY InitPromised
  <1>2. TypeInv /\ StreamsInv /\ [Next]_vars => [Promise!Next]_<<Version, Seen>>
    BY StepPromised
  <1> QED
    BY <1>1, <1>2, StreamCorrect, PTL DEF Spec, SeenAsPromised, Promise!Spec, Seen

-----------------------------------------------------------------------------
(* The size.                                                               *)
LEMMA TargetIs ==
  /\ Target(sizes) = IF Reported = {} THEN cols ELSE Min(Reported)
  /\ Target(sizes)' = IF Reported' = {} THEN cols' ELSE Min(Reported')
  BY DEF Target, Reported

(* Steps that touch no size, and move no loop in or out of applying one.   *)
LEMMA SizeQuiet ==
  ASSUME SizeInv, UNCHANGED pty,
         \A d \in Clients : Resizing(d) \/ Resizing(d)' =>
            loop'[d].pc = loop[d].pc /\ loop'[d].goal = loop[d].goal
  PROVE  /\ GoalInv' /\ PinnedToNarrowest'
         /\ (\A d \in Clients : At(d, "measure")' => At(d, "measure")) => SizeInv'
  <1>1. UNCHANGED <<cols, master, sizes>> /\ Reported' = Reported
    BY DEF pty, Reported
  <1>2. \A d \in Clients : Resizing(d)' <=> Resizing(d)
    BY DEF Resizing
  <1>3. GoalInv'
    BY <1>1, <1>2 DEF SizeInv, GoalInv, At
  <1>4. PinnedToNarrowest'
    BY <1>1, <1>2, TargetIs DEF SizeInv, PinnedToNarrowest
  <1>5. (\A d \in Clients : At(d, "measure")' => At(d, "measure")) => ExclusiveInv'
    BY <1>2 DEF SizeInv, ExclusiveInv
  <1> QED
    BY <1>3, <1>4, <1>5 DEF SizeInv

(* A loop that reports its size alone finds the terminal pinned, and       *)
(* leaves it pinned or starts to apply what the reports now call for.      *)
LEMMA ReconcileSize ==
  ASSUME TypeInv, SizeInv, SerialResize, NEW c \in Clients, ~Resizing(c), Alone(c),
         NEW w \in Cols, NEW then \in Loop, then.pc \in {"refit", "gone"},
         Reconcile(c, w, then), UNCHANGED <<ring, cols, master, exit, out, wire>>
  PROVE  SizeInv'
  <1>1. \A d \in Clients \ {c} : ~Resizing(d) /\ ~At(d, "measure")
    BY DEF Alone
  <1>2. master = cols
    BY <1>1 DEF SizeInv, PinnedToNarrowest
  <1>3. /\ \A d \in Clients \ {c} : loop'[d] = loop[d]
        /\ \/ Target(sizes') = cols /\ loop'[c].pc = then.pc
           \/ /\ Target(sizes') # cols /\ loop'[c].pc = "master"
              /\ loop'[c].goal = Target(sizes')
    BY ReconcileType DEF Label
  <1>4. Target(sizes') = IF Reported' = {} THEN cols ELSE Min(Reported')
    BY DEF Target, Reported
  <1>5. Target(sizes)' = Target(sizes')
    BY <1>4, TargetIs
  <1>6. ExclusiveInv'
    BY <1>1, <1>3 DEF ExclusiveInv, Resizing, At
  <1>7. GoalInv'
    <2>1. \A d \in Clients : Resizing(d)' => d = c
      BY <1>1, <1>3 DEF Resizing
    <2>2. Resizing(c)' => /\ Reported' # {} /\ loop'[c].goal = Min(Reported')
                          /\ loop'[c].pc = "master"
      BY <1>3, <1>4 DEF Resizing
    <2> QED
      BY <1>2, <2>1, <2>2 DEF GoalInv, At
  <1>8. PinnedToNarrowest'
    <2>1. ~Resizing(c)' => Target(sizes') = cols
      BY <1>3 DEF Resizing
    <2> QED
      BY <1>2, <1>5, <2>1 DEF PinnedToNarrowest
  <1> QED
    BY <1>6, <1>7, <1>8 DEF SizeInv

LEMMA ResizesSize ==
  ASSUME TypeInv, SizeInv, NEW c \in Clients, ResizesPty(c) \/ ResizesEmulator(c)
  PROVE  SizeInv'
  <1>1. /\ Resizing(c) /\ sizes' = sizes /\ Reported' = Reported
        /\ \A d \in Clients \ {c} : loop'[d] = loop[d]
    <2>1. Resizing(c) /\ sizes' = sizes
      BY DEF ResizesPty, ResizesEmulator, Resizing, At
    <2> QED
      BY <2>1, ResizesType DEF Reported
  <1>2. \A d \in Clients \ {c} : ~Resizing(d) /\ ~At(d, "measure")
    BY <1>1 DEF SizeInv, ExclusiveInv
  <1>3. Reported # {} /\ loop[c].goal = Min(Reported)
    BY <1>1 DEF SizeInv, GoalInv
  <1>4. CASE ResizesPty(c)
    <2>1. /\ loop'[c].pc = "emulator" /\ loop'[c].goal = loop[c].goal
          /\ master' = loop[c].goal
      BY <1>4, ResizesType DEF ResizesPty
    <2>2. ExclusiveInv'
      BY <1>1, <1>2, <2>1 DEF ExclusiveInv, Resizing, At
    <2>3. GoalInv'
      BY <1>1, <1>2, <1>3, <2>1 DEF GoalInv, Resizing, At
    <2>4. PinnedToNarrowest'
      BY <2>1 DEF PinnedToNarrowest, Resizing
    <2> QED
      BY <2>2, <2>3, <2>4 DEF SizeInv
  <1>5. CASE ResizesEmulator(c)
    <2>1. /\ loop'[c].pc \in {"gone", "refit"} /\ cols' = loop[c].goal /\ master' = master
          /\ master = loop[c].goal
      <3>1. At(c, "emulator") /\ cols' = loop[c].goal /\ master' = master
        BY <1>5 DEF ResizesEmulator
      <3>2. loop'[c].pc \in {"gone", "refit"}
        BY <1>5, ResizesType, Constants
      <3> QED
        BY <1>1, <3>1, <3>2 DEF SizeInv, GoalInv
    <2>2. \A d \in Clients : ~Resizing(d)'
      BY <1>1, <1>2, <2>1 DEF Resizing
    <2>3. ExclusiveInv' /\ GoalInv'
      BY <2>2 DEF ExclusiveInv, GoalInv
    <2>4. Target(sizes)' = cols'
      BY <1>1, <1>3, <2>1, TargetIs
    <2>5. PinnedToNarrowest'
      BY <2>1, <2>4 DEF PinnedToNarrowest
    <2> QED
      BY <2>3, <2>5 DEF SizeInv
  <1> QED
    BY <1>4, <1>5

LEMMA InitSize == Init => SizeInv
  <1> SUFFICES ASSUME Init PROVE SizeInv
    OBVIOUS
  <1>1. \A c \in Clients : ~Resizing(c)
    BY Constants DEF Init, Resizing
  <1>2. Reported = {}
    BY DEF Init, Reported
  <1>3. cols = Target(sizes) /\ master = cols
    BY <1>2, TargetIs DEF Init
  <1> QED
    BY <1>1, <1>3 DEF SizeInv, ExclusiveInv, GoalInv, PinnedToNarrowest

LEMMA LoopStepSize ==
  ASSUME TypeInv, SizeInv, SerialResize, NEW c \in Clients, LoopStep(c)
  PROVE  SizeInv'
  <1>1. CASE Attaches(c)
    <2>1. /\ loop[c].pc = "attach" /\ loop'[c].pc = "measure"
          /\ \A d \in Clients \ {c} : loop'[d] = loop[d] /\ ~Resizing(d) /\ ~At(d, "measure")
          /\ UNCHANGED pty
      BY <1>1, AttachesType DEF Attaches, At, Alone
    <2>2. \A d \in Clients : ~Resizing(d) /\ ~Resizing(d)'
      BY <2>1 DEF Resizing
    <2>3. ExclusiveInv'
      BY <2>2 DEF ExclusiveInv
    <2> QED
      BY <2>1, <2>2, <2>3, SizeQuiet DEF SizeInv
  <1>2. CASE Measures(c) \/ Joins(c) \/ Probes(c) \/ SeesClosed(c) \/ SeesDetach(c)
             \/ Sends(c) \/ Receives(c) \/ Refits(c)
    <2>1. \A d \in Clients \ {c} : loop'[d] = loop[d]
      BY <1>2, PlainType, SendsType, ReceivesType, RefitsType
    <2>2. loop[c].pc \notin {"master", "emulator"}
      BY <1>2 DEF Measures, Joins, Probes, SeesClosed, SeesDetach, Sends, Receives, Refits,
                  At, Then
    <2>3. loop'[c].pc \notin {"master", "emulator", "measure"}
      BY <1>2, PlainType, SendsType, ReceivesType, RefitsType
    <2>4. UNCHANGED pty
      BY <1>2 DEF Measures, Joins, Probes, SeesClosed, SeesDetach, Sends, Receives, Refits
    <2>5. \A d \in Clients : Resizing(d) \/ Resizing(d)' =>
             loop'[d].pc = loop[d].pc /\ loop'[d].goal = loop[d].goal
      BY <2>1, <2>2, <2>3 DEF Resizing
    <2>6. \A d \in Clients : At(d, "measure")' => At(d, "measure")
      BY <2>1, <2>3 DEF At
    <2> QED
      BY <2>4, <2>5, <2>6, SizeQuiet
  <1>3. CASE ResizesPty(c) \/ ResizesEmulator(c)
    BY <1>3, ResizesSize
  <1>4. CASE Unregisters(c)
    <2>1. /\ ~Resizing(c) /\ Alone(c) /\ 0 \in Cols /\ Gone \in Loop /\ Gone.pc = "gone"
          /\ Reconcile(c, 0, Gone) /\ UNCHANGED <<ring, cols, master, exit, out, wire>>
      BY <1>4, Constants DEF Unregisters, Resizing, At, Cols
    <2> QED
      BY <2>1, ReconcileSize
  <1>5. ASSUME NEW w \in Widths, TakesResize(c, w)
        PROVE  SizeInv'
    <2> DEFINE then == [loop[c] EXCEPT !.pc = "refit", !.sized = TRUE, !.width = w,
                                       !.first = ~loop[c].sized]
    <2>1. w \in Cols
      BY DEF Cols
    <2>2. then \in Loop /\ then.pc = "refit"
      BY <2>1, LoopType DEF Loop, Label
    <2>3. ~Resizing(c) /\ ~At(c, "measure") /\ Alone(c)
          /\ UNCHANGED <<ring, cols, master, exit, out, wire>>
      BY <1>5 DEF TakesResize, Resizing, At
    <2>4. CASE w = 0
      <3>1. loop' = [loop EXCEPT ![c] = then] /\ UNCHANGED sizes
        BY <1>5, <2>4 DEF TakesResize
      <3> HIDE DEF then
      <3>2. loop'[c].pc = "refit" /\ \A d \in Clients \ {c} : loop'[d] = loop[d]
        BY <2>2, <3>1, LoopSet
      <3>3. \A d \in Clients : Resizing(d) \/ Resizing(d)' =>
              loop'[d].pc = loop[d].pc /\ loop'[d].goal = loop[d].goal
        BY <2>3, <3>2 DEF Resizing
      <3>4. \A d \in Clients : At(d, "measure")' => At(d, "measure")
        BY <3>2 DEF At
      <3> QED
        BY <2>3, <3>1, <3>3, <3>4, SizeQuiet DEF pty
    <2>5. CASE w # 0
      <3>1. Reconcile(c, w, then)
        BY <1>5, <2>5 DEF TakesResize
      <3> HIDE DEF then
      <3> QED
        BY <2>1, <2>2, <2>3, <3>1, ReconcileSize
    <2> QED
      BY <2>4, <2>5
  <1> QED
    BY <1>1, <1>2, <1>3, <1>4, <1>5 DEF LoopStep

LEMMA NextSize ==
  ASSUME TypeInv, SizeInv, SerialResize, [Next]_vars
  PROVE  SizeInv'
  <1>1. CASE UNCHANGED vars
    BY <1>1, SizeQuiet DEF vars, At
  <1>2. CASE SessionStep
    <2>1. \A d \in Clients : loop'[d].pc = loop[d].pc /\ loop'[d].goal = loop[d].goal
      BY <1>2, MarkClosedType
      DEF SessionStep, PumpForwards, ClearsHistory, PumpEnds, ChildExits, ReaperMarks,
          ReaperRemoves
    <2>2. UNCHANGED pty
      BY <1>2
      DEF SessionStep, PumpForwards, ClearsHistory, PumpEnds, ChildExits, ReaperMarks,
          ReaperRemoves
    <2> QED
      BY <2>1, <2>2, SizeQuiet DEF At
  <1>3. ASSUME NEW c \in Clients, LoopStep(c) PROVE SizeInv'
    BY <1>3, LoopStepSize
  <1>4. ASSUME NEW c \in Clients, TransportStep(c) PROVE SizeInv'
    <2>1. CASE Opens(c)
      <3>1. UNCHANGED pty /\ loop[c].pc = "gone" /\ loop'[c].pc = "attach"
            /\ \A d \in Clients \ {c} : loop'[d] = loop[d]
        BY <2>1, Constants DEF Opens, At, TypeInv, TypeOK, Gone
      <3>2. \A d \in Clients : Resizing(d) \/ Resizing(d)' =>
              loop'[d].pc = loop[d].pc /\ loop'[d].goal = loop[d].goal
        BY <3>1 DEF Resizing
      <3>3. \A d \in Clients : At(d, "measure")' => At(d, "measure")
        BY <3>1 DEF At
      <3> QED
        BY <3>1, <3>2, <3>3, SizeQuiet
    <2>2. CASE Shows(c) \/ \E d \in {"in", "out"} : Drops(c, d)
      BY <2>2, SizeQuiet DEF Shows, Drops, At
    <2> QED
      BY <1>4, <2>1, <2>2 DEF TransportStep
  <1> QED
    BY <1>1, <1>2, <1>3, <1>4 DEF Next

(* When clients come, go and change their size one at a time, the terminal *)
(* is as wide as the narrowest of them whenever no loop is applying a      *)
(* size, however many there are and whatever they report.                  *)
THEOREM PinnedSafe ==
  ASSUME SerialResize
  PROVE  Spec => []PinnedToNarrowest
  <1>1. Init => TypeInv /\ SizeInv
    BY InitType, InitSize
  <1>2. TypeInv /\ SizeInv /\ [Next]_vars => (TypeInv /\ SizeInv)'
    BY NextType, NextSize
  <1>3. SizeInv => PinnedToNarrowest
    BY DEF SizeInv
  <1> QED
    BY <1>1, <1>2, <1>3, PTL DEF Spec
=============================================================================
