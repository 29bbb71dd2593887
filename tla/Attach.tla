------------------------------- MODULE Attach -------------------------------
(***************************************************************************)
(* Clients attached to one session: the pump that feeds the emulator and   *)
(* the broadcast ring, each client's attach_loop with its outgoing queue,  *)
(* the size of the terminal, which follows the narrowest client, and the   *)
(* news that the child has exited.                                         *)
(*                                                                         *)
(* src/src/attach.rs, and Session in src/src/engine.rs.  The transport is  *)
(* the web socket of src/src/handlers.rs or a channel of src/src/uplink.rs.*)
(* The emulator's content is the number of changes broadcast so far, its   *)
(* version: pump and clear_history change both in one lock section.        *)
(* Sizes have one axis, the width.                                         *)
(***************************************************************************)
EXTENDS Naturals, Sequences, FiniteSets, FiniteSetsExt

CONSTANTS
  Clients,
  Widths,       \* the widths a client may report; 0 is ignored
  InitCols,     \* INIT_COLS
  RingCap,      \* BROADCAST_CAP: how many broadcast items the ring keeps
  OutCap,       \* how many frames the outgoing queue of a client holds
  MaxVersions,  \* bound: how often the terminal changes
  SerialResize  \* usage assumption: a client attaches, or a size changes,
                \* only when no other size change is under way

ASSUME SizeAssumption == InitCols \in Nat \ {0} /\ Widths \subseteq Nat
ASSUME CapAssumption ==
  /\ RingCap \in Nat \ {0}
  /\ OutCap \in Nat \ {0}
  /\ MaxVersions \in Nat
ASSUME SerialAssumption == SerialResize \in BOOLEAN

VARIABLES
  ring,    \* everything broadcast so far; receivers reach the last RingCap
  cols,    \* SessionState.cols, also the emulator's width
  master,  \* the width of the PTY
  sizes,   \* SessionState.client_sizes; 0 is no constraint: not reported, gone
  pump,    \* "reads" or "ended"
  child,   \* "runs" or "exited"
  reaper,  \* "waits", "marked" (closed sent) or "removed" (off the list)
  closed,  \* the value of Session.closed
  loop,    \* each client's attach_loop
  out,     \* the frames on their way to each client
  line,    \* which directions of each client's transport are up
  view     \* what each client shows

pty == <<cols, master, sizes>>
exit == <<pump, child, reaper, closed>>
wire == <<line, view>>
vars == <<ring, pty, exit, loop, out, wire>>

-----------------------------------------------------------------------------
Version == Len(ring)
Cols == Widths \cup {InitCols, 0}
Frame == [kind : {"none", "snapshot", "chunk", "repaint", "closed"},
          ver : 0..MaxVersions]
NoFrame == [kind |-> "none", ver |-> 0]
Closed == [NoFrame EXCEPT !.kind = "closed"]
Snapshot == [kind |-> "snapshot", ver |-> Version]

Label == {"gone", "attach", "measure", "join", "greet", "probe", "loop",
          "send", "master", "emulator", "refit", "bye", "leave"}

(* A loop: its place in the code, the frame it is sending, the position of *)
(* its broadcast receiver, snap_cols, sized, first, the width it has just  *)
(* read, the size it is applying, and whether closed was sent since it     *)
(* subscribed.                                                             *)
Loop == [pc : Label, held : Frame, next : 1..(MaxVersions + 1), snap : Cols,
         sized : BOOLEAN, first : BOOLEAN, width : Cols, goal : Cols,
         wake : BOOLEAN]
Gone == [pc |-> "gone", held |-> NoFrame, next |-> 1, snap |-> 0,
         sized |-> FALSE, first |-> FALSE, width |-> 0, goal |-> 0,
         wake |-> FALSE]

View == [state : {"blank", "good", "torn"}, ver : 0..MaxVersions]
BlankView == [state |-> "blank", ver |-> 0]

TypeOK ==
  /\ ring \in Seq({"chunk", "repaint"})
  /\ Version <= MaxVersions
  /\ cols \in Cols \ {0}
  /\ master \in Cols \ {0}
  /\ sizes \in [Clients -> Cols]
  /\ pump \in {"reads", "ended"}
  /\ child \in {"runs", "exited"}
  /\ reaper \in {"waits", "marked", "removed"}
  /\ closed \in BOOLEAN
  /\ loop \in [Clients -> Loop]
  /\ out \in [Clients -> Seq(Frame)]
  /\ line \in [Clients -> SUBSET {"in", "out"}]
  /\ view \in [Clients -> View]
  /\ \A c \in Clients : Len(out[c]) <= OutCap

Init ==
  /\ ring = <<>>
  /\ cols = InitCols
  /\ master = InitCols
  /\ sizes = [c \in Clients |-> 0]
  /\ pump = "reads"
  /\ child = "runs"
  /\ reaper = "waits"
  /\ closed = FALSE
  /\ loop = [c \in Clients |-> Gone]
  /\ out = [c \in Clients |-> <<>>]
  /\ line = [c \in Clients |-> {}]
  /\ view = [c \in Clients |-> BlankView]

At(c, l) == loop[c].pc = l
Goto(c, l) == loop' = [loop EXCEPT ![c].pc = l]

-----------------------------------------------------------------------------
(* The session.                                                            *)
Broadcast(k) ==
  /\ Version < MaxVersions
  /\ ring' = Append(ring, k)

(* pump: a chunk of output, possibly what was left when the child exited.  *)
PumpForwards ==
  /\ pump = "reads"
  /\ Broadcast("chunk")
  /\ UNCHANGED <<pty, exit, loop, out, wire>>

(* clear_history, of a session found on the list, pushes a repaint.        *)
ClearsHistory ==
  /\ reaper # "removed"
  /\ Broadcast("repaint")
  /\ UNCHANGED <<pty, exit, loop, out, wire>>

(* mark_closed uses watch::Sender::send, which changes nothing when nobody *)
(* is subscribed.                                                          *)
Subscribed(c) == loop[c].pc \notin {"gone", "attach", "measure", "join"}
MarkClosed ==
  /\ closed' = (closed \/ \E c \in Clients : Subscribed(c))
  /\ loop' = [c \in Clients |-> [loop[c] EXCEPT !.wake = @ \/ Subscribed(c)]]

PumpEnds ==
  /\ pump = "reads"
  /\ child = "exited"
  /\ pump' = "ended"
  /\ MarkClosed
  /\ UNCHANGED <<ring, pty, child, reaper, out, wire>>

ChildExits ==
  /\ child = "runs"
  /\ child' = "exited"
  /\ UNCHANGED <<ring, pty, pump, reaper, closed, loop, out, wire>>

ReaperMarks ==
  /\ reaper = "waits"
  /\ child = "exited"
  /\ reaper' = "marked"
  /\ MarkClosed
  /\ UNCHANGED <<ring, pty, pump, child, out, wire>>

ReaperRemoves ==
  /\ reaper = "marked"
  /\ reaper' = "removed"
  /\ UNCHANGED <<ring, pty, pump, child, closed, loop, out, wire>>

-----------------------------------------------------------------------------
(* The transport and the client behind it.                                 *)

(* The session is looked up when the client asks for it; attach_loop runs  *)
(* once the socket is upgraded or the channel spawned.                     *)
Opens(c) ==
  /\ At(c, "gone")
  /\ out[c] = <<>>
  /\ reaper # "removed"
  /\ loop' = [loop EXCEPT ![c] = [Gone EXCEPT !.pc = "attach"]]
  /\ line' = [line EXCEPT ![c] = {"in", "out"}]
  /\ view' = [view EXCEPT ![c] = BlankView]
  /\ UNCHANGED <<ring, pty, exit, out>>

(* The event sender, or the receiver of the frames, is dropped.            *)
Drops(c, d) ==
  /\ ~At(c, "gone")
  /\ d \in line[c]
  /\ line' = [line EXCEPT ![c] = @ \ {d}]
  /\ out' = IF d = "out" THEN [out EXCEPT ![c] = <<>>] ELSE out
  /\ UNCHANGED <<ring, pty, exit, loop, view>>

(* What a frame makes of a view.  A chunk only makes sense on top of the   *)
(* version it was produced from.                                           *)
Painted(v, f) ==
  IF f.kind \in {"snapshot", "repaint"}
  THEN [state |-> "good", ver |-> f.ver]
  ELSE IF f.kind # "chunk" THEN v
  ELSE IF v.state = "good" /\ v.ver + 1 = f.ver THEN [v EXCEPT !.ver = f.ver]
  ELSE [v EXCEPT !.state = "torn"]

Shows(c) ==
  /\ out[c] # <<>>
  /\ out' = [out EXCEPT ![c] = Tail(@)]
  /\ view' = [view EXCEPT ![c] = Painted(@, Head(out[c]))]
  /\ UNCHANGED <<ring, pty, exit, loop, line>>

-----------------------------------------------------------------------------
(* attach_loop.                                                            *)
Resizing(c) == loop[c].pc \in {"master", "emulator"}
Alone(c) == SerialResize =>
  \A d \in Clients \ {c} : ~Resizing(d) /\ ~At(d, "measure")

(* Slip: the receiver starts with the item the snapshot ends with.         *)
SlipAttached(l, then) ==
  [l EXCEPT !.pc = then, !.held = Snapshot,
            !.next = IF Version = 0 THEN 1 ELSE Version]

(* Session::attach: snapshot and subscribe in one lock section; whatever   *)
(* receiver the loop had is dropped.                                       *)
Attached(l, then) ==
  [l EXCEPT !.pc = then, !.held = Snapshot, !.next = Version + 1]

Attaches(c) ==
  /\ At(c, "attach")
  /\ Alone(c)
  /\ loop' = [loop EXCEPT ![c] = Attached(@, "measure")]
  /\ UNCHANGED <<ring, pty, exit, out, wire>>

(* snap_cols is read in a lock section of its own.                         *)
Measures(c) ==
  /\ At(c, "measure")
  /\ loop' = [loop EXCEPT ![c].pc = "join", ![c].snap = cols]
  /\ UNCHANGED <<ring, pty, exit, out, wire>>

(* closed_rx and register_client: from here on the loop hears of an exit.  *)
Joins(c) ==
  /\ At(c, "join")
  /\ Goto(c, "greet")
  /\ UNCHANGED <<ring, pty, exit, out, wire>>

(* out.send: waits for room, and fails when the receiver is gone.  The     *)
(* first snapshot is sent before the loop, Closed after it.                *)
Then == [greet |-> "probe", send |-> "loop", bye |-> "leave"]
(* Slip: a frame that finds no room is dropped.                            *)
SlipSends(c) ==
  /\ loop[c].pc \in DOMAIN Then
  /\ out' = IF "out" \in line[c] /\ Len(out[c]) < OutCap
            THEN [out EXCEPT ![c] = Append(@, loop[c].held)] ELSE out
  /\ loop' = [loop EXCEPT ![c].pc = Then[loop[c].pc], ![c].held = NoFrame]
  /\ UNCHANGED <<ring, pty, exit, wire>>

Sends(c) ==
  /\ loop[c].pc \in DOMAIN Then
  /\ \/ /\ "out" \notin line[c]
        /\ loop' = [loop EXCEPT ![c].pc = "leave", ![c].held = NoFrame]
        /\ UNCHANGED out
     \/ /\ "out" \in line[c]
        /\ Len(out[c]) < OutCap
        /\ out' = [out EXCEPT ![c] = Append(@, loop[c].held)]
        /\ loop' = [loop EXCEPT ![c].pc = Then[loop[c].pc], ![c].held = NoFrame]
  /\ UNCHANGED <<ring, pty, exit, wire>>

(* Slip: the loop only waits to be woken.                                  *)
SlipProbes(c) ==
  /\ At(c, "probe")
  /\ Goto(c, "loop")
  /\ UNCHANGED <<ring, pty, exit, out, wire>>

(* The child had exited before the loop subscribed.                        *)
Probes(c) ==
  /\ At(c, "probe")
  /\ loop' = [loop EXCEPT ![c].pc = IF closed THEN "bye" ELSE "loop",
                          ![c].held = IF closed THEN Closed ELSE NoFrame]
  /\ UNCHANGED <<ring, pty, exit, out, wire>>

(* rx.recv: the next item, or Lagged when the ring has overwritten it.     *)
Item(i) == [kind |-> ring[i], ver |-> i]
Lagged(c) == loop[c].next + RingCap <= Version
(* Slip: the snapshot is taken, but the old receiver kept.                 *)
SlipReceives(c) ==
  LET l == loop[c]
  IN /\ At(c, "loop")
     /\ l.next <= Version
     /\ loop' = [loop EXCEPT ![c] =
          IF Lagged(c)
          THEN [l EXCEPT !.pc = "send", !.held = Snapshot, !.next = Version + 1 - RingCap]
          ELSE [l EXCEPT !.pc = "send", !.held = Item(l.next), !.next = l.next + 1]]
     /\ UNCHANGED <<ring, pty, exit, out, wire>>

(* Slip: a new receiver, but no snapshot.                                  *)
SlipLags(c) ==
  LET l == loop[c]
  IN /\ At(c, "loop")
     /\ l.next <= Version
     /\ loop' = [loop EXCEPT ![c] =
          IF Lagged(c) THEN [l EXCEPT !.next = Version + 1]
          ELSE [l EXCEPT !.pc = "send", !.held = Item(l.next), !.next = l.next + 1]]
     /\ UNCHANGED <<ring, pty, exit, out, wire>>

Receives(c) ==
  LET l == loop[c]
  IN /\ At(c, "loop")
     /\ l.next <= Version
     /\ loop' = [loop EXCEPT ![c] =
          IF Lagged(c) THEN Attached(l, "send")
          ELSE [l EXCEPT !.pc = "send", !.held = Item(l.next), !.next = l.next + 1]]
     /\ UNCHANGED <<ring, pty, exit, out, wire>>

(* reconcile: the target is the least reported width, and there is nothing *)
(* to do when the terminal has it already.                                 *)
Target(s) == LET reported == {s[d] : d \in Clients} \ {0}
             IN IF reported = {} THEN cols ELSE Min(reported)

\* Slip: the test is of the sizes as they were before the report.
SlipReconcile(c, w, then) ==
  LET s == [sizes EXCEPT ![c] = w]
  IN /\ sizes' = s
     /\ loop' = [loop EXCEPT ![c] =
          IF Target(sizes) = cols THEN then
          ELSE [then EXCEPT !.pc = "master", !.goal = Target(s)]]

Reconcile(c, w, then) ==
  LET s == [sizes EXCEPT ![c] = w]
  IN /\ sizes' = s
     /\ loop' = [loop EXCEPT ![c] =
          IF Target(s) = cols THEN then
          ELSE [then EXCEPT !.pc = "master", !.goal = Target(s)]]

(* A resize event; the queue events come through only delays them.  A      *)
(* width of 0 is not recorded, but counts as the first report.             *)
TakesResize(c, w) ==
  LET then == [loop[c] EXCEPT !.pc = "refit", !.sized = TRUE, !.width = w,
                              !.first = ~loop[c].sized]
  IN /\ At(c, "loop")
     /\ "in" \in line[c]
     /\ Alone(c)
     /\ IF w = 0
        THEN loop' = [loop EXCEPT ![c] = then] /\ UNCHANGED sizes
        ELSE Reconcile(c, w, then)
     /\ UNCHANGED <<ring, cols, master, exit, out, wire>>

(* resize: the PTY and the emulator are two lock sections.  A loop without *)
(* a size has just unregistered and returns.                               *)
ResizesPty(c) ==
  /\ At(c, "master")
  /\ master' = loop[c].goal
  /\ Goto(c, "emulator")
  /\ UNCHANGED <<ring, cols, sizes, exit, out, wire>>

ResizesEmulator(c) ==
  /\ At(c, "emulator")
  /\ cols' = loop[c].goal
  /\ loop' = [loop EXCEPT ![c] = IF sizes[c] = 0 THEN Gone
                                 ELSE [@ EXCEPT !.pc = "refit", !.goal = 0]]
  /\ UNCHANGED <<ring, master, sizes, exit, out, wire>>

(* After its first report, a client narrower than its first snapshot gets  *)
(* a new one.                                                              *)
Refits(c) ==
  LET l == loop[c]
      done == [l EXCEPT !.pc = "loop", !.first = FALSE, !.width = 0, !.snap = 0]
  IN /\ At(c, "refit")
     /\ loop' = [loop EXCEPT ![c] =
          IF l.first /\ l.width < l.snap THEN Attached(done, "send") ELSE done]
     /\ UNCHANGED <<ring, pty, exit, out, wire>>

SeesClosed(c) ==
  /\ At(c, "loop")
  /\ loop[c].wake
  /\ loop' = [loop EXCEPT ![c].pc = "bye", ![c].held = Closed]
  /\ UNCHANGED <<ring, pty, exit, out, wire>>

(* The event sender is gone: detached.                                     *)
SeesDetach(c) ==
  /\ At(c, "loop")
  /\ "in" \notin line[c]
  /\ Goto(c, "leave")
  /\ UNCHANGED <<ring, pty, exit, out, wire>>

(* unregister_client, on every way out.                                    *)
Unregisters(c) ==
  /\ At(c, "leave")
  /\ Alone(c)
  /\ Reconcile(c, 0, Gone)
  /\ UNCHANGED <<ring, cols, master, exit, out, wire>>

-----------------------------------------------------------------------------
SessionStep == PumpForwards \/ ClearsHistory \/ PumpEnds \/ ChildExits
               \/ ReaperMarks \/ ReaperRemoves

LoopStep(c) ==
  \/ Attaches(c) \/ Measures(c) \/ Joins(c) \/ Sends(c) \/ Probes(c)
  \/ Receives(c) \/ ResizesPty(c) \/ ResizesEmulator(c)
  \/ Refits(c) \/ SeesClosed(c) \/ SeesDetach(c) \/ Unregisters(c)
  \/ \E w \in Widths : TakesResize(c, w)

TransportStep(c) ==
  \/ Opens(c) \/ Shows(c)
  \/ \E d \in {"in", "out"} : Drops(c, d)

Next == SessionStep \/ \E c \in Clients : LoopStep(c) \/ TransportStep(c)

Spec == Init /\ [][Next]_vars

(* The runtime schedules every loop, select! picks among its ready         *)
(* branches at random, the operating system reaps the child, and a socket  *)
(* with frames to write goes on writing them or fails.                     *)
Fairness ==
  /\ \A c \in Clients : /\ WF_vars(LoopStep(c))
                        /\ SF_vars(Receives(c))
                        /\ SF_vars(SeesClosed(c))
                        /\ WF_vars(out[c] # <<>> /\ (Shows(c) \/ Drops(c, "out")))
  /\ WF_vars(ReaperMarks)
  /\ WF_vars(ReaperRemoves)

FairSpec == Spec /\ Fairness

-----------------------------------------------------------------------------
(* What a client shows is a state the terminal has been in: nothing is     *)
(* shown twice and nothing in between is missing, whatever the ring        *)
(* overwrites and however often the loop takes a new snapshot (attach's    *)
(* comment: "no byte is both replayed and streamed (and none is missed)"). *)
NeverTorn == \A c \in Clients : view[c].state # "torn"

(* A client whose loop has nothing left to do shows the terminal as it is. *)
Settled(c) == At(c, "loop") /\ loop[c].next = Version + 1 /\ out[c] = <<>>
NothingMissed ==
  \A c \in Clients : Settled(c) /\ "out" \in line[c] =>
    view[c].state = "good" /\ view[c].ver = Version

(* The terminal is as wide as the narrowest client allows (resize_client's *)
(* comment: "re-pin the PTY to the minimum across all attached clients"),  *)
(* and the emulator as wide as the PTY, whenever no resize is under way.   *)
PinnedToNarrowest ==
  (\A c \in Clients : ~Resizing(c)) => cols = Target(sizes) /\ master = cols

(* The clients see the terminal as TerminalView says.                      *)
Promise == INSTANCE TerminalView WITH
  version <- Version,
  shown <- [c \in Clients |-> IF view[c].state = "good" THEN <<view[c].ver>>
                              ELSE IF view[c].state = "blank" THEN <<>>
                              ELSE <<Version + 1>>]
SeenAsPromised == Promise!Spec

(* An attached client gets to see everything the terminal has shown.       *)
CatchesUp ==
  \A c \in Clients : \A v \in 1..MaxVersions :
    (Version >= v /\ ~At(c, "gone")) ~>
      (view[c].ver >= v \/ At(c, "gone") \/ "out" \notin line[c])

(* Once the session says it is closed, no attachment stays: also not one   *)
(* that subscribed too late to be woken (attach_loop: "surface the close   *)
(* now").                                                                  *)
ClosedEndsLoops ==
  \A c \in Clients : (closed /\ Subscribed(c)) ~> ~Subscribed(c)
=============================================================================
