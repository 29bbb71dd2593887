--------------------------------- MODULE Buzz ---------------------------------
(* "The agent finished its turn": when a session counts as working           *)
(* (engine.rs), who notices that it stopped (src/push.rs on the machine,     *)
(* uplink.rs for the hub), and the devices that are told                     *)
(* (crates/push/src/lib.rs).                                                 *)
(*                                                                           *)
(* One session name, which may be taken by one process after another. A turn *)
(* is the time of the submit that began it. An input is typed keys, a paste  *)
(* or its markers; what the terminal shows is left out.                      *)
EXTENDS Naturals, FiniteSets

CONSTANTS Users, Owner, Devices,
          Grace,        \* WORK_GRACE_SECS
          MinWork,      \* NOTIFY_MIN_WORK_SECS
          Quiet,        \* NOTIFY_INPUT_QUIET_SECS
          Poll,         \* the watcher's period
          MaxClock, MaxMoves, None

BuzzAssumption ==
  /\ Owner \in Users /\ None \notin Users
  /\ {Grace, MinWork, Quiet, Poll, MaxClock, MaxMoves} \subseteq Nat
  /\ Poll <= Grace

VARIABLES hub,          \* a hub's uplink watches, not the machine itself: fixed
          clock,
          session,      \* Session.state of the process of that name
          watcher,      \* the watcher: what it saw last, where it is
          sends,        \* notifications on their way
          subs,         \* Push.subs, as on the file
          dead,         \* devices whose endpoint answers 404 or 410
          moves,
          announced,    \* history: turns announced, one entry each time
          unwatched     \* history: a turn part of which nobody watched

buzzVars == <<hub, clock, session, watcher, sends, subs, dead, moves,
              announced, unwatched>>

NoSession == [alive |-> FALSE, since |-> 0, until |-> 0, input |-> 0, paste |-> FALSE]
Fresh == [NoSession EXCEPT !.alive = TRUE]
Watching == [at |-> "idle", was |-> "unknown", seen |-> 0, input |-> 0,
             since |-> 0, waiting |-> FALSE]
Times == 0..(MaxClock + Grace)
NoSend == [at |-> "none", turn |-> 0, devs |-> {}, moved |-> {}, gone |-> {}]
Sends == {1, 2}

TypeOK ==
  /\ hub \in BOOLEAN /\ clock \in 1..MaxClock
  /\ session \in [alive : BOOLEAN, since : Times, until : Times, input : Times, paste : BOOLEAN]
  /\ watcher \in [at : {"idle", "input", "since", "judging", "blocked", "away"},
                  was : {"unknown", "busy", "waiting"}, seen : Times,
                  input : Times, since : Times, waiting : BOOLEAN]
  /\ sends \in [Sends -> [at : {"none", "sending", "sent"}, turn : Times,
                          devs : SUBSET Devices, moved : SUBSET Devices, gone : SUBSET Devices]]
  /\ subs \in [Devices -> Users \cup {"everyone", None}]
  /\ dead \subseteq Devices /\ moves \in 0..MaxMoves
  /\ announced \subseteq Times \X {1, 2} /\ unwatched \subseteq Times

Init ==
  /\ hub \in BOOLEAN
  /\ clock = 1 /\ session = Fresh /\ watcher = [Watching EXCEPT !.seen = 1]
  /\ sends = [n \in Sends |-> NoSend]
  /\ subs \in [Devices -> (IF hub THEN Users ELSE {"everyone"}) \cup {None}]
  /\ dead = {} /\ moves = 0 /\ announced = {} /\ unwatched = {}

Working == clock < session.until
pushing == <<sends, subs, dead>>

-----------------------------------------------------------------------------
(* write_input_checked: every input counts as activity; a carriage return    *)
(* outside a bracketed paste begins a turn.                                  *)
Submits == [session EXCEPT !.input = clock, !.since = clock, !.until = clock + Grace]

Input ==
  /\ session.alive /\ moves < MaxMoves /\ moves' = moves + 1
  /\ \/ session' = [session EXCEPT !.input = clock, !.paste = ~@]     \* a marker
     \/ session' = IF session.paste THEN [session EXCEPT !.input = clock] ELSE Submits
     \/ session' = [session EXCEPT !.input = clock]                   \* keys
  /\ UNCHANGED <<hub, clock, watcher, pushing, announced, unwatched>>

\* pump: output keeps a turn going, and never begins one.
Sustains == Working

Output ==
  /\ session.alive /\ Sustains
  /\ session' = [session EXCEPT !.until = clock + Grace]
  /\ UNCHANGED <<hub, clock, watcher, pushing, moves, announced, unwatched>>

\* The process ends, and another is created under its name. A poll that has
\* begun goes on reading the process it found: as if it had ended before.
Replaced ==
  /\ watcher.at \in {"idle", "blocked", "away"}
  /\ moves < MaxMoves /\ moves' = moves + 1
  /\ session' = IF session.alive THEN NoSession ELSE Fresh
  /\ UNCHANGED <<hub, clock, watcher, pushing, announced, unwatched>>

-----------------------------------------------------------------------------
(* The watcher, every Poll. Over a hub the fields of the list are read one   *)
(* after another, last_input_at first; on the machine itself the turn and    *)
(* the input are read together, once the session is seen to wait.            *)
PollDue == watcher.at = "idle" /\ watcher.seen < clock

\* A name no longer listed is forgotten; one seen for the first time is no edge.
SeesNothing ==
  /\ PollDue /\ ~session.alive
  /\ watcher' = [watcher EXCEPT !.was = "unknown", !.seen = clock]
  /\ UNCHANGED <<hub, clock, session, pushing, moves, announced, unwatched>>

ReadsInput ==
  /\ PollDue /\ session.alive /\ hub
  /\ watcher' = [watcher EXCEPT !.at = "input", !.input = session.input]
  /\ UNCHANGED <<hub, clock, session, pushing, moves, announced, unwatched>>

ReadsSince ==
  /\ watcher.at = "input"
  /\ watcher' = [watcher EXCEPT !.at = "since", !.since = session.since]
  /\ UNCHANGED <<hub, clock, session, pushing, moves, announced, unwatched>>

ReadsWaiting ==
  /\ watcher.at = "since" \/ (PollDue /\ session.alive /\ ~hub)
  /\ watcher' = [watcher EXCEPT !.at = "judging", !.waiting = ~Working, !.seen = clock]
  /\ UNCHANGED <<hub, clock, session, pushing, moves, announced, unwatched>>

\* notification_eligible: subtraction saturates.
Eligible(since, input) ==
  since # 0 /\ clock >= since + MinWork /\ clock >= input + Quiet

Edge == watcher.was = "busy" /\ watcher.waiting
Since == IF hub THEN watcher.since ELSE session.since
LastInput == IF hub THEN watcher.input ELSE session.input

(* notify_scoped takes a copy of the subscriptions and sends from it. The    *)
(* machine's watcher waits for the answers; the hub's reader spawns a task.  *)
Scoped(d) == IF hub THEN subs[d] = Owner ELSE subs[d] # None

Judges ==
  LET notices == Edge /\ Eligible(Since, LastInput)
      devs == {d \in Devices : Scoped(d)}
      asleep == [watcher EXCEPT !.at = IF notices /\ devs # {} /\ ~hub THEN "blocked" ELSE "idle",
                                !.was = IF watcher.waiting THEN "waiting" ELSE "busy"]
  IN
  /\ watcher.at = "judging" /\ watcher' = asleep
  /\ IF notices
     THEN /\ announced' = announced \cup
               {<<Since, IF <<Since, 1>> \in announced THEN 2 ELSE 1>>}
          /\ IF devs = {} THEN UNCHANGED sends
             ELSE \E n \in Sends :
                    /\ sends[n].at = "none"
                    /\ sends' = [sends EXCEPT ![n] =
                         [NoSend EXCEPT !.at = "sending", !.turn = Since, !.devs = devs]]
     ELSE UNCHANGED <<announced, sends>>
  /\ UNCHANGED <<hub, clock, session, subs, dead, moves, unwatched>>

\* The uplink is lost and dialled again: what was seen is forgotten.
Away ==
  /\ hub /\ watcher.at \in {"idle", "input", "since", "judging"} /\ moves < MaxMoves
  /\ moves' = moves + 1 /\ watcher' = [Watching EXCEPT !.at = "away"]
  /\ unwatched' = unwatched \cup {session.since}
  /\ UNCHANGED <<hub, clock, session, pushing, announced>>

Back ==
  /\ watcher.at = "away" /\ watcher' = [Watching EXCEPT !.seen = clock]
  /\ unwatched' = unwatched \cup {session.since}
  /\ UNCHANGED <<hub, clock, session, pushing, moves, announced>>

-----------------------------------------------------------------------------
\* send_all, and prune of the endpoints that are gone.
Posts(n) ==
  /\ sends[n].at = "sending"
  /\ sends' = [sends EXCEPT ![n].at = "sent", ![n].gone = sends[n].devs \cap dead]
  /\ UNCHANGED <<hub, clock, session, watcher, subs, dead, moves, announced, unwatched>>

Pruned(gone) == [d \in Devices |-> IF d \in gone THEN None ELSE subs[d]]

Prunes(n) ==
  LET gone == sends[n].gone IN
  /\ sends[n].at = "sent"
  /\ sends' = [m \in Sends |-> IF m = n THEN NoSend
                             ELSE [sends[m] EXCEPT !.moved = @ \cup (sends[m].devs \cap gone)]]
  /\ IF \E d \in gone : subs[d] # None
     THEN subs' = Pruned(gone) ELSE UNCHANGED subs
  /\ IF watcher.at = "blocked"
     THEN /\ watcher' = [watcher EXCEPT !.at = "idle"]
          /\ unwatched' = unwatched \cup {session.since}
     ELSE UNCHANGED <<watcher, unwatched>>
  /\ UNCHANGED <<hub, clock, session, dead, moves, announced>>

(* push_subscribe replaces what is there for the endpoint, whoever's it was; *)
(* push_unsubscribe takes anyone's word for it.                              *)
Moved(d) == sends' = [n \in Sends |-> [sends[n] EXCEPT !.moved = @ \cup (sends[n].devs \cap {d})]]
Subscriber(u) == IF hub THEN u ELSE "everyone"
Subscribe(d, u) ==
  /\ moves < MaxMoves /\ moves' = moves + 1
  /\ subs' = [subs EXCEPT ![d] = Subscriber(u)]
  /\ Moved(d)
  /\ UNCHANGED <<hub, clock, session, watcher, dead, announced, unwatched>>

Unsubscribe(d) ==
  /\ moves < MaxMoves /\ moves' = moves + 1 /\ subs[d] # None
  /\ subs' = [subs EXCEPT ![d] = None]
  /\ Moved(d)
  /\ UNCHANGED <<hub, clock, session, watcher, dead, announced, unwatched>>

EndpointDies(d) ==
  /\ moves < MaxMoves /\ moves' = moves + 1 /\ dead' = dead \cup {d}
  /\ UNCHANGED <<hub, clock, session, watcher, sends, subs, announced, unwatched>>

\* The hub starts again, with the subscriptions that are on the file.
Restarts ==
  /\ hub /\ moves < MaxMoves /\ moves' = moves + 1
  /\ sends' = [n \in Sends |-> NoSend]
  /\ watcher' = [Watching EXCEPT !.at = "away"]
  /\ unwatched' = unwatched \cup {session.since}
  /\ UNCHANGED <<hub, clock, session, subs, dead, announced>>

\* Time does not pass a poll by, unless the watcher is away or waits for sends.
Ticks ==
  /\ clock < MaxClock /\ clock' = clock + 1
  /\ watcher.at \in {"away", "blocked"} \/ clock < watcher.seen + Poll
  /\ UNCHANGED <<hub, session, watcher, pushing, moves, announced, unwatched>>

Next ==
  \/ Input \/ Output \/ Replaced
  \/ SeesNothing \/ ReadsInput \/ ReadsSince \/ ReadsWaiting \/ Judges
  \/ Away \/ Back \/ Restarts \/ Ticks
  \/ \E n \in Sends : Posts(n) \/ Prunes(n)
  \/ \E d \in Devices :
       \/ Unsubscribe(d) \/ EndpointDies(d)
       \/ \E u \in Users : Subscribe(d, u)

Spec == Init /\ [][Next]_buzzVars

-----------------------------------------------------------------------------
(* One turn buzzes a device once at most, however its output pauses, names   *)
(* are taken over and uplinks come back.                                     *)
OncePerTurn == \A a \in announced : a[2] = 1

(* Over a hub nobody's device hears of another's machine, unless it changed  *)
(* hands while the notification was on its way (uplink_server.rs, "buzz only *)
(* the owning tenant's devices").                                            *)
OwnDevices ==
  hub => \A n \in Sends : \A d \in sends[n].devs : subs[d] = Owner \/ d \in sends[n].moved

(* A turn that took long enough and that was let run without input is        *)
(* announced when it ends, if it was watched all along.                      *)
LongTurnsAnnounced ==
  \/ ~session.alive \/ session.since = 0 \/ session.since \in unwatched
  \/ session.until < session.since + MinWork
  \/ session.until < session.input + Quiet
  \/ watcher.at # "idle" \/ watcher.seen < session.until
  \/ <<session.since, 1>> \in announced

BuzzHolds == OncePerTurn /\ OwnDevices /\ LongTurnsAnnounced
=============================================================================
