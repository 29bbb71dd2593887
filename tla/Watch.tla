------------------------------- MODULE Watch -------------------------------
(* The file watcher of an agent (src/watch.rs) with the clients that reach   *)
(* it directly, each on a websocket of its own, and those a hub relays       *)
(* (crates/hub/src/watch_ws.rs, WatchSub and Detach in src/uplink.rs).       *)
(*                                                                           *)
(* Who subscribed to what is under one lock, the kernel's watches under      *)
(* another: a call that changes both is two steps. The calls of local        *)
(* clients run on tasks of their own, those of relayed clients one after     *)
(* the other in the read loop of the uplink.                                 *)
EXTENDS Naturals, FiniteSets, Sequences

CONSTANTS Clients, Relayed, Dirs,
          MaxDirs,       \* MAX_DIRS_PER_CLIENT
          LineCap        \* bound: frames on their way to the agent

WatchAssumption == Relayed \subseteq Clients /\ MaxDirs \in Nat /\ LineCap \in Nat

VARIABLES overlap,      \* calls may overlap: fixed for the behaviour
          present,      \* directories that exist
          byDir,        \* Subs.by_dir: no entry is the empty set
          byClient,     \* Subs.by_client
          watched,      \* directories the debouncer watches
          pending,      \* changes collected, not routed yet
          client,       \* how far the connection of a client is
          orphans,      \* what its teardown goes on to unwatch
          call,         \* the frame its task is in: what is left, what it is at
          bridge,       \* relayed: the hub's side of it
          line,         \* frames from the hub to the agent
          behind,       \* history: <<client, dir>>: changed since it was told
          lost          \* history: directories removed since they were watched

watchVars == <<overlap, present, byDir, byClient, watched, pending, client,
               orphans, call, bridge, line, behind, lost>>

Local == Clients \ Relayed
Idle == [op |-> "idle", todo |-> {}, at |-> {}]
Frames == [ch : Relayed, op : {"sub", "unsub", "detach"}, dirs : SUBSET Dirs]
Frame(c, op, D) == [ch |-> c, op |-> op, dirs |-> D]

TypeOK ==
  /\ overlap \in BOOLEAN /\ present \subseteq Dirs
  /\ byDir \in [Dirs -> SUBSET Clients] /\ byClient \in [Clients -> SUBSET Dirs]
  /\ watched \subseteq Dirs /\ pending \subseteq Dirs /\ lost \subseteq Dirs
  /\ client \in [Clients -> {"new", "on", "dropped", "orphaned", "gone"}]
  /\ orphans \in [Clients -> SUBSET Dirs]
  /\ call \in [Clients -> [op : {"idle", "sub", "watch", "unsub", "unwatch"},
                            todo : SUBSET Dirs, at : SUBSET Dirs]]
  /\ bridge \in [Relayed -> [st : {"new", "open", "closing", "closed"},
                             held : {<<>>} \cup {<<f>> : f \in Frames}]]
  /\ line \in Seq(Frames) /\ behind \subseteq Clients \X Dirs

Init ==
  /\ overlap \in BOOLEAN /\ present = Dirs
  /\ byDir = [d \in Dirs |-> {}] /\ byClient = [c \in Clients |-> {}]
  /\ watched = {} /\ pending = {} /\ lost = {} /\ behind = {}
  /\ client = [c \in Clients |-> "new"] /\ call = [c \in Clients |-> Idle]
  /\ orphans = [c \in Clients |-> {}]
  /\ bridge = [c \in Relayed |-> [st |-> "new", held |-> <<>>]] /\ line = <<>>

\* Nothing is under way in the agent; nor in a bridge of the hub.
Leaving(c) == client[c] \in {"dropped", "orphaned"}
Quiet == \A c \in Clients : call[c] = Idle /\ ~Leaving(c)
BridgesQuiet == \A c \in Relayed : bridge[c].held = <<>> /\ bridge[c].st # "closing"
LoopFree == \A c \in Relayed : call[c] = Idle /\ ~Leaving(c)
MayStart == overlap \/ Quiet

hubSide == <<bridge, line>>
maps == <<byDir, byClient>>
conns == <<client, orphans>>
Tells(c, D) == behind' = behind \ ({c} \X D)
-----------------------------------------------------------------------------
\* register: a websocket that connects, the first WatchSub of a channel.
Registers(c) == client' = [client EXCEPT ![c] = "on"]

Connects(c) ==
  /\ c \in Local /\ client[c] = "new"
  /\ Registers(c)
  /\ UNCHANGED <<overlap, present, maps, watched, pending, orphans, call, hubSide, behind, lost>>

\* A frame of directories to subscribe to, or to leave.
Receives(c, op, D) ==
  /\ c \in Local /\ client[c] = "on" /\ call[c] = Idle /\ MayStart
  /\ D # {}
  /\ call' = [call EXCEPT ![c] = [op |-> op, todo |-> D, at |-> {}]]
  /\ UNCHANGED <<overlap, present, maps, watched, pending, conns, hubSide, behind, lost>>

\* One directory is dealt with; the frame ends with its last.
Advance(c, d) ==
  call' = [call EXCEPT ![c] =
             IF @.todo \subseteq {d} THEN Idle
             ELSE [op |-> IF @.op \in {"sub", "watch"} THEN "sub" ELSE "unsub",
                   todo |-> @.todo \ {d}, at |-> {}]]
\* The rest of the call, under the lock on the kernel's watches.
Then(c, op, d) == call' = [call EXCEPT ![c] = [op |-> op, todo |-> @.todo, at |-> {d}]]

(* subscribe: what does not exist or is one too many is skipped; the first   *)
(* subscriber goes on to have the directory watched.                         *)
Accepts(c, d) ==
  /\ d \in present
  /\ d \in byClient[c] \/ Cardinality(byClient[c]) < MaxDirs

Subscribes(c, d) ==
  /\ call[c].op = "sub" /\ d \in call[c].todo
  /\ IF Accepts(c, d)
     THEN /\ byClient' = [byClient EXCEPT ![c] = @ \cup {d}]
          /\ byDir' = [byDir EXCEPT ![d] = @ \cup {c}]
          /\ IF byDir[d] = {} THEN Then(c, "watch", d) ELSE Advance(c, d)
     ELSE Advance(c, d) /\ UNCHANGED maps
  /\ UNCHANGED <<overlap, present, watched, pending, conns, hubSide, behind, lost>>

Watches(c, d) ==
  /\ call[c].op = "watch" /\ call[c].at = {d}
  /\ watched' = IF d \in present THEN watched \cup {d} ELSE watched
  /\ lost' = IF d \in present THEN lost \ {d} ELSE lost
  /\ Advance(c, d)
  /\ UNCHANGED <<overlap, present, maps, pending, conns, hubSide, behind>>

\* unsubscribe: the last subscriber's goes on to have it unwatched.
SlipLeavesEmpty(c, d) == c \in byDir[d]
LeavesEmpty(c, d) == byDir[d] = {c}

Unsubscribes(c, d) ==
  /\ call[c].op = "unsub" /\ d \in call[c].todo
  /\ byClient' = [byClient EXCEPT ![c] = @ \ {d}]
  /\ byDir' = [byDir EXCEPT ![d] = @ \ {c}]
  /\ Tells(c, {d})
  /\ IF LeavesEmpty(c, d) THEN Then(c, "unwatch", d) ELSE Advance(c, d)
  /\ UNCHANGED <<overlap, present, watched, pending, conns, hubSide, lost>>

Unwatches(c, d) ==
  /\ call[c].op = "unwatch" /\ call[c].at = {d}
  /\ watched' = watched \ {d}
  /\ Advance(c, d)
  /\ UNCHANGED <<overlap, present, maps, pending, conns, hubSide, behind, lost>>

(* unregister: the channel of its events first, then its subscriptions, then *)
(* the watches of what nobody subscribes to any more. The websocket's        *)
(* receiving task is aborted, not awaited: it may be inside a frame.         *)
Drops(c) ==
  /\ client' = [client EXCEPT ![c] = "dropped"]
  /\ Tells(c, Dirs)

Disconnects(c) ==
  /\ c \in Local /\ client[c] = "on" /\ MayStart
  /\ Drops(c)
  /\ UNCHANGED <<overlap, present, maps, watched, pending, orphans, call, hubSide, lost>>

Forgets(c) ==
  /\ client[c] = "dropped"
  /\ client' = [client EXCEPT ![c] = "orphaned"]
  /\ orphans' = [orphans EXCEPT ![c] = {d \in byClient[c] : LeavesEmpty(c, d)}]
  /\ byDir' = [d \in Dirs |-> IF d \in byClient[c] THEN byDir[d] \ {c} ELSE byDir[d]]
  /\ byClient' = [byClient EXCEPT ![c] = {}]
  /\ UNCHANGED <<overlap, present, watched, pending, call, hubSide, behind, lost>>

UnwatchesOrphans(c) ==
  /\ client[c] = "orphaned"
  /\ client' = [client EXCEPT ![c] = "gone"]
  /\ orphans' = [orphans EXCEPT ![c] = {}]
  /\ watched' = watched \ orphans[c]
  /\ UNCHANGED <<overlap, present, maps, pending, call, hubSide, behind, lost>>

-----------------------------------------------------------------------------
\* The hub: a browser opens a watch channel and its frames are read one by one.
BrowserOpens(c) ==
  /\ bridge[c].st = "new"
  /\ bridge' = [bridge EXCEPT ![c].st = "open"]
  /\ UNCHANGED <<overlap, present, maps, watched, pending, conns, call, line, behind, lost>>

BrowserSends(c, op, D) ==
  /\ bridge[c].st = "open" /\ bridge[c].held = <<>> /\ D # {}
  /\ bridge' = [bridge EXCEPT ![c].held = <<Frame(c, op, D)>>]
  /\ UNCHANGED <<overlap, present, maps, watched, pending, conns, call, line, behind, lost>>

\* The reader is aborted, not awaited: what it holds may still be sent.
Relays(c) ==
  /\ bridge[c].held # <<>> /\ Len(line) < LineCap
  /\ line' = line \o bridge[c].held
  /\ bridge' = [bridge EXCEPT ![c].held = <<>>]
  /\ UNCHANGED <<overlap, present, maps, watched, pending, conns, call, behind, lost>>

BridgeCloses(c) ==
  /\ bridge[c].st = "open" /\ (overlap \/ bridge[c].held = <<>>)
  /\ \E keeps \in BOOLEAN :
       bridge' = [bridge EXCEPT ![c] =
                    [st |-> "closing", held |-> IF keeps THEN @.held ELSE <<>>]]
  /\ UNCHANGED <<overlap, present, maps, watched, pending, conns, call, line, behind, lost>>

BridgeDetaches(c) ==
  /\ bridge[c].st = "closing" /\ Len(line) < LineCap
  /\ line' = Append(line, Frame(c, "detach", {}))
  /\ bridge' = [bridge EXCEPT ![c].st = "closed"]
  /\ UNCHANGED <<overlap, present, maps, watched, pending, conns, call, behind, lost>>

(* The read loop of the uplink: the first subscription of a channel opens a  *)
(* client for it, a Detach unregisters the client the channel has.           *)
Takes(c) ==
  /\ line # <<>> /\ Head(line).ch = c /\ LoopFree /\ MayStart
  /\ line' = Tail(line)
  /\ IF Head(line).op = "detach"
     THEN /\ IF client[c] = "on" THEN Drops(c) ELSE UNCHANGED <<client, behind>>
          /\ UNCHANGED call
     ELSE /\ Registers(c)
          /\ call' = [call EXCEPT ![c] =
                        [op |-> Head(line).op, todo |-> Head(line).dirs, at |-> {}]]
          /\ UNCHANGED behind
  /\ UNCHANGED <<overlap, present, maps, watched, pending, orphans, bridge, lost>>

(* The connection ends: every channel's client is unregistered. Bridges end  *)
(* with their connection.                                                    *)
LineCut ==
  /\ Relayed # {} /\ LoopFree /\ MayStart
  /\ line' = <<>>
  /\ bridge' = [c \in Relayed |->
                  IF bridge[c].st = "new" THEN bridge[c]
                  ELSE [st |-> "closed", held |-> <<>>]]
  /\ client' = [c \in Clients |->
                  IF c \in Relayed /\ client[c] = "on" THEN "dropped" ELSE client[c]]
  /\ behind' = behind \ (Relayed \X Dirs)
  /\ UNCHANGED <<overlap, present, maps, watched, pending, orphans, call, lost>>

-----------------------------------------------------------------------------
\* The file system. A directory that goes takes its watch with it.
Removed(d) ==
  /\ d \in present /\ present' = present \ {d}
  /\ watched' = watched \ {d} /\ lost' = lost \cup {d}
  /\ behind' = behind \ (Clients \X {d})
  /\ UNCHANGED <<overlap, maps, pending, conns, call, hubSide>>

Created(d) ==
  /\ d \notin present /\ present' = present \cup {d}
  /\ UNCHANGED <<overlap, maps, watched, pending, conns, call, hubSide, behind, lost>>

Changes(d) ==
  /\ d \in present
  /\ pending' = IF d \in watched THEN pending \cup {d} ELSE pending
  /\ behind' = IF Quiet /\ d \notin lost THEN behind \cup (byDir[d] \X {d}) ELSE behind
  /\ UNCHANGED <<overlap, present, maps, watched, conns, call, hubSide, lost>>

\* route: a change is told to the subscribers whose connection is there.
Routes(d) ==
  /\ d \in pending /\ pending' = pending \ {d}
  /\ behind' = behind \ ({c \in byDir[d] : client[c] = "on"} \X {d})
  /\ UNCHANGED <<overlap, present, maps, watched, conns, call, hubSide, lost>>

Next ==
  \/ \E c \in Clients :
       \/ Connects(c) \/ Disconnects(c) \/ Forgets(c) \/ UnwatchesOrphans(c)
       \/ \E D \in SUBSET Dirs, op \in {"sub", "unsub"} : Receives(c, op, D)
       \/ \E d \in Dirs : Subscribes(c, d) \/ Watches(c, d)
                          \/ Unsubscribes(c, d) \/ Unwatches(c, d)
  \/ \E c \in Relayed :
       \/ BrowserOpens(c) \/ Relays(c) \/ BridgeCloses(c) \/ BridgeDetaches(c) \/ Takes(c)
       \/ \E D \in SUBSET Dirs, op \in {"sub", "unsub"} : BrowserSends(c, op, D)
  \/ LineCut
  \/ \E d \in Dirs : Removed(d) \/ Created(d) \/ Changes(d) \/ Routes(d)

Spec == Init /\ [][Next]_watchVars

-----------------------------------------------------------------------------
(* However calls overlap, the two maps say the same of who subscribed, and   *)
(* nobody holds more directories than one client may.                        *)
MapsAgree ==
  \A c \in Clients :
    /\ \A d \in Dirs : c \in byDir[d] <=> d \in byClient[c]
    /\ Cardinality(byClient[c]) <= MaxDirs

(* Calls taken one at a time leave a directory watched exactly when someone  *)
(* subscribes to it, unless it was removed since.                            *)
WatchedForSomeone ==
  ~overlap /\ Quiet => \A d \in Dirs :
    /\ d \in watched => byDir[d] # {}
    /\ byDir[d] # {} => d \in watched \/ d \in lost

(* A client that is gone leaves no subscription; a channel whose browser is  *)
(* gone leaves no client once the agent has read what the hub sent.          *)
LeaversLeaveNothing ==
  ~overlap =>
    /\ \A c \in Clients : client[c] \in {"orphaned", "gone"} => byClient[c] = {}
    /\ \A c \in Relayed : bridge[c].st = "closed" /\ line = <<>> /\ Quiet => client[c] # "on"

(* A change made while nobody subscribes or leaves reaches every subscriber: *)
(* it is being collected until it has been told, whoever leaves meanwhile.   *)
NewsReachesAll == ~overlap => \A n \in behind : n[2] \in pending

WatchHolds == MapsAgree /\ WatchedForSomeone /\ LeaversLeaveNothing /\ NewsReachesAll
=============================================================================
