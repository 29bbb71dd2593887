-------------------------------- MODULE Relay --------------------------------
(***************************************************************************)
(* One machine's agent and the hub that relays to it.  The agent dials a   *)
(* connection, registers, keeps the hub's copy of its session list up to   *)
(* date, serves terminal channels and runs commands; when the connection   *)
(* is lost it dials another.  The hub keeps one record per connection and  *)
(* a registry that says which record is the machine.  Clients open one     *)
(* terminal or make one request each, and hold on to the record they       *)
(* found, whatever the registry says later.                                *)
(*                                                                         *)
(* src/src/uplink.rs; src/crates/hub/src/registry.rs, uplink_server.rs,    *)
(* client_ws.rs.  The agent's token is good; pings, which only keep a      *)
(* healthy connection from looking dead, are in the guards of the losses.  *)
(***************************************************************************)
EXTENDS Naturals, Sequences, FiniteSets

CONSTANTS
  Sessions,      \* session names
  Clients,       \* browsers and requests, each of which comes once
  None,          \* no session, no client
  MaxConns,      \* bound: how many connections the agent dials; the last
                 \* one is not lost
  OutCap,        \* frames the agent has on their way to the hub: its out_tx
                 \* queue and the socket
  SinkCap,       \* frames the hub keeps for one browser
  PromptResolve  \* timing assumption: the hub has registered a connection or
                 \* given it up before the agent, which backs off, dials again

ASSUME NoneAssumption == None \notin Sessions \cup Clients
ASSUME BoundAssumption ==
  /\ MaxConns \in Nat \ {0}
  /\ OutCap \in Nat \ {0}
  /\ SinkCap \in Nat \ {0}
ASSUME ClientAssumption == IsFiniteSet(Clients)
ASSUME ResolveAssumption == PromptResolve \in BOOLEAN

VARIABLES
  running,  \* the sessions that live on the agent
  agent,    \* the agent: its connection, the list it sent last, its channels
  line,     \* each connection: "none", "up", "cut" (half-open), "closed"
  toHub,    \* the frames on their way from the agent, by connection
  toAgent,  \* the frames on their way to the agent, by connection
  serve,    \* where the hub's serve_agent for each connection is
  conn,     \* the hub's AgentConn of each connection
  entry,    \* Registry.inner: the connection that is the machine, or 0
  client,   \* the clients
  ran       \* history: how often the agent ran each client's command

net == <<line, toHub, toAgent>>
hub == <<serve, conn, entry>>
vars == <<running, agent, net, hub, client, ran>>

-----------------------------------------------------------------------------
Conns == 1..MaxConns
Ids == 1..Cardinality(Clients)

(* Frames.                                                                 *)
Register == [kind |-> "register"]
Listing(S) == [kind |-> "sessions", list |-> S]
Paint(k, ch, s) == [kind |-> k, id |-> ch, session |-> s]
Closed(ch) == [kind |-> "closed", id |-> ch]
Reply(q, c) == [kind |-> "reply", id |-> q, by |-> c]
Attach(ch, s) == [kind |-> "attach", id |-> ch, session |-> s]
Detach(ch) == [kind |-> "detach", id |-> ch]
Command(q, c) == [kind |-> "command", id |-> q, by |-> c]

Paints == [kind : {"snapshot", "output"}, id : Ids, session : Sessions]
Closes == [kind : {"closed"}, id : Ids]
FromAgent ==
  {Register} \cup [kind : {"sessions"}, list : SUBSET Sessions]
  \cup Paints \cup Closes \cup [kind : {"reply"}, id : Ids, by : Clients]
FromHub ==
  [kind : {"attach"}, id : Ids, session : Sessions]
  \cup [kind : {"detach"}, id : Ids]
  \cup [kind : {"command"}, id : Ids, by : Clients]

(* A channel of the agent: its session; whether chans.term has it and its  *)
(* attach_loop runs ("serves"), the loop has ended ("ended"), or the entry *)
(* is gone and the loop has yet to notice ("late"); whether the snapshot   *)
(* is still to be sent.                                                    *)
Channel == [session : Sessions \cup {None},
            at : {"none", "serves", "ended", "late"}, fresh : BOOLEAN]
NoChannel == [session |-> None, at |-> "none", fresh |-> FALSE]
NoChannels == [i \in Ids |-> NoChannel]
Agent == [conn : 0..MaxConns, last : SUBSET Sessions, term : [Ids -> Channel]]
Offline == [conn |-> 0, last |-> {}, term |-> NoChannels]

(* AgentConn.  writer: whether its to_agent queue still has a reader.      *)
Conn == [online : BOOLEAN, writer : BOOLEAN, list : SUBSET Sessions,
         channels : [Ids -> Clients \cup {None}],
         pending : [Ids -> Clients \cup {None}],
         nextCh : {0} \cup Ids, nextReq : {0} \cup Ids]
NoOne == [i \in Ids |-> None]
NewConn(S) == [online |-> TRUE, writer |-> TRUE, list |-> S, channels |-> NoOne,
               pending |-> NoOne, nextCh |-> 0, nextReq |-> 0]
NoConn == [NewConn({}) EXCEPT !.online = FALSE, !.writer = FALSE]

(* A client: a bridge goes from "found" to "close", a request from "ask"   *)
(* to "waits".                                                             *)
Label == {"idle", "found", "attach", "on", "detach", "close",
          "ask", "send", "waits", "over"}
Client == [pc : Label, conn : 0..MaxConns, id : {0} \cup Ids,
           session : Sessions \cup {None}, sink : Seq(Paints \cup Closes),
           shown : {"nothing", "own", "foreign"},
           answer : {"none", "ok", "offline", "timeout"},
           by : Clients \cup {None}]
NewClient == [pc |-> "idle", conn |-> 0, id |-> 0, session |-> None, sink |-> <<>>,
              shown |-> "nothing", answer |-> "none", by |-> None]

TypeOK ==
  /\ running \subseteq Sessions
  /\ agent \in Agent
  /\ line \in [Conns -> {"none", "up", "cut", "closed"}]
  /\ toHub \in [Conns -> Seq(FromAgent)]
  /\ toAgent \in [Conns -> Seq(FromHub)]
  /\ serve \in [Conns -> {"none", "hello", "resolve", "register", "serve",
                          "abort", "done"}]
  /\ conn \in [Conns -> Conn]
  /\ entry \in 0..MaxConns
  /\ client \in [Clients -> Client]
  /\ ran \in [Clients -> Nat]

Init ==
  /\ running \in SUBSET Sessions
  /\ agent = Offline
  /\ line = [k \in Conns |-> "none"]
  /\ toHub = [k \in Conns |-> <<>>]
  /\ toAgent = [k \in Conns |-> <<>>]
  /\ serve = [k \in Conns |-> "none"]
  /\ conn = [k \in Conns |-> NoConn]
  /\ entry = 0
  /\ client = [c \in Clients |-> NewClient]
  /\ ran = [c \in Clients |-> 0]

-----------------------------------------------------------------------------
(* The agent.                                                              *)
NextToDial(k) == line[k] = "none" /\ \A j \in 1..(k - 1) : line[j] # "none"
(* What is sent on a dead connection arrives nowhere.                      *)
Emit(k, f) == toHub' = IF line[k] = "up" THEN [toHub EXCEPT ![k] = Append(@, f)]
                       ELSE toHub
Room(k) == Len(toHub[k]) < OutCap

(* The hub has a Register to act on.                                       *)
Arriving(k) == \/ serve[k] = "hello" /\ toHub[k] # <<>>
               \/ serve[k] \in {"resolve", "register"}

(* Slip: the session list counts as sent with the registration.            *)
SlipAgentDials(k) ==
  /\ agent.conn = 0
  /\ NextToDial(k)
  /\ PromptResolve => \A j \in Conns : ~Arriving(j)
  /\ agent' = [Offline EXCEPT !.conn = k, !.last = running]
  /\ line' = [line EXCEPT ![k] = "up"]
  /\ toHub' = [toHub EXCEPT ![k] = <<Register>>]
  /\ serve' = [serve EXCEPT ![k] = "hello"]
  /\ UNCHANGED <<running, toAgent, conn, entry, client, ran>>

(* connect_and_serve: a new connection, Register first, nothing listed.    *)
AgentDials(k) ==
  /\ agent.conn = 0
  /\ NextToDial(k)
  /\ PromptResolve => \A j \in Conns : ~Arriving(j)
  /\ agent' = [Offline EXCEPT !.conn = k]
  /\ line' = [line EXCEPT ![k] = "up"]
  /\ toHub' = [toHub EXCEPT ![k] = <<Register>>]
  /\ serve' = [serve EXCEPT ![k] = "hello"]
  /\ UNCHANGED <<running, toAgent, conn, entry, client, ran>>

(* The poll sends the session list when it differs from the one sent last. *)
AgentPolls ==
  LET k == agent.conn
  IN /\ k # 0
     /\ running # agent.last
     /\ Room(k)
     /\ Emit(k, Listing(running))
     /\ agent' = [agent EXCEPT !.last = running]
     /\ UNCHANGED <<running, line, toAgent, hub, client, ran>>

(* handle_hub.                                                             *)
Delivers(k) == line[k] \in {"up", "closed"}
AgentReads ==
  LET k == agent.conn
  IN /\ k # 0
     /\ Delivers(k)
     /\ toAgent[k] # <<>>
     /\ toAgent' = [toAgent EXCEPT ![k] = Tail(@)]
     /\ LET f == Head(toAgent[k])
        IN \/ /\ f.kind = "attach"
              /\ f.session \in running
              /\ agent' = [agent EXCEPT !.term[f.id] =
                   [session |-> f.session, at |-> "serves", fresh |-> TRUE]]
              /\ UNCHANGED <<toHub, ran>>
           \/ /\ f.kind = "attach"
              /\ f.session \notin running
              /\ Room(k)
              /\ Emit(k, Closed(f.id))
              /\ UNCHANGED <<agent, ran>>
           \/ /\ f.kind = "detach"
              /\ agent' = [agent EXCEPT !.term[f.id] =
                   IF @.at = "serves" THEN [@ EXCEPT !.at = "late"] ELSE NoChannel]
              /\ UNCHANGED <<toHub, ran>>
           \/ /\ f.kind = "command"
              /\ Room(k)
              /\ Emit(k, Reply(f.id, f.by))
              /\ ran' = [ran EXCEPT ![f.by] = @ + 1]
              /\ UNCHANGED agent
     /\ UNCHANGED <<running, line, hub, client>>

(* A channel's attach_loop and forwarder: the snapshot, then output; Closed*)
(* when the session has ended; and the end after a Detach, before which    *)
(* frames may still go out.                                                *)
ChannelPaints(i) ==
  LET t == agent.term[i]
      k == agent.conn
  IN /\ t.at \in {"serves", "late"}
     /\ Room(k)
     /\ Emit(k, Paint(IF t.fresh THEN "snapshot" ELSE "output", i, t.session))
     /\ agent' = [agent EXCEPT !.term[i].fresh = FALSE]
     /\ UNCHANGED <<running, line, toAgent, hub, client, ran>>

ChannelCloses(i) ==
  LET t == agent.term[i]
      k == agent.conn
  IN /\ t.at \in {"serves", "late"}
     /\ ~t.fresh
     /\ t.session \notin running
     /\ Room(k)
     /\ Emit(k, Closed(i))
     /\ agent' = [agent EXCEPT !.term[i] =
          IF t.at = "serves" THEN [t EXCEPT !.at = "ended"] ELSE NoChannel]
     /\ UNCHANGED <<running, line, toAgent, hub, client, ran>>

ChannelEnds(i) ==
  /\ agent.term[i].at = "late"
  /\ agent' = [agent EXCEPT !.term[i] = NoChannel]
  /\ UNCHANGED <<running, net, hub, client, ran>>

(* A close or an error is read from the socket; of a connection that is    *)
(* dead without either, only the watchdog hears.                           *)
AgentNotices ==
  /\ agent.conn # 0
  /\ line[agent.conn] \in {"cut", "closed"}
  /\ agent' = Offline
  /\ toAgent' = [toAgent EXCEPT ![agent.conn] = <<>>]
  /\ UNCHANGED <<running, line, toHub, hub, client, ran>>

(* The sessions come and go; an agent that stops takes them with it, and   *)
(* the next one restores them or not.  Its socket is closed, or not even   *)
(* that.  What a closed socket still has in flight may arrive.             *)
Lost(k, how) ==
  /\ line' = [line EXCEPT ![k] = how]
  /\ toAgent' = [toAgent EXCEPT ![k] = <<>>]
  /\ toHub' = IF how = "cut" THEN [toHub EXCEPT ![k] = <<>>] ELSE toHub
SessionsChange(S) ==
  /\ S # running
  /\ running' = S
  /\ UNCHANGED <<agent, net, hub, client, ran>>

AgentStops(how) ==
  /\ agent.conn \notin {0, MaxConns}
  /\ line[agent.conn] = "up"
  /\ running' = {}
  /\ agent' = Offline
  /\ Lost(agent.conn, how)
  /\ UNCHANGED <<hub, client, ran>>

(* The network path dies, with both ends open.                             *)
LineCut(k) ==
  /\ k # MaxConns
  /\ line[k] = "up"
  /\ Lost(k, "cut")
  /\ UNCHANGED <<running, agent, hub, client, ran>>

-----------------------------------------------------------------------------
(* The hub's serve_agent.                                                  *)
HubReadsRegister(k) ==
  /\ serve[k] = "hello"
  /\ Delivers(k)
  /\ toHub[k] # <<>>
  /\ toHub' = [toHub EXCEPT ![k] = Tail(@)]
  /\ serve' = [serve EXCEPT ![k] = "resolve"]
  /\ UNCHANGED <<running, agent, line, toAgent, conn, entry, client, ran>>

(* The connection closes before a first frame was read.                    *)
HubHearsNothing(k) ==
  /\ serve[k] = "hello"
  /\ line[k] = "closed"
  /\ serve' = [serve EXCEPT ![k] = "done"]
  /\ toHub' = [toHub EXCEPT ![k] = <<>>]
  /\ UNCHANGED <<running, agent, line, toAgent, conn, entry, client, ran>>

(* resolve_agent, which a hub with accounts asks its database.             *)
HubResolves(k) ==
  /\ serve[k] = "resolve"
  /\ serve' = [serve EXCEPT ![k] = "register"]
  /\ UNCHANGED <<running, agent, net, conn, entry, client, ran>>

(* register_agent: a new record in place of the old one, whose list it     *)
(* carries over.                                                           *)
HubRegisters(k) ==
  /\ serve[k] = "register"
  /\ conn' = [conn EXCEPT ![k] = NewConn(IF entry = 0 THEN {} ELSE conn[entry].list)]
  /\ entry' = k
  /\ serve' = [serve EXCEPT ![k] = "serve"]
  /\ UNCHANGED <<running, agent, net, client, ran>>

(* route_to_browser waits for room in the sink; a sink nobody reads any    *)
(* more takes nothing.                                                     *)
Listens(c) == client[c].pc \in {"attach", "on"}
Routes(k, f) ==
  LET c == conn[k].channels[f.id]
  IN IF c # None /\ Listens(c)
     THEN /\ Len(client[c].sink) < SinkCap
          /\ client' = [client EXCEPT ![c].sink = Append(@, f)]
     ELSE UNCHANGED client

(* resolve_reply.                                                          *)
Resolves(k, f) ==
  LET c == conn[k].pending[f.id]
  IN /\ conn' = [conn EXCEPT ![k].pending[f.id] = None]
     /\ client' = IF c # None /\ client[c].pc = "waits"
                  THEN [client EXCEPT ![c].pc = "over", ![c].answer = "ok", ![c].by = f.by]
                  ELSE client

HubReads(k) ==
  /\ serve[k] = "serve"
  /\ Delivers(k)
  /\ toHub[k] # <<>>
  /\ toHub' = [toHub EXCEPT ![k] = Tail(@)]
  /\ LET f == Head(toHub[k])
     IN \/ /\ f.kind = "sessions"
           /\ conn' = [conn EXCEPT ![k].list = f.list]
           /\ UNCHANGED client
        \/ /\ f.kind \in {"snapshot", "output", "closed"}
           /\ Routes(k, f)
           /\ UNCHANGED conn
        \/ /\ f.kind = "reply"
           /\ Resolves(k, f)
  /\ UNCHANGED <<running, agent, line, toAgent, serve, entry, ran>>

(* The writer task fails on a dead socket, and with it every send.         *)
WriterFails(k) ==
  /\ serve[k] = "serve"
  /\ line[k] # "up"
  /\ conn[k].writer
  /\ conn' = [conn EXCEPT ![k].writer = FALSE]
  /\ UNCHANGED <<running, agent, net, serve, entry, client, ran>>

(* go_offline, when reading or pinging fails: offline, no request pending, *)
(* and the sinks dropped.  The writer is aborted afterwards.               *)
(* Slip: the machine goes offline, whichever connection it was.            *)
SlipHubGoesOffline(k) ==
  /\ serve[k] = "serve"
  /\ line[k] # "up"
  /\ conn' = [j \in Conns |->
       IF j = k THEN [conn[j] EXCEPT !.online = FALSE, !.pending = NoOne, !.channels = NoOne]
       ELSE IF j = entry THEN [conn[j] EXCEPT !.online = FALSE] ELSE conn[j]]
  /\ serve' = [serve EXCEPT ![k] = "abort"]
  /\ toHub' = [toHub EXCEPT ![k] = <<>>]
  /\ UNCHANGED <<running, agent, line, toAgent, entry, client, ran>>

HubGoesOffline(k) ==
  /\ serve[k] = "serve"
  /\ line[k] # "up"
  /\ conn' = [conn EXCEPT ![k].online = FALSE, ![k].pending = NoOne,
                          ![k].channels = NoOne]
  /\ serve' = [serve EXCEPT ![k] = "abort"]
  /\ toHub' = [toHub EXCEPT ![k] = <<>>]
  /\ UNCHANGED <<running, agent, line, toAgent, entry, client, ran>>

HubAborts(k) ==
  /\ serve[k] = "abort"
  /\ conn' = [conn EXCEPT ![k].writer = FALSE]
  /\ serve' = [serve EXCEPT ![k] = "done"]
  /\ UNCHANGED <<running, agent, net, entry, client, ran>>

(* The hub process stops, and starts with nothing.                         *)
HubRestarts ==
  /\ line[MaxConns] = "none"
  /\ entry # 0
  /\ line' = [k \in Conns |-> IF line[k] = "up" THEN "closed" ELSE line[k]]
  /\ serve' = [k \in Conns |-> IF serve[k] = "none" THEN "none" ELSE "done"]
  /\ conn' = [k \in Conns |-> NoConn]
  /\ entry' = 0
  /\ client' = [c \in Clients |-> IF client[c].pc = "idle" THEN client[c]
                                  ELSE [client[c] EXCEPT !.pc = "over", !.sink = <<>>]]
  /\ toHub' = [k \in Conns |-> <<>>]
  /\ UNCHANGED <<running, agent, toAgent, ran>>

-----------------------------------------------------------------------------
(* Clients.  resolve_scoped finds the machine while it is online.          *)
Online == entry # 0 /\ conn[entry].online
Step(c, from, to) == /\ client[c].pc = from
                     /\ client' = [client EXCEPT ![c].pc = to]
Send(k, f) == toAgent' = IF line[k] = "up" THEN [toAgent EXCEPT ![k] = Append(@, f)]
                         ELSE toAgent

BrowserOpens(c, s) ==
  /\ client[c].pc = "idle"
  /\ Online
  /\ client' = [client EXCEPT ![c] =
       [@ EXCEPT !.pc = "found", !.conn = entry, !.session = s]]
  /\ UNCHANGED <<running, agent, net, hub, ran>>

(* Slip: the lowest id that is not in use.                                 *)
FreeId(m) == CHOOSE i \in Ids : m[i] = None /\ \A j \in Ids : m[j] = None => i <= j
SlipBridgeOpens(c) ==
  LET k == client[c].conn
      ch == FreeId(conn[k].channels)
  IN /\ client[c].pc = "found"
     /\ conn' = [conn EXCEPT ![k].channels[ch] = c]
     /\ client' = [client EXCEPT ![c].pc = "attach", ![c].id = ch]
     /\ UNCHANGED <<running, agent, net, serve, entry, ran>>

(* Slip: the id is the counter's value before it was incremented.          *)
SlipFirstChannel(c) ==
  LET k == client[c].conn
      ch == conn[k].nextCh
  IN /\ client[c].pc = "found"
     /\ conn' = [conn EXCEPT ![k].nextCh = ch + 1, ![k].channels[ch] = c]
     /\ client' = [client EXCEPT ![c].pc = "attach", ![c].id = ch]
     /\ UNCHANGED <<running, agent, net, serve, entry, ran>>

(* open_channel; 0 is the control channel.                                 *)
BridgeOpens(c) ==
  LET k == client[c].conn
      ch == conn[k].nextCh + 1
  IN /\ client[c].pc = "found"
     /\ conn' = [conn EXCEPT ![k].nextCh = ch, ![k].channels[ch] = c]
     /\ client' = [client EXCEPT ![c].pc = "attach", ![c].id = ch]
     /\ UNCHANGED <<running, agent, net, serve, entry, ran>>

BridgeAttaches(c) ==
  LET k == client[c].conn
  IN /\ client[c].pc = "attach"
     /\ IF conn[k].writer
        THEN /\ Send(k, Attach(client[c].id, client[c].session))
             /\ client' = [client EXCEPT ![c].pc = "on"]
        ELSE /\ client' = [client EXCEPT ![c].pc = "close"]
             /\ UNCHANGED toAgent
     /\ UNCHANGED <<running, agent, line, toHub, hub, ran>>

(* What a browser makes of its frames: the first must be a snapshot, and   *)
(* all of the session it opened.                                           *)
Seen(c, f) ==
  IF f.session # client[c].session \/ client[c].shown = "foreign" THEN "foreign"
  ELSE IF f.kind = "output" /\ client[c].shown = "nothing" THEN "foreign"
  ELSE "own"

(* The bridge's writer and reader: a frame is shown; Closed, a dropped     *)
(* sink, a browser that leaves, or input that finds no writer end it.      *)
BridgeShows(c) ==
  LET f == Head(client[c].sink)
  IN /\ client[c].pc = "on"
     /\ client[c].sink # <<>>
     /\ client' = [client EXCEPT ![c] =
          IF f.kind = "closed" THEN [@ EXCEPT !.pc = "detach", !.sink = <<>>]
          ELSE [@ EXCEPT !.shown = Seen(c, f), !.sink = Tail(client[c].sink)]]
     /\ UNCHANGED <<running, agent, net, hub, ran>>

BridgeIsDropped(c) ==
  /\ client[c].pc = "on"
  /\ client[c].sink = <<>>
  /\ conn[client[c].conn].channels[client[c].id] # c
  /\ client' = [client EXCEPT ![c].pc = "detach"]
  /\ UNCHANGED <<running, agent, net, hub, ran>>

BrowserLeaves(c) ==
  /\ client[c].pc = "on"
  /\ client' = [client EXCEPT ![c].pc = "detach", ![c].sink = <<>>]
  /\ UNCHANGED <<running, agent, net, hub, ran>>

(* Slip: only a bridge that has shown something has anything to detach.    *)
SlipBridgeDetaches(c) ==
  LET k == client[c].conn
  IN /\ Step(c, "detach", "close")
     /\ IF conn[k].writer /\ client[c].shown # "nothing" THEN Send(k, Detach(client[c].id))
        ELSE UNCHANGED toAgent
     /\ UNCHANGED <<running, agent, line, toHub, hub, ran>>

BridgeDetaches(c) ==
  LET k == client[c].conn
  IN /\ Step(c, "detach", "close")
     /\ IF conn[k].writer THEN Send(k, Detach(client[c].id)) ELSE UNCHANGED toAgent
     /\ UNCHANGED <<running, agent, line, toHub, hub, ran>>

(* close_channel.                                                          *)
BridgeCloses(c) ==
  /\ Step(c, "close", "over")
  /\ conn' = [conn EXCEPT ![client[c].conn].channels[client[c].id] = None]
  /\ UNCHANGED <<running, agent, net, serve, entry, ran>>

(* request_within.                                                         *)
RequestFinds(c) ==
  /\ client[c].pc = "idle"
  /\ Online
  /\ client' = [client EXCEPT ![c].pc = "ask", ![c].conn = entry]
  /\ UNCHANGED <<running, agent, net, hub, ran>>

(* Slip: the lowest id that is not pending.                                *)
SlipRequestAsks(c) ==
  LET k == client[c].conn
      q == FreeId(conn[k].pending)
  IN /\ client[c].pc = "ask"
     /\ conn' = [conn EXCEPT ![k].pending[q] = c]
     /\ client' = [client EXCEPT ![c].pc = "send", ![c].id = q]
     /\ UNCHANGED <<running, agent, net, serve, entry, ran>>

RequestAsks(c) ==
  LET k == client[c].conn
      q == conn[k].nextReq + 1
  IN /\ client[c].pc = "ask"
     /\ conn' = [conn EXCEPT ![k].nextReq = q, ![k].pending[q] = c]
     /\ client' = [client EXCEPT ![c].pc = "send", ![c].id = q]
     /\ UNCHANGED <<running, agent, net, serve, entry, ran>>

Withdrawn(c) == [conn EXCEPT ![client[c].conn].pending[client[c].id] = None]
RequestSends(c) ==
  LET k == client[c].conn
  IN /\ client[c].pc = "send"
     /\ IF conn[k].writer
        THEN /\ Send(k, Command(client[c].id, c))
             /\ client' = [client EXCEPT ![c].pc = "waits"]
             /\ UNCHANGED conn
        ELSE /\ client' = [client EXCEPT ![c].pc = "over", ![c].answer = "offline"]
             /\ conn' = Withdrawn(c)
             /\ UNCHANGED toAgent
     /\ UNCHANGED <<running, agent, line, toHub, serve, entry, ran>>

(* The deadline passes, or go_offline has dropped the pending sender.      *)
RequestGivesUp(c) ==
  /\ client[c].pc = "waits"
  /\ client' = [client EXCEPT ![c].pc = "over", ![c].answer = "timeout"]
  /\ conn' = Withdrawn(c)
  /\ UNCHANGED <<running, agent, net, serve, entry, ran>>

-----------------------------------------------------------------------------
ChannelStep(i) == ChannelPaints(i) \/ ChannelCloses(i) \/ ChannelEnds(i)

HubStep(k) ==
  \/ HubReadsRegister(k) \/ HubHearsNothing(k) \/ HubResolves(k) \/ HubRegisters(k)
  \/ HubReads(k) \/ HubGoesOffline(k) \/ HubAborts(k)

ClientStep(c) ==
  \/ BridgeOpens(c) \/ BridgeAttaches(c) \/ BridgeShows(c) \/ BridgeIsDropped(c)
  \/ BridgeDetaches(c) \/ BridgeCloses(c)
  \/ RequestAsks(c) \/ RequestSends(c) \/ RequestGivesUp(c)

Next ==
  \/ AgentPolls \/ AgentReads \/ AgentNotices
  \/ \E k \in Conns : AgentDials(k) \/ HubStep(k) \/ WriterFails(k) \/ LineCut(k)
  \/ \E i \in Ids : ChannelStep(i)
  \/ \E S \in SUBSET Sessions : SessionsChange(S)
  \/ \E how \in {"cut", "closed"} : AgentStops(how)
  \/ HubRestarts
  \/ \E c \in Clients : \/ ClientStep(c) \/ BrowserLeaves(c) \/ RequestFinds(c)
                        \/ \E s \in Sessions : BrowserOpens(c, s)

Spec == Init /\ [][Next]_vars

(* Tasks are scheduled, sockets that are dead are found to be so in time   *)
(* (the agent's watchdog, the hub's unanswered pings), and the senders of  *)
(* a full queue take turns.                                                *)
Fairness ==
  /\ SF_vars(AgentPolls)
  /\ SF_vars(AgentReads)
  /\ WF_vars(AgentNotices)
  /\ \A k \in Conns : WF_vars(AgentDials(k)) /\ WF_vars(HubStep(k))
  /\ \A i \in Ids : WF_vars(ChannelPaints(i)) /\ WF_vars(ChannelEnds(i))
  /\ \A c \in Clients : WF_vars(ClientStep(c))

FairSpec == Spec /\ Fairness

-----------------------------------------------------------------------------
(* A browser only ever shows the terminal it opened, beginning with a      *)
(* snapshot, however late the frames of closed channels and of replaced    *)
(* connections come in (hub.rs, Snapshot: "Always the FIRST frame on a     *)
(* terminal channel").                                                     *)
ShowsItsOwn == \A c \in Clients : client[c].shown # "foreign"

(* A request that is answered is answered with the result of its own       *)
(* command, which the agent ran once, whatever timed out before it.        *)
ReplyIsOwn ==
  \A c \in Clients : client[c].answer = "ok" => client[c].by = c /\ ran[c] = 1

\* The machine is online, on the connection the agent is on.
BackOnline == agent.conn # 0 /\ entry = agent.conn /\ conn[entry].online
Runs(s) == s \in running
Listed(s) == entry # 0 /\ s \in conn[entry].list

(* A session that is gone leaves the hub's list (hub.rs, Sessions: "The    *)
(* agent's live session list (sent on register and whenever it changes)"). *)
GoneIsUnlisted ==
  \A s \in Sessions : <>[]~Runs(s) => <>[]~Listed(s)

\* The agent serves a channel whose bridge has ended, and with it the size
\* the browser pinned.
Abandoned(k, i) ==
  /\ agent.conn = k
  /\ agent.term[i].at \in {"serves", "late"}
  /\ ~\E c \in Clients : /\ client[c].conn = k
                         /\ client[c].id = i
                         /\ client[c].pc \in {"attach", "on", "detach"}
=============================================================================
