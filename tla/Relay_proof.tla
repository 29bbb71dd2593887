----------------------------- MODULE Relay_proof ----------------------------
(***************************************************************************)
(* Proofs about Relay, for every set of sessions and clients, any number   *)
(* of connections and any length of the queues: types and the offline      *)
(* mark (Safe), whose a reply is (ReplySafe), and what a browser shows     *)
(* first (ShownSafe).  The last two rest on the one numbering of channels  *)
(* and requests, so they share their lemmas.                               *)
(***************************************************************************)
EXTENDS Relay, FiniteSetTheorems, TLAPS

(* A client that has found the machine holds a connection of it; one with  *)
(* an id in use has a valid one, and a bridge knows its session.           *)
Numbered == {"attach", "on", "detach", "close", "send", "waits"}
ClientsPlaced ==
  \A c \in Clients :
    /\ client[c].pc # "idle" => client[c].conn \in Conns
    /\ client[c].pc \in Numbered => client[c].id \in Ids
    /\ client[c].pc \in {"found", "attach"} => client[c].session \in Sessions

(* An agent that serves a channel knows its session, and is connected.     *)
ChannelsPlaced ==
  \A i \in Ids : agent.term[i].at \in {"serves", "late"} =>
    agent.conn \in Conns /\ agent.term[i].session \in Sessions

(* A connection has given out no more ids than clients that have got one.  *)
Early == {"idle", "found", "ask"}
Served(k) == {c \in Clients : client[c].conn = k /\ client[c].pc \notin Early}
Counted ==
  \A k \in Conns : /\ conn[k].nextCh <= Cardinality(Served(k))
                   /\ conn[k].nextReq <= Cardinality(Served(k))

TypeInv == TypeOK /\ ClientsPlaced /\ ChannelsPlaced /\ Counted

-----------------------------------------------------------------------------
LEMMA IdsAreNaturals == Cardinality(Clients) \in Nat /\ \A i \in Ids : i \in Nat /\ i # 0
  BY ClientAssumption, FS_CardinalityType DEF Ids

LEMMA Sizes ==
  ASSUME NEW A, NEW B, A \subseteq B, B \subseteq Clients
  PROVE  /\ Cardinality(A) \in Nat /\ Cardinality(B) \in Nat
         /\ Cardinality(A) <= Cardinality(B)
  <1>1. IsFiniteSet(B)
    BY ClientAssumption, FS_Subset
  <1>2. IsFiniteSet(A) /\ Cardinality(A) <= Cardinality(B)
    BY <1>1, FS_Subset
  <1> QED
    BY <1>1, <1>2, FS_CardinalityType

LEMMA Constants ==
  /\ Offline \in Agent /\ Offline.conn = 0
  /\ \A i \in Ids : Offline.term[i].at = "none"
  /\ NewClient \in Client /\ NewClient.pc = "idle"
  /\ Register \in FromAgent
  BY BoundAssumption DEF Offline, Agent, NoChannels, NoChannel, Channel, NewClient,
     Client, Label, Register, FromAgent

LEMMA RecordType ==
  ASSUME NEW S \in SUBSET Sessions
  PROVE  /\ NewConn(S) \in Conn /\ NewConn(S).nextCh = 0 /\ NewConn(S).nextReq = 0
         /\ NoConn \in Conn /\ NoConn.nextCh = 0 /\ NoConn.nextReq = 0
  BY DEF NewConn, NoConn, Conn, NoOne

LEMMA InitType == Init => TypeInv
  <1> SUFFICES ASSUME Init PROVE TypeInv
    OBVIOUS
  <1>1. TypeOK
    <2>1. agent \in Agent /\ client \in [Clients -> Client] /\ conn \in [Conns -> Conn]
      BY Constants, RecordType DEF Init
    <2>2. /\ toHub \in [Conns -> Seq(FromAgent)] /\ toAgent \in [Conns -> Seq(FromHub)]
          /\ line \in [Conns -> {"none", "up", "cut", "closed"}]
          /\ serve \in [Conns -> {"none", "hello", "resolve", "register", "serve",
                                  "abort", "done"}]
      BY DEF Init
    <2>3. running \subseteq Sessions /\ entry \in 0..MaxConns /\ ran \in [Clients -> Nat]
      BY BoundAssumption DEF Init
    <2> QED
      BY <2>1, <2>2, <2>3 DEF TypeOK
  <1>2. ClientsPlaced /\ ChannelsPlaced
    BY Constants DEF Init, ClientsPlaced, ChannelsPlaced, Numbered
  <1>3. Counted
    <2> SUFFICES ASSUME NEW k \in Conns
                 PROVE /\ conn[k].nextCh <= Cardinality(Served(k))
                       /\ conn[k].nextReq <= Cardinality(Served(k))
      BY DEF Counted
    <2>1. conn[k].nextCh = 0 /\ conn[k].nextReq = 0
      BY RecordType DEF Init
    <2>2. Served(k) \subseteq Clients
      BY DEF Served
    <2>3. Cardinality(Served(k)) \in Nat
      BY <2>2, ClientAssumption, FS_Subset, FS_CardinalityType
    <2> QED
      BY <2>1, <2>3
  <1> QED
    BY <1>1, <1>2, <1>3 DEF TypeInv

(* What the types say of one connection's queues, record and client.       *)
LEMMA Types ==
  ASSUME TypeInv
  PROVE  /\ agent \in Agent /\ agent.conn \in 0..MaxConns
         /\ \A k \in Conns : /\ toHub[k] \in Seq(FromAgent)
                             /\ toAgent[k] \in Seq(FromHub)
                             /\ conn[k] \in Conn
         /\ \A c \in Clients : client[c] \in Client
  BY DEF TypeInv, TypeOK, Agent

LEMMA CountersAreNaturals ==
  ASSUME TypeInv, NEW k \in Conns
  PROVE  conn[k].nextCh \in Nat /\ conn[k].nextReq \in Nat
  <1>1. conn[k].nextCh \in {0} \cup Ids /\ conn[k].nextReq \in {0} \cup Ids
    BY Types DEF Conn
  <1> QED
    BY <1>1, IdsAreNaturals

LEMMA EmitType ==
  ASSUME TypeInv, NEW k, NEW f \in FromAgent, Emit(k, f)
  PROVE  toHub' \in [Conns -> Seq(FromAgent)]
  <1>1. toHub \in [Conns -> Seq(FromAgent)]
    BY DEF TypeInv, TypeOK
  <1>2. CASE k \in Conns
    BY <1>1, <1>2 DEF Emit
  <1>3. CASE k \notin Conns
    BY <1>1, <1>3 DEF Emit
  <1> QED
    BY <1>2, <1>3

LEMMA SendType ==
  ASSUME TypeInv, NEW k \in Conns, NEW f \in FromHub, Send(k, f)
  PROVE  toAgent' \in [Conns -> Seq(FromHub)]
  BY DEF TypeInv, TypeOK, Send

(* Replacing one client by a well-typed, well-placed one that keeps its    *)
(* connection and does not go back.                                        *)
LEMMA ClientMoves ==
  ASSUME TypeInv, NEW c \in Clients, NEW r \in Client,
         r.conn \in Conns, r.pc # "idle",
         r.pc \in Numbered => r.id \in Ids,
         r.pc \in {"found", "attach"} => r.session \in Sessions,
         \/ client[c].pc = "idle"
         \/ r.conn = client[c].conn /\ (client[c].pc \in Early \/ r.pc \notin Early),
         client' = [client EXCEPT ![c] = r]
  PROVE  /\ client' \in [Clients -> Client]
         /\ ClientsPlaced'
         /\ \A k : Served(k) \subseteq Served(k)'
  <1>1. client \in [Clients -> Client] /\ ClientsPlaced
    BY DEF TypeInv, TypeOK
  <1>2. client' \in [Clients -> Client] /\ ClientsPlaced'
    BY <1>1 DEF ClientsPlaced
  <1>3. ASSUME NEW k, NEW d \in Served(k) PROVE d \in Served(k)'
    <2>1. CASE d # c
      BY <2>1, <1>1, <1>3 DEF Served
    <2>2. CASE d = c
      BY <2>2, <1>1, <1>3 DEF Served, Early
    <2> QED
      BY <2>1, <2>2
  <1> QED
    BY <1>2, <1>3

LEMMA CountKept ==
  ASSUME TypeInv, client' \in [Clients -> Client], conn' \in [Conns -> Conn],
         \A k : Served(k) \subseteq Served(k)',
         \A k \in Conns : /\ conn'[k].nextCh = 0 \/ conn'[k].nextCh = conn[k].nextCh
                          /\ conn'[k].nextReq = 0 \/ conn'[k].nextReq = conn[k].nextReq
  PROVE  Counted'
  <1> SUFFICES ASSUME NEW k \in Conns
               PROVE /\ conn'[k].nextCh <= Cardinality(Served(k)')
                     /\ conn'[k].nextReq <= Cardinality(Served(k)')
    BY DEF Counted
  <1>1. Served(k)' \subseteq Clients
    BY DEF Served
  <1>2. IsFiniteSet(Served(k)') /\ Cardinality(Served(k)') \in Nat
    BY <1>1, ClientAssumption, FS_Subset, FS_CardinalityType
  <1>3. /\ Cardinality(Served(k)) \in Nat
        /\ Cardinality(Served(k)) <= Cardinality(Served(k)')
    BY <1>2, FS_Subset, FS_CardinalityType
  <1>4. /\ conn[k].nextCh <= Cardinality(Served(k))
        /\ conn[k].nextReq <= Cardinality(Served(k))
    BY DEF TypeInv, Counted
  <1>5. conn[k].nextCh \in Nat /\ conn[k].nextReq \in Nat
    BY CountersAreNaturals
  <1> QED
    BY <1>2, <1>3, <1>4, <1>5

(* A client about to take an id: the next one is an id, and it is counted. *)
LEMMA NextIds ==
  ASSUME TypeInv, NEW c \in Clients, client[c].pc \in {"found", "ask"},
         NEW k \in Conns, k = client[c].conn
  PROVE  /\ conn[k].nextCh + 1 \in Ids /\ conn[k].nextReq + 1 \in Ids
         /\ conn[k].nextCh + 1 <= Cardinality(Served(k) \cup {c})
         /\ conn[k].nextReq + 1 <= Cardinality(Served(k) \cup {c})
  <1>1. Served(k) \cup {c} \subseteq Clients /\ c \notin Served(k)
    BY DEF Served, Early
  <1>2. IsFiniteSet(Served(k)) /\ Cardinality(Served(k)) \in Nat
    BY <1>1, ClientAssumption, FS_Subset, FS_CardinalityType
  <1>3. Cardinality(Served(k) \cup {c}) = Cardinality(Served(k)) + 1
    BY <1>1, <1>2, FS_AddElement
  <1>4. Cardinality(Served(k) \cup {c}) <= Cardinality(Clients)
    BY <1>1, ClientAssumption, FS_Subset
  <1>5. /\ conn[k].nextCh <= Cardinality(Served(k))
        /\ conn[k].nextReq <= Cardinality(Served(k))
    BY DEF TypeInv, Counted
  <1> QED
    BY <1>2, <1>3, <1>4, <1>5, CountersAreNaturals, IdsAreNaturals DEF Ids

-----------------------------------------------------------------------------
(* The agent's steps, and what happens to it and to its connection.        *)
LEMMA ClientsUntouched ==
  ASSUME TypeInv, UNCHANGED <<conn, client>>
  PROVE  /\ conn' \in [Conns -> Conn] /\ client' \in [Clients -> Client]
         /\ ClientsPlaced' /\ Counted'
  <1>1. \A k : Served(k)' = Served(k)
    BY DEF Served
  <1> QED
    BY <1>1 DEF TypeInv, TypeOK, ClientsPlaced, Counted

LEMMA AgentDialsType ==
  ASSUME TypeInv, NEW k \in Conns, AgentDials(k)
  PROVE  TypeInv'
  <1>1. agent' \in Agent /\ ChannelsPlaced'
    <2>1. /\ agent' \in [conn : 0..MaxConns, last : SUBSET Sessions, term : [Ids -> Channel]]
          /\ agent'.term = Offline.term
      BY Constants, BoundAssumption DEF AgentDials, Agent, Conns
    <2> QED
      BY <2>1, Constants DEF Agent, ChannelsPlaced
  <1>2. toHub' \in [Conns -> Seq(FromAgent)]
    BY Constants DEF AgentDials, TypeInv, TypeOK
  <1>3. /\ line' \in [Conns -> {"none", "up", "cut", "closed"}]
        /\ serve' \in [Conns -> {"none", "hello", "resolve", "register", "serve",
                                 "abort", "done"}]
    BY DEF AgentDials, TypeInv, TypeOK
  <1> QED
    BY <1>1, <1>2, <1>3, ClientsUntouched DEF AgentDials, TypeInv, TypeOK

LEMMA AgentPollsType == ASSUME TypeInv, AgentPolls PROVE TypeInv'
  <1>1. Listing(running) \in FromAgent
    BY DEF TypeInv, TypeOK, Listing, FromAgent
  <1>2. toHub' \in [Conns -> Seq(FromAgent)]
    BY <1>1, EmitType DEF AgentPolls
  <1>3. agent' \in Agent /\ ChannelsPlaced'
    BY DEF AgentPolls, TypeInv, TypeOK, Agent, ChannelsPlaced
  <1> QED
    BY <1>2, <1>3, ClientsUntouched DEF AgentPolls, hub, TypeInv, TypeOK

LEMMA ChannelChanges ==
  ASSUME TypeInv, agent.conn \in Conns, NEW i \in Ids, NEW r \in Channel,
         r.at \in {"serves", "late"} => r.session \in Sessions,
         agent' = [agent EXCEPT !.term[i] = r]
  PROVE  agent' \in Agent /\ ChannelsPlaced'
  <1>1. agent \in Agent /\ ChannelsPlaced
    BY DEF TypeInv, TypeOK
  <1>2. /\ agent' \in Agent /\ agent'.conn = agent.conn
        /\ agent'.term = [agent.term EXCEPT ![i] = r]
    BY <1>1 DEF Agent
  <1>3. agent.term \in [Ids -> Channel]
    BY <1>1 DEF Agent
  <1> QED
    BY <1>1, <1>2, <1>3 DEF ChannelsPlaced

LEMMA NoChannelType == NoChannel \in Channel /\ NoChannel.at = "none"
  BY DEF NoChannel, Channel

LEMMA AgentReadsType == ASSUME TypeInv, AgentReads PROVE TypeInv'
  <1> DEFINE k == agent.conn
             f == Head(toAgent[k])
  <1>1. k \in Conns
    <2>1. agent.conn # 0
      BY DEF AgentReads
    <2> QED
      BY <2>1, Types, BoundAssumption DEF Conns
  <1>2. f \in FromHub /\ Tail(toAgent[k]) \in Seq(FromHub)
    <2>1. toAgent[k] \in Seq(FromHub) /\ toAgent[k] # <<>>
      BY <1>1, Types DEF AgentReads
    <2> HIDE DEF k
    <2> QED
      BY <2>1
  <1>3. toAgent' \in [Conns -> Seq(FromHub)]
    BY <1>1, <1>2 DEF AgentReads, TypeInv, TypeOK
  <1>4. /\ agent' \in Agent /\ ChannelsPlaced'
        /\ toHub' \in [Conns -> Seq(FromAgent)]
        /\ ran' \in [Clients -> Nat]
    <2>1. CASE f.kind = "attach" /\ f.session \in running
      <3> DEFINE r == [session |-> f.session, at |-> "serves", fresh |-> TRUE]
      <3>1. f.id \in Ids
        BY <2>1, <1>2 DEF FromHub
      <3>2. r \in Channel /\ r.session \in Sessions
        BY <2>1 DEF Channel, TypeInv, TypeOK
      <3>3. agent' = [agent EXCEPT !.term[f.id] = r] /\ UNCHANGED <<toHub, ran>>
        BY <2>1 DEF AgentReads
      <3>4. agent' \in Agent /\ ChannelsPlaced'
        BY <1>1, <3>1, <3>2, <3>3, ChannelChanges
      <3> QED
        BY <3>3, <3>4 DEF TypeInv, TypeOK
    <2>2. CASE f.kind = "attach" /\ f.session \notin running
      <3>1. Closed(f.id) \in FromAgent
        BY <2>2, <1>2 DEF FromHub, FromAgent, Closes, Closed
      <3>2. Emit(k, Closed(f.id)) /\ UNCHANGED <<agent, ran>>
        BY <2>2 DEF AgentReads
      <3> QED
        BY <3>1, <3>2, EmitType DEF TypeInv, TypeOK, ChannelsPlaced
    <2>3. CASE f.kind = "detach"
      <3> DEFINE t == agent.term[f.id]
                 r == IF t.at = "serves" THEN [t EXCEPT !.at = "late"] ELSE NoChannel
      <3>1. f.id \in Ids
        BY <2>3, <1>2 DEF FromHub
      <3>2. t \in Channel
        BY <3>1, Types DEF Agent
      <3>3. r \in Channel /\ (r.at \in {"serves", "late"} => r.session \in Sessions)
        BY <3>1, <3>2, NoChannelType DEF Channel, TypeInv, ChannelsPlaced
      <3>4. agent' = [agent EXCEPT !.term[f.id] = r] /\ UNCHANGED <<toHub, ran>>
        BY <2>3 DEF AgentReads
      <3> HIDE DEF r
      <3>5. agent' \in Agent /\ ChannelsPlaced'
        BY <1>1, <3>1, <3>3, <3>4, ChannelChanges
      <3> QED
        BY <3>4, <3>5 DEF TypeInv, TypeOK
    <2>4. CASE f.kind = "command"
      <3>1. f.id \in Ids /\ f.by \in Clients
        BY <2>4, <1>2 DEF FromHub
      <3>2. Reply(f.id, f.by) \in FromAgent
        BY <3>1 DEF FromAgent, Reply
      <3>3. /\ Emit(k, Reply(f.id, f.by)) /\ UNCHANGED agent
            /\ ran' = [ran EXCEPT ![f.by] = @ + 1]
        BY <2>4 DEF AgentReads
      <3>4. toHub' \in [Conns -> Seq(FromAgent)]
        BY <3>2, <3>3, EmitType
      <3>5. ran' \in [Clients -> Nat]
        BY <3>1, <3>3 DEF TypeInv, TypeOK
      <3> QED
        BY <3>3, <3>4, <3>5 DEF TypeInv, TypeOK, ChannelsPlaced
    <2> QED
      BY <2>1, <2>2, <2>3, <2>4 DEF AgentReads
  <1>5. UNCHANGED <<running, line, serve, conn, entry, client>>
    BY DEF AgentReads, hub
  <1> QED
    BY <1>3, <1>4, <1>5, ClientsUntouched DEF TypeInv, TypeOK

LEMMA ChannelStepType ==
  ASSUME TypeInv, NEW i \in Ids, ChannelStep(i)
  PROVE  TypeInv'
  <1> DEFINE t == agent.term[i]
             k == agent.conn
  <1>1. t \in Channel /\ t.at \in {"serves", "late"}
    BY Types DEF Agent, ChannelStep, ChannelPaints, ChannelCloses, ChannelEnds
  <1>2. k \in Conns /\ t.session \in Sessions
    BY <1>1 DEF TypeInv, ChannelsPlaced
  <1>3. /\ agent' \in Agent /\ ChannelsPlaced'
        /\ toHub' \in [Conns -> Seq(FromAgent)]
    <2>1. CASE ChannelPaints(i)
      <3> DEFINE r == [t EXCEPT !.fresh = FALSE]
      <3>1. r \in Channel /\ r.session \in Sessions
        BY <1>1, <1>2 DEF Channel
      <3>2. agent' = [agent EXCEPT !.term[i] = r]
        BY <2>1 DEF ChannelPaints
      <3>3. agent' \in Agent /\ ChannelsPlaced'
        BY <1>2, <3>1, <3>2, ChannelChanges
      <3>4. Paint(IF t.fresh THEN "snapshot" ELSE "output", i, t.session) \in FromAgent
        BY <1>2 DEF Paint, FromAgent, Paints
      <3> QED
        BY <2>1, <3>3, <3>4, EmitType DEF ChannelPaints
    <2>2. CASE ChannelCloses(i)
      <3> DEFINE r == IF t.at = "serves" THEN [t EXCEPT !.at = "ended"] ELSE NoChannel
      <3>1. r \in Channel /\ r.at \notin {"serves", "late"}
        BY <1>1, NoChannelType DEF Channel
      <3>2. agent' = [agent EXCEPT !.term[i] = r]
        BY <2>2 DEF ChannelCloses
      <3> HIDE DEF r
      <3>3. agent' \in Agent /\ ChannelsPlaced'
        BY <1>2, <3>1, <3>2, ChannelChanges
      <3>4. Closed(i) \in FromAgent
        BY DEF FromAgent, Closes, Closed
      <3> QED
        BY <2>2, <3>3, <3>4, EmitType DEF ChannelCloses
    <2>3. CASE ChannelEnds(i)
      <3>1. agent' \in Agent /\ ChannelsPlaced'
        BY <1>2, <2>3, NoChannelType, ChannelChanges DEF ChannelEnds
      <3> QED
        BY <2>3, <3>1 DEF ChannelEnds, net, TypeInv, TypeOK
    <2> QED
      BY <2>1, <2>2, <2>3 DEF ChannelStep
  <1>4. UNCHANGED <<running, line, toAgent, serve, conn, entry, client, ran>>
    BY DEF ChannelStep, ChannelPaints, ChannelCloses, ChannelEnds, hub, net
  <1> QED
    BY <1>3, <1>4, ClientsUntouched DEF TypeInv, TypeOK
(* Queues.                                                                 *)
LEMMA Queues ==
  ASSUME NEW S
  PROVE  /\ <<>> \in Seq(S)
         /\ \A q \in Seq(S) : \A f \in S : Append(q, f) \in Seq(S)
         /\ \A q \in Seq(S) : q # <<>> => Head(q) \in S /\ Tail(q) \in Seq(S)
  OBVIOUS

LEMMA Cleared ==
  ASSUME NEW S, NEW q \in [Conns -> Seq(S)], NEW k
  PROVE  [q EXCEPT ![k] = <<>>] \in [Conns -> Seq(S)]
  <1>1. <<>> \in Seq(S)
    OBVIOUS
  <1> QED
    BY <1>1

LEMMA AgentGone ==
  ASSUME TypeInv, agent' = Offline
  PROVE  agent' \in Agent /\ ChannelsPlaced'
  BY Constants DEF ChannelsPlaced

LEMMA AgentNoticesType == ASSUME TypeInv, AgentNotices PROVE TypeInv'
  <1>1. agent' \in Agent /\ ChannelsPlaced'
    BY AgentGone DEF AgentNotices
  <1>2. toAgent' \in [Conns -> Seq(FromHub)]
    BY Cleared DEF AgentNotices, TypeInv, TypeOK
  <1> QED
    BY <1>1, <1>2, ClientsUntouched DEF AgentNotices, hub, TypeInv, TypeOK

LEMMA LostType ==
  ASSUME TypeInv, NEW k \in Conns, NEW how \in {"cut", "closed"}, Lost(k, how)
  PROVE  /\ line' \in [Conns -> {"none", "up", "cut", "closed"}]
         /\ toAgent' \in [Conns -> Seq(FromHub)]
         /\ toHub' \in [Conns -> Seq(FromAgent)]
  BY DEF Lost, TypeInv, TypeOK

LEMMA SessionsChangeType ==
  ASSUME TypeInv, NEW S \in SUBSET Sessions, SessionsChange(S)
  PROVE  TypeInv'
  BY ClientsUntouched DEF SessionsChange, net, hub, TypeInv, TypeOK, ChannelsPlaced

LEMMA AgentStopsType ==
  ASSUME TypeInv, NEW how \in {"cut", "closed"}, AgentStops(how)
  PROVE  TypeInv'
  <1>1. agent.conn \in Conns
    BY Types, BoundAssumption DEF AgentStops, Conns
  <1>2. agent' \in Agent /\ ChannelsPlaced'
    BY AgentGone DEF AgentStops
  <1> QED
    BY <1>1, <1>2, LostType, ClientsUntouched DEF AgentStops, hub, TypeInv, TypeOK

LEMMA LineCutType ==
  ASSUME TypeInv, NEW k \in Conns, LineCut(k)
  PROVE  TypeInv'
  BY LostType, ClientsUntouched DEF LineCut, hub, TypeInv, TypeOK, ChannelsPlaced

-----------------------------------------------------------------------------
(* The hub's steps.                                                        *)
AgentKept == UNCHANGED <<running, agent, line>>

LEMMA AgentUntouched ==
  ASSUME TypeInv, AgentKept
  PROVE  /\ running' \subseteq Sessions /\ agent' \in Agent /\ ChannelsPlaced'
         /\ line' \in [Conns -> {"none", "up", "cut", "closed"}]
  BY DEF AgentKept, TypeInv, TypeOK, ChannelsPlaced

LEMMA HeadType ==
  ASSUME TypeInv, NEW k \in Conns, toHub[k] # <<>>
  PROVE  Head(toHub[k]) \in FromAgent /\ Tail(toHub[k]) \in Seq(FromAgent)
  <1>1. toHub[k] \in Seq(FromAgent)
    BY Types
  <1> QED
    BY <1>1

LEMMA HubWaitsType ==
  ASSUME TypeInv, NEW k \in Conns,
         HubReadsRegister(k) \/ HubHearsNothing(k) \/ HubResolves(k)
  PROVE  TypeInv'
  <1>1. toHub' \in [Conns -> Seq(FromAgent)]
    <2>1. toHub \in [Conns -> Seq(FromAgent)]
      BY DEF TypeInv, TypeOK
    <2>2. CASE HubReadsRegister(k)
      BY <2>1, <2>2, HeadType DEF HubReadsRegister
    <2>3. CASE HubHearsNothing(k)
      BY <2>1, <2>3, Cleared DEF HubHearsNothing
    <2>4. CASE HubResolves(k)
      BY <2>1, <2>4 DEF HubResolves, net
    <2> QED
      BY <2>2, <2>3, <2>4
  <1>2. serve' \in [Conns -> {"none", "hello", "resolve", "register", "serve",
                             "abort", "done"}]
    BY DEF HubReadsRegister, HubHearsNothing, HubResolves, TypeInv, TypeOK
  <1>3. /\ AgentKept /\ UNCHANGED <<conn, client>>
        /\ UNCHANGED <<toAgent, entry, ran>>
    BY DEF HubReadsRegister, HubHearsNothing, HubResolves, net, AgentKept
  <1> QED
    BY <1>1, <1>2, <1>3, AgentUntouched, ClientsUntouched DEF TypeInv, TypeOK

(* A record of a connection replaced by one that has given out as many     *)
(* ids, or none, while the clients stay.                                   *)
LEMMA RecordChanges ==
  ASSUME TypeInv, NEW k \in Conns, NEW r \in Conn,
         r.nextCh \in {0, conn[k].nextCh}, r.nextReq \in {0, conn[k].nextReq},
         conn' = [conn EXCEPT ![k] = r], client' \in [Clients -> Client],
         \A j : Served(j) \subseteq Served(j)'
  PROVE  conn' \in [Conns -> Conn] /\ Counted'
  <1>1. conn \in [Conns -> Conn]
    BY DEF TypeInv, TypeOK
  <1>2. conn' \in [Conns -> Conn]
    BY <1>1
  <1>3. \A j \in Conns : /\ conn'[j].nextCh = 0 \/ conn'[j].nextCh = conn[j].nextCh
                         /\ conn'[j].nextReq = 0 \/ conn'[j].nextReq = conn[j].nextReq
    BY <1>1
  <1> QED
    BY <1>2, <1>3, CountKept

LEMMA ClientsStay ==
  ASSUME TypeInv, UNCHANGED client
  PROVE  /\ client' \in [Clients -> Client] /\ ClientsPlaced'
         /\ \A j : Served(j) \subseteq Served(j)'
  BY DEF TypeInv, TypeOK, ClientsPlaced, Served

LEMMA HubRegistersType ==
  ASSUME TypeInv, NEW k \in Conns, HubRegisters(k)
  PROVE  TypeInv'
  <1> DEFINE S == IF entry = 0 THEN {} ELSE conn[entry].list
             r == NewConn(S)
  <1>1. S \subseteq Sessions
    <2>1. entry # 0 => entry \in Conns
      BY BoundAssumption DEF TypeInv, TypeOK, Conns
    <2> QED
      BY <2>1, Types DEF Conn
  <1>2. r \in Conn /\ r.nextCh = 0 /\ r.nextReq = 0
    BY <1>1, RecordType
  <1>3. conn' = [conn EXCEPT ![k] = r]
    BY DEF HubRegisters
  <1>4. AgentKept /\ UNCHANGED <<toHub, toAgent, client, ran>>
    BY DEF HubRegisters, net, AgentKept
  <1> HIDE DEF r
  <1>5. conn' \in [Conns -> Conn] /\ Counted'
    BY <1>2, <1>3, <1>4, ClientsStay, RecordChanges
  <1>6. /\ entry' \in 0..MaxConns
        /\ serve' \in [Conns -> {"none", "hello", "resolve", "register", "serve",
                                 "abort", "done"}]
    BY BoundAssumption DEF HubRegisters, TypeInv, TypeOK, Conns
  <1> QED
    BY <1>4, <1>5, <1>6, AgentUntouched, ClientsStay DEF TypeInv, TypeOK

LEMMA HubEndsType ==
  ASSUME TypeInv, NEW k \in Conns,
         WriterFails(k) \/ HubGoesOffline(k) \/ HubAborts(k)
  PROVE  TypeInv'
  <1>1. conn[k] \in Conn
    BY Types
  <1>2. PICK r \in Conn : /\ conn' = [conn EXCEPT ![k] = r]
                          /\ r.nextCh = conn[k].nextCh /\ r.nextReq = conn[k].nextReq
    <2>1. CASE WriterFails(k) \/ HubAborts(k)
      <3> DEFINE r == [conn[k] EXCEPT !.writer = FALSE]
      <3>1. r \in Conn /\ r.nextCh = conn[k].nextCh /\ r.nextReq = conn[k].nextReq
        BY <1>1 DEF Conn
      <3>2. conn' = [conn EXCEPT ![k] = r]
        BY <2>1 DEF WriterFails, HubAborts
      <3> QED
        BY <3>1, <3>2
    <2>2. CASE HubGoesOffline(k)
      <3> DEFINE r == [conn[k] EXCEPT !.online = FALSE, !.pending = NoOne, !.channels = NoOne]
      <3>1. r \in Conn /\ r.nextCh = conn[k].nextCh /\ r.nextReq = conn[k].nextReq
        BY <1>1 DEF Conn, NoOne
      <3>2. conn' = [conn EXCEPT ![k] = r]
        BY <2>2 DEF HubGoesOffline
      <3> QED
        BY <3>1, <3>2
    <2> QED
      BY <2>1, <2>2
  <1>3. /\ AgentKept /\ UNCHANGED client
        /\ UNCHANGED <<toAgent, entry, ran>>
    BY DEF WriterFails, HubGoesOffline, HubAborts, net, AgentKept
  <1>4. conn' \in [Conns -> Conn] /\ Counted'
    BY <1>2, <1>3, ClientsStay, RecordChanges
  <1>5. toHub' \in [Conns -> Seq(FromAgent)]
    <2>1. toHub \in [Conns -> Seq(FromAgent)]
      BY DEF TypeInv, TypeOK
    <2>2. [toHub EXCEPT ![k] = <<>>] \in [Conns -> Seq(FromAgent)]
      BY <2>1, Cleared
    <2>3. toHub' \in {toHub, [toHub EXCEPT ![k] = <<>>]}
      BY DEF WriterFails, HubGoesOffline, HubAborts, net
    <2> QED
      BY <2>1, <2>2, <2>3
  <1>6. serve' \in [Conns -> {"none", "hello", "resolve", "register", "serve",
                             "abort", "done"}]
    BY DEF WriterFails, HubGoesOffline, HubAborts, net, TypeInv, TypeOK
  <1> QED
    BY <1>3, <1>4, <1>5, <1>6, AgentUntouched, ClientsStay DEF TypeInv, TypeOK

ClientsAdvance ==
  /\ client' \in [Clients -> Client] /\ ClientsPlaced'
  /\ \A j : Served(j) \subseteq Served(j)'

LEMMA RoutesType ==
  ASSUME TypeInv, NEW k, NEW f \in Paints \cup Closes, Routes(k, f)
  PROVE  ClientsAdvance
  <1> DEFINE c == conn[k].channels[f.id]
  <1>1. CASE UNCHANGED client
    BY <1>1, ClientsStay DEF ClientsAdvance
  <1>2. CASE c \in Clients /\ Listens(c) /\ client' = [client EXCEPT ![c].sink = Append(@, f)]
    <2> DEFINE r == [client[c] EXCEPT !.sink = Append(@, f)]
    <2>1. client[c] \in Client
      BY <1>2, Types
    <2>2. r \in Client
      <3>1. client[c].sink \in Seq(Paints \cup Closes)
        BY <2>1 DEF Client
      <3>2. Append(client[c].sink, f) \in Seq(Paints \cup Closes)
        BY <3>1, Queues
      <3> QED
        BY <2>1, <3>2 DEF Client
    <2>3. /\ r.pc = client[c].pc /\ r.conn = client[c].conn /\ r.id = client[c].id
          /\ r.session = client[c].session /\ r.pc \in {"attach", "on"}
      BY <1>2, <2>1 DEF Client, Listens
    <2>4. client' = [client EXCEPT ![c] = r]
      BY <1>2
    <2> HIDE DEF r, c
    <2> QED
      BY <1>2, <2>2, <2>3, <2>4, ClientMoves
         DEF ClientsAdvance, TypeInv, ClientsPlaced, Numbered, Early
  <1>3. CASE c \notin Clients /\ client' = [client EXCEPT ![c].sink = Append(@, f)]
    <2>1. client' = client
      BY <1>3 DEF TypeInv, TypeOK
    <2> QED
      BY <2>1, ClientsStay DEF ClientsAdvance
  <1> QED
    BY <1>1, <1>2, <1>3 DEF Routes

LEMMA ResolvesType ==
  ASSUME TypeInv, NEW k \in Conns, NEW f \in [kind : {"reply"}, id : Ids, by : Clients],
         Resolves(k, f)
  PROVE  ClientsAdvance /\ conn' \in [Conns -> Conn] /\ Counted'
  <1> DEFINE c == conn[k].pending[f.id]
             rec == [conn[k] EXCEPT !.pending[f.id] = None]
  <1>1. conn[k] \in Conn
    BY Types
  <1>2. rec \in Conn /\ rec.nextCh = conn[k].nextCh /\ rec.nextReq = conn[k].nextReq
    BY <1>1 DEF Conn
  <1>3. conn' = [conn EXCEPT ![k] = rec]
    BY DEF Resolves
  <1>4. ClientsAdvance
    <2>1. CASE UNCHANGED client
      BY <2>1, ClientsStay DEF ClientsAdvance
    <2>2. CASE c \in Clients /\ client[c].pc = "waits" /\ client' = [client EXCEPT
                 ![c].pc = "over", ![c].answer = "ok", ![c].by = f.by]
      <3> DEFINE r == [client[c] EXCEPT !.pc = "over", !.answer = "ok", !.by = f.by]
      <3>1. client[c] \in Client
        BY <2>2, Types
      <3>2. r \in Client /\ r.pc = "over" /\ r.conn = client[c].conn
        BY <3>1 DEF Client, Label
      <3>3. client' = [client EXCEPT ![c] = r]
        BY <2>2
      <3>4. client[c].conn \in Conns
        BY <2>2 DEF TypeInv, ClientsPlaced
      <3> HIDE DEF r, c
      <3> QED
        BY <2>2, <3>2, <3>3, <3>4, ClientMoves DEF ClientsAdvance, Numbered, Early
    <2>3. c \in Clients \cup {None}
      BY <1>1 DEF Conn
    <2> QED
      BY <2>1, <2>2, <2>3 DEF Resolves
  <1> HIDE DEF rec
  <1> QED
    BY <1>2, <1>3, <1>4, RecordChanges DEF ClientsAdvance

LEMMA HubReadsType ==
  ASSUME TypeInv, NEW k \in Conns, HubReads(k)
  PROVE  TypeInv'
  <1> DEFINE f == Head(toHub[k])
  <1>1. f \in FromAgent /\ toHub' \in [Conns -> Seq(FromAgent)]
    BY HeadType DEF HubReads, TypeInv, TypeOK
  <1>2. AgentKept /\ UNCHANGED <<toAgent, serve, entry, ran>>
    BY DEF HubReads, AgentKept
  <1>3. ClientsAdvance /\ conn' \in [Conns -> Conn] /\ Counted'
    <2>1. CASE f.kind = "sessions"
      <3> DEFINE r == [conn[k] EXCEPT !.list = f.list]
      <3>1. f.list \in SUBSET Sessions
        BY <1>1, <2>1 DEF FromAgent, Register, Paints, Closes
      <3>2. conn[k] \in Conn
        BY Types
      <3>3. r \in Conn /\ r.nextCh = conn[k].nextCh /\ r.nextReq = conn[k].nextReq
        BY <3>1, <3>2 DEF Conn
      <3>4. conn' = [conn EXCEPT ![k] = r] /\ UNCHANGED client
        BY <2>1 DEF HubReads
      <3> HIDE DEF r
      <3> QED
        BY <3>3, <3>4, ClientsStay, RecordChanges DEF ClientsAdvance
    <2>2. CASE f.kind \in {"snapshot", "output", "closed"}
      <3>1. f \in Paints \cup Closes
        BY <1>1, <2>2 DEF FromAgent, Register
      <3>2. Routes(k, f) /\ UNCHANGED conn
        BY <2>2 DEF HubReads
      <3>3. ClientsAdvance
        BY <3>1, <3>2, RoutesType
      <3> QED
        BY <3>2, <3>3, CountKept DEF ClientsAdvance, TypeInv, TypeOK
    <2>3. CASE f.kind = "reply"
      <3>1. f \in [kind : {"reply"}, id : Ids, by : Clients]
        BY <1>1, <2>3 DEF FromAgent, Register, Paints, Closes
      <3>2. Resolves(k, f)
        BY <2>3 DEF HubReads
      <3> QED
        BY <3>1, <3>2, ResolvesType
    <2> QED
      BY <2>1, <2>2, <2>3 DEF HubReads
  <1> QED
    BY <1>1, <1>2, <1>3, AgentUntouched DEF ClientsAdvance, TypeInv, TypeOK

LEMMA HubRestartsType == ASSUME TypeInv, HubRestarts PROVE TypeInv'
  <1>1. /\ \A c \in Clients : client[c] \in Client
        /\ client' = [c \in Clients |-> IF client[c].pc = "idle" THEN client[c]
                       ELSE [client[c] EXCEPT !.pc = "over", !.sink = <<>>]]
    BY Types DEF HubRestarts
  <1>2. \A c \in Clients : /\ client'[c] \in Client
                           /\ client'[c].conn = client[c].conn
                           /\ \/ client[c].pc = "idle" /\ client'[c].pc = "idle"
                              \/ client[c].pc # "idle" /\ client'[c].pc = "over"
    <2> SUFFICES ASSUME NEW c \in Clients, client[c].pc # "idle"
                 PROVE  /\ client'[c] \in Client /\ client'[c].pc = "over"
                        /\ client'[c].conn = client[c].conn
      BY <1>1
    <2> DEFINE r == [client[c] EXCEPT !.pc = "over", !.sink = <<>>]
    <2>1. client'[c] = r
      BY <1>1
    <2>2. <<>> \in Seq(Paints \cup Closes)
      BY Queues
    <2>3. r \in Client /\ r.pc = "over" /\ r.conn = client[c].conn
      BY <1>1, <2>2 DEF Client, Label
    <2> HIDE DEF r
    <2> QED
      BY <2>1, <2>3
  <1>3. client' \in [Clients -> Client]
    BY <1>1, <1>2
  <1>4. ClientsPlaced' /\ \A j : Served(j) \subseteq Served(j)'
    BY <1>2 DEF TypeInv, ClientsPlaced, Served, Numbered, Early
  <1>5. /\ conn' \in [Conns -> Conn]
        /\ \A k \in Conns : conn'[k].nextCh = 0 /\ conn'[k].nextReq = 0
    BY RecordType DEF HubRestarts
  <1>6. Counted'
    BY <1>3, <1>4, <1>5, CountKept
  <1>7. /\ line' \in [Conns -> {"none", "up", "cut", "closed"}]
        /\ serve' \in [Conns -> {"none", "hello", "resolve", "register", "serve",
                                 "abort", "done"}]
        /\ toHub' \in [Conns -> Seq(FromAgent)]
        /\ entry' \in 0..MaxConns
    <2>1. toHub' \in [Conns -> Seq(FromAgent)]
      BY Queues DEF HubRestarts
    <2>2. entry' \in 0..MaxConns
      <3>1. entry' = 0
        BY DEF HubRestarts
      <3> QED
        BY <3>1, BoundAssumption
    <2> QED
      BY <2>1, <2>2 DEF HubRestarts, TypeInv, TypeOK
  <1>8. UNCHANGED <<running, agent, toAgent, ran>>
    BY DEF HubRestarts
  <1> QED
    BY <1>3, <1>4, <1>5, <1>6, <1>7, <1>8 DEF TypeInv, TypeOK, ChannelsPlaced

-----------------------------------------------------------------------------
(* The clients' steps.                                                     *)
HubKept == UNCHANGED <<toHub, serve, entry, ran>>

LEMMA OnlineIsConn == ASSUME TypeInv, Online PROVE entry \in Conns
  BY BoundAssumption DEF Online, TypeInv, TypeOK, Conns

LEMMA StepAdvances ==
  ASSUME TypeInv, NEW c \in Clients, NEW from, NEW to \in Label,
         Step(c, from, to), from # "idle", to # "idle",
         to \in Numbered => from \in Numbered, to \notin {"found", "attach"},
         from \in Early \/ to \notin Early
  PROVE  ClientsAdvance
  <1> DEFINE r == [client[c] EXCEPT !.pc = to]
  <1>1. client[c] \in Client
    BY Types
  <1>2. /\ r \in Client /\ r.pc = to /\ r.conn = client[c].conn
        /\ r.id = client[c].id
    BY <1>1 DEF Client
  <1>3. client' = [client EXCEPT ![c] = r] /\ client[c].pc = from
    BY DEF Step
  <1>4. client[c].conn \in Conns /\ (from \in Numbered => client[c].id \in Ids)
    BY <1>3 DEF TypeInv, ClientsPlaced
  <1> HIDE DEF r
  <1> QED
    BY <1>2, <1>3, <1>4, ClientMoves DEF ClientsAdvance

LEMMA FindsType ==
  ASSUME TypeInv, NEW c \in Clients,
         RequestFinds(c) \/ \E s \in Sessions : BrowserOpens(c, s)
  PROVE  TypeInv'
  <1>1. /\ entry \in Conns /\ entry \in 0..MaxConns
        /\ client[c].pc = "idle" /\ client[c] \in Client
    BY OnlineIsConn, Types DEF RequestFinds, BrowserOpens, TypeInv, TypeOK
  <1>2. ClientsAdvance
    <2>1. CASE RequestFinds(c)
      <3> DEFINE r == [client[c] EXCEPT !.pc = "ask", !.conn = entry]
      <3>1. r \in Client /\ r.pc = "ask" /\ r.conn = entry
        BY <1>1 DEF Client, Label
      <3>2. client' = [client EXCEPT ![c] = r]
        BY <2>1 DEF RequestFinds
      <3> HIDE DEF r
      <3> QED
        BY <1>1, <3>1, <3>2, ClientMoves DEF ClientsAdvance, Numbered
    <2>2. CASE \E s \in Sessions : BrowserOpens(c, s)
      <3>1. PICK s \in Sessions : BrowserOpens(c, s)
        BY <2>2
      <3> DEFINE r == [client[c] EXCEPT !.pc = "found", !.conn = entry, !.session = s]
      <3>2. r \in Client /\ r.pc = "found" /\ r.conn = entry /\ r.session \in Sessions
        BY <1>1 DEF Client, Label
      <3>3. client' = [client EXCEPT ![c] = r]
        BY <3>1 DEF BrowserOpens
      <3> HIDE DEF r
      <3> QED
        BY <1>1, <3>2, <3>3, ClientMoves DEF ClientsAdvance, Numbered
    <2> QED
      BY <2>1, <2>2
  <1>3. AgentKept /\ HubKept /\ UNCHANGED <<toAgent, conn>>
    BY DEF RequestFinds, BrowserOpens, net, hub, AgentKept, HubKept
  <1>4. Counted'
    BY <1>2, <1>3, CountKept DEF ClientsAdvance, TypeInv, TypeOK
  <1> QED
    BY <1>2, <1>3, <1>4, AgentUntouched DEF HubKept, ClientsAdvance, TypeInv, TypeOK

(* open_channel and the insert into pending: a new id.                     *)
LEMMA TakesIdType ==
  ASSUME TypeInv, NEW c \in Clients, BridgeOpens(c) \/ RequestAsks(c)
  PROVE  TypeInv'
  <1>0. PICK k \in Conns : k = client[c].conn
    BY DEF BridgeOpens, RequestAsks, TypeInv, ClientsPlaced
  <1>1. /\ client[c] \in Client /\ client[c].pc \in {"found", "ask"}
        /\ k = client[c].conn
        /\ client[c].pc = "found" => client[c].session \in Sessions
    BY <1>0, Types DEF BridgeOpens, RequestAsks, TypeInv, ClientsPlaced
  <1>2. conn[k] \in Conn
    BY <1>1, Types
  <1>3. AgentKept /\ HubKept /\ UNCHANGED toAgent
    BY DEF BridgeOpens, RequestAsks, net, AgentKept, HubKept
  <1>4. ASSUME NEW n \in {conn[k].nextCh + 1, conn[k].nextReq + 1},
               NEW l \in {"attach", "send"},
               l = "attach" => client[c].session \in Sessions,
               client' = [client EXCEPT ![c].pc = l, ![c].id = n],
               n \in Ids
        PROVE  ClientsAdvance /\ client'[c].conn = k /\ client'[c].pc \notin Early
    <2> DEFINE r == [client[c] EXCEPT !.pc = l, !.id = n]
    <2>1. /\ r \in Client /\ r.pc = l /\ r.conn = k /\ r.id = n
          /\ r.session = client[c].session
      BY <1>1, <1>4 DEF Client, Label
    <2>2. client' = [client EXCEPT ![c] = r] /\ client'[c] = r
      BY <1>4 DEF TypeInv, TypeOK
    <2>3. r.conn = client[c].conn /\ client[c].pc \in Early /\ r.pc \notin Early
      BY <1>1, <1>4, <2>1 DEF Early
    <2> HIDE DEF r
    <2>4. ClientsAdvance
      BY <1>4, <2>1, <2>2, <2>3, ClientMoves DEF ClientsAdvance
    <2> QED
      BY <2>1, <2>2, <2>3, <2>4
  <1>5. conn[k].nextCh + 1 \in Ids /\ conn[k].nextReq + 1 \in Ids
    BY <1>1, NextIds
  <1>6. /\ ClientsAdvance /\ client'[c].conn = k /\ client'[c].pc \notin Early
        /\ conn' \in [Conns -> Conn]
        /\ \A j \in Conns \ {k} : conn'[j] = conn[j]
        /\ conn'[k].nextCh \in {conn[k].nextCh, conn[k].nextCh + 1}
        /\ conn'[k].nextReq \in {conn[k].nextReq, conn[k].nextReq + 1}
    <2>0. conn \in [Conns -> Conn]
      BY DEF TypeInv, TypeOK
    <2>1. CASE BridgeOpens(c)
      <3> DEFINE n == conn[k].nextCh + 1
                 rec == [conn[k] EXCEPT !.nextCh = n, !.channels[n] = c]
      <3>1. /\ rec \in Conn /\ rec.nextCh = n /\ rec.nextReq = conn[k].nextReq
        BY <1>2, <1>5 DEF Conn
      <3>2. conn' = [conn EXCEPT ![k] = rec]
        BY <1>1, <1>2, <2>0, <2>1 DEF BridgeOpens
      <3>3. client' = [client EXCEPT ![c].pc = "attach", ![c].id = n] /\ client[c].pc = "found"
        BY <1>1, <2>1 DEF BridgeOpens
      <3>4. ClientsAdvance /\ client'[c].conn = k /\ client'[c].pc \notin Early
        BY <1>1, <1>4, <1>5, <3>3
      <3> HIDE DEF rec
      <3> QED
        BY <1>1, <2>0, <3>1, <3>2, <3>4
    <2>2. CASE RequestAsks(c)
      <3> DEFINE n == conn[k].nextReq + 1
                 rec == [conn[k] EXCEPT !.nextReq = n, !.pending[n] = c]
      <3>1. /\ rec \in Conn /\ rec.nextReq = n /\ rec.nextCh = conn[k].nextCh
        BY <1>2, <1>5 DEF Conn
      <3>2. conn' = [conn EXCEPT ![k] = rec]
        BY ZenonT(60), <1>1, <1>2, <2>0, <2>2 DEF RequestAsks
      <3>3. client' = [client EXCEPT ![c].pc = "send", ![c].id = n]
        BY <1>1, <2>2 DEF RequestAsks
      <3>4. ClientsAdvance /\ client'[c].conn = k /\ client'[c].pc \notin Early
        BY <1>1, <1>4, <1>5, <3>3
      <3> HIDE DEF rec
      <3> QED
        BY <1>1, <2>0, <3>1, <3>2, <3>4
    <2> QED
      BY <2>1, <2>2
  <1>7. Counted'
    <2> SUFFICES ASSUME NEW j \in Conns
                 PROVE /\ conn'[j].nextCh <= Cardinality(Served(j)')
                       /\ conn'[j].nextReq <= Cardinality(Served(j)')
      BY DEF Counted
    <2>1. Served(j) \subseteq Served(j)' /\ Served(j)' \subseteq Clients
      BY <1>6 DEF ClientsAdvance, Served
    <2>2. /\ IsFiniteSet(Served(j)') /\ Cardinality(Served(j)') \in Nat
          /\ IsFiniteSet(Served(j)) /\ Cardinality(Served(j)) \in Nat
          /\ Cardinality(Served(j)) <= Cardinality(Served(j)')
      BY <2>1, ClientAssumption, FS_Subset, FS_CardinalityType
    <2>3. /\ conn[j].nextCh <= Cardinality(Served(j))
          /\ conn[j].nextReq <= Cardinality(Served(j))
      BY DEF TypeInv, Counted
    <2>4. CASE j = k
      <3>1. Served(k) \cup {c} \subseteq Served(k)' /\ Served(k)' \subseteq Clients
        BY <1>6, <2>1, <2>4 DEF Served
      <3>2. /\ Cardinality(Served(k) \cup {c}) \in Nat /\ Cardinality(Served(k)') \in Nat
            /\ Cardinality(Served(k) \cup {c}) <= Cardinality(Served(k)')
        BY <3>1, Sizes
      <3>3. /\ conn[k].nextCh + 1 <= Cardinality(Served(k) \cup {c})
            /\ conn[k].nextReq + 1 <= Cardinality(Served(k) \cup {c})
        BY <1>1, NextIds
      <3>4. conn[k].nextCh \in Nat /\ conn[k].nextReq \in Nat
        BY <1>1, CountersAreNaturals
      <3>5. /\ conn'[k].nextCh <= Cardinality(Served(k)')
            /\ conn'[k].nextReq <= Cardinality(Served(k)')
        BY <1>6, <3>2, <3>3, <3>4
      <3> QED
        BY <2>4, <3>5
    <2>5. CASE j # k
      <3>1. conn'[j] = conn[j]
        BY <1>6, <2>5
      <3> QED
        BY <2>2, <2>3, <3>1, CountersAreNaturals
    <2> QED
      BY <2>4, <2>5
  <1> QED
    BY <1>3, <1>6, <1>7, AgentUntouched DEF HubKept, ClientsAdvance, TypeInv, TypeOK

(* The bridge's other steps, which leave the hub's record alone.           *)
LEMMA BridgeType ==
  ASSUME TypeInv, NEW c \in Clients,
         \/ BridgeAttaches(c) \/ BridgeShows(c) \/ BridgeIsDropped(c)
         \/ BrowserLeaves(c) \/ BridgeDetaches(c)
  PROVE  TypeInv'
  <1>0. PICK k \in Conns : k = client[c].conn
    BY DEF BridgeAttaches, BridgeShows, BridgeIsDropped, BrowserLeaves, BridgeDetaches,
       Step, TypeInv, ClientsPlaced
  <1>1. /\ client[c] \in Client
        /\ client[c].pc \in Numbered => client[c].id \in Ids
        /\ client[c].pc = "attach" => client[c].session \in Sessions
    BY Types DEF TypeInv, ClientsPlaced
  <1>2. AgentKept /\ HubKept /\ UNCHANGED conn
    BY DEF BridgeAttaches, BridgeShows, BridgeIsDropped, BrowserLeaves, BridgeDetaches,
       net, hub, AgentKept, HubKept
  <1>3. ASSUME NEW r \in Client, NEW l \in {"on", "detach", "close"}, r.pc = l,
               client[c].pc \in Numbered, r.conn = k, r.id = client[c].id,
               client' = [client EXCEPT ![c] = r]
        PROVE  ClientsAdvance
    <2>1. r.id \in Ids /\ r.pc \notin Early /\ r.pc \notin {"found", "attach"}
      BY <1>1, <1>3 DEF Early
    <2> QED
      BY <1>0, <1>3, <2>1, ClientMoves DEF ClientsAdvance, Early
  <1>4. ClientsAdvance /\ toAgent' \in [Conns -> Seq(FromHub)]
    <2>1. CASE BridgeAttaches(c)
      <3> DEFINE l == IF conn[k].writer THEN "on" ELSE "close"
                 r == [client[c] EXCEPT !.pc = l]
      <3>1. r \in Client /\ r.pc = l /\ r.conn = k /\ r.id = client[c].id
        BY <1>0, <1>1 DEF Client, Label
      <3>2. client' = [client EXCEPT ![c] = r] /\ client[c].pc = "attach"
        BY <1>0, <2>1 DEF BridgeAttaches
      <3>3. Attach(client[c].id, client[c].session) \in FromHub
        BY <1>1, <3>2 DEF Numbered, Attach, FromHub
      <3>4. toAgent' \in [Conns -> Seq(FromHub)]
        BY <1>0, <2>1, <3>3, SendType DEF BridgeAttaches, TypeInv, TypeOK
      <3> HIDE DEF r
      <3> QED
        BY <1>3, <3>1, <3>2, <3>4 DEF Numbered
    <2>2. CASE BridgeShows(c)
      <3>1. /\ client[c].sink \in Seq(Paints \cup Closes) /\ client[c].sink # <<>>
            /\ client[c].pc = "on"
        BY <1>1, <2>2 DEF BridgeShows, Client
      <3>2. Tail(client[c].sink) \in Seq(Paints \cup Closes) /\ <<>> \in Seq(Paints \cup Closes)
        BY <3>1, Queues
      <3>3. Seen(c, Head(client[c].sink)) \in {"nothing", "own", "foreign"}
        BY DEF Seen
      <3>4. CASE Head(client[c].sink).kind = "closed"
        <4> DEFINE r == [client[c] EXCEPT !.pc = "detach", !.sink = <<>>]
        <4>1. r \in Client /\ r.pc = "detach" /\ r.conn = k /\ r.id = client[c].id
          BY <1>0, <1>1, <3>2 DEF Client, Label
        <4>2. client' = [client EXCEPT ![c] = r]
          BY <2>2, <3>4 DEF BridgeShows
        <4> HIDE DEF r
        <4> QED
          BY <1>3, <2>2, <3>1, <4>1, <4>2 DEF BridgeShows, Numbered, net, TypeInv, TypeOK
      <3>5. CASE Head(client[c].sink).kind # "closed"
        <4> DEFINE r == [client[c] EXCEPT !.shown = Seen(c, Head(client[c].sink)),
                                          !.sink = Tail(client[c].sink)]
        <4>1. r \in Client /\ r.pc = "on" /\ r.conn = k /\ r.id = client[c].id
          BY <1>0, <1>1, <3>1, <3>2, <3>3 DEF Client
        <4>2. client' = [client EXCEPT ![c] = r]
          BY <2>2, <3>5 DEF BridgeShows
        <4> HIDE DEF r
        <4> QED
          BY <1>3, <2>2, <3>1, <4>1, <4>2 DEF BridgeShows, Numbered, net, TypeInv, TypeOK
      <3> QED
        BY <3>4, <3>5
    <2>3. CASE BridgeIsDropped(c) \/ BrowserLeaves(c)
      <3> DEFINE r == [client[c] EXCEPT !.pc = "detach", !.sink = <<>>]
      <3>1. r \in Client /\ r.pc = "detach" /\ r.conn = k /\ r.id = client[c].id
        BY <1>0, <1>1, Queues DEF Client, Label
      <3>2. client' = [client EXCEPT ![c] = r] /\ client[c].pc = "on"
        <4>1. CASE BrowserLeaves(c)
          BY <4>1 DEF BrowserLeaves
        <4>2. CASE BridgeIsDropped(c)
          <5>1. client[c].sink = <<>> /\ client[c].pc = "on"
            BY <4>2 DEF BridgeIsDropped
          <5>2. r = [client[c] EXCEPT !.pc = "detach"]
            BY <1>1, <5>1 DEF Client
          <5> QED
            BY <4>2, <5>1, <5>2 DEF BridgeIsDropped
        <4> QED
          BY <2>3, <4>1, <4>2
      <3> HIDE DEF r
      <3> QED
        BY <1>3, <2>3, <3>1, <3>2
           DEF BridgeIsDropped, BrowserLeaves, Numbered, net, TypeInv, TypeOK
    <2>4. CASE BridgeDetaches(c)
      <3>1. Step(c, "detach", "close") /\ client[c].pc = "detach"
        BY <2>4 DEF BridgeDetaches, Step
      <3>2. ClientsAdvance
        BY <3>1, StepAdvances DEF Label, Numbered, Early
      <3>3. Detach(client[c].id) \in FromHub
        BY <1>1, <3>1 DEF Numbered, Detach, FromHub
      <3>4. toAgent' \in [Conns -> Seq(FromHub)]
        BY <1>0, <2>4, <3>3, SendType DEF BridgeDetaches, TypeInv, TypeOK
      <3> QED
        BY <3>2, <3>4
    <2> QED
      BY <2>1, <2>2, <2>3, <2>4
  <1>5. Counted'
    BY <1>2, <1>4, CountKept DEF ClientsAdvance, TypeInv, TypeOK
  <1> QED
    BY <1>2, <1>4, <1>5, AgentUntouched DEF HubKept, ClientsAdvance, TypeInv, TypeOK

LEMMA BridgeClosesType ==
  ASSUME TypeInv, NEW c \in Clients, BridgeCloses(c)
  PROVE  TypeInv'
  <1>1. PICK k \in Conns : k = client[c].conn
    BY DEF BridgeCloses, Step, TypeInv, ClientsPlaced
  <1> DEFINE rec == [conn[k] EXCEPT !.channels[client[c].id] = None]
  <1>2. conn[k] \in Conn
    BY Types
  <1>3. rec \in Conn /\ rec.nextCh = conn[k].nextCh /\ rec.nextReq = conn[k].nextReq
    BY <1>2 DEF Conn
  <1>4. conn' = [conn EXCEPT ![k] = rec]
    BY <1>1 DEF BridgeCloses
  <1>5. ClientsAdvance
    BY StepAdvances DEF BridgeCloses, Label, Numbered, Early
  <1>6. AgentKept /\ HubKept /\ UNCHANGED toAgent
    BY DEF BridgeCloses, net, AgentKept, HubKept
  <1> HIDE DEF rec
  <1>7. conn' \in [Conns -> Conn] /\ Counted'
    BY <1>3, <1>4, <1>5, RecordChanges DEF ClientsAdvance
  <1> QED
    BY <1>5, <1>6, <1>7, AgentUntouched DEF HubKept, ClientsAdvance, TypeInv, TypeOK

LEMMA RequestType ==
  ASSUME TypeInv, NEW c \in Clients, RequestSends(c) \/ RequestGivesUp(c)
  PROVE  TypeInv'
  <1>1. PICK k \in Conns : k = client[c].conn
    BY DEF RequestSends, RequestGivesUp, TypeInv, ClientsPlaced
  <1> DEFINE rec == [conn[k] EXCEPT !.pending[client[c].id] = None]
  <1>2. conn[k] \in Conn /\ client[c] \in Client
    BY Types
  <1>3. rec \in Conn /\ rec.nextCh = conn[k].nextCh /\ rec.nextReq = conn[k].nextReq
    BY <1>2 DEF Conn
  <1>4. Withdrawn(c) = [conn EXCEPT ![k] = rec]
    BY <1>1 DEF Withdrawn
  <1>5. AgentKept /\ HubKept
    BY DEF RequestSends, RequestGivesUp, net, AgentKept, HubKept
  <1>6. client[c].id \in Ids /\ client[c].pc \in {"send", "waits"}
    BY DEF RequestSends, RequestGivesUp, TypeInv, ClientsPlaced, Numbered
  <1>7. ASSUME NEW r \in Client, r.pc \in {"waits", "over"}, r.conn = k,
               r.id = client[c].id, client' = [client EXCEPT ![c] = r]
        PROVE  ClientsAdvance
    BY <1>1, <1>6, <1>7, ClientMoves DEF ClientsAdvance, Early
  <1>8. /\ ClientsAdvance /\ toAgent' \in [Conns -> Seq(FromHub)]
        /\ conn' \in {conn, Withdrawn(c)}
    <2>1. CASE RequestGivesUp(c)
      <3> DEFINE r == [client[c] EXCEPT !.pc = "over", !.answer = "timeout"]
      <3>1. r \in Client /\ r.pc = "over" /\ r.conn = k /\ r.id = client[c].id
        BY <1>1, <1>2 DEF Client, Label
      <3>2. client' = [client EXCEPT ![c] = r]
        BY <2>1 DEF RequestGivesUp
      <3> HIDE DEF r
      <3> QED
        BY <1>7, <2>1, <3>1, <3>2 DEF RequestGivesUp, net, TypeInv, TypeOK
    <2>2. CASE RequestSends(c) /\ conn[k].writer
      <3> DEFINE r == [client[c] EXCEPT !.pc = "waits"]
      <3>1. r \in Client /\ r.pc = "waits" /\ r.conn = k /\ r.id = client[c].id
        BY <1>1, <1>2 DEF Client, Label
      <3>2. /\ client' = [client EXCEPT ![c] = r] /\ UNCHANGED conn
            /\ Send(k, Command(client[c].id, c))
        BY <1>1, <2>2 DEF RequestSends
      <3>3. Command(client[c].id, c) \in FromHub
        BY <1>6 DEF Command, FromHub
      <3> HIDE DEF r
      <3> QED
        BY <1>7, <3>1, <3>2, <3>3, SendType
    <2>3. CASE RequestSends(c) /\ ~conn[k].writer
      <3> DEFINE r == [client[c] EXCEPT !.pc = "over", !.answer = "offline"]
      <3>1. r \in Client /\ r.pc = "over" /\ r.conn = k /\ r.id = client[c].id
        BY <1>1, <1>2 DEF Client, Label
      <3>2. /\ client' = [client EXCEPT ![c] = r] /\ UNCHANGED toAgent
            /\ conn' = Withdrawn(c)
        BY <1>1, <2>3 DEF RequestSends
      <3> HIDE DEF r
      <3> QED
        BY <1>7, <3>1, <3>2 DEF TypeInv, TypeOK
    <2> QED
      BY <2>1, <2>2, <2>3
  <1> HIDE DEF rec
  <1>9. conn' \in [Conns -> Conn] /\ Counted'
    <2>1. CASE conn' = Withdrawn(c)
      BY <1>3, <1>4, <1>8, <2>1, RecordChanges DEF ClientsAdvance
    <2>2. CASE conn' = conn
      BY <1>8, <2>2, CountKept DEF ClientsAdvance, TypeInv, TypeOK
    <2> QED
      BY <1>8, <2>1, <2>2
  <1> QED
    BY <1>5, <1>8, <1>9, AgentUntouched DEF HubKept, ClientsAdvance, TypeInv, TypeOK

-----------------------------------------------------------------------------
LEMMA NextType == TypeInv /\ [Next]_vars => TypeInv'
  <1> SUFFICES ASSUME TypeInv, [Next]_vars PROVE TypeInv'
    OBVIOUS
  <1>1. CASE AgentPolls \/ AgentReads \/ AgentNotices
    BY <1>1, AgentPollsType, AgentReadsType, AgentNoticesType
  <1>2. ASSUME NEW k \in Conns,
               AgentDials(k) \/ HubStep(k) \/ WriterFails(k) \/ LineCut(k)
        PROVE  TypeInv'
    BY <1>2, AgentDialsType, HubWaitsType, HubRegistersType, HubReadsType, HubEndsType,
       LineCutType DEF HubStep
  <1>3. CASE \E i \in Ids : ChannelStep(i)
    BY <1>3, ChannelStepType
  <1>4. CASE \E S \in SUBSET Sessions : SessionsChange(S)
    BY <1>4, SessionsChangeType
  <1>5. CASE \E how \in {"cut", "closed"} : AgentStops(how)
    BY <1>5, AgentStopsType
  <1>6. CASE HubRestarts
    BY <1>6, HubRestartsType
  <1>7. ASSUME NEW c \in Clients,
               \/ ClientStep(c) \/ BrowserLeaves(c) \/ RequestFinds(c)
               \/ \E s \in Sessions : BrowserOpens(c, s)
        PROVE  TypeInv'
    BY <1>7, FindsType, TakesIdType, BridgeType, BridgeClosesType, RequestType
       DEF ClientStep
  <1>8. CASE UNCHANGED vars
    BY <1>8, ClientsUntouched DEF vars, net, hub, TypeInv, TypeOK, ChannelsPlaced
  <1> QED
    BY <1>1, <1>2, <1>3, <1>4, <1>5, <1>6, <1>7, <1>8 DEF Next

(* Every variable keeps its type, for any number of clients, connections   *)
(* and frames. That is about more than shapes: an id a connection gives    *)
(* out is at most the number of clients, so the counters of open_channel   *)
(* and request_within (registry.rs 393-397, 427-430) advance once for each *)
(* client and never otherwise.                                             *)
THEOREM TypeSafe == Spec => []TypeOK
  <1>1. Init => TypeInv
    BY InitType
  <1>2. TypeInv /\ [Next]_vars => TypeInv'
    BY NextType
  <1>3. TypeInv => TypeOK
    BY DEF TypeInv
  <1> QED
    BY <1>1, <1>2, <1>3, PTL DEF Spec

-----------------------------------------------------------------------------
(***************************************************************************)
(* A reply reaches the request it answers: proved for every number of      *)
(* clients and connections and for queues of any length.                   *)
(***************************************************************************)

(* Where a client stands says whether it is a bridge or a request: a       *)
(* bridge has a session, and a request an id once it has asked.            *)
Role(r) ==
  /\ r.pc \in {"idle", "ask"} => r.session = None /\ r.id = 0
  /\ r.pc \in {"found", "attach", "on", "detach", "close"} => r.session # None
  /\ r.pc \in {"send", "waits"} => r.session = None
Roles == \A c \in Clients : Role(client[c])

Asks(c) == client[c].session = None /\ client[c].id # 0

(* Records that clients hold have been registered.                         *)
Registered == {"serve", "abort", "done"}
OnRegistered ==
  /\ entry # 0 => serve[entry] \in Registered
  /\ \A c \in Clients : client[c].pc # "idle" => serve[client[c].conn] \in Registered

Undialled == \A k \in Conns : line[k] = "none" => serve[k] = "none"

(* No two requests of a connection have one id, and an id a connection may *)
(* still give out is new.                                                  *)
IdsApart ==
  \A c, d \in Clients :
    Asks(c) /\ Asks(d) /\ client[c].conn = client[d].conn /\ client[c].id = client[d].id
      => c = d
Reachable(k) ==
  \/ entry = k
  \/ \E d \in Clients : client[d].pc = "ask" /\ client[d].conn = k
IdsSpent ==
  \A c \in Clients : Asks(c) /\ Reachable(client[c].conn) =>
    client[c].id <= conn[client[c].conn].nextReq

(* What is pending, asked for and answered belongs to the client it names. *)
PendingOwn ==
  \A k \in Conns : \A q \in Ids : \A c \in Clients :
    conn[k].pending[q] = c => Asks(c) /\ client[c].conn = k /\ client[c].id = q
Waited(k, q, c) ==
  /\ c \in Clients /\ Asks(c) /\ client[c].pc \in {"waits", "over"}
  /\ client[c].conn = k /\ client[c].id = q
IsCommand(k, i) == toAgent[k][i].kind = "command"
CommandsOwn ==
  \A k \in Conns : \A i \in 1..Len(toAgent[k]) : IsCommand(k, i) =>
    /\ Waited(k, toAgent[k][i].id, toAgent[k][i].by)
    /\ ran[toAgent[k][i].by] = 0
    /\ \A j \in 1..Len(toAgent[k]) :
         IsCommand(k, j) /\ toAgent[k][j].by = toAgent[k][i].by => j = i
RepliesOwn ==
  \A k \in Conns : \A i \in 1..Len(toHub[k]) : toHub[k][i].kind = "reply" =>
    /\ Waited(k, toHub[k][i].id, toHub[k][i].by)
    /\ ran[toHub[k][i].by] = 1
NotYetRun ==
  \A c \in Clients : client[c].pc \notin {"waits", "over"} => ran[c] = 0

ClientInv == /\ Roles /\ OnRegistered /\ Undialled /\ IdsApart
             /\ IdsSpent /\ PendingOwn /\ NotYetRun
ReplyInv == ClientInv /\ CommandsOwn /\ RepliesOwn /\ ReplyIsOwn

-----------------------------------------------------------------------------
LEMMA InitReplies == Init => ReplyInv
  <1> SUFFICES ASSUME Init PROVE ReplyInv
    OBVIOUS
  <1>1. \A c \in Clients : /\ client[c].pc = "idle" /\ client[c].session = None
                           /\ client[c].id = 0 /\ client[c].answer = "none"
    BY DEF Init, NewClient
  <1>2. \A k \in Conns : toHub[k] = <<>> /\ toAgent[k] = <<>> /\ conn[k] = NoConn
    BY DEF Init
  <1>3. \A k \in Conns : \A q \in Ids : conn[k].pending[q] = None
    <2>1. NoConn.pending = NoOne
      BY DEF NoConn, NewConn
    <2> QED
      BY <1>2, <2>1 DEF NoOne
  <1>4. /\ Roles /\ OnRegistered /\ Undialled /\ IdsApart /\ IdsSpent /\ NotYetRun
        /\ ReplyIsOwn
    BY <1>1 DEF Init, Roles, Role, OnRegistered, Undialled, IdsApart, IdsSpent, Asks, NotYetRun,
       ReplyIsOwn
  <1>5. PendingOwn
    BY <1>3, NoneAssumption DEF PendingOwn
  <1>6. CommandsOwn /\ RepliesOwn
    BY <1>2 DEF CommandsOwn, RepliesOwn
  <1> QED
    BY <1>4, <1>5, <1>6 DEF ReplyInv, ClientInv

(* How a queue changes in a step that puts no frame of kind K into it.     *)
Evolves(q, n, K, F) ==
  \/ n = q
  \/ n = <<>>
  \/ q # <<>> /\ n = Tail(q)
  \/ \E f \in F : f.kind # K /\ n \in {Append(q, f), <<f>>}

(* Then the frames of kind K are those that were in it, one place further  *)
(* ahead or where they were.                                               *)
LEMMA EvolvedFrames ==
  ASSUME NEW F, NEW K, NEW q \in Seq(F), NEW n, Evolves(q, n, K, F)
  PROVE  \E d \in {0, 1} : \A i \in 1..Len(n) :
           n[i].kind = K => i + d \in 1..Len(q) /\ n[i] = q[i + d]
  <1>1. CASE n = q
    BY <1>1
  <1>2. CASE n = <<>>
    BY <1>2
  <1>3. CASE q # <<>> /\ n = Tail(q)
    <2>1. \A i \in 1..Len(n) : i + 1 \in 1..Len(q) /\ n[i] = q[i + 1]
      BY <1>3
    <2> QED
      BY <2>1
  <1>4. ASSUME NEW f \in F, f.kind # K, n = Append(q, f)
        PROVE  \A i \in 1..Len(n) : n[i].kind = K => i + 0 \in 1..Len(q) /\ n[i] = q[i + 0]
    BY <1>4
  <1>5. ASSUME NEW f \in F, f.kind # K, n = <<f>>
        PROVE  \A i \in 1..Len(n) : n[i].kind # K
    BY <1>5
  <1> QED
    BY <1>1, <1>2, <1>3, <1>4, <1>5 DEF Evolves

LEMMA TailFrames ==
  ASSUME NEW F, NEW q \in Seq(F), q # <<>>
  PROVE  \A i \in 1..Len(Tail(q)) : i + 1 \in 1..Len(q) /\ Tail(q)[i] = q[i + 1]
  OBVIOUS

LEMMA AppendFrames ==
  ASSUME NEW F, NEW q \in Seq(F), NEW f
  PROVE  \A i \in 1..Len(Append(q, f)) :
           \/ i \in 1..Len(q) /\ Append(q, f)[i] = q[i]
           \/ i = Len(q) + 1 /\ Append(q, f)[i] = f
  OBVIOUS

(* A step that asks and answers nothing.                                   *)
Quiet(c) ==
  /\ Role(client[c])'
  /\ \/ client'[c] = client[c]
     \/ /\ client[c].pc = "idle" /\ client'[c].pc \in {"found", "ask"}
        /\ client'[c].conn = entry /\ entry # 0
     \/ /\ client[c].pc # "idle" /\ client'[c].pc # "idle"
        /\ client'[c].conn = client[c].conn /\ client'[c].session = client[c].session
  /\ client'[c].id = client[c].id \/ client'[c].session # None
  /\ client[c].pc \in {"waits", "over"} => client'[c].pc \in {"waits", "over"}
  /\ client'[c].pc = "ask" => client[c].pc \in {"idle", "ask"}

LEMMA QuietAsks ==
  ASSUME ReplyInv, NEW c \in Clients, Quiet(c)
  PROVE  /\ Asks(c)' <=> Asks(c)
         /\ Asks(c) => /\ client[c].pc # "idle" /\ client'[c].conn = client[c].conn
                       /\ client'[c].id = client[c].id
  BY DEF ReplyInv, ClientInv, Roles, Role, Quiet, Asks

LEMMA QuietReachable ==
  ASSUME \A c \in Clients : Quiet(c), NEW k, Reachable(k)', entry' # k
  PROVE  Reachable(k)
  BY DEF Reachable, Quiet

(* What such a step leaves of the records: ids only start anew on a        *)
(* connection nobody holds, and nothing new is pending.                    *)
QuietRecords ==
  /\ \A k \in Conns :
       /\ serve[k] \in Registered => serve'[k] \in Registered
       /\ line'[k] = "none" => line[k] = "none" /\ (serve[k] = "none" => serve'[k] = "none")
       /\ \/ conn'[k].nextReq = conn[k].nextReq
          \/ ~Reachable(k)'
          \/ serve[k] \notin Registered
       /\ \A q \in Ids : conn'[k].pending[q] \in {None, conn[k].pending[q]}
  /\ \/ entry' \in {0, entry}
     \/ serve[entry'] \notin Registered /\ serve'[entry'] \in Registered

LEMMA QuietKeeps ==
  ASSUME TypeInv, TypeInv', ReplyInv, \A c \in Clients : Quiet(c), QuietRecords,
         UNCHANGED ran
  PROVE  /\ ClientInv'
         /\ \A k, q, c : Waited(k, q, c) => Waited(k, q, c)'
  <1>1. \A c \in Clients : /\ Asks(c)' <=> Asks(c)
                           /\ Asks(c) => /\ client[c].pc # "idle"
                                         /\ client'[c].conn = client[c].conn
                                         /\ client'[c].id = client[c].id
    BY QuietAsks
  <1>2. Roles'
    BY DEF Quiet, Roles
  <1>3. OnRegistered'
    <2>1. entry \in 0..MaxConns /\ \A c \in Clients : client[c].pc # "idle" => client[c].conn \in Conns
      BY DEF TypeInv, TypeOK, ClientsPlaced
    <2>2. entry # 0 => entry \in Conns
      BY <2>1, BoundAssumption DEF Conns
    <2>3. OnRegistered
      BY DEF ReplyInv, ClientInv
    <2>4. entry' # 0 => serve'[entry'] \in Registered
      BY <2>2, <2>3 DEF OnRegistered, QuietRecords
    <2>5. ASSUME NEW c \in Clients, client'[c].pc # "idle"
          PROVE  serve'[client'[c].conn] \in Registered
      BY <2>1, <2>2, <2>3, <2>5 DEF OnRegistered, Quiet, QuietRecords
    <2> QED
      BY <2>4, <2>5 DEF OnRegistered
  <1>4. IdsApart'
    BY <1>1 DEF IdsApart, ReplyInv, ClientInv
  <1>5. IdsSpent'
    <2> SUFFICES ASSUME NEW c \in Clients, Asks(c)', Reachable(client[c].conn)'
                 PROVE  client'[c].id <= conn'[client'[c].conn].nextReq
      BY DEF IdsSpent
    <2>1. Asks(c) /\ client[c].pc # "idle" /\ client'[c].id = client[c].id
      BY <1>1
    <2>2. PICK k \in Conns : k = client[c].conn
      BY <2>1 DEF TypeInv, ClientsPlaced
    <2>3. client'[c].conn = k /\ Reachable(k)'
      BY <1>1, <2>1, <2>2 DEF Reachable
    <2>4. serve[k] \in Registered
      BY <2>1, <2>2 DEF ReplyInv, ClientInv, OnRegistered
    <2>5. conn'[k].nextReq = conn[k].nextReq
      BY <2>3, <2>4 DEF QuietRecords
    <2>6. Reachable(k)
      <3>1. CASE entry' = k
        <4>1. entry = k
          BY <2>4, <3>1 DEF Conns, QuietRecords
        <4> QED
          BY <4>1 DEF Reachable
      <3>2. CASE entry' # k
        BY <2>3, <3>2, QuietReachable
      <3> QED
        BY <3>1, <3>2
    <2>7. client[c].id <= conn[k].nextReq
      BY <2>1, <2>2, <2>6 DEF ReplyInv, ClientInv, IdsSpent
    <2> QED
      BY <2>1, <2>3, <2>5, <2>7
  <1>6. PendingOwn'
    <2> SUFFICES ASSUME NEW k \in Conns, NEW q \in Ids, NEW c \in Clients,
                        conn'[k].pending[q] = c
                 PROVE  Asks(c)' /\ client'[c].conn = k /\ client'[c].id = q
      BY DEF PendingOwn
    <2>1. conn[k].pending[q] = c
      BY NoneAssumption DEF QuietRecords
    <2>2. Asks(c) /\ client[c].conn = k /\ client[c].id = q
      BY <2>1 DEF ReplyInv, ClientInv, PendingOwn
    <2> QED
      BY <1>1, <2>2
  <1>7. NotYetRun'
    BY DEF NotYetRun, ReplyInv, ClientInv, Quiet
  <1>8. \A k, q, c : Waited(k, q, c) => Waited(k, q, c)'
    BY <1>1 DEF Waited, Quiet
  <1>9. Undialled'
    BY DEF Undialled, QuietRecords, ReplyInv, ClientInv
  <1> QED
    BY <1>2, <1>3, <1>4, <1>5, <1>6, <1>7, <1>8, <1>9 DEF ClientInv

(* Frames that are not added to stay as they should be while the clients   *)
(* they name do.                                                           *)
LEMMA CommandsKept ==
  ASSUME TypeInv, CommandsOwn, UNCHANGED ran,
         \A k, q, c : Waited(k, q, c) => Waited(k, q, c)',
         \A k \in Conns : Evolves(toAgent[k], toAgent'[k], "command", FromHub)
  PROVE  CommandsOwn'
  <1> SUFFICES ASSUME NEW k \in Conns, NEW i \in 1..Len(toAgent'[k]), IsCommand(k, i)'
               PROVE  /\ Waited(k, toAgent[k][i].id, toAgent[k][i].by)'
                      /\ ran'[toAgent'[k][i].by] = 0
                      /\ \A j \in 1..Len(toAgent'[k]) :
                           IsCommand(k, j)' /\ toAgent'[k][j].by = toAgent'[k][i].by => j = i
    BY DEF CommandsOwn
  <1>1. toAgent[k] \in Seq(FromHub) /\ Len(toAgent[k]) \in Nat
    BY Types
  <1>2. PICK d \in {0, 1} : \A j \in 1..Len(toAgent'[k]) :
          IsCommand(k, j)' => j + d \in 1..Len(toAgent[k]) /\ toAgent'[k][j] = toAgent[k][j + d]
    <2>1. Evolves(toAgent[k], toAgent'[k], "command", FromHub)
      OBVIOUS
    <2>2. \E d \in {0, 1} : \A j \in 1..Len(toAgent'[k]) : toAgent'[k][j].kind = "command" =>
            j + d \in 1..Len(toAgent[k]) /\ toAgent'[k][j] = toAgent[k][j + d]
      BY SMTT(30), <1>1, <2>1, EvolvedFrames
    <2> QED
      BY <2>2 DEF IsCommand
  <1>3. PICK m \in 1..Len(toAgent[k]) : m = i + d /\ toAgent'[k][i] = toAgent[k][m]
    BY <1>2
  <1>4. IsCommand(k, m)
    BY <1>3 DEF IsCommand
  <1>5. PICK q, c : q = toAgent[k][m].id /\ c = toAgent[k][m].by
    OBVIOUS
  <1>6. Waited(k, q, c) /\ ran[c] = 0
    BY <1>4, <1>5 DEF CommandsOwn
  <1>7. Waited(k, q, c)' /\ ran'[c] = 0
    BY <1>6
  <1>8. ASSUME NEW j \in 1..Len(toAgent'[k]), IsCommand(k, j)',
               toAgent'[k][j].by = toAgent'[k][i].by
        PROVE  j = i
    <2>1. PICK n \in 1..Len(toAgent[k]) : n = j + d /\ toAgent'[k][j] = toAgent[k][n]
      BY <1>2, <1>8
    <2>2. IsCommand(k, n) /\ toAgent[k][n].by = toAgent[k][m].by
      BY <1>3, <1>8, <2>1 DEF IsCommand
    <2>3. n = m
      BY <1>4, <2>2 DEF CommandsOwn
    <2> QED
      BY <1>3, <2>1, <2>3
  <1> QED
    BY <1>3, <1>5, <1>7, <1>8 DEF Waited

LEMMA RepliesKept ==
  ASSUME TypeInv, RepliesOwn, UNCHANGED ran,
         \A k, q, c : Waited(k, q, c) => Waited(k, q, c)',
         \A k \in Conns : Evolves(toHub[k], toHub'[k], "reply", FromAgent)
  PROVE  RepliesOwn'
  <1> SUFFICES ASSUME NEW k \in Conns, NEW i \in 1..Len(toHub'[k]),
                      toHub'[k][i].kind = "reply"
               PROVE  /\ Waited(k, toHub[k][i].id, toHub[k][i].by)'
                      /\ ran'[toHub'[k][i].by] = 1
    BY DEF RepliesOwn
  <1>1. toHub[k] \in Seq(FromAgent) /\ Len(toHub[k]) \in Nat
    BY Types
  <1>2. PICK m \in 1..Len(toHub[k]) : toHub'[k][i] = toHub[k][m]
    BY <1>1, EvolvedFrames
  <1>3. PICK q, c : q = toHub[k][m].id /\ c = toHub[k][m].by
    OBVIOUS
  <1>4. Waited(k, q, c) /\ ran[c] = 1
    BY <1>2, <1>3 DEF RepliesOwn
  <1>5. Waited(k, q, c)' /\ ran'[c] = 1
    BY <1>4
  <1> QED
    BY <1>2, <1>3, <1>5 DEF Waited

(* In a quiet step no command and no reply is put into a queue, and no     *)
(* request is answered.                                                    *)
QuietFrames ==
  \A k \in Conns : /\ Evolves(toAgent[k], toAgent'[k], "command", FromHub)
                   /\ Evolves(toHub[k], toHub'[k], "reply", FromAgent)
QuietAnswers ==
  \A c \in Clients : client'[c].answer = "ok" =>
    client[c].answer = "ok" /\ client'[c].by = client[c].by

LEMMA QuietStep ==
  ASSUME TypeInv, TypeInv', ReplyInv, \A c \in Clients : Quiet(c), QuietRecords,
         QuietFrames, QuietAnswers, UNCHANGED ran
  PROVE  ReplyInv'
  <1>1. /\ ClientInv'
        /\ \A k, q, c : Waited(k, q, c) => Waited(k, q, c)'
    BY QuietKeeps
  <1>2. CommandsOwn' /\ RepliesOwn'
    BY <1>1, CommandsKept, RepliesKept DEF ReplyInv, QuietFrames
  <1>3. ReplyIsOwn'
    BY DEF ReplyIsOwn, ReplyInv, QuietAnswers
  <1> QED
    BY <1>1, <1>2, <1>3 DEF ReplyInv

(* The parts of a step that do not change are quiet.                       *)
LEMMA ClientsSame ==
  ASSUME ReplyInv, UNCHANGED client
  PROVE  QuietAnswers /\ \A c \in Clients : Quiet(c)
  BY DEF ReplyInv, ClientInv, Roles, Role, Quiet, QuietAnswers

LEMMA RecordsSame ==
  ASSUME UNCHANGED <<serve, conn, entry>>,
         \A k \in Conns : line'[k] = "none" => line[k] = "none"
  PROVE  QuietRecords
  BY DEF QuietRecords

LEMMA FramesSame == ASSUME UNCHANGED <<toHub, toAgent>> PROVE QuietFrames
  BY DEF QuietFrames, Evolves

LEMMA EmitsQuietly ==
  ASSUME TypeInv, NEW k, NEW f \in FromAgent, f.kind # "reply", Emit(k, f)
  PROVE  \A j \in Conns : Evolves(toHub[j], toHub'[j], "reply", FromAgent)
  <1>1. toHub \in [Conns -> Seq(FromAgent)]
    BY DEF TypeInv, TypeOK
  <1>2. \A j \in Conns : toHub'[j] = toHub[j] \/ toHub'[j] = Append(toHub[j], f)
    BY <1>1 DEF Emit
  <1> QED
    BY <1>2 DEF Evolves

LEMMA SendsQuietly ==
  ASSUME TypeInv, NEW k, NEW f \in FromHub, f.kind # "command", Send(k, f)
  PROVE  \A j \in Conns : Evolves(toAgent[j], toAgent'[j], "command", FromHub)
  <1>1. toAgent \in [Conns -> Seq(FromHub)]
    BY DEF TypeInv, TypeOK
  <1>2. \A j \in Conns : toAgent'[j] = toAgent[j] \/ toAgent'[j] = Append(toAgent[j], f)
    BY <1>1 DEF Send
  <1> QED
    BY <1>2 DEF Evolves

-----------------------------------------------------------------------------
(* The agent's steps: all but a command are quiet.                         *)
LEMMA AgentQuiet ==
  ASSUME TypeInv, TypeInv', ReplyInv,
         \/ AgentPolls \/ AgentNotices
         \/ \E k \in Conns : AgentDials(k) \/ LineCut(k)
         \/ \E i \in Ids : ChannelStep(i)
         \/ \E S \in SUBSET Sessions : SessionsChange(S)
         \/ \E how \in {"cut", "closed"} : AgentStops(how)
  PROVE  ReplyInv'
  <1>1. CASE AgentPolls
    <2>1. Listing(running) \in FromAgent /\ Listing(running).kind # "reply"
      BY DEF TypeInv, TypeOK, Listing, FromAgent
    <2>2. QuietFrames
      BY <1>1, <2>1, EmitsQuietly DEF AgentPolls, QuietFrames, Evolves
    <2> QED
      BY <1>1, <2>2, ClientsSame, RecordsSame, QuietStep DEF AgentPolls, hub
  <1>2. CASE AgentNotices
    <2>1. QuietFrames
      BY <1>2 DEF AgentNotices, TypeInv, TypeOK, QuietFrames, Evolves
    <2> QED
      BY <1>2, <2>1, ClientsSame, RecordsSame, QuietStep DEF AgentNotices, hub
  <1>3. ASSUME NEW k \in Conns, AgentDials(k) PROVE ReplyInv'
    <2>1. /\ toHub' = [toHub EXCEPT ![k] = <<Register>>] /\ UNCHANGED toAgent
          /\ line' = [line EXCEPT ![k] = "up"] /\ serve' = [serve EXCEPT ![k] = "hello"]
          /\ line[k] = "none" /\ UNCHANGED <<conn, entry, client, ran>>
      BY <1>3 DEF AgentDials, NextToDial
    <2>2. serve[k] = "none"
      BY <2>1 DEF ReplyInv, ClientInv, Undialled
    <2>3. Register \in FromAgent /\ Register.kind # "reply"
      BY DEF Register, FromAgent
    <2>4. QuietFrames
      BY <2>1, <2>3 DEF TypeInv, TypeOK, QuietFrames, Evolves
    <2>5. QuietRecords
      BY <2>1, <2>2 DEF TypeInv, TypeOK, QuietRecords, Registered
    <2> QED
      BY <2>1, <2>4, <2>5, ClientsSame, QuietStep
  <1>4. ASSUME NEW k \in Conns, LineCut(k) PROVE ReplyInv'
    <2>1. QuietFrames
      BY <1>4 DEF LineCut, Lost, TypeInv, TypeOK, QuietFrames, Evolves
    <2>2. \A j \in Conns : line'[j] = "none" => line[j] = "none"
      BY <1>4 DEF LineCut, Lost, TypeInv, TypeOK
    <2> QED
      BY <1>4, <2>1, <2>2, ClientsSame, RecordsSame, QuietStep DEF LineCut, hub
  <1>5. ASSUME NEW i \in Ids, ChannelStep(i) PROVE ReplyInv'
    <2>1. UNCHANGED <<line, toAgent, serve, conn, entry, client, ran>>
      BY <1>5 DEF ChannelStep, ChannelPaints, ChannelCloses, ChannelEnds, hub, net
    <2>2. \A j \in Conns : Evolves(toHub[j], toHub'[j], "reply", FromAgent)
      <3> DEFINE t == agent.term[i]
      <3>1. CASE ChannelPaints(i)
        <4> DEFINE f == Paint(IF t.fresh THEN "snapshot" ELSE "output", i, t.session)
        <4>1. t.at \in {"serves", "late"}
          BY <3>1 DEF ChannelPaints
        <4>2. t.session \in Sessions
          BY <4>1 DEF TypeInv, ChannelsPlaced
        <4>3. f \in FromAgent /\ f.kind # "reply"
          BY <4>2 DEF Paint, FromAgent, Paints
        <4>4. Emit(agent.conn, f)
          BY <3>1 DEF ChannelPaints
        <4> QED
          BY <4>3, <4>4, EmitsQuietly
      <3>2. CASE ChannelCloses(i)
        <4>1. Closed(i) \in FromAgent /\ Closed(i).kind # "reply"
          BY DEF Closed, FromAgent, Closes
        <4> QED
          BY <3>2, <4>1, EmitsQuietly DEF ChannelCloses
      <3>3. CASE ChannelEnds(i)
        BY <3>3 DEF ChannelEnds, net, Evolves
      <3> QED
        BY <1>5, <3>1, <3>2, <3>3 DEF ChannelStep
    <2>3. QuietFrames
      BY <2>1, <2>2 DEF QuietFrames, Evolves
    <2> QED
      BY <2>1, <2>3, ClientsSame, RecordsSame, QuietStep
  <1>6. ASSUME NEW S \in SUBSET Sessions, SessionsChange(S) PROVE ReplyInv'
    BY <1>6, ClientsSame, RecordsSame, FramesSame, QuietStep DEF SessionsChange, net, hub
  <1>7. ASSUME NEW how \in {"cut", "closed"}, AgentStops(how) PROVE ReplyInv'
    <2>1. QuietFrames
      BY <1>7 DEF AgentStops, Lost, TypeInv, TypeOK, QuietFrames, Evolves
    <2>2. \A j \in Conns : line'[j] = "none" => line[j] = "none"
      BY <1>7 DEF AgentStops, Lost, TypeInv, TypeOK
    <2> QED
      BY <1>7, <2>1, <2>2, ClientsSame, RecordsSame, QuietStep DEF AgentStops, hub
  <1> QED
    BY <1>1, <1>2, <1>3, <1>4, <1>5, <1>6, <1>7

(* A command is read, run and answered in one step.                        *)
LEMMA CommandRuns ==
  ASSUME TypeInv, TypeInv', ReplyInv, NEW k \in Conns, NEW f, f = Head(toAgent[k]),
         toAgent[k] # <<>>, f.kind = "command",
         toAgent' = [toAgent EXCEPT ![k] = Tail(@)],
         Emit(k, Reply(f.id, f.by)), ran' = [ran EXCEPT ![f.by] = @ + 1],
         UNCHANGED <<line, serve, conn, entry, client>>
  PROVE  ReplyInv'
  <1> DEFINE b == f.by
  <1>1. /\ toAgent[k] \in Seq(FromHub) /\ Len(toAgent[k]) \in Nat
        /\ 1 \in 1..Len(toAgent[k]) /\ f = toAgent[k][1]
    BY Types
  <1>2. Waited(k, f.id, b) /\ ran[b] = 0
    BY <1>1 DEF ReplyInv, CommandsOwn, IsCommand
  <1>3. b \in Clients /\ client[b].pc \in {"waits", "over"}
    BY <1>2 DEF Waited
  <1>4. ran'[b] = 1 /\ \A c \in Clients \ {b} : ran'[c] = ran[c]
    BY <1>2, <1>3 DEF TypeInv, TypeOK
  <1>5. \A j, q, c : Waited(j, q, c)' <=> Waited(j, q, c)
    BY DEF Waited, Asks
  <1>6. ClientInv'
    <2>1. /\ Roles' /\ OnRegistered' /\ Undialled' /\ IdsApart' /\ IdsSpent' /\ PendingOwn'
      BY DEF ReplyInv, ClientInv, Roles, Role, OnRegistered, Undialled, IdsApart, IdsSpent,
         PendingOwn, Asks, Reachable
    <2>2. NotYetRun'
      BY <1>3, <1>4 DEF ReplyInv, ClientInv, NotYetRun
    <2> QED
      BY <2>1, <2>2 DEF ClientInv
  <1>7. CommandsOwn'
    <2> SUFFICES ASSUME NEW j \in Conns, NEW i \in 1..Len(toAgent'[j]), IsCommand(j, i)'
                 PROVE  /\ Waited(j, toAgent[j][i].id, toAgent[j][i].by)'
                        /\ ran'[toAgent'[j][i].by] = 0
                        /\ \A m \in 1..Len(toAgent'[j]) :
                             IsCommand(j, m)' /\ toAgent'[j][m].by = toAgent'[j][i].by => m = i
      BY DEF CommandsOwn
    <2>1. CASE j # k
      <3>1. toAgent'[j] = toAgent[j]
        BY <2>1
      <3>2. IsCommand(j, i)
        BY <3>1 DEF IsCommand
      <3>3. /\ Waited(j, toAgent[j][i].id, toAgent[j][i].by) /\ ran[toAgent[j][i].by] = 0
            /\ \A m \in 1..Len(toAgent[j]) :
                 IsCommand(j, m) /\ toAgent[j][m].by = toAgent[j][i].by => m = i
        BY <3>1, <3>2 DEF ReplyInv, CommandsOwn
      <3>4. toAgent[j][i].by # b
        BY <1>2, <2>1, <3>3 DEF Waited
      <3>5. toAgent[j][i].by \in Clients
        BY <3>3 DEF Waited
      <3> QED
        BY <1>4, <3>1, <3>3, <3>4, <3>5 DEF Waited, Asks, IsCommand
    <2>2. CASE j = k
      <3>1. toAgent'[k] = Tail(toAgent[k])
        BY DEF TypeInv, TypeOK
      <3>2. \A m \in 1..Len(toAgent'[k]) : m + 1 \in 1..Len(toAgent[k])
                                          /\ toAgent'[k][m] = toAgent[k][m + 1]
        BY <1>1, <3>1, TailFrames
      <3>3. PICK n \in 1..Len(toAgent[k]) : n = i + 1 /\ toAgent'[k][i] = toAgent[k][n]
        BY <2>2, <3>2
      <3>4. IsCommand(k, n)
        BY <2>2, <3>3 DEF IsCommand
      <3>5. /\ Waited(k, toAgent[k][n].id, toAgent[k][n].by) /\ ran[toAgent[k][n].by] = 0
            /\ \A m \in 1..Len(toAgent[k]) :
                 IsCommand(k, m) /\ toAgent[k][m].by = toAgent[k][n].by => m = n
        BY <3>4 DEF ReplyInv, CommandsOwn
      <3>6. toAgent[k][n].by # b
        <4>1. IsCommand(k, 1) /\ n # 1
          BY <1>1, <3>3 DEF IsCommand
        <4> QED
          BY <1>1, <3>5, <4>1
      <3>7. toAgent[k][n].by \in Clients
        BY <3>5 DEF Waited
      <3>8. ASSUME NEW m \in 1..Len(toAgent'[k]), IsCommand(k, m)',
                   toAgent'[k][m].by = toAgent'[k][i].by
            PROVE  m = i
        <4>1. m + 1 \in 1..Len(toAgent[k]) /\ IsCommand(k, m + 1)
              /\ toAgent[k][m + 1].by = toAgent[k][n].by
          BY <3>2, <3>3, <3>8 DEF IsCommand
        <4>2. m + 1 = n
          BY <3>5, <4>1
        <4> QED
          BY <1>1, <3>3, <4>2
      <3> QED
        BY <1>4, <2>2, <3>3, <3>5, <3>6, <3>7, <3>8 DEF Waited, Asks
    <2> QED
      BY <2>1, <2>2
  <1>8. RepliesOwn'
    <2> SUFFICES ASSUME NEW j \in Conns, NEW i \in 1..Len(toHub'[j]),
                        toHub'[j][i].kind = "reply"
                 PROVE  /\ Waited(j, toHub[j][i].id, toHub[j][i].by)'
                        /\ ran'[toHub'[j][i].by] = 1
      BY DEF RepliesOwn
    <2>1. toHub \in [Conns -> Seq(FromAgent)] /\ Len(toHub[j]) \in Nat
      BY SMTT(30), Types DEF TypeInv, TypeOK
    <2>2. \/ toHub'[j] = toHub[j]
          \/ j = k /\ toHub'[j] = Append(toHub[j], Reply(f.id, f.by))
      BY <2>1 DEF Emit
    <2>3. CASE i \in 1..Len(toHub[j]) /\ toHub'[j][i] = toHub[j][i]
      <3>1. /\ Waited(j, toHub[j][i].id, toHub[j][i].by) /\ ran[toHub[j][i].by] = 1
        BY <2>3 DEF ReplyInv, RepliesOwn
      <3>2. toHub[j][i].by # b /\ toHub[j][i].by \in Clients
        BY <1>2, <3>1 DEF Waited
      <3> QED
        BY <1>4, <2>3, <3>1, <3>2 DEF Waited, Asks
    <2>4. CASE j = k /\ toHub'[j][i] = Reply(f.id, f.by)
      BY <1>2, <1>4, <2>4 DEF Reply, Waited, Asks
    <2> QED
      <3>1. CASE toHub'[j] = toHub[j]
        BY <2>3, <3>1
      <3>2. CASE j = k /\ toHub'[j] = Append(toHub[j], Reply(f.id, f.by))
        <4>1. toHub[j] \in Seq(FromAgent)
          BY <2>1
        <4>2. \/ i \in 1..Len(toHub[j]) /\ toHub'[j][i] = toHub[j][i]
              \/ toHub'[j][i] = Reply(f.id, f.by)
          BY <3>2, <4>1, AppendFrames
        <4> QED
          BY <2>3, <2>4, <3>2, <4>2
      <3> QED
        BY <2>2, <3>1, <3>2
  <1>9. ReplyIsOwn'
    BY <1>2, <1>4 DEF ReplyInv, ReplyIsOwn
  <1> QED
    BY <1>6, <1>7, <1>8, <1>9 DEF ReplyInv

LEMMA AgentReadsReplies ==
  ASSUME TypeInv, TypeInv', ReplyInv, AgentReads
  PROVE  ReplyInv'
  <1>1. PICK k \in Conns : k = agent.conn
    <2>1. agent.conn # 0
      BY DEF AgentReads
    <2> QED
      BY <2>1, Types, BoundAssumption DEF Conns
  <1>2. PICK f : f = Head(toAgent[k])
    OBVIOUS
  <1>3. /\ toAgent[k] # <<>> /\ toAgent' = [toAgent EXCEPT ![k] = Tail(@)]
        /\ UNCHANGED <<line, serve, conn, entry, client>>
    BY <1>1 DEF AgentReads, hub
  <1>4. f \in FromHub
    BY <1>2, <1>3, Types
  <1>5. CASE f.kind = "command"
    <2>1. Emit(k, Reply(f.id, f.by)) /\ ran' = [ran EXCEPT ![f.by] = @ + 1]
      BY <1>1, <1>2, <1>5 DEF AgentReads
    <2> QED
      BY <1>2, <1>3, <1>5, <2>1, CommandRuns
  <1>6. CASE f.kind # "command"
    <2>1. /\ UNCHANGED ran
          /\ UNCHANGED toHub \/ (Emit(k, Closed(f.id)) /\ f.kind = "attach")
      <3>1. CASE UNCHANGED toHub /\ UNCHANGED ran
        BY <3>1
      <3>2. CASE /\ Head(toAgent[agent.conn]).kind = "attach" /\ UNCHANGED ran
                 /\ Emit(agent.conn, Closed(Head(toAgent[agent.conn]).id))
        BY <1>1, <1>2, <3>2 DEF Emit, Closed
      <3>3. CASE Head(toAgent[agent.conn]).kind = "command"
        BY <1>1, <1>2, <1>6, <3>3
      <3> QED
        BY <3>1, <3>2, <3>3 DEF AgentReads
    <2>2. f.kind = "attach" => Closed(f.id) \in FromAgent /\ Closed(f.id).kind # "reply"
      BY <1>4 DEF FromHub, FromAgent, Closes, Closed
    <2>3. \A j \in Conns : Evolves(toHub[j], toHub'[j], "reply", FromAgent)
      <3>1. CASE UNCHANGED toHub
        BY <3>1 DEF Evolves
      <3> QED
        BY <2>1, <2>2, <3>1, EmitsQuietly
    <2>4. QuietFrames
      BY <1>3, <2>3 DEF TypeInv, TypeOK, QuietFrames, Evolves
    <2> QED
      BY <1>3, <2>1, <2>4, ClientsSame, RecordsSame, QuietStep
  <1> QED
    BY <1>5, <1>6

-----------------------------------------------------------------------------
(* The hub's steps: all but a resolved reply are quiet.                    *)
LEMMA HubWaitsQuietly ==
  ASSUME TypeInv, TypeInv', ReplyInv, NEW k \in Conns,
         HubReadsRegister(k) \/ HubHearsNothing(k) \/ HubResolves(k) \/ HubRegisters(k)
  PROVE  ReplyInv'
  <1>1. UNCHANGED <<line, toAgent, client, ran>>
    BY DEF HubReadsRegister, HubHearsNothing, HubResolves, HubRegisters, net
  <1>2. QuietFrames
    BY DEF HubReadsRegister, HubHearsNothing, HubResolves, HubRegisters, net,
       TypeInv, TypeOK, QuietFrames, Evolves
  <1>3. QuietRecords
    <2>1. serve \in [Conns -> {"none", "hello", "resolve", "register", "serve",
                              "abort", "done"}]
      BY DEF TypeInv, TypeOK
    <2>2. CASE HubReadsRegister(k) \/ HubHearsNothing(k) \/ HubResolves(k)
      BY <1>1, <2>1, <2>2
         DEF HubReadsRegister, HubHearsNothing, HubResolves, QuietRecords, Registered
    <2>3. CASE HubRegisters(k)
      <3> DEFINE S == IF entry = 0 THEN {} ELSE conn[entry].list
      <3>a. conn' = [conn EXCEPT ![k] = NewConn(S)]
        BY <2>3 DEF HubRegisters
      <3>b. NewConn(S).pending = NoOne
        BY DEF NewConn
      <3>1. PICK r : conn' = [conn EXCEPT ![k] = r] /\ r.pending = NoOne
        BY <3>a, <3>b
      <3>2. conn'[k].pending = NoOne /\ \A j \in Conns \ {k} : conn'[j] = conn[j]
        BY <3>1 DEF TypeInv, TypeOK
      <3>3. /\ serve[k] = "register" /\ serve'[k] = "serve" /\ entry' = k
            /\ \A j \in Conns \ {k} : serve'[j] = serve[j]
        BY <2>1, <2>3 DEF HubRegisters
      <3> QED
        BY <1>1, <3>2, <3>3 DEF QuietRecords, Registered, NoOne
    <2> QED
      BY <2>2, <2>3
  <1> QED
    BY <1>1, <1>2, <1>3, ClientsSame, QuietStep

LEMMA HubEndsQuietly ==
  ASSUME TypeInv, TypeInv', ReplyInv, NEW k \in Conns,
         WriterFails(k) \/ HubGoesOffline(k) \/ HubAborts(k)
  PROVE  ReplyInv'
  <1>1. UNCHANGED <<line, toAgent, entry, client, ran>>
    BY DEF WriterFails, HubGoesOffline, HubAborts, net
  <1>2. QuietFrames
    BY DEF WriterFails, HubGoesOffline, HubAborts, net,
       TypeInv, TypeOK, QuietFrames, Evolves
  <1>3. conn[k] \in Conn /\ conn \in [Conns -> Conn]
    BY DEF TypeInv, TypeOK
  <1>4. /\ \A j \in Conns \ {k} : conn'[j] = conn[j]
        /\ conn'[k].nextReq = conn[k].nextReq
        /\ conn'[k].pending \in {NoOne, conn[k].pending}
    BY <1>3 DEF WriterFails, HubGoesOffline, HubAborts, Conn
  <1>5. \A j \in Conns : /\ serve[j] \in Registered => serve'[j] \in Registered
                         /\ serve[j] = "none" => serve'[j] = "none"
    BY DEF WriterFails, HubGoesOffline, HubAborts, TypeInv, TypeOK, Registered
  <1>6. QuietRecords
    BY <1>1, <1>4, <1>5 DEF QuietRecords, NoOne
  <1> QED
    BY <1>1, <1>2, <1>6, ClientsSame, QuietStep

LEMMA HubRestartsQuietly ==
  ASSUME TypeInv, TypeInv', ReplyInv, HubRestarts
  PROVE  ReplyInv'
  <1>1. \A c \in Clients :
          \/ client[c].pc = "idle" /\ client'[c] = client[c]
          \/ /\ client[c].pc # "idle" /\ client'[c].pc = "over"
             /\ client'[c].conn = client[c].conn /\ client'[c].session = client[c].session
             /\ client'[c].id = client[c].id
             /\ client'[c].answer = client[c].answer /\ client'[c].by = client[c].by
    BY Types DEF HubRestarts, Client
  <1>2. QuietAnswers /\ \A c \in Clients : Quiet(c)
    BY <1>1 DEF ReplyInv, ClientInv, Roles, Role, Quiet, QuietAnswers
  <1>3. QuietFrames
    BY DEF HubRestarts, TypeInv, TypeOK, QuietFrames, Evolves
  <1>4. entry' = 0 /\ \A k \in Conns : ~Reachable(k)'
    <2>1. entry' = 0
      BY DEF HubRestarts
    <2>2. \A c \in Clients : client'[c].pc # "ask"
      BY <1>1
    <2>3. 0 \notin Conns
      BY DEF Conns
    <2> QED
      BY <2>1, <2>2, <2>3 DEF Reachable
  <1>5. \A k \in Conns :
          /\ serve[k] \in Registered => serve'[k] \in Registered
          /\ line'[k] = "none" => line[k] = "none"
          /\ serve[k] = "none" => serve'[k] = "none"
          /\ conn'[k] = NoConn
    BY DEF HubRestarts, Registered
  <1>6. \A q \in Ids : NoConn.pending[q] = None
    BY DEF NoConn, NewConn, NoOne
  <1>7. QuietRecords
    BY <1>4, <1>5, <1>6 DEF QuietRecords
  <1> QED
    BY <1>2, <1>3, <1>7, QuietStep DEF HubRestarts

(* One client moves on, without asking or being answered.                  *)
LEMMA ClientQuiet ==
  ASSUME TypeInv, ReplyInv, NEW c \in Clients, NEW r, Role(r),
         client' = [client EXCEPT ![c] = r],
         \/ /\ client[c].pc = "idle" /\ r.pc \in {"found", "ask"}
            /\ r.conn = entry /\ entry # 0
         \/ /\ client[c].pc # "idle" /\ r.pc # "idle"
            /\ r.conn = client[c].conn /\ r.session = client[c].session,
         r.id = client[c].id \/ r.session # None,
         client[c].pc \in {"waits", "over"} => r.pc \in {"waits", "over"},
         r.pc = "ask" => client[c].pc \in {"idle", "ask"}
  PROVE  /\ \A d \in Clients : Quiet(d)
         /\ client'[c] = r /\ \A d \in Clients \ {c} : client'[d] = client[d]
  <1>1. client'[c] = r /\ \A d \in Clients \ {c} : client'[d] = client[d]
    BY DEF TypeInv, TypeOK
  <1>2. Quiet(c)
    BY <1>1 DEF Quiet, Role
  <1>3. \A d \in Clients \ {c} : Quiet(d)
    BY <1>1 DEF Quiet, Role, Roles, ReplyInv, ClientInv
  <1> QED
    BY <1>1, <1>2, <1>3

(* The reply that is resolved is the one to the pending client's command:  *)
(* no other client has its id on this connection.                          *)
LEMMA Answers ==
  ASSUME TypeInv, TypeInv', ReplyInv, NEW k \in Conns,
         toHub[k] # <<>>, NEW f, f = Head(toHub[k]), f.kind = "reply",
         toHub' = [toHub EXCEPT ![k] = Tail(@)], Resolves(k, f),
         UNCHANGED <<line, toAgent, serve, entry, ran>>
  PROVE  ReplyInv'
  <1>1. f.id \in Ids
    <2>1. f \in FromAgent
      BY HeadType
    <2> QED
      BY <2>1 DEF FromAgent, Register, Paints, Closes
  <1>2. Waited(k, f.id, f.by) /\ ran[f.by] = 1
    <2>1. 1 \in 1..Len(toHub[k]) /\ f = toHub[k][1]
      BY Types
    <2> QED
      BY <2>1 DEF ReplyInv, RepliesOwn
  <1>3. QuietFrames
    BY DEF TypeInv, TypeOK, QuietFrames, Evolves
  <1>4. QuietRecords
    <2>1. conn \in [Conns -> Conn] /\ conn[k] \in Conn
      BY DEF TypeInv, TypeOK
    <2>2. /\ \A j \in Conns \ {k} : conn'[j] = conn[j]
          /\ conn'[k].nextReq = conn[k].nextReq
          /\ \A q \in Ids : conn'[k].pending[q] \in {None, conn[k].pending[q]}
      BY <2>1 DEF Resolves, Conn
    <2> QED
      BY <2>2 DEF QuietRecords
  <1>5. PICK c : c = conn[k].pending[f.id]
    OBVIOUS
  <1>6. CASE UNCHANGED client
    BY <1>3, <1>4, <1>6, ClientsSame, QuietStep
  <1>7. CASE c \in Clients /\ client[c].pc = "waits" /\ client' =
               [client EXCEPT ![c].pc = "over", ![c].answer = "ok", ![c].by = f.by]
    <2>1. PICK r : /\ r = [client[c] EXCEPT !.pc = "over", !.answer = "ok", !.by = f.by]
                   /\ client' = [client EXCEPT ![c] = r]
      BY <1>7
    <2>2. /\ r.pc = "over" /\ r.conn = client[c].conn /\ r.session = client[c].session
          /\ r.id = client[c].id /\ r.answer = "ok" /\ r.by = f.by
      BY <1>7, <2>1, Types DEF Client
    <2>3. Role(r)
      BY <2>2 DEF Role
    <2>4. /\ \A d \in Clients : Quiet(d)
          /\ client'[c] = r /\ \A d \in Clients \ {c} : client'[d] = client[d]
      BY ZenonT(60), <1>7, <2>1, <2>2, <2>3, ClientQuiet
    <2>5. ClientInv' /\ \A j, q, d : Waited(j, q, d) => Waited(j, q, d)'
      BY <1>4, <2>4, QuietKeeps
    <2>6. CommandsOwn' /\ RepliesOwn'
      BY <1>3, <2>5, CommandsKept, RepliesKept DEF ReplyInv, QuietFrames
    <2>7. c = f.by
      <3>1. Asks(c) /\ client[c].conn = k /\ client[c].id = f.id
        <4>1. PendingOwn /\ c \in Clients
          BY <1>7 DEF ReplyInv, ClientInv
        <4> QED
          BY SMTT(30), <1>1, <1>5, <4>1 DEF PendingOwn
      <3> QED
        BY <1>2, <1>7, <3>1 DEF ReplyInv, ClientInv, IdsApart, Waited
    <2>8. ReplyIsOwn'
      BY <1>2, <2>2, <2>4, <2>7 DEF ReplyInv, ReplyIsOwn
    <2> QED
      BY <2>5, <2>6, <2>8 DEF ReplyInv
  <1> QED
    <2>1. c \in Clients \cup {None}
      BY <1>1, <1>5, Types DEF Conn
    <2> QED
      BY <1>5, <1>6, <1>7, <2>1 DEF Resolves

LEMMA HubReadsReplies ==
  ASSUME TypeInv, TypeInv', ReplyInv, NEW k \in Conns, HubReads(k)
  PROVE  ReplyInv'
  <1>1. PICK f : f = Head(toHub[k])
    OBVIOUS
  <1>2. /\ toHub[k] # <<>> /\ toHub' = [toHub EXCEPT ![k] = Tail(@)]
        /\ UNCHANGED <<line, toAgent, serve, entry, ran>>
    BY DEF HubReads
  <1>3. QuietFrames
    BY <1>2 DEF TypeInv, TypeOK, QuietFrames, Evolves
  <1>4. CASE f.kind = "sessions"
    <2>1. conn' = [conn EXCEPT ![k].list = f.list] /\ UNCHANGED client
      BY <1>1, <1>4 DEF HubReads
    <2>2. conn \in [Conns -> Conn] /\ conn[k] \in Conn
      BY DEF TypeInv, TypeOK
    <2>3. /\ \A j \in Conns \ {k} : conn'[j] = conn[j]
          /\ conn'[k].nextReq = conn[k].nextReq /\ conn'[k].pending = conn[k].pending
      BY <2>1, <2>2 DEF Conn
    <2>4. QuietRecords
      BY <1>2, <2>3 DEF QuietRecords
    <2> QED
      BY <1>2, <1>3, <2>1, <2>4, ClientsSame, QuietStep
  <1>5. CASE f.kind \in {"snapshot", "output", "closed"}
    <2>1. Routes(k, f) /\ UNCHANGED conn
      BY <1>1, <1>5 DEF HubReads
    <2>2. PICK c : c = conn[k].channels[f.id]
      OBVIOUS
    <2>3. QuietAnswers /\ \A d \in Clients : Quiet(d)
      <3>1. CASE UNCHANGED client
        BY <3>1, ClientsSame
      <3>2. CASE c \in Clients /\ client[c].pc \in {"attach", "on"}
                 /\ client' = [client EXCEPT ![c].sink = Append(@, f)]
        <4>1. PICK r : /\ r = [client[c] EXCEPT !.sink = Append(@, f)]
                       /\ client' = [client EXCEPT ![c] = r]
          BY <3>2
        <4>2. /\ r.pc = client[c].pc /\ r.conn = client[c].conn /\ r.id = client[c].id
              /\ r.session = client[c].session
              /\ r.answer = client[c].answer /\ r.by = client[c].by
          BY <3>2, <4>1, Types DEF Client
        <4>3. Role(r)
          BY <3>2, <4>2 DEF ReplyInv, ClientInv, Roles, Role
        <4>4. /\ \A d \in Clients : Quiet(d)
              /\ client'[c] = r /\ \A d \in Clients \ {c} : client'[d] = client[d]
          BY <3>2, <4>1, <4>2, <4>3, ClientQuiet
        <4> QED
          BY <3>2, <4>2, <4>4 DEF QuietAnswers
      <3>3. CASE c \notin Clients /\ client' = [client EXCEPT ![c].sink = Append(@, f)]
        <4>1. UNCHANGED client
          BY <3>3 DEF TypeInv, TypeOK
        <4> QED
          BY <4>1, ClientsSame
      <3> QED
        BY <2>1, <2>2, <3>1, <3>2, <3>3 DEF Routes, Listens
    <2> QED
      BY <1>2, <1>3, <2>1, <2>3, RecordsSame, QuietStep
  <1>6. CASE f.kind = "reply"
    <2>1. Resolves(k, f)
      BY <1>1, <1>6 DEF HubReads
    <2> QED
      BY <1>1, <1>2, <1>6, <2>1, Answers
  <1> QED
    BY <1>1, <1>4, <1>5, <1>6 DEF HubReads

-----------------------------------------------------------------------------
(* The clients' steps: all but asking and sending are quiet.               *)
LEMMA Finds ==
  ASSUME TypeInv, TypeInv', ReplyInv, NEW c \in Clients,
         RequestFinds(c) \/ \E s \in Sessions : BrowserOpens(c, s)
  PROVE  ReplyInv'
  <1>1. /\ client[c].pc = "idle" /\ entry # 0
        /\ UNCHANGED <<running, agent, net, hub, ran>>
    BY DEF RequestFinds, BrowserOpens, Online
  <1>2. client[c] \in Client /\ client[c].session = None /\ client[c].id = 0
    BY <1>1, Types DEF ReplyInv, ClientInv, Roles, Role
  <1>3. PICK r : /\ client' = [client EXCEPT ![c] = r] /\ r.conn = entry
                 /\ r.id = client[c].id /\ r.answer = client[c].answer /\ r.by = client[c].by
                 /\ \/ r.pc = "found" /\ r.session \in Sessions
                    \/ r.pc = "ask" /\ r.session = None
    <2>1. CASE RequestFinds(c)
      <3> DEFINE r == [client[c] EXCEPT !.pc = "ask", !.conn = entry]
      <3>1. client' = [client EXCEPT ![c] = r]
        BY <2>1 DEF RequestFinds
      <3>2. /\ r.conn = entry /\ r.id = client[c].id /\ r.answer = client[c].answer
            /\ r.by = client[c].by /\ r.pc = "ask" /\ r.session = None
        BY <1>2 DEF Client
      <3> HIDE DEF r
      <3> QED
        BY <3>1, <3>2
    <2>2. ASSUME NEW s \in Sessions, BrowserOpens(c, s)
          PROVE  \E r : /\ client' = [client EXCEPT ![c] = r] /\ r.conn = entry
                        /\ r.id = client[c].id /\ r.answer = client[c].answer
                        /\ r.by = client[c].by /\ r.pc = "found" /\ r.session \in Sessions
      <3> DEFINE r == [client[c] EXCEPT !.pc = "found", !.conn = entry, !.session = s]
      <3>1. client' = [client EXCEPT ![c] = r]
        BY <2>2 DEF BrowserOpens
      <3>2. /\ r.conn = entry /\ r.id = client[c].id /\ r.answer = client[c].answer
            /\ r.by = client[c].by /\ r.pc = "found" /\ r.session \in Sessions
        BY <1>2 DEF Client
      <3> HIDE DEF r
      <3> QED
        BY <3>1, <3>2
    <2> QED
      BY <2>1, <2>2
  <1>4. Role(r)
    BY <1>2, <1>3, NoneAssumption DEF Role
  <1>5. /\ \A d \in Clients : Quiet(d)
        /\ client'[c] = r /\ \A d \in Clients \ {c} : client'[d] = client[d]
    BY <1>1, <1>3, <1>4, ClientQuiet
  <1>6. QuietAnswers
    BY <1>3, <1>5 DEF QuietAnswers
  <1> QED
    BY <1>1, <1>5, <1>6, FramesSame, RecordsSame, QuietStep DEF net, hub

(* A bridge goes on, or a request ends without an answer.                  *)
LEMMA GoesOn ==
  ASSUME TypeInv, TypeInv', ReplyInv, NEW c \in Clients, NEW r,
         client' = [client EXCEPT ![c] = r],
         r.conn = client[c].conn, r.session = client[c].session,
         r.answer = "ok" => client[c].answer = "ok" /\ r.by = client[c].by,
         \/ /\ client[c].pc \in {"found", "attach", "on", "detach", "close"}
            /\ r.pc \in {"attach", "on", "detach", "close", "over"}
         \/ /\ client[c].pc \in {"send", "waits"} /\ r.pc \in {"waits", "over"}
            /\ r.id = client[c].id,
         QuietRecords, QuietFrames, UNCHANGED ran
  PROVE  ReplyInv'
  <1>1. Role(client[c])
    BY DEF ReplyInv, ClientInv, Roles
  <1>2. Role(r) /\ (r.id = client[c].id \/ r.session # None)
    BY <1>1 DEF Role
  <1>3. /\ \A d \in Clients : Quiet(d)
        /\ client'[c] = r /\ \A d \in Clients \ {c} : client'[d] = client[d]
    BY <1>2, ClientQuiet
  <1>4. QuietAnswers
    BY <1>3 DEF QuietAnswers
  <1> QED
    BY <1>3, <1>4, QuietStep

(* The record of one connection changes, but not its requests, except that *)
(* one is withdrawn.                                                       *)
LEMMA RecordQuiet ==
  ASSUME TypeInv, NEW k, NEW r, conn' = [conn EXCEPT ![k] = r],
         k \in Conns => /\ r.nextReq = conn[k].nextReq
                        /\ \A q \in Ids : r.pending[q] \in {None, conn[k].pending[q]},
         UNCHANGED <<line, serve, entry>>
  PROVE  QuietRecords
  <1>1. \A j \in Conns : conn'[j] = IF j = k THEN r ELSE conn[j]
    BY DEF TypeInv, TypeOK
  <1> QED
    BY <1>1 DEF QuietRecords

LEMMA BridgeRuns ==
  ASSUME TypeInv, TypeInv', ReplyInv, NEW c \in Clients,
         \/ BridgeOpens(c) \/ BridgeAttaches(c) \/ BridgeShows(c) \/ BridgeIsDropped(c)
         \/ BrowserLeaves(c) \/ BridgeDetaches(c) \/ BridgeCloses(c)
  PROVE  ReplyInv'
  <1>1. /\ client[c] \in Client /\ client[c].id = client[c].id
        /\ client[c].pc # "idle" => client[c].conn \in Conns
        /\ client[c].pc \in {"attach", "on", "detach", "close"} => client[c].id \in Ids
        /\ client[c].pc \in {"found", "attach"} => client[c].session \in Sessions
    BY Types DEF TypeInv, ClientsPlaced, Numbered
  <1>2. PICK k : k = client[c].conn
    OBVIOUS
  <1>3. CASE BridgeOpens(c)
    <2>1. /\ client[c].pc = "found" /\ UNCHANGED <<net, serve, entry, ran>>
          /\ k \in Conns
      BY <1>1, <1>2, <1>3 DEF BridgeOpens
    <2>2. PICK r : /\ client' = [client EXCEPT ![c] = r] /\ r.conn = client[c].conn
                   /\ r.session = client[c].session /\ r.answer = client[c].answer
                   /\ r.by = client[c].by /\ r.pc = "attach"
      <3> DEFINE ch == conn[client[c].conn].nextCh + 1
                 r == [client[c] EXCEPT !.pc = "attach", !.id = ch]
      <3>1. client' = [client EXCEPT ![c] = r]
        BY <1>3 DEF BridgeOpens
      <3>2. /\ r.conn = client[c].conn
            /\ r.session = client[c].session /\ r.answer = client[c].answer
            /\ r.by = client[c].by /\ r.pc = "attach"
        BY <1>1 DEF Client
      <3> HIDE DEF r
      <3> QED
        BY <3>1, <3>2
    <2>3. QuietRecords
      <3> DEFINE ch == conn[k].nextCh + 1
                 rec == [conn[k] EXCEPT !.nextCh = ch, !.channels[ch] = c]
      <3>1. conn' = [conn EXCEPT ![k] = rec]
        BY <1>2, <1>3 DEF BridgeOpens
      <3>2. rec.nextReq = conn[k].nextReq /\ rec.pending = conn[k].pending
        BY <2>1, Types DEF Conn
      <3> HIDE DEF rec
      <3> QED
        BY <2>1, <3>1, <3>2, RecordQuiet DEF net
    <2>4. QuietFrames
      BY <2>1, FramesSame DEF net
    <2> QED
      BY <2>1, <2>2, <2>3, <2>4, GoesOn
  <1>4. CASE BridgeAttaches(c)
    <2>1. /\ client[c].pc = "attach" /\ UNCHANGED <<line, toHub, hub, ran>>
      BY <1>4 DEF BridgeAttaches
    <2>2. PICK r : /\ client' = [client EXCEPT ![c] = r] /\ r.conn = client[c].conn
                   /\ r.session = client[c].session /\ r.answer = client[c].answer
                   /\ r.by = client[c].by /\ r.pc \in {"on", "close"}
      <3>1. PICK p \in {"on", "close"} :
              client' = [client EXCEPT ![c] = [client[c] EXCEPT !.pc = p]]
        BY <1>4 DEF BridgeAttaches
      <3> DEFINE r == [client[c] EXCEPT !.pc = p]
      <3>2. /\ r.conn = client[c].conn
            /\ r.session = client[c].session /\ r.answer = client[c].answer
            /\ r.by = client[c].by /\ r.pc = p
        BY <1>1 DEF Client
      <3>3. client' = [client EXCEPT ![c] = r]
        BY <3>1
      <3> HIDE DEF r
      <3> QED
        BY <3>2, <3>3
    <2>3. QuietFrames
      <3>1. CASE UNCHANGED toAgent
        BY <2>1, <3>1, FramesSame
      <3>2. CASE Send(client[c].conn, Attach(client[c].id, client[c].session))
        <4> DEFINE f == Attach(client[c].id, client[c].session)
        <4>1. f \in FromHub /\ f.kind # "command"
          BY <1>1, <2>1 DEF Attach, FromHub
        <4> HIDE DEF f
        <4>2. Send(client[c].conn, f)
          BY <3>2 DEF f
        <4>3. \A j \in Conns : Evolves(toAgent[j], toAgent'[j], "command", FromHub)
          BY <4>1, <4>2, SendsQuietly
        <4> QED
          BY <2>1, <4>3 DEF QuietFrames, Evolves
      <3> QED
        BY <1>4, <3>1, <3>2 DEF BridgeAttaches
    <2>4. QuietRecords
      BY <2>1, RecordsSame DEF hub
    <2> QED
      BY <2>1, <2>2, <2>3, <2>4, GoesOn
  <1>5. CASE BridgeShows(c) \/ BridgeIsDropped(c) \/ BrowserLeaves(c)
    <2>1. /\ client[c].pc = "on" /\ UNCHANGED <<net, hub, ran>>
      BY <1>5 DEF BridgeShows, BridgeIsDropped, BrowserLeaves
    <2>2. PICK r : /\ client' = [client EXCEPT ![c] = r] /\ r.conn = client[c].conn
                   /\ r.session = client[c].session /\ r.answer = client[c].answer
                   /\ r.by = client[c].by /\ r.pc \in {"on", "detach"}
      <3>1. CASE \E e, t : client' = [client EXCEPT ![c] =
                             [client[c] EXCEPT !.shown = e, !.sink = t]]
        <4>1. PICK e, t : client' = [client EXCEPT ![c] =
                            [client[c] EXCEPT !.shown = e, !.sink = t]]
          BY <3>1
        <4> DEFINE r == [client[c] EXCEPT !.shown = e, !.sink = t]
        <4>2. /\ r.conn = client[c].conn
              /\ r.session = client[c].session /\ r.answer = client[c].answer
              /\ r.by = client[c].by /\ r.pc = "on"
          BY <1>1, <2>1 DEF Client
        <4>3. client' = [client EXCEPT ![c] = r]
          BY <4>1
        <4> HIDE DEF r
        <4> QED
          BY <4>2, <4>3
      <3>2. CASE \E t : client' = [client EXCEPT ![c] =
                          [client[c] EXCEPT !.pc = "detach", !.sink = t]]
        <4>1. PICK t : client' = [client EXCEPT ![c] =
                         [client[c] EXCEPT !.pc = "detach", !.sink = t]]
          BY <3>2
        <4> DEFINE r == [client[c] EXCEPT !.pc = "detach", !.sink = t]
        <4>2. /\ r.conn = client[c].conn
              /\ r.session = client[c].session /\ r.answer = client[c].answer
              /\ r.by = client[c].by /\ r.pc = "detach"
          BY <1>1, <2>1 DEF Client
        <4>3. client' = [client EXCEPT ![c] = r]
          BY <4>1
        <4> HIDE DEF r
        <4> QED
          BY <4>2, <4>3
      <3>3. CASE client' = [client EXCEPT ![c] = [client[c] EXCEPT !.pc = "detach"]]
        <4> DEFINE r == [client[c] EXCEPT !.pc = "detach"]
        <4>2. /\ r.conn = client[c].conn
              /\ r.session = client[c].session /\ r.answer = client[c].answer
              /\ r.by = client[c].by /\ r.pc = "detach"
          BY <1>1, <2>1 DEF Client
        <4>3. client' = [client EXCEPT ![c] = r]
          BY <3>3
        <4> HIDE DEF r
        <4> QED
          BY <4>2, <4>3
      <3> QED
        BY <1>5, <3>1, <3>2, <3>3 DEF BridgeShows, BridgeIsDropped, BrowserLeaves
    <2>3. QuietFrames /\ QuietRecords
      BY <2>1, FramesSame, RecordsSame DEF net, hub
    <2> QED
      BY <2>1, <2>2, <2>3, GoesOn
  <1>6. CASE BridgeDetaches(c)
    <2>1. /\ client[c].pc = "detach" /\ UNCHANGED <<line, toHub, hub, ran>>
      BY <1>6 DEF BridgeDetaches, Step
    <2>2. PICK r : /\ client' = [client EXCEPT ![c] = r] /\ r.conn = client[c].conn
                   /\ r.session = client[c].session /\ r.answer = client[c].answer
                   /\ r.by = client[c].by /\ r.pc = "close"
      <3> DEFINE r == [client[c] EXCEPT !.pc = "close"]
      <3>1. /\ r.conn = client[c].conn
            /\ r.session = client[c].session /\ r.answer = client[c].answer
            /\ r.by = client[c].by /\ r.pc = "close"
        BY <1>1 DEF Client
      <3>2. client' = [client EXCEPT ![c] = r]
        BY <1>6 DEF BridgeDetaches, Step
      <3> HIDE DEF r
      <3> QED
        BY <3>1, <3>2
    <2>3. QuietFrames
      <3>1. CASE UNCHANGED toAgent
        BY <2>1, <3>1, FramesSame
      <3>2. CASE Send(client[c].conn, Detach(client[c].id))
        <4>1. Detach(client[c].id) \in FromHub /\ Detach(client[c].id).kind # "command"
          BY <1>1, <2>1 DEF Detach, FromHub
        <4>2. \A j \in Conns : Evolves(toAgent[j], toAgent'[j], "command", FromHub)
          BY <3>2, <4>1, SendsQuietly
        <4> QED
          BY <2>1, <4>2 DEF QuietFrames, Evolves
      <3> QED
        BY <1>6, <3>1, <3>2 DEF BridgeDetaches
    <2>4. QuietRecords
      BY <2>1, RecordsSame DEF hub
    <2> QED
      BY <2>1, <2>2, <2>3, <2>4, GoesOn
  <1>7. CASE BridgeCloses(c)
    <2>1. /\ client[c].pc = "close" /\ UNCHANGED <<net, serve, entry, ran>>
          /\ k \in Conns
      BY <1>1, <1>2, <1>7 DEF BridgeCloses, Step
    <2>2. PICK r : /\ client' = [client EXCEPT ![c] = r] /\ r.conn = client[c].conn
                   /\ r.session = client[c].session /\ r.answer = client[c].answer
                   /\ r.by = client[c].by /\ r.pc = "over"
      <3> DEFINE r == [client[c] EXCEPT !.pc = "over"]
      <3>1. /\ r.conn = client[c].conn
            /\ r.session = client[c].session /\ r.answer = client[c].answer
            /\ r.by = client[c].by /\ r.pc = "over"
        BY <1>1 DEF Client
      <3>2. client' = [client EXCEPT ![c] = r]
        BY <1>7 DEF BridgeCloses, Step
      <3> HIDE DEF r
      <3> QED
        BY <3>1, <3>2
    <2>3. QuietRecords
      <3> DEFINE rec == [conn[k] EXCEPT !.channels[client[c].id] = None]
      <3>1. conn' = [conn EXCEPT ![k] = rec]
        BY <1>2, <1>7 DEF BridgeCloses
      <3>2. rec.nextReq = conn[k].nextReq /\ rec.pending = conn[k].pending
        BY <2>1, Types DEF Conn
      <3> HIDE DEF rec
      <3> QED
        BY <2>1, <3>1, <3>2, RecordQuiet DEF net
    <2>4. QuietFrames
      BY <2>1, FramesSame DEF net
    <2> QED
      BY <2>1, <2>2, <2>3, <2>4, GoesOn
  <1> QED
    BY <1>3, <1>4, <1>5, <1>6, <1>7

LEMMA WithdrawnQuietly ==
  ASSUME TypeInv, NEW c \in Clients, client[c].pc \in Numbered,
         conn' = Withdrawn(c), UNCHANGED <<line, serve, entry>>
  PROVE  QuietRecords
  <1>1. PICK k \in Conns : k = client[c].conn
    BY DEF TypeInv, ClientsPlaced, Numbered
  <1>2. PICK q : q = client[c].id
    OBVIOUS
  <1> DEFINE r == [conn[k] EXCEPT !.pending[q] = None]
  <1>3. conn' = [conn EXCEPT ![k] = r]
    BY <1>1, <1>2 DEF Withdrawn
  <1>4. /\ r.nextReq = conn[k].nextReq
        /\ \A p \in Ids : r.pending[p] \in {None, conn[k].pending[p]}
    BY Types DEF Conn
  <1> HIDE DEF r
  <1> QED
    BY <1>3, <1>4, RecordQuiet

LEMMA RequestEnds ==
  ASSUME TypeInv, TypeInv', ReplyInv, NEW c \in Clients,
         client[c].pc \in {"send", "waits"}, NEW a, a # "ok",
         client' = [client EXCEPT ![c] = [client[c] EXCEPT !.pc = "over", !.answer = a]],
         conn' = Withdrawn(c), UNCHANGED <<net, serve, entry, ran>>
  PROVE  ReplyInv'
  <1>1. QuietRecords
    BY WithdrawnQuietly DEF Numbered, net
  <1>2. QuietFrames
    BY FramesSame DEF net
  <1> DEFINE r == [client[c] EXCEPT !.pc = "over", !.answer = a]
  <1>3. /\ r.conn = client[c].conn /\ r.session = client[c].session
        /\ r.id = client[c].id /\ r.answer = a /\ r.pc = "over"
    BY Types DEF Client
  <1>4. client' = [client EXCEPT ![c] = r]
    OBVIOUS
  <1> HIDE DEF r
  <1> QED
    BY <1>1, <1>2, <1>3, <1>4, GoesOn

(* The id is beyond those of all requests the connection ever had.         *)
LEMMA Asked ==
  ASSUME TypeInv, TypeInv', ReplyInv, NEW c \in Clients, RequestAsks(c)
  PROVE  ReplyInv'
  <1>1. client[c] \in Client /\ client[c].pc = "ask"
    BY Types DEF RequestAsks
  <1>2. client[c].session = None /\ client[c].id = 0
    BY <1>1 DEF ReplyInv, ClientInv, Roles, Role
  <1>3. PICK k \in Conns : k = client[c].conn
    BY <1>1 DEF TypeInv, ClientsPlaced
  <1>4. PICK q : q = conn[k].nextReq + 1
    OBVIOUS
  <1>5. q \in Ids /\ conn[k].nextReq \in Nat
    BY <1>1, <1>3, <1>4, NextIds, CountersAreNaturals
  <1>6. q \in Nat /\ q # 0
    BY <1>5, IdsAreNaturals
  <1>7. /\ client'[c].pc = "send" /\ client'[c].id = q
        /\ client'[c].conn = k /\ client'[c].session = None
        /\ client'[c].answer = client[c].answer /\ client'[c].by = client[c].by
        /\ \A d \in Clients \ {c} : client'[d] = client[d]
    <2> DEFINE r == [client[c] EXCEPT !.pc = "send", !.id = q]
    <2>1. client' = [client EXCEPT ![c] = r]
      BY <1>3, <1>4 DEF RequestAsks
    <2>2. /\ r.pc = "send" /\ r.id = q /\ r.conn = k /\ r.session = None
          /\ r.answer = client[c].answer /\ r.by = client[c].by
      BY <1>1, <1>2, <1>3 DEF Client
    <2> HIDE DEF r
    <2> QED
      BY <2>1, <2>2 DEF TypeInv, TypeOK
  <1>8. /\ conn'[k].nextReq = q /\ conn'[k].pending[q] = c
        /\ \A p \in Ids \ {q} : conn'[k].pending[p] = conn[k].pending[p]
        /\ \A j \in Conns \ {k} : conn'[j] = conn[j]
    <2> DEFINE r == [conn[k] EXCEPT !.nextReq = q, !.pending[q] = c]
    <2>1. conn' = [conn EXCEPT ![k] = r]
      BY <1>3, <1>4 DEF RequestAsks
    <2>2. /\ r.nextReq = q /\ r.pending[q] = c
          /\ \A p \in Ids \ {q} : r.pending[p] = conn[k].pending[p]
      BY <1>5, Types DEF Conn
    <2> HIDE DEF r
    <2> QED
      BY <2>1, <2>2 DEF TypeInv, TypeOK
  <1>9. UNCHANGED <<line, toHub, toAgent, serve, entry, ran>>
    BY DEF RequestAsks, net
  <1>10. ~Asks(c) /\ Asks(c)' /\ \A d \in Clients \ {c} : Asks(d)' <=> Asks(d)
    BY <1>2, <1>6, <1>7 DEF Asks
  <1>11. \A d \in Clients \ {c} : Asks(d) /\ client[d].conn = k =>
           client[d].id <= conn[k].nextReq /\ client[d].id # q
    <2>1. Reachable(k)
      BY <1>1, <1>3 DEF Reachable
    <2>2. \A d \in Clients : client[d].id \in Nat
      <3>1. \A d \in Clients : client[d].id \in {0} \cup Ids
        BY Types DEF Client
      <3> QED
        BY <3>1, IdsAreNaturals
    <2>3. \A d \in Clients : Asks(d) /\ client[d].conn = k => client[d].id <= conn[k].nextReq
      BY <2>1 DEF ReplyInv, ClientInv, IdsSpent
    <2> QED
      BY <1>4, <1>5, <2>2, <2>3
  <1>12. Roles'
    BY <1>7 DEF ReplyInv, ClientInv, Roles, Role
  <1>13. OnRegistered' /\ Undialled' /\ NotYetRun' /\ ReplyIsOwn'
    BY <1>1, <1>3, <1>7, <1>9
       DEF ReplyInv, ClientInv, OnRegistered, Undialled, NotYetRun, ReplyIsOwn
  <1>14. IdsApart'
    <2> SUFFICES ASSUME NEW d \in Clients, NEW e \in Clients, Asks(d)', Asks(e)',
                        client'[d].conn = client'[e].conn, client'[d].id = client'[e].id
                 PROVE  d = e
      BY DEF IdsApart
    <2>1. CASE d # c /\ e # c
      BY <1>7, <1>10, <2>1 DEF ReplyInv, ClientInv, IdsApart
    <2>2. CASE d = c /\ e # c
      BY <1>7, <1>10, <1>11, <2>2
    <2>3. CASE d # c /\ e = c
      BY <1>7, <1>10, <1>11, <2>3
    <2> QED
      BY <2>1, <2>2, <2>3
  <1>15. IdsSpent'
    <2> SUFFICES ASSUME NEW d \in Clients, Asks(d)', Reachable(client[d].conn)'
                 PROVE  client'[d].id <= conn'[client'[d].conn].nextReq
      BY DEF IdsSpent
    <2>1. CASE d = c
      BY <1>6, <1>7, <1>8, <2>1
    <2>2. CASE d # c /\ client[d].conn = k
      <3>1. client'[d] = client[d] /\ Asks(d)
        BY <1>7, <1>10, <2>2
      <3>2. client[d].id <= conn[k].nextReq
        BY <1>11, <2>2, <3>1
      <3>3. client[d].id \in {0} \cup Ids
        BY Types DEF Client
      <3>4. client[d].id \in Nat
        BY <3>3, IdsAreNaturals
      <3> QED
        BY <1>4, <1>5, <1>8, <2>2, <3>1, <3>2, <3>4
    <2>3. CASE d # c /\ client[d].conn # k
      <3>1. client'[d] = client[d] /\ Asks(d)
        BY <1>7, <1>10, <2>3
      <3>2. client[d].conn \in Conns
        <4>1. client[d].pc # "idle"
          BY <3>1 DEF Asks, ReplyInv, ClientInv, Roles, Role
        <4> QED
          BY <4>1 DEF TypeInv, ClientsPlaced
      <3>3. PICK j \in Conns : j = client[d].conn
        BY <3>2
      <3>4. Reachable(j)'
        BY <3>1, <3>3 DEF Reachable
      <3>5. Reachable(j)
        BY <1>7, <1>9, <3>4 DEF Reachable
      <3>6. client[d].id <= conn[j].nextReq
        BY <3>1, <3>3, <3>5 DEF ReplyInv, ClientInv, IdsSpent
      <3> QED
        BY <1>8, <2>3, <3>1, <3>3, <3>6
    <2> QED
      BY <2>1, <2>2, <2>3
  <1>16. PendingOwn'
    <2> SUFFICES ASSUME NEW j \in Conns, NEW p \in Ids, NEW d \in Clients,
                        conn'[j].pending[p] = d
                 PROVE  Asks(d)' /\ client'[d].conn = j /\ client'[d].id = p
      BY DEF PendingOwn
    <2>1. CASE j = k /\ p = q
      BY <1>7, <1>8, <1>10, <2>1
    <2>2. CASE ~(j = k /\ p = q)
      <3>1. conn[j].pending[p] = d
        BY <1>8, <2>2
      <3>2. Asks(d) /\ client[d].conn = j /\ client[d].id = p
        BY <3>1 DEF ReplyInv, ClientInv, PendingOwn
      <3>3. d # c
        BY <1>10, <3>2
      <3> QED
        BY <1>7, <1>10, <3>2, <3>3
    <2> QED
      BY <2>1, <2>2
  <1>17. \A j, p, d : Waited(j, p, d) => Waited(j, p, d)'
    BY <1>7, <1>10 DEF Waited
  <1>18. CommandsOwn' /\ RepliesOwn'
    <2>1. QuietFrames
      BY <1>9, FramesSame
    <2> QED
      BY <1>9, <1>17, <2>1, CommandsKept, RepliesKept DEF ReplyInv, QuietFrames
  <1> QED
    BY <1>12, <1>13, <1>14, <1>15, <1>16, <1>18 DEF ReplyInv, ClientInv

(* The one command of a request is sent when it begins to wait.            *)
LEMMA Sent ==
  ASSUME TypeInv, TypeInv', ReplyInv, NEW c \in Clients, client[c].pc = "send",
         NEW k \in Conns, k = client[c].conn, Send(k, Command(client[c].id, c)),
         client' = [client EXCEPT ![c].pc = "waits"],
         UNCHANGED <<line, toHub, conn, serve, entry, ran>>
  PROVE  ReplyInv'
  <1>1. client[c] \in Client /\ client[c].id \in Ids /\ client[c].session = None
    BY Types DEF TypeInv, ClientsPlaced, Numbered, ReplyInv, ClientInv, Roles, Role
  <1>2. PICK r : /\ client' = [client EXCEPT ![c] = r] /\ r.pc = "waits"
                 /\ r.conn = client[c].conn /\ r.session = client[c].session
                 /\ r.id = client[c].id /\ r.answer = client[c].answer
                 /\ r.by = client[c].by
    <2> DEFINE r == [client[c] EXCEPT !.pc = "waits"]
    <2>1. client' = [client EXCEPT ![c] = r]
      OBVIOUS
    <2>2. /\ r.pc = "waits" /\ r.conn = client[c].conn /\ r.session = client[c].session
          /\ r.id = client[c].id /\ r.answer = client[c].answer /\ r.by = client[c].by
      BY <1>1 DEF Client
    <2> HIDE DEF r
    <2> QED
      BY <2>1, <2>2
  <1>3. /\ \A d \in Clients : Quiet(d)
        /\ client'[c] = r /\ \A d \in Clients \ {c} : client'[d] = client[d]
    <2>1. Role(r)
      BY <1>1, <1>2 DEF Role
    <2> QED
      BY <1>2, <2>1, ClientQuiet
  <1>4. QuietRecords
    BY RecordsSame
  <1>5. ClientInv' /\ \A j, q, d : Waited(j, q, d) => Waited(j, q, d)'
    BY <1>3, <1>4, QuietKeeps
  <1>6. RepliesOwn'
    BY <1>5, RepliesKept DEF ReplyInv, Evolves
  <1>7. ReplyIsOwn'
    BY <1>2, <1>3 DEF ReplyInv, ReplyIsOwn
  <1>8. PICK f : f = Command(client[c].id, c)
    OBVIOUS
  <1>9. f \in FromHub /\ f.kind = "command" /\ f.id = client[c].id /\ f.by = c
    BY <1>1, <1>8 DEF Command, FromHub
  <1>10. Waited(k, f.id, f.by)' /\ ran[f.by] = 0
    <2>1. client[c].id # 0 /\ ran[c] = 0
      BY <1>1, IdsAreNaturals DEF ReplyInv, ClientInv, NotYetRun
    <2> QED
      BY <1>1, <1>2, <1>3, <1>9, <2>1 DEF Waited, Asks
  <1>11. \A j \in Conns : \A i \in 1..Len(toAgent[j]) :
           IsCommand(j, i) => toAgent[j][i].by # c
    BY DEF ReplyInv, CommandsOwn, Waited
  <1>12. CommandsOwn'
    <2>1. CASE UNCHANGED toAgent
      BY <1>5, <2>1, CommandsKept DEF ReplyInv, Evolves
    <2>2. CASE toAgent' = [toAgent EXCEPT ![k] = Append(@, f)]
      <3>1. /\ toAgent'[k] = Append(toAgent[k], f) /\ toAgent[k] \in Seq(FromHub)
            /\ \A j \in Conns \ {k} : toAgent'[j] = toAgent[j]
        BY <2>2 DEF TypeInv, TypeOK
      <3>2. \A i \in 1..Len(toAgent'[k]) :
              \/ i \in 1..Len(toAgent[k]) /\ toAgent'[k][i] = toAgent[k][i]
              \/ i = Len(toAgent[k]) + 1 /\ toAgent'[k][i] = f
        BY <3>1, AppendFrames
      <3> SUFFICES ASSUME NEW j \in Conns, NEW i \in 1..Len(toAgent'[j]), IsCommand(j, i)'
                   PROVE  /\ Waited(j, toAgent[j][i].id, toAgent[j][i].by)'
                          /\ ran'[toAgent'[j][i].by] = 0
                          /\ \A m \in 1..Len(toAgent'[j]) :
                               IsCommand(j, m)' /\ toAgent'[j][m].by = toAgent'[j][i].by => m = i
        BY DEF CommandsOwn
      <3>3. CASE j = k /\ i = Len(toAgent[k]) + 1 /\ toAgent'[k][i] = f
        <4>1. Waited(j, toAgent[j][i].id, toAgent[j][i].by)' /\ ran'[toAgent'[j][i].by] = 0
          BY <1>10, <3>3 DEF Waited
        <4>2. ASSUME NEW m \in 1..Len(toAgent'[j]), IsCommand(j, m)',
                     toAgent'[j][m].by = toAgent'[j][i].by
              PROVE  m = i
          BY SMTT(30), <1>9, <1>11, <3>2, <3>3, <4>2 DEF IsCommand
        <4> QED
          BY <4>1, <4>2
      <3>4. CASE i \in 1..Len(toAgent[j]) /\ toAgent'[j][i] = toAgent[j][i]
        <4>1. IsCommand(j, i)
          BY <3>4 DEF IsCommand
        <4>2. /\ Waited(j, toAgent[j][i].id, toAgent[j][i].by) /\ ran[toAgent[j][i].by] = 0
              /\ \A m \in 1..Len(toAgent[j]) :
                   IsCommand(j, m) /\ toAgent[j][m].by = toAgent[j][i].by => m = i
          BY <3>4, <4>1 DEF ReplyInv, CommandsOwn
        <4>3. Waited(j, toAgent[j][i].id, toAgent[j][i].by)' /\ ran'[toAgent'[j][i].by] = 0
          BY <1>5, <3>4, <4>2 DEF Waited
        <4>4. ASSUME NEW m \in 1..Len(toAgent'[j]), IsCommand(j, m)',
                     toAgent'[j][m].by = toAgent'[j][i].by
              PROVE  m = i
          <5>1. toAgent[j][i].by # c
            BY <1>11, <3>4, <4>1
          <5>2. \/ m \in 1..Len(toAgent[j]) /\ toAgent'[j][m] = toAgent[j][m]
                \/ toAgent'[j][m] = f
            BY <3>1, <3>2
          <5>3. m \in 1..Len(toAgent[j]) /\ toAgent'[j][m] = toAgent[j][m]
            BY <1>9, <3>4, <4>4, <5>1, <5>2
          <5> QED
            BY <3>4, <4>2, <4>4, <5>3 DEF IsCommand
        <4> QED
          BY <4>3, <4>4
      <3> QED
        BY <3>1, <3>2, <3>3, <3>4
    <2> QED
      BY <1>8, <2>1, <2>2 DEF Send
  <1> QED
    BY <1>5, <1>6, <1>7, <1>12 DEF ReplyInv

LEMMA RequestRuns ==
  ASSUME TypeInv, TypeInv', ReplyInv, NEW c \in Clients,
         RequestAsks(c) \/ RequestSends(c) \/ RequestGivesUp(c)
  PROVE  ReplyInv'
  <1>1. CASE RequestAsks(c)
    BY <1>1, Asked
  <1>2. CASE RequestSends(c)
    <2>1. PICK k \in Conns : k = client[c].conn
      BY <1>2 DEF RequestSends, TypeInv, ClientsPlaced
    <2>2. /\ client[c].pc = "send"
          /\ UNCHANGED <<running, agent, line, toHub, serve, entry, ran>>
      BY <1>2 DEF RequestSends
    <2>3. CASE conn[k].writer
      <3>1. /\ Send(k, Command(client[c].id, c))
            /\ client' = [client EXCEPT ![c].pc = "waits"] /\ UNCHANGED conn
        BY <1>2, <2>1, <2>3 DEF RequestSends, Send
      <3> QED
        BY <2>1, <2>2, <3>1, Sent
    <2>4. CASE ~conn[k].writer
      <3>1. /\ client' = [client EXCEPT ![c] =
                 [client[c] EXCEPT !.pc = "over", !.answer = "offline"]]
            /\ conn' = Withdrawn(c) /\ UNCHANGED toAgent
        BY <1>2, <2>1, <2>4 DEF RequestSends
      <3> QED
        BY <2>2, <3>1, RequestEnds DEF net
    <2> QED
      BY <2>3, <2>4
  <1>3. CASE RequestGivesUp(c)
    <2>1. /\ client' = [client EXCEPT ![c] =
               [client[c] EXCEPT !.pc = "over", !.answer = "timeout"]]
          /\ client[c].pc = "waits" /\ conn' = Withdrawn(c)
          /\ UNCHANGED <<net, serve, entry, ran>>
      BY <1>3 DEF RequestGivesUp
    <2> QED
      BY <2>1, RequestEnds
  <1> QED
    BY <1>1, <1>2, <1>3

LEMMA NextReplies == TypeInv /\ TypeInv' /\ ReplyInv /\ [Next]_vars => ReplyInv'
  <1> SUFFICES ASSUME TypeInv, TypeInv', ReplyInv, [Next]_vars PROVE ReplyInv'
    OBVIOUS
  <1>1. CASE UNCHANGED vars
    <2>1. UNCHANGED <<line, toHub, toAgent, serve, conn, entry, client, ran>>
      BY <1>1 DEF vars, net, hub
    <2> QED
      BY <2>1, ClientsSame, RecordsSame, FramesSame, QuietStep
  <1>2. CASE \/ AgentPolls \/ AgentNotices
             \/ \E k \in Conns : AgentDials(k) \/ LineCut(k)
             \/ \E i \in Ids : ChannelStep(i)
             \/ \E S \in SUBSET Sessions : SessionsChange(S)
             \/ \E how \in {"cut", "closed"} : AgentStops(how)
    BY <1>2, AgentQuiet
  <1>3. CASE AgentReads
    BY <1>3, AgentReadsReplies
  <1>4. ASSUME NEW k \in Conns, HubStep(k) \/ WriterFails(k) PROVE ReplyInv'
    <2>1. CASE HubReadsRegister(k) \/ HubHearsNothing(k) \/ HubResolves(k) \/ HubRegisters(k)
      BY <2>1, HubWaitsQuietly
    <2>2. CASE WriterFails(k) \/ HubGoesOffline(k) \/ HubAborts(k)
      BY <2>2, HubEndsQuietly
    <2>3. CASE HubReads(k)
      BY <2>3, HubReadsReplies
    <2> QED
      BY <1>4, <2>1, <2>2, <2>3 DEF HubStep
  <1>5. CASE HubRestarts
    BY <1>5, HubRestartsQuietly
  <1>6. ASSUME NEW c \in Clients,
               \/ ClientStep(c) \/ BrowserLeaves(c) \/ RequestFinds(c)
               \/ \E s \in Sessions : BrowserOpens(c, s)
        PROVE  ReplyInv'
    <2>1. CASE RequestFinds(c) \/ \E s \in Sessions : BrowserOpens(c, s)
      BY <2>1, Finds
    <2>2. CASE \/ BridgeOpens(c) \/ BridgeAttaches(c) \/ BridgeShows(c) \/ BridgeIsDropped(c)
               \/ BrowserLeaves(c) \/ BridgeDetaches(c) \/ BridgeCloses(c)
      BY <2>2, BridgeRuns
    <2>3. CASE RequestAsks(c) \/ RequestSends(c) \/ RequestGivesUp(c)
      BY <2>3, RequestRuns
    <2> QED
      BY <1>6, <2>1, <2>2, <2>3 DEF ClientStep
  <1> QED
    BY <1>1, <1>2, <1>3, <1>4, <1>5, <1>6 DEF Next

(* A request that is answered is answered with the result of its own       *)
(* command, run once: the ids resolve_reply looks up are never reused on a *)
(* connection, and a record replaced by a reconnect keeps its own.         *)
THEOREM ReplySafe == Spec => []ReplyIsOwn
  <1>1. Init => TypeInv /\ ReplyInv
    BY InitType, InitReplies
  <1>2. TypeInv /\ ReplyInv /\ [Next]_vars => (TypeInv /\ ReplyInv)'
    BY NextType, NextReplies
  <1>3. TypeInv /\ ReplyInv => ReplyIsOwn
    BY DEF ReplyInv
  <1> QED
    BY <1>1, <1>2, <1>3, PTL DEF Spec

-----------------------------------------------------------------------------
(***************************************************************************)
(* A browser shows the terminal it opened, beginning with a snapshot:      *)
(* proved for every number of clients and connections and for queues of    *)
(* any length.                                                             *)
(*                                                                         *)
(* Two things have to be carried from end to end.  Whose a frame is: every *)
(* Attach, every channel of the agent and every frame names the session    *)
(* that the one bridge with that channel has asked for (..Owned).  And     *)
(* what comes first: while a browser has seen nothing, the sink, the queue *)
(* behind it and the agent's channel behind that begin with no output      *)
(* (SinkBegins, Begins).  A frame lost with its connection takes all that  *)
(* would have followed it along.                                           *)
(***************************************************************************)

(* A client with a channel, and one whose Attach has been sent.            *)
Bridged(c) == client[c].session # None /\ client[c].id # 0
Before == {"idle", "found", "attach"}
Attached(k, i, c) ==
  /\ Bridged(c) /\ client[c].pc \notin Before
  /\ client[c].conn = k /\ client[c].id = i

(* Until then it has shown nothing, and before it has an id it has none.   *)
NotYetShown ==
  \A c \in Clients :
    /\ client[c].pc \in Before => client[c].sink = <<>> /\ client[c].shown = "nothing"
    /\ client[c].pc = "found" => client[c].id = 0

(* No two bridges of a connection have one channel, and a channel it may   *)
(* still give out is new.                                                  *)
ChannelsApart ==
  \A c, d \in Clients :
    Bridged(c) /\ Bridged(d) /\ client[c].conn = client[d].conn /\ client[c].id = client[d].id
      => c = d
Findable(k) ==
  \/ entry = k
  \/ \E d \in Clients : client[d].pc = "found" /\ client[d].conn = k
ChannelsSpent ==
  \A c \in Clients : Bridged(c) /\ Findable(client[c].conn) =>
    client[c].id <= conn[client[c].conn].nextCh

(* The hub routes a channel to the bridge that has it, and the frames of a *)
(* bridge that listens to that bridge.                                     *)
ChannelsOwn ==
  \A k \in Conns : \A i \in Ids : \A c \in Clients :
    conn[k].channels[i] = c => Bridged(c) /\ client[c].conn = k /\ client[c].id = i
Wired ==
  \A c \in Clients : Listens(c) /\ serve[client[c].conn] = "serve" =>
    conn[client[c].conn].channels[client[c].id] = c

(* Whatever is under way on a channel is of the session that its bridge    *)
(* has asked for.                                                          *)
Framed == {"snapshot", "output", "closed"}
Owned(k, i, s) == \E c \in Clients : Attached(k, i, c) /\ client[c].session = s
OnChannel(k, f) ==
  IF f.kind = "closed" THEN \E s \in Sessions : Owned(k, f.id, s)
  ELSE Owned(k, f.id, f.session)
AttachesOwned ==
  \A k \in Conns : \A p \in 1..Len(toAgent[k]) :
    toAgent[k][p].kind = "attach" => OnChannel(k, toAgent[k][p])
FramesOwned ==
  \A k \in Conns : \A p \in 1..Len(toHub[k]) :
    toHub[k][p].kind \in Framed => OnChannel(k, toHub[k][p])
TermsOwned ==
  \A i \in Ids : agent.term[i].at \in {"serves", "late"} =>
    Owned(agent.conn, i, agent.term[i].session)
SinksOwned ==
  \A c \in Clients : \A p \in 1..Len(client[c].sink) :
    client[c].sink[p].kind # "closed" => client[c].sink[p].session = client[c].session

(* What a browser that has seen nothing sees first is no output: not in    *)
(* its sink, nor in what the hub has still to route there, nor, while what *)
(* the agent sends arrives, in what it has still to send.                  *)
Waiting(c) ==
  client[c].pc = "on" /\ client[c].shown = "nothing" /\ client[c].sink = <<>>
Frame(c, p) ==
  /\ toHub[client[c].conn][p].kind \in Framed
  /\ toHub[client[c].conn][p].id = client[c].id
SinkBegins ==
  \A c \in Clients :
    client[c].pc = "on" /\ client[c].shown = "nothing" /\ client[c].sink # <<>> =>
      Head(client[c].sink).kind # "output"
QueueBegun(c) ==
  \A p \in 1..Len(toHub[client[c].conn]) :
    Frame(c, p) /\ toHub[client[c].conn][p].kind = "output" =>
      \E q \in 1..(p - 1) : Frame(c, q) /\ toHub[client[c].conn][q].kind # "output"
Sends(k, i) == agent.conn = k /\ agent.term[i].at \in {"serves", "late"}
TermBegun(c) ==
  /\ line[client[c].conn] = "up"
  /\ Sends(client[c].conn, client[c].id)
  /\ ~\E p \in 1..Len(toHub[client[c].conn]) : Frame(c, p)
  => agent.term[client[c].id].fresh
Begins == \A c \in Clients : Waiting(c) => QueueBegun(c) /\ TermBegun(c)

BridgeInv == NotYetShown /\ ChannelsApart /\ ChannelsSpent /\ ChannelsOwn /\ Wired
ChannelInv ==
  /\ BridgeInv
  /\ AttachesOwned /\ FramesOwned /\ TermsOwned /\ SinksOwned
  /\ SinkBegins /\ Begins /\ ShowsItsOwn

-----------------------------------------------------------------------------
LEMMA InitChannels == Init => ChannelInv
  <1> SUFFICES ASSUME Init PROVE ChannelInv
    OBVIOUS
  <1>1. \A c \in Clients :
          /\ client[c].pc = "idle" /\ client[c].session = None /\ client[c].id = 0
          /\ client[c].sink = <<>> /\ client[c].shown = "nothing"
    BY DEF Init, NewClient
  <1>2. \A k \in Conns : toHub[k] = <<>> /\ toAgent[k] = <<>> /\ conn[k] = NoConn
    BY DEF Init
  <1>3. \A k \in Conns : \A i \in Ids : conn[k].channels[i] = None
    <2>1. NoConn.channels = NoOne
      BY DEF NoConn, NewConn
    <2> QED
      BY <1>2, <2>1 DEF NoOne
  <1>4. \A i \in Ids : agent.term[i].at = "none"
    BY Constants DEF Init
  <1>5. BridgeInv
    BY <1>1, <1>3, NoneAssumption DEF BridgeInv, NotYetShown, ChannelsApart,
       ChannelsSpent, ChannelsOwn, Wired, Bridged, Listens
  <1>6. AttachesOwned /\ FramesOwned
    BY <1>2 DEF AttachesOwned, FramesOwned
  <1>7. TermsOwned
    BY <1>4 DEF TermsOwned
  <1>8. SinksOwned /\ SinkBegins /\ Begins /\ ShowsItsOwn
    BY <1>1 DEF SinksOwned, SinkBegins, Begins, Waiting, ShowsItsOwn
  <1> QED
    BY <1>5, <1>6, <1>7, <1>8 DEF ChannelInv

-----------------------------------------------------------------------------
(* A client in a step that opens no channel.                               *)
Steady(c) ==
  /\ Bridged(c)' <=> Bridged(c)
  /\ Bridged(c) => /\ client'[c].id = client[c].id /\ client'[c].conn = client[c].conn
                   /\ client'[c].session = client[c].session
  /\ client[c].pc \notin Before => client'[c].pc \notin Before
  /\ client'[c].pc \in Before => client'[c].sink = <<>> /\ client'[c].shown = "nothing"
  /\ client'[c].pc = "found" =>
       /\ client'[c].id = 0
       /\ \/ client[c].pc = "found" /\ client'[c].conn = client[c].conn
          \/ client'[c].conn = entry
  /\ Listens(c)' => Listens(c)

(* What such a step leaves of the records: numbers only start anew on a    *)
(* connection nobody holds, and no channel changes hands.                  *)
Settled ==
  /\ \A k \in Conns :
       /\ \/ conn'[k].nextCh = conn[k].nextCh
          \/ ~Findable(k)'
          \/ serve[k] \notin Registered
       /\ \A i \in Ids : conn'[k].channels[i] \in {None, conn[k].channels[i]}
  /\ entry' \in {0, entry} \/ (entry' \in Conns /\ serve[entry'] \notin Registered)
  /\ \A c \in Clients : Listens(c)' /\ serve'[client[c].conn] = "serve" =>
       /\ serve[client[c].conn] = "serve"
       /\ conn'[client[c].conn].channels[client[c].id] = conn[client[c].conn].channels[client[c].id]

OwnedKept == \A k, i, s : Owned(k, i, s) => Owned(k, i, s)'

(* A client that listens has a channel, and one with a channel a record    *)
(* that has been registered.                                               *)
LEMMA BridgeHolds ==
  ASSUME TypeInv, ReplyInv, NEW c \in Clients
  PROVE  /\ Listens(c) => Bridged(c)
         /\ Bridged(c) => /\ client[c].conn \in Conns /\ client[c].id \in Ids
                          /\ serve[client[c].conn] \in Registered /\ client[c].pc # "idle"
  <1>1. client[c] \in Client
    BY Types
  <1>2. Bridged(c) => client[c].pc # "idle"
    BY DEF ReplyInv, ClientInv, Roles, Role, Bridged
  <1>3. Listens(c) => Bridged(c)
    BY IdsAreNaturals DEF Listens, Bridged, TypeInv, ClientsPlaced, Numbered, ReplyInv, ClientInv,
       Roles, Role
  <1>4. Bridged(c) => client[c].conn \in Conns /\ serve[client[c].conn] \in Registered
    BY <1>2 DEF TypeInv, ClientsPlaced, ReplyInv, ClientInv, OnRegistered
  <1>5. Bridged(c) => client[c].id \in Ids
    BY <1>1 DEF Bridged, Client
  <1> QED
    BY <1>2, <1>3, <1>4, <1>5

LEMMA SteadyOwned ==
  ASSUME \A c \in Clients : Steady(c)
  PROVE  OwnedKept
  BY DEF OwnedKept, Owned, Attached, Steady

LEMMA SteadyKeeps ==
  ASSUME TypeInv, ReplyInv, BridgeInv, \A c \in Clients : Steady(c), Settled
  PROVE  BridgeInv'
  <1>1. NotYetShown'
    BY DEF NotYetShown, Steady
  <1>2. ChannelsApart'
    BY DEF ChannelsApart, BridgeInv, Steady
  <1>3. ChannelsSpent'
    <2> SUFFICES ASSUME NEW c \in Clients, Bridged(c)', Findable(client[c].conn)'
                 PROVE  client'[c].id <= conn'[client'[c].conn].nextCh
      BY DEF ChannelsSpent
    <2>1. Bridged(c) /\ client'[c].id = client[c].id
      BY DEF Steady
    <2>2. PICK k \in Conns : k = client[c].conn
      BY <2>1, BridgeHolds
    <2>3. client'[c].conn = k /\ Findable(k)'
      BY <2>1, <2>2 DEF Steady, Findable
    <2>4. serve[k] \in Registered /\ k # 0
      BY <2>1, <2>2, BridgeHolds DEF Conns
    <2>5. conn'[k].nextCh = conn[k].nextCh
      BY <2>3, <2>4 DEF Settled
    <2>6. Findable(k)
      <3>1. CASE entry' = k
        BY <2>4, <3>1 DEF Settled, Findable
      <3>2. CASE entry' # k
        BY <2>3, <3>2 DEF Steady, Findable
      <3> QED
        BY <3>1, <3>2
    <2> QED
      BY <2>1, <2>2, <2>3, <2>5, <2>6 DEF BridgeInv, ChannelsSpent
  <1>4. ChannelsOwn'
    <2> SUFFICES ASSUME NEW k \in Conns, NEW i \in Ids, NEW c \in Clients,
                        conn'[k].channels[i] = c
                 PROVE  Bridged(c)' /\ client'[c].conn = k /\ client'[c].id = i
      BY DEF ChannelsOwn
    <2>1. conn[k].channels[i] = c
      BY NoneAssumption DEF Settled
    <2> QED
      BY <2>1 DEF BridgeInv, ChannelsOwn, Steady
  <1>5. Wired'
    <2> SUFFICES ASSUME NEW c \in Clients, Listens(c)', serve'[client'[c].conn] = "serve"
                 PROVE  conn'[client'[c].conn].channels[client'[c].id] = c
      BY DEF Wired, Listens
    <2>1. Listens(c) /\ Bridged(c)
      BY BridgeHolds DEF Steady
    <2>2. client'[c].conn = client[c].conn /\ client'[c].id = client[c].id
      BY <2>1 DEF Steady
    <2> QED
      BY <2>1, <2>2 DEF BridgeInv, Wired, Settled
  <1> QED
    BY <1>1, <1>2, <1>3, <1>4, <1>5 DEF BridgeInv

-----------------------------------------------------------------------------
(* Frames.  A queue loses what it had at its head, or all of it, or a      *)
(* frame is put behind.                                                    *)
Shrinks(q, n) == n = q \/ n = <<>> \/ (q # <<>> /\ n = Tail(q))
HubFlow(f) ==
  \A k \in Conns : \/ Shrinks(toHub[k], toHub'[k])
                   \/ /\ toHub'[k] \in {Append(toHub[k], f), <<f>>}
                      /\ f.kind \in Framed => OnChannel(k, f)
AgentFlow(f) ==
  \A k \in Conns : \/ Shrinks(toAgent[k], toAgent'[k])
                   \/ /\ toAgent'[k] = Append(toAgent[k], f)
                      /\ f.kind = "attach" => OnChannel(k, f)'
TermFlow ==
  \A i \in Ids : agent'.term[i].at \in {"serves", "late"} =>
    Owned(agent'.conn, i, agent'.term[i].session)

LEMMA DrawnFrom ==
  ASSUME NEW F, NEW q \in Seq(F), NEW n, NEW f,
         Shrinks(q, n) \/ n \in {Append(q, f), <<f>>}
  PROVE  \A p \in 1..Len(n) : n[p] = f \/ \E r \in 1..Len(q) : n[p] = q[r]
  <1>1. CASE n = q \/ n = <<>>
    BY <1>1
  <1>2. CASE q # <<>> /\ n = Tail(q)
    <2>1. \A p \in 1..Len(n) : p + 1 \in 1..Len(q) /\ n[p] = q[p + 1]
      BY <1>2
    <2> QED
      BY <2>1
  <1>3. CASE n = Append(q, f)
    <2>1. \A p \in 1..Len(n) : (p \in 1..Len(q) /\ n[p] = q[p]) \/ n[p] = f
      BY <1>3
    <2> QED
      BY <2>1
  <1>4. CASE n = <<f>>
    BY <1>4
  <1> QED
    BY <1>1, <1>2, <1>3, <1>4 DEF Shrinks

LEMMA ShrunkFrom ==
  ASSUME NEW F, NEW q \in Seq(F), NEW n, Shrinks(q, n)
  PROVE  \A p \in 1..Len(n) : \E r \in 1..Len(q) : n[p] = q[r]
  <1>1. CASE n = q \/ n = <<>>
    BY <1>1
  <1>2. CASE q # <<>> /\ n = Tail(q)
    <2>1. \A p \in 1..Len(n) : p + 1 \in 1..Len(q) /\ n[p] = q[p + 1]
      BY <1>2
    <2> QED
      BY <2>1
  <1> QED
    BY <1>1, <1>2 DEF Shrinks

LEMMA OnChannelKept ==
  ASSUME OwnedKept, NEW k, NEW f, OnChannel(k, f)
  PROVE  OnChannel(k, f)'
  BY DEF OwnedKept, OnChannel

LEMMA FramesKept ==
  ASSUME TypeInv, OwnedKept, FramesOwned, NEW f, HubFlow(f)
  PROVE  FramesOwned'
  <1> SUFFICES ASSUME NEW k \in Conns, NEW p \in 1..Len(toHub'[k]),
                      toHub'[k][p].kind \in Framed
               PROVE  OnChannel(k, toHub[k][p])'
    BY DEF FramesOwned
  <1>0. PICK x : x = toHub'[k][p]
    OBVIOUS
  <1> SUFFICES OnChannel(k, x)'
    BY <1>0 DEF OnChannel
  <1>1. toHub[k] \in Seq(FromAgent)
    BY Types
  <1>2. CASE Shrinks(toHub[k], toHub'[k])
    <2>1. PICK r \in 1..Len(toHub[k]) : x = toHub[k][r]
      BY <1>0, <1>1, <1>2, ShrunkFrom
    <2>2. OnChannel(k, x)
      BY <1>0, <2>1 DEF FramesOwned
    <2> QED
      BY <2>2, OnChannelKept
  <1>3. CASE /\ toHub'[k] \in {Append(toHub[k], f), <<f>>}
             /\ f.kind \in Framed => OnChannel(k, f)
    <2>1. x = f \/ \E r \in 1..Len(toHub[k]) : x = toHub[k][r]
      BY <1>0, <1>1, <1>3, DrawnFrom
    <2>2. OnChannel(k, x)
      BY <1>0, <1>3, <2>1 DEF FramesOwned
    <2> QED
      BY <2>2, OnChannelKept
  <1> QED
    BY <1>2, <1>3 DEF HubFlow

LEMMA AttachesKept ==
  ASSUME TypeInv, OwnedKept, AttachesOwned, NEW f, AgentFlow(f)
  PROVE  AttachesOwned'
  <1> SUFFICES ASSUME NEW k \in Conns, NEW p \in 1..Len(toAgent'[k]),
                      toAgent'[k][p].kind = "attach"
               PROVE  OnChannel(k, toAgent[k][p])'
    BY DEF AttachesOwned
  <1>0. PICK x : x = toAgent'[k][p]
    OBVIOUS
  <1> SUFFICES OnChannel(k, x)'
    BY <1>0 DEF OnChannel
  <1>1. toAgent[k] \in Seq(FromHub)
    BY Types
  <1>2. CASE Shrinks(toAgent[k], toAgent'[k])
    <2>1. PICK r \in 1..Len(toAgent[k]) : x = toAgent[k][r]
      BY <1>0, <1>1, <1>2, ShrunkFrom
    <2>2. OnChannel(k, x)
      BY <1>0, <2>1 DEF AttachesOwned
    <2> QED
      BY <2>2, OnChannelKept
  <1>3. CASE /\ toAgent'[k] = Append(toAgent[k], f)
             /\ f.kind = "attach" => OnChannel(k, f)'
    <2>1. x = f \/ \E r \in 1..Len(toAgent[k]) : x = toAgent[k][r]
      BY <1>0, <1>1, <1>3, DrawnFrom
    <2>2. x # f => OnChannel(k, x)
      BY <1>0, <2>1 DEF AttachesOwned
    <2> QED
      BY <1>0, <1>3, <2>2, OnChannelKept
  <1> QED
    BY <1>2, <1>3 DEF AgentFlow

LEMMA TermsKept ==
  ASSUME OwnedKept, TermFlow
  PROVE  TermsOwned'
  BY DEF OwnedKept, TermFlow, TermsOwned, Owned, Attached, Bridged

-----------------------------------------------------------------------------
(* What a client that goes on waiting has ahead of it still begins well,   *)
(* when nothing is taken from the queue: it is as it was, or lost with its *)
(* connection, or has one more frame, which is not its first output.       *)
QueueGrows(c) ==
  LET k == client[c].conn
  IN \/ toHub'[k] = toHub[k]
     \/ toHub'[k] = <<>> /\ line'[k] # "up"
     \/ \E f : /\ toHub'[k] = Append(toHub[k], f)
               /\ \/ f.kind # "output"
                  \/ f.id # client[c].id
                  \/ \E p \in 1..Len(toHub[k]) : Frame(c, p)
TermGoesOn(c) ==
  LET k == client[c].conn
      i == client[c].id
  IN line'[k] = "up" /\ agent'.conn = k /\ agent'.term[i].at \in {"serves", "late"} =>
       \/ agent'.term[i].fresh
       \/ Sends(k, i) /\ line[k] = "up" /\ agent'.term[i].fresh = agent.term[i].fresh
       \/ \E p \in 1..Len(toHub'[k]) : Frame(c, p)'
GoesOnWaiting(c) ==
  Waiting(c)' => /\ Waiting(c)
                 /\ client'[c].conn = client[c].conn /\ client'[c].id = client[c].id

LEMMA BegunKept ==
  ASSUME TypeInv, ReplyInv, NEW c \in Clients, Waiting(c)', GoesOnWaiting(c),
         QueueBegun(c), TermBegun(c), QueueGrows(c), TermGoesOn(c)
  PROVE  QueueBegun(c)' /\ TermBegun(c)'
  <1>1. PICK k \in Conns : k = client[c].conn /\ k = client'[c].conn
    BY DEF GoesOnWaiting, Waiting, TypeInv, ClientsPlaced
  <1>2. PICK i : i = client[c].id /\ i = client'[c].id
    BY DEF GoesOnWaiting
  <1>3. toHub[k] \in Seq(FromAgent) /\ Len(toHub[k]) \in Nat
    BY Types
  <1> DEFINE Of(q, p) == q[p].kind \in Framed /\ q[p].id = i
             Good(q) == \A p \in 1..Len(q) : Of(q, p) /\ q[p].kind = "output" =>
                          \E r \in 1..(p - 1) : Of(q, r) /\ q[r].kind # "output"
             Some(q) == \E p \in 1..Len(q) : Of(q, p)
  <1>4. /\ \A p : Frame(c, p) <=> Of(toHub[k], p)
        /\ \A p : Frame(c, p)' <=> Of(toHub'[k], p)
    BY <1>1, <1>2 DEF Frame
  <1>5. /\ QueueBegun(c) <=> Good(toHub[k])
        /\ QueueBegun(c)' <=> Good(toHub'[k])
    BY <1>1, <1>4 DEF QueueBegun
  <1>6. CASE toHub'[k] = toHub[k]
    BY <1>1, <1>2, <1>4, <1>5, <1>6 DEF TermBegun, TermGoesOn, Sends
  <1>7. CASE toHub'[k] = <<>> /\ line'[k] # "up"
    BY <1>1, <1>5, <1>7 DEF TermBegun
  <1>8. ASSUME NEW f, toHub'[k] = Append(toHub[k], f),
               f.kind # "output" \/ f.id # i \/ Some(toHub[k])
        PROVE  QueueBegun(c)' /\ TermBegun(c)'
    <2>1. /\ Len(toHub'[k]) = Len(toHub[k]) + 1
          /\ \A p \in 1..Len(toHub[k]) : toHub'[k][p] = toHub[k][p]
          /\ toHub'[k][Len(toHub[k]) + 1] = f
      BY <1>3, <1>8
    <2>2. Some(toHub[k]) => Some(toHub'[k])
      BY <1>3, <2>1
    <2>3. Good(toHub'[k])
      <3> SUFFICES ASSUME NEW p \in 1..Len(toHub'[k]), Of(toHub'[k], p),
                          toHub'[k][p].kind = "output"
                   PROVE  \E r \in 1..(p - 1) : Of(toHub'[k], r) /\ toHub'[k][r].kind # "output"
        OBVIOUS
      <3>1. CASE p \in 1..Len(toHub[k])
        <4>1. PICK r \in 1..(p - 1) : Of(toHub[k], r) /\ toHub[k][r].kind # "output"
          BY <1>5, <2>1, <3>1
        <4> QED
          BY <1>3, <2>1, <3>1, <4>1
      <3>2. CASE p = Len(toHub[k]) + 1
        <4>1. PICK n \in 1..Len(toHub[k]) : Of(toHub[k], n)
          BY <1>8, <2>1, <3>2
        <4>2. \E r \in 1..Len(toHub[k]) : Of(toHub[k], r) /\ toHub[k][r].kind # "output"
          BY SMTT(30), <1>3, <1>5, <4>1
        <4> QED
          BY <1>3, <2>1, <3>2, <4>2
      <3> QED
        BY <1>3, <2>1, <3>1, <3>2
    <2> QED
      BY <1>1, <1>2, <1>4, <1>5, <2>2, <2>3 DEF TermBegun, TermGoesOn, Sends
  <1> HIDE DEF Of, Good
  <1>9. (\E p \in 1..Len(toHub[k]) : Frame(c, p)) <=> Some(toHub[k])
    BY <1>4
  <1> QED
    BY <1>1, <1>2, <1>6, <1>7, <1>8, <1>9 DEF QueueGrows

(* A client that did nothing in the step.                                  *)
LEMMA ClientIdles ==
  ASSUME UNCHANGED client
  PROVE  /\ (SinksOwned /\ SinkBegins /\ ShowsItsOwn)' <=> SinksOwned /\ SinkBegins /\ ShowsItsOwn
         /\ \A c \in Clients : GoesOnWaiting(c)
         /\ NotYetShown => \A c \in Clients : Steady(c)
  BY DEF SinksOwned, SinkBegins, ShowsItsOwn, GoesOnWaiting, Waiting, Steady, NotYetShown,
     Bridged, Before, Listens

LEMMA RecordsIdle ==
  ASSUME UNCHANGED <<client, conn, entry>>,
         \A k \in Conns : serve'[k] = "serve" => serve[k] = "serve",
         TypeInv, ReplyInv
  PROVE  Settled
  BY BridgeHolds DEF Settled, Listens

LEMMA BeginsKept ==
  ASSUME TypeInv, ReplyInv, ChannelInv, NEW c \in Clients, GoesOnWaiting(c),
         Waiting(c) => QueueGrows(c) /\ TermGoesOn(c)
  PROVE  Waiting(c)' => QueueBegun(c)' /\ TermBegun(c)'
  <1> SUFFICES ASSUME Waiting(c)' PROVE QueueBegun(c)' /\ TermBegun(c)'
    OBVIOUS
  <1>1. Waiting(c)
    BY DEF GoesOnWaiting
  <1>2. QueueBegun(c) /\ TermBegun(c) /\ QueueGrows(c) /\ TermGoesOn(c)
    BY <1>1 DEF ChannelInv, Begins
  <1> QED
    BY <1>2, BegunKept

(* A step in which no channel is opened and nobody begins to wait.         *)
LEMMA SteadyStep ==
  ASSUME TypeInv, ReplyInv, ChannelInv, Settled,
         \A c \in Clients : /\ Steady(c) /\ GoesOnWaiting(c)
                            /\ Waiting(c) => QueueGrows(c) /\ TermGoesOn(c),
         NEW f, HubFlow(f), NEW g, AgentFlow(g), TermFlow,
         SinksOwned', SinkBegins', ShowsItsOwn'
  PROVE  ChannelInv'
  <1>1. BridgeInv' /\ OwnedKept
    BY SteadyKeeps, SteadyOwned DEF ChannelInv
  <1>2. AttachesOwned' /\ FramesOwned' /\ TermsOwned'
    BY <1>1, AttachesKept, FramesKept, TermsKept DEF ChannelInv
  <1>3. Begins'
    <2>1. \A c \in Clients : Waiting(c)' => QueueBegun(c)' /\ TermBegun(c)'
      BY BeginsKept
    <2> QED
      BY <2>1 DEF Begins
  <1> QED
    BY <1>1, <1>2, <1>3 DEF ChannelInv

(* A step of the agent, of the network, or of the hub for itself.          *)
LEMMA HubSide ==
  ASSUME TypeInv, ReplyInv, ChannelInv, Settled, UNCHANGED client,
         NEW f, HubFlow(f), NEW g, AgentFlow(g), TermFlow,
         \A c \in Clients : Waiting(c) => QueueGrows(c) /\ TermGoesOn(c)
  PROVE  ChannelInv'
  <1>1. \A c \in Clients : Steady(c) /\ GoesOnWaiting(c)
    BY ClientIdles DEF ChannelInv, BridgeInv
  <1>2. SinksOwned' /\ SinkBegins' /\ ShowsItsOwn'
    BY ClientIdles DEF ChannelInv
  <1> QED
    BY <1>1, <1>2, SteadyStep

LEMMA AgentSide ==
  ASSUME TypeInv, ReplyInv, ChannelInv, UNCHANGED <<client, conn, entry>>,
         \A k \in Conns : serve'[k] = "serve" => serve[k] = "serve",
         NEW f, HubFlow(f), NEW g, AgentFlow(g), TermFlow,
         \A c \in Clients : Waiting(c) => QueueGrows(c) /\ TermGoesOn(c)
  PROVE  ChannelInv'
  BY RecordsIdle, HubSide

LEMMA FlowsSame ==
  ASSUME NEW f
  PROVE  /\ UNCHANGED toHub => HubFlow(f) /\ \A c \in Clients : QueueGrows(c)
         /\ UNCHANGED toAgent => AgentFlow(f)
         /\ ChannelInv /\ agent'.conn = agent.conn /\ agent'.term = agent.term => TermFlow
         /\ /\ agent'.conn = agent.conn /\ agent'.term = agent.term
            /\ \A k \in Conns : line'[k] = "up" => line[k] = "up"
            => \A c \in Clients : client[c].conn \in Conns => TermGoesOn(c)
  <1>1. UNCHANGED toHub => HubFlow(f) /\ \A c \in Clients : QueueGrows(c)
    BY DEF HubFlow, Shrinks, QueueGrows
  <1>2. UNCHANGED toAgent => AgentFlow(f)
    BY DEF AgentFlow, Shrinks
  <1>3. ChannelInv /\ agent'.conn = agent.conn /\ agent'.term = agent.term => TermFlow
    BY DEF TermFlow, ChannelInv, TermsOwned
  <1>4. ASSUME agent'.conn = agent.conn, agent'.term = agent.term,
               \A k \in Conns : line'[k] = "up" => line[k] = "up",
               NEW c \in Clients, client[c].conn \in Conns
        PROVE  TermGoesOn(c)
    <2>1. PICK k \in Conns : k = client[c].conn
      BY <1>4
    <2> QED
      BY <1>4, <2>1 DEF TermGoesOn, Sends
  <1> QED
    BY <1>1, <1>2, <1>3, <1>4

LEMMA WaitsSomewhere ==
  ASSUME TypeInv, ReplyInv, NEW c \in Clients, Waiting(c)
  PROVE  /\ client[c].conn \in Conns /\ client[c].id \in Ids /\ Bridged(c)
         /\ serve[client[c].conn] \in Registered
  BY BridgeHolds DEF Waiting, Listens

LEMMA AgentOffline ==
  /\ Offline.conn = 0
  /\ \A i \in Ids : Offline.term[i].at = "none" /\ ~Offline.term[i].fresh
  BY DEF Offline, NoChannels, NoChannel

LEMMA AgentEmits ==
  ASSUME TypeInv, NEW k \in Conns, NEW f, Emit(k, f)
  PROVE  /\ \A j \in Conns : toHub'[j] = toHub[j] \/ (j = k /\ toHub'[j] = Append(toHub[j], f))
         /\ line[k] = "up" => toHub'[k] = Append(toHub[k], f)
  BY DEF Emit, TypeInv, TypeOK

LEMMA AgentPollsOwn ==
  ASSUME TypeInv, ReplyInv, ChannelInv, AgentPolls
  PROVE  ChannelInv'
  <1>1. PICK k \in Conns : k = agent.conn /\ Emit(k, Listing(running))
    BY Types, BoundAssumption DEF AgentPolls, Conns
  <1>2. Listing(running).kind \notin Framed
    BY DEF Listing, Framed
  <1>3. /\ agent'.conn = agent.conn /\ agent'.term = agent.term
        /\ UNCHANGED <<line, toAgent, serve, conn, entry, client>>
    BY Types DEF AgentPolls, hub, Agent
  <1>4. HubFlow(Listing(running))
    BY <1>1, <1>2, AgentEmits DEF HubFlow, Shrinks
  <1>5. \A c \in Clients : Waiting(c) => QueueGrows(c) /\ TermGoesOn(c)
    BY <1>1, <1>2, <1>3, AgentEmits, FlowsSame, WaitsSomewhere DEF QueueGrows, Framed
  <1> QED
    BY <1>3, <1>4, <1>5, FlowsSame, AgentSide

LEMMA AgentDialsOwn ==
  ASSUME TypeInv, ReplyInv, ChannelInv, NEW k \in Conns, AgentDials(k)
  PROVE  ChannelInv'
  <1>1. /\ agent' = [Offline EXCEPT !.conn = k] /\ line[k] = "none"
        /\ line' = [line EXCEPT ![k] = "up"] /\ toHub' = [toHub EXCEPT ![k] = <<Register>>]
        /\ serve' = [serve EXCEPT ![k] = "hello"]
        /\ UNCHANGED <<toAgent, conn, entry, client>>
    BY DEF AgentDials, NextToDial
  <1>2. serve[k] = "none"
    BY <1>1 DEF ReplyInv, ClientInv, Undialled
  <1>3. \A i \in Ids : agent'.term[i].at = "none"
    BY <1>1, AgentOffline DEF Offline
  <1>4. HubFlow(Register) /\ TermFlow
    BY <1>1, <1>3 DEF HubFlow, TermFlow, Shrinks, Register, Framed, TypeInv, TypeOK
  <1>5. \A c \in Clients : Waiting(c) => QueueGrows(c) /\ TermGoesOn(c)
    <2> SUFFICES ASSUME NEW c \in Clients, Waiting(c) PROVE QueueGrows(c) /\ TermGoesOn(c)
      OBVIOUS
    <2>1. client[c].conn \in Conns /\ client[c].conn # k /\ client[c].id \in Ids
      BY <1>2, WaitsSomewhere DEF Registered
    <2> QED
      BY <1>1, <1>3, <2>1 DEF QueueGrows, TermGoesOn, Sends, TypeInv, TypeOK
  <1>6. \A j \in Conns : serve'[j] = "serve" => serve[j] = "serve"
    BY <1>1 DEF TypeInv, TypeOK
  <1> QED
    BY <1>1, <1>4, <1>5, <1>6, FlowsSame, AgentSide

LEMMA AgentLeavesOwn ==
  ASSUME TypeInv, ReplyInv, ChannelInv,
         \/ AgentNotices
         \/ \E how \in {"cut", "closed"} : AgentStops(how)
         \/ \E k \in Conns : LineCut(k)
         \/ \E S \in SUBSET Sessions : SessionsChange(S)
  PROVE  ChannelInv'
  <1>1. /\ UNCHANGED <<serve, conn, entry, client>>
        /\ agent' \in {agent, Offline}
    BY DEF AgentNotices, AgentStops, LineCut, SessionsChange, hub
  <1>2. PICK k \in Conns : \A j \in Conns :
          /\ toHub'[j] = toHub[j] \/ (toHub'[j] = <<>> /\ line'[j] # "up")
          /\ toAgent'[j] \in {toAgent[j], <<>>}
          /\ line'[j] = "up" => line[j] = "up"
    <2>1. 1 \in Conns
      BY BoundAssumption DEF Conns
    <2>2. agent.conn # 0 => agent.conn \in Conns
      BY Types, BoundAssumption DEF Conns
    <2> QED
      BY <2>1, <2>2 DEF AgentNotices, AgentStops, LineCut, SessionsChange, Lost, net, TypeInv, TypeOK
  <1>3. HubFlow(Register) /\ AgentFlow(Register)
    BY <1>2 DEF HubFlow, AgentFlow, Shrinks
  <1>4. TermFlow
    BY <1>1, AgentOffline DEF TermFlow, ChannelInv, TermsOwned
  <1>5. \A c \in Clients : Waiting(c) => QueueGrows(c) /\ TermGoesOn(c)
    BY <1>1, <1>2, AgentOffline, WaitsSomewhere DEF QueueGrows, TermGoesOn, Sends
  <1> QED
    BY <1>1, <1>3, <1>4, <1>5, AgentSide

(* What a step sends for channel i is that channel's, and a browser that   *)
(* waits for output has had the snapshot sent, or all lost.                *)
LEMMA ChannelStepOwn ==
  ASSUME TypeInv, ReplyInv, ChannelInv, NEW i \in Ids, ChannelStep(i)
  PROVE  ChannelInv'
  <1> USE DEF ChannelStep
  <1>1. /\ UNCHANGED <<line, toAgent, serve, conn, entry, client>>
        /\ agent'.conn = agent.conn
        /\ \A j \in Ids : j # i => agent'.term[j] = agent.term[j]
        /\ agent.term[i].at \in {"serves", "late"}
    BY Types DEF ChannelPaints, ChannelCloses, ChannelEnds, hub, net, Agent
  <1>2. PICK k \in Conns : k = agent.conn
    BY <1>1 DEF TypeInv, ChannelsPlaced
  <1>3. Owned(k, i, agent.term[i].session) /\ agent.term[i].session \in Sessions
    BY <1>1, <1>2 DEF ChannelInv, TermsOwned, TypeInv, ChannelsPlaced
  <1>4. CASE ChannelPaints(i)
    <2>1. PICK f : /\ f.kind = (IF agent.term[i].fresh THEN "snapshot" ELSE "output")
                   /\ f.id = i /\ f.session = agent.term[i].session
                   /\ Emit(k, f)
      <3>1. PICK f : f = Paint(IF agent.term[i].fresh THEN "snapshot" ELSE "output", i,
                               agent.term[i].session)
        OBVIOUS
      <3>2. Emit(k, f)
        BY <1>2, <1>4, <3>1 DEF ChannelPaints
      <3> QED
        BY <3>1, <3>2 DEF Paint
    <2>2. OnChannel(k, f)
      BY <1>3, <2>1 DEF OnChannel
    <2>3. HubFlow(f)
      BY <2>1, <2>2, AgentEmits DEF HubFlow, Shrinks
    <2>4. /\ agent'.term[i].at = agent.term[i].at
          /\ agent'.term[i].session = agent.term[i].session
          /\ \A j \in Ids : j # i => agent'.term[j] = agent.term[j]
      BY <1>4, Types DEF ChannelPaints, Agent, Channel
    <2>5. TermFlow
      BY <1>1, <2>4 DEF TermFlow, ChannelInv, TermsOwned
    <2>6. ASSUME NEW c \in Clients, Waiting(c) PROVE QueueGrows(c) /\ TermGoesOn(c)
      <3>1. client[c].conn \in Conns /\ client[c].id \in Ids /\ QueueBegun(c) /\ TermBegun(c)
        BY <2>6, WaitsSomewhere DEF ChannelInv, Begins
      <3>2. CASE client[c].conn # k \/ client[c].id # i
        BY <1>1, <1>2, <2>1, <2>4, <3>1, <3>2, AgentEmits DEF QueueGrows, TermGoesOn, Sends
      <3>3. CASE client[c].conn = k /\ client[c].id = i /\ line[k] # "up"
        BY <1>1, <2>1, <3>3 DEF QueueGrows, TermGoesOn, Emit
      <3>4. CASE client[c].conn = k /\ client[c].id = i /\ line[k] = "up"
        <4>1. toHub'[k] = Append(toHub[k], f)
          BY <2>1, <3>4, AgentEmits
        <4>2. f.kind # "output" \/ \E p \in 1..Len(toHub[k]) : Frame(c, p)
          BY <1>1, <1>2, <2>1, <3>1, <3>4 DEF TermBegun, Sends
        <4>3. \E p \in 1..Len(toHub'[k]) : Frame(c, p)'
          <5>1. toHub[k] \in Seq(FromAgent) /\ Len(toHub[k]) \in Nat
            BY Types
          <5>2. toHub'[k][Len(toHub[k]) + 1] = f /\ Len(toHub[k]) + 1 \in 1..Len(toHub'[k])
            BY <4>1, <5>1
          <5>3. f.kind \in Framed
            BY <2>1 DEF Framed
          <5> QED
            BY <1>1, <2>1, <3>4, <5>2, <5>3 DEF Frame
        <4> QED
          BY <3>4, <4>1, <4>2, <4>3 DEF QueueGrows, TermGoesOn
      <3> QED
        BY <3>2, <3>3, <3>4
    <2> QED
      BY <1>1, <2>3, <2>5, <2>6, FlowsSame, AgentSide
  <1>5. CASE ChannelCloses(i)
    <2>1. PICK f : f.kind = "closed" /\ f.id = i /\ Emit(k, f)
      <3>1. PICK f : f = Closed(i)
        OBVIOUS
      <3> QED
        BY <1>2, <1>5, <3>1 DEF ChannelCloses, Closed
    <2>2. OnChannel(k, f)
      BY <1>3, <2>1 DEF OnChannel
    <2>3. HubFlow(f)
      BY <2>1, <2>2, AgentEmits DEF HubFlow, Shrinks
    <2>4. agent'.term[i].at \in {"serves", "late"} => FALSE
      BY <1>5, Types DEF ChannelCloses, Agent, Channel, NoChannel
    <2>5. TermFlow
      BY <1>1, <2>4 DEF TermFlow, ChannelInv, TermsOwned
    <2>6. ASSUME NEW c \in Clients, Waiting(c) PROVE QueueGrows(c) /\ TermGoesOn(c)
      <3>1. client[c].conn \in Conns /\ client[c].id \in Ids
        BY <2>6, WaitsSomewhere
      <3> QED
        BY <1>1, <2>1, <2>4, <3>1, AgentEmits DEF QueueGrows, TermGoesOn, Sends
    <2> QED
      BY <1>1, <2>3, <2>5, <2>6, FlowsSame, AgentSide
  <1>6. CASE ChannelEnds(i)
    <2>1. UNCHANGED toHub /\ agent'.term[i].at = "none"
      BY <1>6, Types DEF ChannelEnds, net, Agent, NoChannel
    <2>2. TermFlow
      BY <1>1, <2>1 DEF TermFlow, ChannelInv, TermsOwned
    <2>3. \A c \in Clients : Waiting(c) => QueueGrows(c) /\ TermGoesOn(c)
      BY <1>1, <2>1, WaitsSomewhere DEF QueueGrows, TermGoesOn, Sends
    <2> QED
      BY <1>1, <2>1, <2>2, <2>3, FlowsSame, AgentSide
  <1> QED
    BY <1>4, <1>5, <1>6

LEMMA AgentReadsOwn ==
  ASSUME TypeInv, ReplyInv, ChannelInv, AgentReads
  PROVE  ChannelInv'
  <1>0. agent.conn # 0 /\ toAgent[agent.conn] # <<>>
    BY DEF AgentReads
  <1>1. PICK k \in Conns : k = agent.conn
    BY <1>0, Types, BoundAssumption DEF Conns
  <1>2. PICK f : f = Head(toAgent[k])
    OBVIOUS
  <1>3. /\ toAgent[k] \in Seq(FromHub) /\ toAgent[k] # <<>> /\ f \in FromHub
        /\ f = toAgent[k][1] /\ 1 \in 1..Len(toAgent[k])
    <2>1. toAgent[k] \in Seq(FromHub)
      BY Types
    <2> QED
      BY <1>0, <1>1, <1>2, <2>1
  <1>4. f.id \in Ids /\ (f.kind = "attach" => f.session \in Sessions)
    BY <1>3 DEF FromHub
  <1>5. /\ UNCHANGED <<line, serve, conn, entry, client>>
        /\ toAgent' = [toAgent EXCEPT ![k] = Tail(@)]
    BY <1>1 DEF AgentReads, hub
  <1>6. AgentFlow(f)
    BY <1>3, <1>5 DEF AgentFlow, Shrinks, TypeInv, TypeOK
  <1>7. f.kind = "attach" => Owned(k, f.id, f.session)
    BY <1>3 DEF ChannelInv, AttachesOwned, OnChannel
  <1>8. CASE /\ f.kind = "attach" /\ UNCHANGED toHub
             /\ agent' = [agent EXCEPT !.term[f.id] =
                  [session |-> f.session, at |-> "serves", fresh |-> TRUE]]
    <2>1. /\ agent'.conn = agent.conn
          /\ agent'.term[f.id] = [session |-> f.session, at |-> "serves", fresh |-> TRUE]
          /\ \A j \in Ids : j # f.id => agent'.term[j] = agent.term[j]
      BY <1>4, <1>8, Types DEF Agent
    <2>2. TermFlow
      BY <1>1, <1>7, <1>8, <2>1 DEF TermFlow, ChannelInv, TermsOwned
    <2>3. \A j \in Ids : \/ agent'.term[j] = agent.term[j]
                         \/ agent'.term[j].fresh
      BY <2>1
    <2>4. \A c \in Clients : Waiting(c) => QueueGrows(c) /\ TermGoesOn(c)
      BY <1>5, <1>8, <2>1, <2>3, WaitsSomewhere DEF QueueGrows, TermGoesOn, Sends
    <2> QED
      BY <1>5, <1>6, <1>8, <2>2, <2>4, FlowsSame, AgentSide
  <1>9. ASSUME UNCHANGED agent, NEW g, Emit(k, g), g.kind # "output",
               g.kind \in Framed => OnChannel(k, g)
        PROVE  ChannelInv'
    <2>1. HubFlow(g)
      BY <1>9, AgentEmits DEF HubFlow, Shrinks
    <2>2. \A c \in Clients : Waiting(c) => QueueGrows(c) /\ TermGoesOn(c)
      BY <1>5, <1>9, AgentEmits, WaitsSomewhere DEF QueueGrows, TermGoesOn, Sends
    <2> QED
      BY <1>5, <1>6, <1>9, <2>1, <2>2, FlowsSame, AgentSide
  <1>10. CASE f.kind = "attach" /\ Emit(k, Closed(f.id)) /\ UNCHANGED agent
    <2>1. Closed(f.id).kind = "closed" /\ Closed(f.id).id = f.id
      BY DEF Closed
    <2>2. OnChannel(k, Closed(f.id))
      BY <1>4, <1>7, <1>10, <2>1 DEF OnChannel
    <2> QED
      BY <1>9, <1>10, <2>1, <2>2
  <1>11. CASE /\ f.kind = "detach" /\ UNCHANGED toHub
              /\ agent' = [agent EXCEPT !.term[f.id] =
                   IF @.at = "serves" THEN [@ EXCEPT !.at = "late"] ELSE NoChannel]
    <2>1. /\ agent'.conn = agent.conn
          /\ agent'.term[f.id] = IF agent.term[f.id].at = "serves"
                                 THEN [agent.term[f.id] EXCEPT !.at = "late"] ELSE NoChannel
          /\ \A j \in Ids : j # f.id => agent'.term[j] = agent.term[j]
      BY <1>4, <1>11, Types DEF Agent
    <2>2. \A j \in Ids : agent'.term[j].at \in {"serves", "late"} =>
            /\ agent.term[j].at \in {"serves", "late"}
            /\ agent'.term[j].session = agent.term[j].session
            /\ agent'.term[j].fresh = agent.term[j].fresh
      BY <1>4, <2>1, Types DEF Agent, Channel, NoChannel
    <2>3. TermFlow
      BY <2>1, <2>2 DEF TermFlow, ChannelInv, TermsOwned
    <2>4. \A c \in Clients : Waiting(c) => QueueGrows(c) /\ TermGoesOn(c)
      BY <1>5, <1>11, <2>1, <2>2, WaitsSomewhere DEF QueueGrows, TermGoesOn, Sends
    <2> QED
      BY <1>5, <1>6, <1>11, <2>1, <2>3, <2>4, FlowsSame, AgentSide
  <1>12. CASE f.kind = "command" /\ Emit(k, Reply(f.id, f.by)) /\ UNCHANGED agent
    <2>1. Reply(f.id, f.by).kind \notin Framed
      BY DEF Reply, Framed
    <2> QED
      BY <1>9, <1>12, <2>1 DEF Framed
  <1> QED
    BY <1>1, <1>2, <1>8, <1>10, <1>11, <1>12 DEF AgentReads

-----------------------------------------------------------------------------
(* The hub before a connection is registered: nobody holds it yet.         *)
LEMMA HubWaitsOwn ==
  ASSUME TypeInv, ReplyInv, ChannelInv, NEW k \in Conns,
         HubReadsRegister(k) \/ HubHearsNothing(k) \/ HubResolves(k) \/ HubRegisters(k)
  PROVE  ChannelInv'
  <1>1. /\ UNCHANGED <<agent, line, toAgent, client>>
        /\ serve[k] \notin Registered
        /\ \A j \in Conns : j # k => /\ toHub'[j] = toHub[j] /\ serve'[j] = serve[j]
                                     /\ conn'[j] = conn[j]
        /\ Shrinks(toHub[k], toHub'[k])
    BY DEF HubReadsRegister, HubHearsNothing, HubResolves, HubRegisters, net, TypeInv, TypeOK,
       Registered, Shrinks
  <1>2. HubFlow(Register)
    BY <1>1 DEF HubFlow, Shrinks
  <1>3. \A c \in Clients : Waiting(c) => QueueGrows(c) /\ TermGoesOn(c)
    <2> SUFFICES ASSUME NEW c \in Clients, Waiting(c) PROVE QueueGrows(c) /\ TermGoesOn(c)
      OBVIOUS
    <2>1. client[c].conn \in Conns /\ client[c].conn # k
      BY <1>1, WaitsSomewhere
    <2> QED
      BY <1>1, <2>1, FlowsSame DEF QueueGrows
  <1>4. Settled
    <2>1. entry' = entry \/ entry' = k
      BY DEF HubReadsRegister, HubHearsNothing, HubResolves, HubRegisters
    <2>2. \A i \in Ids : conn'[k].channels[i] \in {None, conn[k].channels[i]}
      <3>1. CASE HubRegisters(k)
        <4>1. \E S : conn'[k] = NewConn(S)
          BY <3>1 DEF HubRegisters, TypeInv, TypeOK
        <4> QED
          BY <4>1 DEF NewConn, NoOne
      <3>2. CASE UNCHANGED conn
        BY <3>2
      <3> QED
        BY <3>1, <3>2 DEF HubReadsRegister, HubHearsNothing, HubResolves, HubRegisters
    <2>3. \A c \in Clients : Listens(c)' => client[c].conn \in Conns /\ client[c].conn # k
      BY <1>1, BridgeHolds DEF Listens
    <2> QED
      BY <1>1, <2>1, <2>2, <2>3 DEF Settled
  <1> QED
    BY <1>1, <1>2, <1>3, <1>4, FlowsSame, HubSide

LEMMA HubEndsOwn ==
  ASSUME TypeInv, ReplyInv, ChannelInv, NEW k \in Conns,
         WriterFails(k) \/ HubGoesOffline(k) \/ HubAborts(k)
  PROVE  ChannelInv'
  <1>1. /\ UNCHANGED <<agent, line, toAgent, entry, client>>
        /\ \A j \in Conns :
             /\ conn'[j].nextCh = conn[j].nextCh
             /\ \A i \in Ids : conn'[j].channels[i] \in {None, conn[j].channels[i]}
             /\ serve'[j] = "serve" => /\ serve[j] = "serve"
                                       /\ conn'[j].channels = conn[j].channels
             /\ \/ toHub'[j] = toHub[j]
                \/ toHub'[j] = <<>> /\ line'[j] # "up"
    <2>1. \A j \in Conns : j # k => /\ conn'[j] = conn[j] /\ serve'[j] = serve[j]
                                    /\ toHub'[j] = toHub[j]
      BY DEF WriterFails, HubGoesOffline, HubAborts, net, TypeInv, TypeOK
    <2>2. UNCHANGED <<agent, line, toAgent, entry, client>>
      BY DEF WriterFails, HubGoesOffline, HubAborts, net
    <2>3. /\ conn'[k].nextCh = conn[k].nextCh
          /\ conn'[k].channels \in {NoOne, conn[k].channels}
      BY Types DEF WriterFails, HubGoesOffline, HubAborts, TypeInv, TypeOK, Conn
    <2>4. serve'[k] = "serve" => serve[k] = "serve" /\ conn'[k].channels = conn[k].channels
      BY Types DEF WriterFails, HubGoesOffline, HubAborts, TypeInv, TypeOK, Conn
    <2>5. toHub'[k] = toHub[k] \/ (toHub'[k] = <<>> /\ line'[k] # "up")
      <3>1. CASE HubGoesOffline(k)
        BY <3>1 DEF HubGoesOffline, TypeInv, TypeOK
      <3>2. CASE UNCHANGED toHub
        BY <3>2
      <3> QED
        BY <3>1, <3>2 DEF WriterFails, HubAborts, net
    <2> QED
      BY <2>1, <2>2, <2>3, <2>4, <2>5 DEF NoOne
  <1>2. HubFlow(Register)
    BY <1>1 DEF HubFlow, Shrinks
  <1>3. \A c \in Clients : Waiting(c) => QueueGrows(c) /\ TermGoesOn(c)
    BY <1>1, FlowsSame, WaitsSomewhere DEF QueueGrows
  <1>4. Settled
    <2>1. \A c \in Clients : Listens(c)' => client[c].conn \in Conns
      BY <1>1, BridgeHolds DEF Listens
    <2> QED
      BY <1>1, <2>1 DEF Settled
  <1> QED
    BY <1>1, <1>2, <1>3, <1>4, FlowsSame, HubSide

LEMMA HubRestartsOwn ==
  ASSUME TypeInv, ReplyInv, ChannelInv, HubRestarts
  PROVE  ChannelInv'
  <1>1. /\ UNCHANGED <<agent, toAgent>> /\ entry' = 0
        /\ \A j \in Conns : toHub'[j] = <<>> /\ conn'[j] = NoConn
        /\ \A j \in Conns : line'[j] = "up" => line[j] = "up"
    BY DEF HubRestarts
  <1>2. \A c \in Clients :
          \/ client[c].pc = "idle" /\ client'[c] = client[c]
          \/ /\ client[c].pc # "idle" /\ client'[c].pc = "over" /\ client'[c].sink = <<>>
             /\ client'[c].conn = client[c].conn /\ client'[c].id = client[c].id
             /\ client'[c].session = client[c].session /\ client'[c].shown = client[c].shown
    BY Types DEF HubRestarts, Client
  <1>3. \A c \in Clients : Steady(c)
    BY <1>2 DEF Steady, Bridged, Before, Listens, ChannelInv, BridgeInv, NotYetShown
  <1>4. \A c \in Clients : ~Waiting(c)' /\ ~Listens(c)' /\ client'[c].pc # "found"
    BY <1>2 DEF Waiting, Listens
  <1>5. Settled
    <2>1. \A k \in Conns : ~Findable(k)'
      BY <1>1, <1>4 DEF Findable, Conns
    <2>2. \A k \in Conns : \A i \in Ids : conn'[k].channels[i] = None
      <3>1. NoConn.channels = NoOne
        BY DEF NoConn, NewConn
      <3> QED
        BY <1>1, <3>1 DEF NoOne
    <2> QED
      BY <1>1, <1>4, <2>1, <2>2 DEF Settled
  <1>6. BridgeInv' /\ OwnedKept
    BY <1>3, <1>5, SteadyKeeps, SteadyOwned DEF ChannelInv
  <1>7. HubFlow(Register)
    BY <1>1 DEF HubFlow, Shrinks
  <1>8. AttachesOwned' /\ FramesOwned' /\ TermsOwned'
    BY <1>1, <1>6, <1>7, FlowsSame, AttachesKept, FramesKept, TermsKept DEF ChannelInv
  <1>9. SinksOwned' /\ SinkBegins' /\ ShowsItsOwn' /\ Begins'
    BY <1>2, <1>4 DEF SinksOwned, SinkBegins, ShowsItsOwn, Begins, ChannelInv
  <1> QED
    BY <1>6, <1>8, <1>9 DEF ChannelInv

-----------------------------------------------------------------------------
(* A frame of another channel is taken from the queue.                     *)
LEMMA TailBegun ==
  ASSUME TypeInv, ReplyInv, NEW c \in Clients, Waiting(c)', GoesOnWaiting(c),
         QueueBegun(c), TermBegun(c), UNCHANGED <<line, agent>>,
         toHub[client[c].conn] # <<>>,
         toHub'[client[c].conn] = Tail(toHub[client[c].conn]), ~Frame(c, 1)
  PROVE  QueueBegun(c)' /\ TermBegun(c)'
  <1>1. PICK k \in Conns : k = client[c].conn /\ k = client'[c].conn
    BY DEF GoesOnWaiting, Waiting, TypeInv, ClientsPlaced
  <1>2. PICK i : i = client[c].id /\ i = client'[c].id
    BY DEF GoesOnWaiting
  <1>3. PICK q, n : q = toHub[k] /\ n = toHub'[k]
    OBVIOUS
  <1>4. q \in Seq(FromAgent) /\ q # <<>> /\ n = Tail(q)
    BY <1>1, <1>3, Types
  <1>5. /\ Len(q) \in Nat /\ Len(n) = Len(q) - 1
        /\ \A p \in 1..Len(n) : p + 1 \in 1..Len(q) /\ n[p] = q[p + 1]
    BY <1>4
  <1> DEFINE Of(x, p) == x[p].kind \in Framed /\ x[p].id = i
  <1>6. /\ \A p : Frame(c, p) <=> Of(q, p)
        /\ \A p : Frame(c, p)' <=> Of(n, p)
        /\ ~Of(q, 1)
    BY <1>1, <1>2, <1>3 DEF Frame
  <1>7. \A p \in 1..Len(q) : Of(q, p) =>
          p - 1 \in 1..Len(n) /\ Of(n, p - 1) /\ n[p - 1] = q[p]
    <2> SUFFICES ASSUME NEW p \in 1..Len(q), Of(q, p)
                 PROVE  p - 1 \in 1..Len(n) /\ Of(n, p - 1) /\ n[p - 1] = q[p]
      OBVIOUS
    <2>1. p # 1
      BY <1>6
    <2>2. p - 1 \in 1..Len(n)
      BY <1>5, <2>1
    <2>3. n[p - 1] = q[(p - 1) + 1] /\ (p - 1) + 1 = p
      BY <1>5, <2>2
    <2> QED
      BY <2>2, <2>3
  <1>8. QueueBegun(c)'
    <2> SUFFICES ASSUME NEW p \in 1..Len(n), Of(n, p), n[p].kind = "output"
                 PROVE  \E r \in 1..(p - 1) : Of(n, r) /\ n[r].kind # "output"
      BY <1>1, <1>3, <1>6 DEF QueueBegun
    <2>1. p + 1 \in 1..Len(q) /\ Of(q, p + 1) /\ q[p + 1].kind = "output"
      BY <1>5
    <2>2. PICK r \in 1..p : Of(q, r) /\ q[r].kind # "output"
      BY <1>1, <1>3, <1>6, <2>1 DEF QueueBegun
    <2>3. r \in 1..Len(q)
      BY <1>5, <2>1
    <2>4. r - 1 \in 1..Len(n) /\ Of(n, r - 1) /\ n[r - 1].kind # "output"
      BY <1>7, <2>2, <2>3
    <2>5. r - 1 \in 1..(p - 1)
      BY <2>4, <1>5
    <2> QED
      BY <2>4, <2>5
  <1>9. TermBegun(c)'
    <2>1. (\E p \in 1..Len(q) : Of(q, p)) => \E p \in 1..Len(n) : Of(n, p)
      BY <1>7
    <2>2. (\E p \in 1..Len(toHub[k]) : Frame(c, p)) => \E p \in 1..Len(toHub'[k]) : Frame(c, p)'
      BY <1>3, <1>6, <2>1
    <2> QED
      BY <1>1, <1>2, <2>2 DEF TermBegun, Sends
  <1> QED
    BY <1>8, <1>9

LEMMA HubReadsOwn ==
  ASSUME TypeInv, ReplyInv, ChannelInv, NEW k \in Conns, HubReads(k)
  PROVE  ChannelInv'
  <1>1. PICK f : f = Head(toHub[k])
    OBVIOUS
  <1>2. /\ serve[k] = "serve" /\ toHub[k] # <<>>
        /\ toHub' = [toHub EXCEPT ![k] = Tail(@)]
        /\ UNCHANGED <<agent, line, toAgent, serve, entry>>
    BY DEF HubReads
  <1>3. f \in FromAgent /\ f = toHub[k][1] /\ 1 \in 1..Len(toHub[k])
    <2>1. toHub[k] \in Seq(FromAgent)
      BY Types
    <2> QED
      BY <1>1, <1>2, <2>1
  <1>4. \/ f.kind = "sessions" /\ UNCHANGED client /\ conn' = [conn EXCEPT ![k].list = f.list]
        \/ f.kind \in Framed /\ Routes(k, f) /\ UNCHANGED conn
        \/ f.kind = "reply" /\ Resolves(k, f)
    BY <1>1 DEF HubReads, Framed
  <1>5. \A j \in Conns : /\ conn'[j].nextCh = conn[j].nextCh
                         /\ conn'[j].channels = conn[j].channels
    <2>1. CASE conn' = [conn EXCEPT ![k].list = f.list]
      BY <2>1, Types DEF Conn, TypeInv, TypeOK
    <2>2. CASE conn' = [conn EXCEPT ![k].pending[f.id] = None]
      BY <2>2, Types DEF Conn, TypeInv, TypeOK
    <2> QED
      BY <1>4, <2>1, <2>2 DEF Resolves
  <1>6. \A c \in Clients :
          \/ client'[c] = client[c]
          \/ /\ client[c].pc = "waits" /\ client'[c].pc = "over"
             /\ client'[c].conn = client[c].conn /\ client'[c].id = client[c].id
             /\ client'[c].session = client[c].session /\ client'[c].sink = client[c].sink
             /\ client'[c].shown = client[c].shown
          \/ /\ f.kind \in Framed /\ conn[k].channels[f.id] = c /\ Listens(c)
             /\ client'[c] = [client[c] EXCEPT !.sink = Append(@, f)]
    <2>1. CASE f.kind \in Framed /\ Routes(k, f)
      BY <2>1 DEF Routes, TypeInv, TypeOK
    <2>2. CASE Resolves(k, f)
      <3>1. PICK d : d = conn[k].pending[f.id]
        OBVIOUS
      <3>2. \/ UNCHANGED client
            \/ /\ client[d].pc = "waits"
               /\ client' = [client EXCEPT ![d].pc = "over", ![d].answer = "ok", ![d].by = f.by]
        BY <2>2, <3>1 DEF Resolves
      <3>3. ASSUME NEW c \in Clients, c = d, client[d].pc = "waits",
                   client' = [client EXCEPT ![d].pc = "over", ![d].answer = "ok", ![d].by = f.by]
            PROVE  /\ client'[c].pc = "over"
                   /\ client'[c].conn = client[c].conn /\ client'[c].id = client[c].id
                   /\ client'[c].session = client[c].session /\ client'[c].sink = client[c].sink
                   /\ client'[c].shown = client[c].shown
        BY <3>3, Types DEF TypeInv, TypeOK, Client
      <3>4. ASSUME NEW c \in Clients, c # d,
                   client' = [client EXCEPT ![d].pc = "over", ![d].answer = "ok", ![d].by = f.by]
            PROVE  client'[c] = client[c]
        BY <3>4 DEF TypeInv, TypeOK
      <3> QED
        BY <3>2, <3>3, <3>4
    <2> QED
      BY <1>4, <2>1, <2>2
  (* The bridge a frame is routed to is the one it is for.                 *)
  <1>7. ASSUME NEW c \in Clients, f.kind \in Framed, conn[k].channels[f.id] = c
        PROVE  /\ client[c].pc \notin Before
               /\ client[c].conn = k /\ client[c].id = f.id
               /\ f.kind # "closed" => f.session = client[c].session
    <2>1. f.id \in Ids
      BY <1>3, <1>7 DEF FromAgent, Framed, Paints, Closes, Register
    <2>2. Bridged(c) /\ client[c].conn = k /\ client[c].id = f.id
      BY <1>7, <2>1 DEF ChannelInv, BridgeInv, ChannelsOwn
    <2>3. OnChannel(k, f)
      BY <1>3, <1>7 DEF ChannelInv, FramesOwned
    <2>4. PICK d \in Clients : Attached(k, f.id, d) /\ (f.kind # "closed" => f.session = client[d].session)
      BY <2>3 DEF OnChannel, Owned
    <2>5. c = d
      BY <2>2, <2>4 DEF Attached, ChannelInv, BridgeInv, ChannelsApart
    <2> QED
      BY <2>2, <2>4, <2>5 DEF Attached
  <1>8. \A c \in Clients : Steady(c) /\ GoesOnWaiting(c)
    <2> SUFFICES ASSUME NEW c \in Clients PROVE Steady(c) /\ GoesOnWaiting(c)
      OBVIOUS
    <2>0. client[c] \in Client
      BY Types
    <2>1. CASE client'[c] = client[c]
      BY <2>1 DEF Steady, GoesOnWaiting, Bridged, Before, Listens, Waiting, ChannelInv, BridgeInv,
         NotYetShown
    <2>2. CASE client[c].pc = "waits" /\ client'[c].pc = "over"
      BY <1>6, <2>2 DEF Steady, GoesOnWaiting, Bridged, Before, Listens, Waiting
    <2>3. CASE /\ f.kind \in Framed /\ conn[k].channels[f.id] = c /\ Listens(c)
               /\ client'[c] = [client[c] EXCEPT !.sink = Append(@, f)]
      <3>1. client'[c].sink # <<>> /\ client'[c].pc = client[c].pc
            /\ client'[c].conn = client[c].conn /\ client'[c].id = client[c].id
            /\ client'[c].session = client[c].session
        BY <2>0, <2>3 DEF Client
      <3> QED
        BY <1>7, <2>3, <3>1 DEF Steady, GoesOnWaiting, Bridged, Before, Listens, Waiting
    <2> QED
      BY <1>6, <2>1, <2>2, <2>3
  <1>9. Settled
    <2>1. \A c \in Clients : Listens(c)' => client[c].conn \in Conns
      BY <1>8, BridgeHolds DEF Steady
    <2> QED
      BY <1>2, <1>5, <2>1 DEF Settled
  <1>10. BridgeInv' /\ OwnedKept
    BY <1>8, <1>9, SteadyKeeps, SteadyOwned DEF ChannelInv
  <1>11. HubFlow(Register)
    BY <1>2 DEF HubFlow, Shrinks, TypeInv, TypeOK
  <1>12. AttachesOwned' /\ FramesOwned' /\ TermsOwned'
    BY <1>2, <1>10, <1>11, FlowsSame, AttachesKept, FramesKept, TermsKept DEF ChannelInv
  <1>13. Begins'
    <2> SUFFICES ASSUME NEW c \in Clients, Waiting(c)' PROVE QueueBegun(c)' /\ TermBegun(c)'
      BY DEF Begins
    <2>1. Waiting(c) /\ GoesOnWaiting(c) /\ client[c].conn \in Conns /\ client[c].id \in Ids
      BY <1>8, WaitsSomewhere DEF GoesOnWaiting
    <2>2. QueueBegun(c) /\ TermBegun(c)
      BY <2>1 DEF ChannelInv, Begins
    <2>3. CASE client[c].conn # k
      <3>1. QueueGrows(c) /\ TermGoesOn(c)
        BY <1>2, <2>1, <2>3, FlowsSame DEF QueueGrows, TypeInv, TypeOK
      <3> QED
        BY <2>1, <2>2, <3>1, BegunKept
    <2>4. CASE client[c].conn = k
      <3>1. ~Frame(c, 1)
        <4> SUFFICES ASSUME Frame(c, 1) PROVE FALSE
          OBVIOUS
        <4>1. f.kind \in Framed /\ f.id = client[c].id
          BY <1>3, <2>4 DEF Frame
        <4>2. Listens(c)
          BY <2>1 DEF Waiting, Listens
        <4>3. conn[k].channels[f.id] = c
          BY <1>2, <2>4, <4>1, <4>2 DEF ChannelInv, BridgeInv, Wired
        <4>4. Routes(k, f)
          BY <1>4, <4>1 DEF Framed
        <4>5. client'[c].sink = Append(client[c].sink, f)
          BY <4>2, <4>3, <4>4, NoneAssumption, Types DEF Routes, TypeInv, TypeOK, Client
        <4>6. client[c].sink \in Seq(Paints \cup Closes)
          BY Types DEF Client
        <4> QED
          BY <4>5, <4>6 DEF Waiting
      <3>2. /\ toHub[client[c].conn] # <<>>
            /\ toHub'[client[c].conn] = Tail(toHub[client[c].conn])
        BY <1>2, <2>4 DEF TypeInv, TypeOK
      <3> QED
        BY <1>2, <2>1, <2>2, <3>1, <3>2, TailBegun
    <2> QED
      BY <2>3, <2>4
  <1>14. SinksOwned'
    <2> SUFFICES ASSUME NEW c \in Clients, NEW p \in 1..Len(client'[c].sink),
                        client'[c].sink[p].kind # "closed"
                 PROVE  client'[c].sink[p].session = client'[c].session
      BY DEF SinksOwned
    <2>0. client[c] \in Client /\ client[c].sink \in Seq(Paints \cup Closes)
      BY Types DEF Client
    <2>1. CASE client'[c].sink = client[c].sink /\ client'[c].session = client[c].session
      BY <2>1 DEF ChannelInv, SinksOwned
    <2>2. CASE /\ f.kind \in Framed /\ conn[k].channels[f.id] = c
               /\ client'[c] = [client[c] EXCEPT !.sink = Append(@, f)]
      <3>1. client'[c].sink = Append(client[c].sink, f) /\ client'[c].session = client[c].session
        BY <2>0, <2>2 DEF Client
      <3>2. \/ p \in 1..Len(client[c].sink) /\ client'[c].sink[p] = client[c].sink[p]
            \/ client'[c].sink[p] = f
        BY <2>0, <3>1
      <3> QED
        BY <1>7, <2>2, <3>1, <3>2 DEF ChannelInv, SinksOwned
    <2> QED
      BY <1>6, <2>1, <2>2
  <1>15. SinkBegins'
    <2> SUFFICES ASSUME NEW c \in Clients, client'[c].pc = "on", client'[c].shown = "nothing",
                        client'[c].sink # <<>>
                 PROVE  Head(client'[c].sink).kind # "output"
      BY DEF SinkBegins
    <2>0. client[c] \in Client /\ client[c].sink \in Seq(Paints \cup Closes)
      BY Types DEF Client
    <2>1. CASE client'[c] = client[c]
      BY <2>1 DEF ChannelInv, SinkBegins
    <2>2. CASE /\ f.kind \in Framed /\ conn[k].channels[f.id] = c /\ Listens(c)
               /\ client'[c] = [client[c] EXCEPT !.sink = Append(@, f)]
      <3>1. /\ client'[c].sink = Append(client[c].sink, f)
            /\ client[c].pc = "on" /\ client[c].shown = "nothing"
        BY <2>0, <2>2 DEF Client
      <3>2. CASE client[c].sink # <<>>
        <4>1. Head(client'[c].sink) = Head(client[c].sink)
          BY <2>0, <3>1, <3>2
        <4> QED
          BY <3>1, <3>2, <4>1 DEF ChannelInv, SinkBegins
      <3>3. CASE client[c].sink = <<>>
        <4>1. Head(client'[c].sink) = f
          BY <3>1, <3>3
        <4>2. QueueBegun(c) /\ client[c].conn = k /\ client[c].id = f.id
          BY <1>7, <2>2, <3>1, <3>3 DEF ChannelInv, Begins, Waiting
        <4>3. Frame(c, 1)
          BY <1>3, <2>2, <4>2 DEF Frame
        <4>4. f.kind # "output"
          BY <1>3, <4>2, <4>3 DEF QueueBegun
        <4> QED
          BY <4>1, <4>4
      <3> QED
        BY <3>2, <3>3
    <2> QED
      BY <1>6, <2>1, <2>2
  <1>16. ShowsItsOwn'
    <2>1. \A c \in Clients : client'[c].shown = client[c].shown
      BY <1>6, Types DEF Client
    <2> QED
      BY <2>1 DEF ChannelInv, ShowsItsOwn
  <1> QED
    BY <1>10, <1>12, <1>13, <1>14, <1>15, <1>16 DEF ChannelInv

-----------------------------------------------------------------------------
(* The clients, one at a time.                                             *)
SinkFine(c) ==
  /\ \A p \in 1..Len(client[c].sink) :
       client[c].sink[p].kind # "closed" => client[c].sink[p].session = client[c].session
  /\ client[c].pc = "on" /\ client[c].shown = "nothing" /\ client[c].sink # <<>> =>
       Head(client[c].sink).kind # "output"
  /\ client[c].shown # "foreign"

LEMMA SinksFine == SinksOwned /\ SinkBegins /\ ShowsItsOwn <=> \A c \in Clients : SinkFine(c)
  BY DEF SinksOwned, SinkBegins, ShowsItsOwn, SinkFine

LEMMA OneClient ==
  ASSUME TypeInv, ReplyInv, ChannelInv, UNCHANGED <<agent, line, toHub>>,
         NEW c \in Clients, \A d \in Clients : d # c => client'[d] = client[d],
         BridgeInv', OwnedKept, NEW g, AgentFlow(g),
         Waiting(c)' => QueueBegun(c)' /\ TermBegun(c)', SinkFine(c)'
  PROVE  ChannelInv'
  <1>1. HubFlow(Register) /\ TermFlow
    BY FlowsSame
  <1>2. AttachesOwned' /\ FramesOwned' /\ TermsOwned'
    BY <1>1, AttachesKept, FramesKept, TermsKept DEF ChannelInv
  <1>3. Begins'
    <2> SUFFICES ASSUME NEW d \in Clients, d # c PROVE Waiting(d)' => QueueBegun(d)' /\ TermBegun(d)'
      BY DEF Begins
    <2>1. GoesOnWaiting(d)
      BY DEF GoesOnWaiting, Waiting
    <2>2. Waiting(d) => QueueGrows(d) /\ TermGoesOn(d)
      BY FlowsSame, WaitsSomewhere
    <2> QED
      BY <2>1, <2>2, BeginsKept
  <1>4. \A d \in Clients : SinkFine(d)'
    BY SinksFine DEF SinkFine, ChannelInv
  <1>5. SinksOwned' /\ SinkBegins' /\ ShowsItsOwn'
    BY <1>4 DEF SinksOwned, SinkBegins, ShowsItsOwn, SinkFine
  <1> QED
    BY <1>2, <1>3, <1>5 DEF ChannelInv

(* One that opens no channel, and clears at most its own.                  *)
LEMMA OneSteady ==
  ASSUME TypeInv, ReplyInv, ChannelInv, UNCHANGED <<serve, entry>>,
         NEW c \in Clients, \A d \in Clients : d # c => client'[d] = client[d],
         Steady(c),
         \A j \in Conns :
           /\ conn'[j].nextCh = conn[j].nextCh
           /\ \A i \in Ids : \/ conn'[j].channels[i] = conn[j].channels[i]
                             \/ /\ conn'[j].channels[i] = None /\ ~Listens(c)'
                                /\ conn[j].channels[i] = c
  PROVE  BridgeInv' /\ OwnedKept
  <1>1. \A d \in Clients : Steady(d)
    BY DEF Steady, Bridged, Before, Listens, ChannelInv, BridgeInv, NotYetShown
  <1>2. ASSUME NEW d \in Clients, Listens(d)', serve'[client[d].conn] = "serve"
        PROVE  /\ serve[client[d].conn] = "serve"
               /\ conn'[client[d].conn].channels[client[d].id]
                    = conn[client[d].conn].channels[client[d].id]
    <2>1. Listens(d) /\ client[d].conn \in Conns /\ client[d].id \in Ids
      BY <1>1, <1>2, BridgeHolds DEF Steady
    <2>2. conn[client[d].conn].channels[client[d].id] = d
      BY <1>2, <2>1 DEF ChannelInv, BridgeInv, Wired
    <2> QED
      BY <1>2, <2>1, <2>2
  <1>3. Settled
    BY <1>2 DEF Settled
  <1> QED
    BY <1>1, <1>3, SteadyKeeps, SteadyOwned DEF ChannelInv

LEMMA FindsOwn ==
  ASSUME TypeInv, ReplyInv, ChannelInv, NEW c \in Clients,
         RequestFinds(c) \/ \E s \in Sessions : BrowserOpens(c, s)
  PROVE  ChannelInv'
  <1>1. /\ client[c].pc = "idle" /\ client'[c].pc \in {"found", "ask"}
        /\ client'[c].conn = entry /\ client'[c].id = client[c].id
        /\ client'[c].sink = client[c].sink /\ client'[c].shown = client[c].shown
        /\ client'[c].pc = "ask" => client'[c].session = client[c].session
    <2>0. client[c] \in Client
      BY Types
    <2>1. CASE RequestFinds(c)
      BY <2>0, <2>1 DEF RequestFinds, Client, TypeInv, TypeOK
    <2>2. ASSUME NEW s \in Sessions, BrowserOpens(c, s)
          PROVE  /\ client[c].pc = "idle" /\ client'[c].pc = "found"
                 /\ client'[c].conn = entry /\ client'[c].id = client[c].id
                 /\ client'[c].sink = client[c].sink /\ client'[c].shown = client[c].shown
      BY <2>0, <2>2 DEF BrowserOpens, Client, TypeInv, TypeOK
    <2> QED
      BY <2>1, <2>2
  <1>2. /\ UNCHANGED <<agent, line, toHub, toAgent, serve, conn, entry>>
        /\ \A d \in Clients : d # c => client'[d] = client[d]
    BY DEF RequestFinds, BrowserOpens, net, hub, TypeInv, TypeOK
  <1>3. client[c].session = None /\ client[c].id = 0
    BY <1>1 DEF ReplyInv, ClientInv, Roles, Role
  <1>4. client[c].sink = <<>> /\ client[c].shown = "nothing"
    BY <1>1 DEF ChannelInv, BridgeInv, NotYetShown, Before
  <1>5. Steady(c) /\ ~Waiting(c)' /\ SinkFine(c)'
    BY <1>1, <1>3, <1>4 DEF Steady, Bridged, Before, Listens, Waiting, SinkFine
  <1>6. BridgeInv' /\ OwnedKept
    BY <1>2, <1>5, OneSteady
  <1> QED
    BY <1>2, <1>5, <1>6, FlowsSame, OneClient

LEMMA RequestOwn ==
  ASSUME TypeInv, ReplyInv, ChannelInv, NEW c \in Clients,
         RequestAsks(c) \/ RequestSends(c) \/ RequestGivesUp(c)
  PROVE  ChannelInv'
  <1>0. client[c] \in Client
    BY Types
  <1>1. /\ client[c].pc \in {"ask", "send", "waits"}
        /\ client'[c].pc \in {"send", "waits", "over"}
        /\ client'[c].session = client[c].session /\ client'[c].sink = client[c].sink
        /\ client'[c].shown = client[c].shown
    BY <1>0 DEF RequestAsks, RequestSends, RequestGivesUp, Client, TypeInv, TypeOK
  <1>2. /\ UNCHANGED <<agent, line, toHub, serve, entry>>
        /\ \A d \in Clients : d # c => client'[d] = client[d]
    BY DEF RequestAsks, RequestSends, RequestGivesUp, net, TypeInv, TypeOK
  <1>3. client[c].session = None
    BY <1>1 DEF ReplyInv, ClientInv, Roles, Role
  <1>4. Steady(c) /\ ~Waiting(c)'
    BY <1>1, <1>3 DEF Steady, Bridged, Before, Listens, Waiting
  <1>5. SinkFine(c)'
    BY <1>1, SinksFine DEF SinkFine, ChannelInv
  <1>6. \A j \in Conns : /\ conn'[j].nextCh = conn[j].nextCh
                         /\ conn'[j].channels = conn[j].channels
    <2>1. \A j \in Conns : conn[j] \in Conn
      BY Types
    <2>2. CASE RequestAsks(c)
      BY <2>1, <2>2 DEF RequestAsks, Conn, TypeInv, TypeOK
    <2>3. CASE UNCHANGED conn
      BY <2>3
    <2>4. CASE conn' = Withdrawn(c)
      <3>1. PICK k, i : k = client[c].conn /\ i = client[c].id
        OBVIOUS
      <3>2. conn' = [conn EXCEPT ![k].pending[i] = None]
        BY <2>4, <3>1 DEF Withdrawn
      <3> QED
        BY <2>1, <3>2 DEF Conn, TypeInv, TypeOK
    <2> QED
      BY <2>2, <2>3, <2>4 DEF RequestSends, RequestGivesUp
  <1>7. AgentFlow(Command(client[c].id, c))
    <2>1. Command(client[c].id, c).kind # "attach"
      BY DEF Command
    <2> QED
      BY <2>1 DEF RequestAsks, RequestSends, RequestGivesUp, Send, net, AgentFlow, Shrinks,
         TypeInv, TypeOK
  <1>8. BridgeInv' /\ OwnedKept
    BY <1>2, <1>4, <1>6, OneSteady
  <1> QED
    BY <1>2, <1>4, <1>5, <1>7, <1>8, OneClient

LEMMA BridgeMovesOwn ==
  ASSUME TypeInv, ReplyInv, ChannelInv, NEW c \in Clients,
         BridgeIsDropped(c) \/ BrowserLeaves(c) \/ BridgeDetaches(c) \/ BridgeCloses(c)
  PROVE  ChannelInv'
  <1>0. client[c] \in Client
    BY Types
  <1>1. /\ client[c].pc \in {"on", "detach", "close"}
        /\ client'[c].pc \in {"detach", "close", "over"}
        /\ client'[c].conn = client[c].conn /\ client'[c].id = client[c].id
        /\ client'[c].session = client[c].session /\ client'[c].shown = client[c].shown
        /\ client'[c].sink \in {client[c].sink, <<>>}
    BY <1>0 DEF BridgeIsDropped, BrowserLeaves, BridgeDetaches, BridgeCloses, Step, Client,
       TypeInv, TypeOK
  <1>2. /\ UNCHANGED <<agent, line, toHub, serve, entry>>
        /\ \A d \in Clients : d # c => client'[d] = client[d]
    BY DEF BridgeIsDropped, BrowserLeaves, BridgeDetaches, BridgeCloses, Step, net, hub,
       TypeInv, TypeOK
  <1>3. Steady(c) /\ ~Waiting(c)' /\ ~Listens(c)'
    BY <1>1 DEF Steady, Bridged, Before, Listens, Waiting
  <1>4. SinkFine(c)'
    BY <1>1, SinksFine DEF SinkFine, ChannelInv
  <1>5. \A j \in Conns :
          /\ conn'[j].nextCh = conn[j].nextCh
          /\ \A i \in Ids : \/ conn'[j].channels[i] = conn[j].channels[i]
                            \/ conn'[j].channels[i] = None /\ conn[j].channels[i] = c
    <2>1. CASE BridgeCloses(c)
      <3>1. PICK k, n : k = client[c].conn /\ n = client[c].id
        OBVIOUS
      <3>2. conn' = [conn EXCEPT ![k].channels[n] = None] /\ client[c].pc = "close"
        BY <2>1, <3>1 DEF BridgeCloses, Step
      <3>3. k \in Conns /\ n \in Ids /\ Bridged(c)
        <4>1. client[c].session # None
          BY <3>2 DEF ReplyInv, ClientInv, Roles, Role
        <4> QED
          BY <3>1, <3>2, <4>1, IdsAreNaturals DEF TypeInv, ClientsPlaced, Numbered, Bridged
      <3>4. conn[k].channels[n] \in {None, c}
        <4>1. conn[k].channels[n] \in Clients \cup {None}
          BY <3>3, Types DEF Conn
        <4> QED
          BY <3>1, <3>3, <4>1 DEF ChannelInv, BridgeInv, ChannelsOwn, ChannelsApart
      <3>5. \A j \in Conns : conn[j] \in Conn
        BY Types
      <3> QED
        BY <3>2, <3>4, <3>5 DEF Conn, TypeInv, TypeOK
    <2>2. CASE UNCHANGED conn
      BY <2>2
    <2> QED
      BY <2>1, <2>2 DEF BridgeIsDropped, BrowserLeaves, BridgeDetaches, hub
  <1>6. AgentFlow(Detach(client[c].id))
    <2>1. Detach(client[c].id).kind # "attach"
      BY DEF Detach
    <2> QED
      BY <2>1 DEF BridgeIsDropped, BrowserLeaves, BridgeDetaches, BridgeCloses, Send, net,
         AgentFlow, Shrinks, TypeInv, TypeOK
  <1>7. BridgeInv' /\ OwnedKept
    BY <1>2, <1>3, <1>5, OneSteady
  <1> QED
    BY <1>2, <1>3, <1>4, <1>6, <1>7, OneClient

LEMMA BridgeShowsOwn ==
  ASSUME TypeInv, ReplyInv, ChannelInv, NEW c \in Clients, BridgeShows(c)
  PROVE  ChannelInv'
  <1>0. client[c] \in Client /\ client[c].sink \in Seq(Paints \cup Closes)
    BY Types DEF Client
  <1>1. PICK f : f = Head(client[c].sink)
    OBVIOUS
  <1>2. /\ client[c].pc = "on" /\ client[c].sink # <<>>
        /\ UNCHANGED <<agent, line, toHub, toAgent, serve, conn, entry>>
        /\ \A d \in Clients : d # c => client'[d] = client[d]
    BY DEF BridgeShows, net, hub, TypeInv, TypeOK
  <1>3. f = client[c].sink[1] /\ 1 \in 1..Len(client[c].sink) /\ f \in Paints \cup Closes
    BY <1>0, <1>1, <1>2
  <1>4. SinkFine(c)
    BY SinksFine DEF ChannelInv
  <1>5. CASE f.kind = "closed"
    <2>1. /\ client'[c].pc = "detach" /\ client'[c].sink = <<>>
          /\ client'[c].conn = client[c].conn /\ client'[c].id = client[c].id
          /\ client'[c].session = client[c].session /\ client'[c].shown = client[c].shown
      BY <1>0, <1>1, <1>5 DEF BridgeShows, Client, TypeInv, TypeOK
    <2>2. Steady(c) /\ ~Waiting(c)'
      BY <1>2, <2>1 DEF Steady, Bridged, Before, Listens, Waiting
    <2>3. SinkFine(c)'
      BY <1>4, <2>1 DEF SinkFine
    <2> QED
      BY <1>2, <2>2, <2>3, FlowsSame, OneSteady, OneClient
  <1>6. CASE f.kind # "closed"
    <2>1. f.session = client[c].session
      BY <1>3, <1>4, <1>6 DEF SinkFine
    <2>2. f.kind = "output" => client[c].shown # "nothing"
      BY <1>1, <1>2, <1>4 DEF SinkFine
    <2>3. Seen(c, f) = "own"
      BY <1>4, <2>1, <2>2 DEF Seen, SinkFine
    <2>4. client' = [client EXCEPT ![c] =
                       [@ EXCEPT !.shown = "own", !.sink = Tail(client[c].sink)]]
      BY <1>1, <1>6, <2>3 DEF BridgeShows
    <2>5. /\ client'[c].pc = "on" /\ client'[c].sink = Tail(client[c].sink)
          /\ client'[c].conn = client[c].conn /\ client'[c].id = client[c].id
          /\ client'[c].session = client[c].session /\ client'[c].shown = "own"
      BY <1>0, <1>2, <2>4 DEF Client, TypeInv, TypeOK
    <2>6. Steady(c) /\ ~Waiting(c)'
      BY <1>2, <2>5 DEF Steady, Bridged, Before, Listens, Waiting
    <2>7. \A p \in 1..Len(client'[c].sink) :
            p + 1 \in 1..Len(client[c].sink) /\ client'[c].sink[p] = client[c].sink[p + 1]
      BY <1>0, <1>2, <2>5
    <2>8. SinkFine(c)'
      BY <1>4, <2>5, <2>7 DEF SinkFine
    <2> QED
      BY <1>2, <2>6, <2>8, FlowsSame, OneSteady, OneClient
  <1> QED
    BY <1>5, <1>6

(* A bridge that has just attached has nothing ahead of it: every frame    *)
(* and every channel of the agent is another's.                            *)
LEMMA BridgeAttachesOwn ==
  ASSUME TypeInv, ReplyInv, ChannelInv, NEW c \in Clients, BridgeAttaches(c)
  PROVE  ChannelInv'
  <1>0. client[c] \in Client
    BY Types
  <1>1. PICK k, i, s : k = client[c].conn /\ i = client[c].id /\ s = client[c].session
    OBVIOUS
  <1>2. /\ client[c].pc = "attach" /\ client'[c].pc \in {"on", "close"}
        /\ client'[c].conn = k /\ client'[c].id = i /\ client'[c].session = s
        /\ client'[c].shown = client[c].shown /\ client'[c].sink = client[c].sink
        /\ UNCHANGED <<agent, line, toHub, serve, conn, entry>>
        /\ \A d \in Clients : d # c => client'[d] = client[d]
    BY <1>0, <1>1 DEF BridgeAttaches, hub, Client, TypeInv, TypeOK
  <1>3. /\ k \in Conns /\ i \in Ids /\ Bridged(c)
        /\ client[c].sink = <<>> /\ client[c].shown = "nothing"
    BY <1>1, <1>2, BridgeHolds DEF Listens, ChannelInv, BridgeInv, NotYetShown, Before
  <1>4. Steady(c) /\ Bridged(c)' /\ Attached(k, i, c)'
    BY <1>1, <1>2, <1>3 DEF Steady, Bridged, Before, Listens, Attached
  <1>5. SinkFine(c)'
    BY <1>2, <1>3 DEF SinkFine
  <1>6. PICK g : g = Attach(i, s)
    OBVIOUS
  <1>7. AgentFlow(g)
    <2>1. toAgent'[k] \in {toAgent[k], Append(toAgent[k], g)}
      BY <1>1, <1>3, <1>6 DEF BridgeAttaches, Send, TypeInv, TypeOK
    <2>2. \A j \in Conns : j # k => toAgent'[j] = toAgent[j]
      BY <1>1, <1>3 DEF BridgeAttaches, Send, TypeInv, TypeOK
    <2>3. g.kind = "attach" /\ g.id = i /\ g.session = s
      BY <1>6 DEF Attach
    <2>4. OnChannel(k, g)'
      BY <1>2, <1>4, <2>3 DEF OnChannel, Owned
    <2> QED
      BY <2>1, <2>2, <2>4 DEF AgentFlow, Shrinks
  <1>8. \A t : ~Owned(k, i, t)
    BY <1>1, <1>2, <1>3 DEF Owned, Attached, Before, ChannelInv, BridgeInv, ChannelsApart
  <1>9. QueueBegun(c)' /\ TermBegun(c)'
    <2>1. \A p \in 1..Len(toHub[k]) :
            ~(toHub[k][p].kind \in Framed /\ toHub[k][p].id = i)
      BY <1>3, <1>8 DEF ChannelInv, FramesOwned, OnChannel
    <2>2. ~Sends(k, i)
      BY <1>3, <1>8 DEF Sends, ChannelInv, TermsOwned
    <2> QED
      BY <1>2, <2>1, <2>2 DEF QueueBegun, TermBegun, Frame, Sends
  <1>10. BridgeInv' /\ OwnedKept
    BY <1>2, <1>4, OneSteady
  <1> QED
    BY <1>2, <1>5, <1>7, <1>9, <1>10, OneClient

(* The channel a bridge opens is one that no bridge of the connection has  *)
(* had.                                                                    *)
LEMMA BridgeOpensOwn ==
  ASSUME TypeInv, TypeInv', ReplyInv, ChannelInv, NEW c \in Clients, BridgeOpens(c)
  PROVE  ChannelInv'
  <1>0. client[c] \in Client
    BY Types
  <1>1. PICK k, ch : k = client[c].conn /\ ch = conn[k].nextCh + 1
    OBVIOUS
  <1>2. /\ client[c].pc = "found" /\ client'[c].pc = "attach"
        /\ client'[c].conn = k /\ client'[c].id = ch
        /\ client'[c].session = client[c].session
        /\ client'[c].shown = client[c].shown /\ client'[c].sink = client[c].sink
        /\ UNCHANGED <<agent, line, toHub, toAgent, serve, entry>>
        /\ \A d \in Clients : d # c => client'[d] = client[d]
    BY <1>0, <1>1 DEF BridgeOpens, net, Client, TypeInv, TypeOK
  <1>3. /\ k \in Conns /\ serve[k] \in Registered
        /\ client[c].id = 0 /\ client[c].session # None
        /\ client[c].sink = <<>> /\ client[c].shown = "nothing"
    BY <1>1, <1>2 DEF TypeInv, ClientsPlaced, ChannelInv, BridgeInv, NotYetShown, Before,
       ReplyInv, ClientInv, Roles, Role, OnRegistered
  <1>4. conn[k] \in Conn /\ conn[k].nextCh \in Nat /\ ch \in Nat /\ ch # 0
    BY <1>1, <1>3, Types, IdsAreNaturals DEF Conn
  <1>5. conn' = [conn EXCEPT ![k].nextCh = ch, ![k].channels[ch] = c]
    BY <1>1 DEF BridgeOpens
  <1>6. /\ conn'[k].nextCh = ch
        /\ \A i \in Ids : conn'[k].channels[i] = IF i = ch THEN c ELSE conn[k].channels[i]
        /\ \A j \in Conns : j # k => conn'[j] = conn[j]
    BY <1>3, <1>4, <1>5 DEF Conn, TypeInv, TypeOK
  <1>7. ch \in Ids
    BY <1>3, <1>4, <1>6 DEF TypeInv, TypeOK, Conn
  <1>8. ~Bridged(c) /\ Bridged(c)'
    BY <1>2, <1>3, <1>4 DEF Bridged
  (* The numbers that bridges of this connection have are used up.         *)
  <1>9. \A d \in Clients : Bridged(d) /\ client[d].conn = k =>
          client[d].id \in Nat /\ client[d].id <= conn[k].nextCh /\ client[d].id # ch
    <2> SUFFICES ASSUME NEW d \in Clients, Bridged(d), client[d].conn = k
                 PROVE  client[d].id \in Nat /\ client[d].id <= conn[k].nextCh /\ client[d].id # ch
      OBVIOUS
    <2>1. client[d].id \in Nat
      BY BridgeHolds, IdsAreNaturals
    <2>2. Findable(k)
      BY <1>1, <1>2 DEF Findable
    <2>3. client[d].id <= conn[k].nextCh
      BY <2>2 DEF ChannelInv, BridgeInv, ChannelsSpent
    <2> QED
      BY <1>1, <1>4, <2>1, <2>3
  <1>10. OwnedKept
    BY <1>2, <1>8 DEF OwnedKept, Owned, Attached, Bridged
  <1>11. NotYetShown'
    BY <1>2, <1>3 DEF NotYetShown, ChannelInv, BridgeInv, Before
  <1>12. ChannelsApart'
    <2>1. \A d \in Clients : d # c => (Bridged(d)' <=> Bridged(d))
      BY <1>2 DEF Bridged
    <2> QED
      BY <1>2, <1>9, <2>1 DEF ChannelsApart, ChannelInv, BridgeInv
  <1>13. ChannelsSpent'
    <2> SUFFICES ASSUME NEW d \in Clients, Bridged(d)', Findable(client[d].conn)'
                 PROVE  client'[d].id <= conn'[client'[d].conn].nextCh
      BY DEF ChannelsSpent
    <2>1. CASE d = c
      BY <1>2, <1>4, <1>6, <2>1
    <2>2. CASE d # c
      <3>1. Bridged(d) /\ client'[d] = client[d] /\ client[d].conn \in Conns
        BY <1>2, <2>2, BridgeHolds DEF Bridged
      <3>2. PICK j \in Conns : j = client[d].conn
        BY <3>1
      <3>3. CASE j = k
        <4>1. client[d].id \in Nat /\ client[d].id <= conn[k].nextCh
          BY <1>9, <3>1, <3>2, <3>3
        <4>2. client[d].id <= ch
          BY <1>1, <1>4, <4>1
        <4>3. conn'[client'[d].conn].nextCh = ch /\ client'[d].id = client[d].id
          BY <1>6, <3>1, <3>2, <3>3
        <4> QED
          BY <4>2, <4>3
      <3>4. CASE j # k
        <4>1. Findable(j)' => Findable(j)
          BY <1>2, <3>4 DEF Findable
        <4>2. Findable(j)'
          BY <3>1, <3>2 DEF Findable
        <4> QED
          BY <1>6, <3>1, <3>2, <3>4, <4>1, <4>2 DEF ChannelInv, BridgeInv, ChannelsSpent
      <3> QED
        BY <3>3, <3>4
    <2> QED
      BY <2>1, <2>2
  <1>14. ChannelsOwn'
    <2> SUFFICES ASSUME NEW j \in Conns, NEW i \in Ids, NEW d \in Clients,
                        conn'[j].channels[i] = d
                 PROVE  Bridged(d)' /\ client'[d].conn = j /\ client'[d].id = i
      BY DEF ChannelsOwn
    <2>1. CASE j = k /\ i = ch
      BY <1>2, <1>6, <1>8, <2>1
    <2>2. CASE ~(j = k /\ i = ch)
      <3>1. conn[j].channels[i] = d
        BY <1>6, <2>2
      <3>2. Bridged(d) /\ client[d].conn = j /\ client[d].id = i /\ d # c
        BY <1>8, <3>1 DEF ChannelInv, BridgeInv, ChannelsOwn
      <3> QED
        BY <1>2, <3>2 DEF Bridged
    <2> QED
      BY <2>1, <2>2
  <1>15. Wired'
    <2> SUFFICES ASSUME NEW d \in Clients, Listens(d)', serve'[client'[d].conn] = "serve"
                 PROVE  conn'[client'[d].conn].channels[client'[d].id] = d
      BY DEF Wired, Listens
    <2>1. CASE d = c
      BY <1>2, <1>6, <1>7, <2>1
    <2>2. CASE d # c
      <3>1. Listens(d) /\ client'[d] = client[d]
        BY <1>2, <2>2 DEF Listens
      <3>2. Bridged(d) /\ client[d].conn \in Conns /\ client[d].id \in Ids
        BY <3>1, BridgeHolds
      <3>3. conn[client[d].conn].channels[client[d].id] = d
        BY <1>2, <3>1 DEF ChannelInv, BridgeInv, Wired
      <3> QED
        BY <1>6, <1>9, <3>1, <3>2, <3>3
    <2> QED
      BY <2>1, <2>2
  <1>16. ~Waiting(c)' /\ SinkFine(c)'
    BY <1>2, <1>3 DEF Waiting, SinkFine
  <1> QED
    BY <1>2, <1>10, <1>11, <1>12, <1>13, <1>14, <1>15, <1>16, FlowsSame, OneClient
       DEF BridgeInv

-----------------------------------------------------------------------------
LEMMA NextChannels ==
  TypeInv /\ TypeInv' /\ ReplyInv /\ ChannelInv /\ [Next]_vars => ChannelInv'
  <1> SUFFICES ASSUME TypeInv, TypeInv', ReplyInv, ChannelInv, [Next]_vars PROVE ChannelInv'
    OBVIOUS
  <1>1. CASE UNCHANGED vars
    <2>1. UNCHANGED <<line, toHub, toAgent, agent, serve, conn, entry, client>>
      BY <1>1 DEF vars, net, hub
    <2>2. \A c \in Clients : Waiting(c) => QueueGrows(c) /\ TermGoesOn(c)
      BY <2>1, FlowsSame, WaitsSomewhere
    <2> QED
      BY <2>1, <2>2, FlowsSame, AgentSide
  <1>2. CASE \/ AgentNotices
             \/ \E k \in Conns : LineCut(k)
             \/ \E S \in SUBSET Sessions : SessionsChange(S)
             \/ \E how \in {"cut", "closed"} : AgentStops(how)
    BY <1>2, AgentLeavesOwn
  <1>3. CASE AgentPolls
    BY <1>3, AgentPollsOwn
  <1>4. CASE AgentReads
    BY <1>4, AgentReadsOwn
  <1>5. ASSUME NEW i \in Ids, ChannelStep(i) PROVE ChannelInv'
    BY <1>5, ChannelStepOwn
  <1>6. ASSUME NEW k \in Conns, AgentDials(k) \/ HubStep(k) \/ WriterFails(k) PROVE ChannelInv'
    <2>1. CASE AgentDials(k)
      BY <2>1, AgentDialsOwn
    <2>2. CASE HubReadsRegister(k) \/ HubHearsNothing(k) \/ HubResolves(k) \/ HubRegisters(k)
      BY <2>2, HubWaitsOwn
    <2>3. CASE WriterFails(k) \/ HubGoesOffline(k) \/ HubAborts(k)
      BY <2>3, HubEndsOwn
    <2>4. CASE HubReads(k)
      BY <2>4, HubReadsOwn
    <2> QED
      BY <1>6, <2>1, <2>2, <2>3, <2>4 DEF HubStep
  <1>7. CASE HubRestarts
    BY <1>7, HubRestartsOwn
  <1>8. ASSUME NEW c \in Clients,
               \/ ClientStep(c) \/ BrowserLeaves(c) \/ RequestFinds(c)
               \/ \E s \in Sessions : BrowserOpens(c, s)
        PROVE  ChannelInv'
    <2>1. CASE RequestFinds(c) \/ \E s \in Sessions : BrowserOpens(c, s)
      BY <2>1, FindsOwn
    <2>2. CASE BridgeIsDropped(c) \/ BrowserLeaves(c) \/ BridgeDetaches(c) \/ BridgeCloses(c)
      BY <2>2, BridgeMovesOwn
    <2>3. CASE BridgeOpens(c)
      BY <2>3, BridgeOpensOwn
    <2>4. CASE BridgeAttaches(c)
      BY <2>4, BridgeAttachesOwn
    <2>5. CASE BridgeShows(c)
      BY <2>5, BridgeShowsOwn
    <2>6. CASE RequestAsks(c) \/ RequestSends(c) \/ RequestGivesUp(c)
      BY <2>6, RequestOwn
    <2> QED
      BY <1>8, <2>1, <2>2, <2>3, <2>4, <2>5, <2>6 DEF ClientStep
  <1> QED
    BY <1>1, <1>2, <1>3, <1>4, <1>5, <1>6, <1>7, <1>8 DEF Next

(* A browser only ever shows the terminal it opened, beginning with a      *)
(* snapshot: the channel numbers route_to_browser looks up are never given *)
(* out twice on a connection, and a bridge is routed to from before its    *)
(* Attach until it has left or the connection is gone.                     *)
THEOREM ShownSafe == Spec => []ShowsItsOwn
  <1>1. Init => TypeInv /\ ReplyInv /\ ChannelInv
    BY InitType, InitReplies, InitChannels
  <1>2. TypeInv /\ ReplyInv /\ ChannelInv /\ [Next]_vars => (TypeInv /\ ReplyInv /\ ChannelInv)'
    BY NextType, NextReplies, NextChannels
  <1>3. TypeInv /\ ReplyInv /\ ChannelInv => ShowsItsOwn
    BY DEF ChannelInv
  <1> QED
    BY <1>1, <1>2, <1>3, PTL DEF Spec

=============================================================================
