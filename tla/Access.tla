------------------------------- MODULE Access -------------------------------
(* What a user of a multi-tenant hub may reach, and whose sessions are whose *)
(* (registry.rs, the create and delete handlers of handlers.rs). A request   *)
(* carries the grants its user had when it arrived, names a machine by its   *)
(* label or not at all, waits for the agent, and settles the attribution of  *)
(* the session it made or removed once the reply is there.                   *)
(*                                                                           *)
(* How rows come into the shares table is in Sharing and Teams, how frames   *)
(* travel in Relay; here rows change and agents drop as they please.         *)
EXTENDS Naturals, FiniteSets

CONSTANTS Users, Agents, Names,
          OwnerOf, LabelOf,     \* [agents -> users], [agents -> labels]
          RowSet,               \* rows the shares table may hold
          Pool,                 \* the members of one active team: they share a cap
          Cap,                  \* max_concurrent_sessions
          Callers, MaxCalls, MaxChanges,
          None

Labels == {LabelOf[a] : a \in Agents}
AccessAssumption ==
  /\ OwnerOf \in [Agents -> Users] /\ Pool \subseteq Users
  /\ Cap \in Nat /\ MaxCalls \in Nat /\ MaxChanges \in Nat
  /\ None \notin Users /\ None \notin Agents /\ None \notin Names /\ None \notin Labels
  /\ \A r \in RowSet : r.agent \in Agents /\ r.to \in Users /\ r.name \in Names \cup {None}

VARIABLES overlap,      \* requests may overlap: fixed for the behaviour
          rows,         \* the shares table
          online,       \* agents whose uplink is up
          listed,       \* AgentConn.last_sessions
          creators,     \* AgentConn.creators
          running,      \* [agents -> [names -> who made the session there, if any]]
          call,         \* the requests
          calls,
          changes,      \* events of the world so far
          uses,         \* history: who held an agent grant when, <<user, agent>>
          undone        \* history: what made an attribution or a count untrue

accessVars == <<overlap, rows, online, listed, creators, running, call, calls,
                changes, uses, undone>>

Idle == [at |-> "idle", user |-> None, scope |-> {}, op |-> "none", label |-> None,
         name |-> None, to |-> None, reply |-> "none"]

TypeOK ==
  /\ overlap \in BOOLEAN /\ rows \subseteq RowSet /\ online \subseteq Agents
  /\ listed \in [Agents -> SUBSET Names]
  /\ creators \in [Agents -> [Names -> Users \cup {None}]]
  /\ running \in [Agents -> [Names -> Users \cup {None}]]
  /\ \A c \in Callers :
       /\ call[c].at \in {"idle", "asks", "sent", "replied"}
       /\ call[c].scope \subseteq RowSet /\ call[c].reply \in {"none", "ok", "error"}
  /\ calls \in 0..MaxCalls /\ changes \in 0..MaxChanges
  /\ uses \subseteq Users \X Agents /\ undone \subseteq {"blurred", "uncounted"}

Nobody == [n \in Names |-> None]
Uses(rs) == {<<r.to, r.agent>> : r \in {q \in rs : q.kind = "agent"}}

Init ==
  /\ overlap \in BOOLEAN
  /\ rows \in {rs \in SUBSET RowSet : Cardinality(rs) <= 1} /\ online = Agents
  /\ listed = [a \in Agents |-> {}] /\ creators = [a \in Agents |-> Nobody]
  /\ running = [a \in Agents |-> Nobody]
  /\ call = [c \in Callers |-> Idle] /\ calls = 0 /\ changes = 0
  /\ uses = Uses(rows) /\ undone = {}

hub == <<rows, online, listed, creators>>
bounds == <<overlap, calls, changes>>
Happens == changes < MaxChanges /\ changes' = changes + 1
-----------------------------------------------------------------------------
\* visibility_rows: the rows into the user, and out of the user's machines.
ScopeOf(u) == {r \in rows : r.to = u \/ OwnerOf[r.agent] = u}

\* from_rows: what the user holds on a machine of somebody else.
Held(u, scope, a) == {r \in scope : r.agent = a /\ r.to = u /\ OwnerOf[a] # u}
HoldsKind(u, scope, a, kind) == kind \in {r.kind : r \in Held(u, scope, a)}
NamesHeld(u, scope, a) == {r.name : r \in {q \in Held(u, scope, a) : q.kind = "session"}}
PeeksAt(u, scope, a) ==
  {r.to : r \in {q \in scope : q.agent = a /\ OwnerOf[a] = u /\ q.kind = "agent" /\ q.peek}}
SharedBack(u, scope, a) ==
  {r.name : r \in {q \in scope : q.agent = a /\ q.to = u /\ OwnerOf[a] = u
                                  /\ q.kind = "session"}}

MayUse(u, scope, a) == OwnerOf[a] = u \/ HoldsKind(u, scope, a, "agent")

MaySee(u, scope, a, n) ==
  \/ MayUse(u, scope, a) \/ HoldsKind(u, scope, a, "team")
  \/ n \in NamesHeld(u, scope, a) \cup SharedBack(u, scope, a)

HasAny(u, scope, a) == OwnerOf[a] = u \/ Held(u, scope, a) # {}

\* lists_session: an agent grant goes before a team's, a team's before names.
Lists(u, scope, a, n, creator) ==
  CASE OwnerOf[a] = u ->
         creator \in {u} \cup PeeksAt(u, scope, a) \/ n \in SharedBack(u, scope, a)
    [] OwnerOf[a] # u /\ HoldsKind(u, scope, a, "agent") -> creator \in {OwnerOf[a], u}
    [] OTHER -> HoldsKind(u, scope, a, "team") \/ n \in NamesHeld(u, scope, a)

CreatorOf(a, n) == IF creators[a][n] = None THEN OwnerOf[a] ELSE creators[a][n]
ListFor(u, scope) ==
  {p \in Agents \X Names :
     /\ HasAny(u, scope, p[1]) /\ p[2] \in listed[p[1]]
     /\ Lists(u, scope, p[1], p[2], CreatorOf(p[1], p[2]))}

\* resolve_with: the one machine, or none when two would do.
Allowed(u, scope, n) ==
  {a \in online : IF n = None THEN MayUse(u, scope, a) ELSE MaySee(u, scope, a, n)}
Matches(u, scope, label, n) ==
  {a \in Allowed(u, scope, n) :
     IF label # None THEN LabelOf[a] = label ELSE n \in listed[a] \cup {None}}
Resolved(u, scope, label, n) ==
  LET found == Matches(u, scope, label, n) IN
  IF Cardinality(found) = 1 THEN found ELSE {}
-----------------------------------------------------------------------------
Alone == \A c \in Callers : call[c].at = "idle"

Arrives(c, u, op, label, n) ==
  /\ call[c].at = "idle" /\ calls < MaxCalls /\ (overlap \/ Alone)
  /\ calls' = calls + 1
  /\ call' = [call EXCEPT ![c] = [Idle EXCEPT !.at = "asks", !.user = u, !.op = op,
                !.scope = ScopeOf(u), !.label = label, !.name = n]]
  /\ UNCHANGED <<hub, running, overlap, changes, uses, undone>>

Refuse(c) == call' = [call EXCEPT ![c] = Idle]

\* The plan gate of create: the pool's sessions, or those the user's list has.
PoolsListed == {p \in Agents \X Names : OwnerOf[p[1]] \in Pool /\ p[2] \in listed[p[1]]}
Counted(u, scope) == Cardinality(IF u \in Pool THEN PoolsListed ELSE ListFor(u, scope))

\* A mutant: one more than the plan allows.
SlipUnderCap(count) == count <= Cap

UnderCap(count) == count < Cap

Wanted(c) == IF call[c].op = "create" THEN None ELSE call[c].name

\* Lists lag, and a create of somebody else on a member's machine is not the team's.
Uncounted(c) ==
  call[c].op = "create" /\
    (call[c].user \notin Pool
       \/ \E a \in Agents : listed[a] # {n \in Names : running[a][n] # None})

Routes(c) ==
  LET q == call[c]  found == Resolved(q.user, q.scope, q.label, Wanted(c)) IN
  /\ q.at = "asks"
  /\ IF q.op = "create" /\ ~UnderCap(Counted(q.user, q.scope)) THEN Refuse(c)
     ELSE /\ found = {} => Refuse(c)
          /\ found # {} => \E a \in found :
               call' = [call EXCEPT ![c].at = "sent", ![c].to = a]
  /\ undone' = undone \cup (IF Uncounted(c) THEN {"uncounted"} ELSE {})
  /\ UNCHANGED <<hub, running, bounds, uses>>

Replies(c, reply) == call' = [call EXCEPT ![c].at = "replied", ![c].reply = reply]

\* The agent's answer: a create may be refused; a delete may be, or take its time.
AgentCreates(c) ==
  LET q == call[c]  a == q.to IN
  /\ q.at = "sent" /\ q.op = "create"
  /\ \/ /\ running[a][q.name] = None /\ Replies(c, "ok")
        /\ running' = [running EXCEPT ![a][q.name] = q.user]
     \/ Replies(c, "error") /\ UNCHANGED running
  /\ UNCHANGED <<hub, bounds, uses, undone>>

AgentDeletes(c) ==
  LET q == call[c]  a == q.to IN
  /\ q.at = "sent" /\ q.op = "delete"
  /\ \/ /\ running[a][q.name] # None /\ Replies(c, "ok")
        /\ running' = [running EXCEPT ![a][q.name] = None] /\ UNCHANGED undone
     \/ /\ Replies(c, "error") /\ UNCHANGED running
        /\ undone' = undone \cup {"blurred"}
  /\ UNCHANGED <<hub, bounds, uses>>

\* Offline, or no reply in time: whatever the agent did is not attributed.
GivesUp(c) ==
  /\ call[c].at \in {"sent", "replied"} /\ Refuse(c)
  /\ undone' = undone \cup {"blurred"}
  /\ UNCHANGED <<hub, running, bounds, uses>>

Credited(u, a) == IF OwnerOf[a] # u THEN u ELSE None

\* After the reply the machine is looked up once more.
Attributes(c) ==
  LET q == call[c]  found == Resolved(q.user, q.scope, q.label, None) IN
  /\ q.at = "replied" /\ q.op = "create" /\ Refuse(c)
  /\ creators' = IF q.reply = "ok"
                 THEN [a \in Agents |->
                        IF a \in found /\ Credited(q.user, a) # None
                        THEN [creators[a] EXCEPT ![q.name] = Credited(q.user, a)]
                        ELSE creators[a]]
                 ELSE creators
  /\ undone' = undone \cup (IF found # {q.to} THEN {"blurred"} ELSE {})
  /\ UNCHANGED <<rows, online, listed, running, bounds, uses>>

Forgotten(a, n) == [creators[a] EXCEPT ![n] = None]

Forgets(c) ==
  LET q == call[c]  found == Resolved(q.user, q.scope, q.label, q.name) IN
  /\ q.at = "replied" /\ q.op = "delete" /\ Refuse(c)
  /\ creators' = [a \in Agents |-> IF a \in found THEN Forgotten(a, q.name) ELSE creators[a]]
  /\ undone' = undone \cup (IF found # {q.to} THEN {"blurred"} ELSE {})
  /\ UNCHANGED <<rows, online, listed, running, bounds, uses>>
-----------------------------------------------------------------------------
\* The agent's periodic list.
Polls(a) ==
  /\ a \in online
  /\ listed' = [listed EXCEPT ![a] = {n \in Names : running[a][n] # None}]
  /\ UNCHANGED <<rows, online, creators, running, call, bounds, uses, undone>>

Drops(a) ==
  /\ a \in online /\ Happens /\ online' = online \ {a}
  /\ UNCHANGED <<rows, listed, creators, running, call, overlap, calls, uses, undone>>

\* register_agent: a new AgentConn keeps the list and nothing else.
Reconnects(a) ==
  /\ Happens
  /\ online' = online \cup {a} /\ creators' = [creators EXCEPT ![a] = Nobody]
  /\ undone' = undone \cup {"blurred"}
  /\ UNCHANGED <<rows, listed, running, call, overlap, calls, uses>>

\* A session ends by itself or at the machine; the owner starts one there.
Leaves(a, n) ==
  /\ running[a][n] # None /\ Happens /\ running' = [running EXCEPT ![a][n] = None]
  /\ undone' = undone \cup {"blurred"}
  /\ UNCHANGED <<hub, call, overlap, calls, uses>>

StartsAtMachine(a, n) ==
  /\ running[a][n] = None /\ Happens
  /\ running' = [running EXCEPT ![a][n] = OwnerOf[a]]
  /\ undone' = undone \cup {"uncounted"}
  /\ UNCHANGED <<hub, call, overlap, calls, uses>>

RowsChange ==
  /\ Happens
  /\ \E r \in RowSet : rows' \in {rows \cup {r}, rows \ {r}}
  /\ uses' = uses \cup Uses(rows')
  /\ UNCHANGED <<online, listed, creators, running, call, overlap, calls, undone>>

Proceed(c) ==
  \/ Routes(c) \/ AgentCreates(c) \/ AgentDeletes(c) \/ GivesUp(c)
  \/ Attributes(c) \/ Forgets(c)

Next ==
  \/ \E c \in Callers, u \in Users, op \in {"create", "delete"},
       label \in Labels \cup {None}, n \in Names : Arrives(c, u, op, label, n)
  \/ \E c \in Callers : Proceed(c)
  \/ \E a \in Agents : Polls(a) \/ Drops(a) \/ Reconnects(a)
  \/ \E a \in Agents, n \in Names : Leaves(a, n) \/ StartsAtMachine(a, n)
  \/ RowsChange

Spec == Init /\ [][Next]_accessVars
-----------------------------------------------------------------------------
(* Nobody makes a session on a machine of somebody else without having held  *)
(* a grant on the whole machine: a team's view or a named session never      *)
(* comes to that, whatever rows change while a request waits (may_use_agent).*)
MadeByUsers ==
  \A a \in Agents, n \in Names :
    running[a][n] \in {None, OwnerOf[a]} \/ <<running[a][n], a>> \in uses

(* What a list shows can be attached to, and whoever made a session that is  *)
(* listed finds it in their own list, unless it is put down to a third user  *)
(* (lists_session against may_see_session).                                  *)
ListsAreUsable ==
  \A u \in Users :
    /\ \A p \in ListFor(u, ScopeOf(u)) : MaySee(u, ScopeOf(u), p[1], p[2])
    /\ \A a \in Agents, n \in Names :
         /\ running[a][n] = u /\ n \in listed[a] /\ MayUse(u, ScopeOf(u), a)
         /\ CreatorOf(a, n) \in {u, OwnerOf[a]}
         => <<a, n>> \in ListFor(u, ScopeOf(u))

(* While requests are taken one at a time, and no session ends by itself, no *)
(* agent reconnects, refuses or answers late, a session is put down to the   *)
(* user who made it (set_creator, forget_creator).                           *)
AttributionIsTrue ==
  ~overlap /\ "blurred" \notin undone /\ Alone =>
    \A a \in Agents, n \in Names :
      creators[a][n] = IF running[a][n] = OwnerOf[a] THEN None ELSE running[a][n]

(* Its own creates, one at a time and counted on lists that are up to date,  *)
(* keep a team within its sessions (create's plan gate).                     *)
PoolWithinCap ==
  ~overlap /\ "uncounted" \notin undone =>
    Cardinality({p \in Agents \X Names :
                   OwnerOf[p[1]] \in Pool /\ running[p[1]][p[2]] # None}) <= Cap

AccessHolds == MadeByUsers /\ ListsAreUsable /\ AttributionIsTrue /\ PoolWithinCap
=============================================================================
