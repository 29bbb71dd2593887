---------------------------- MODULE Access_proof ----------------------------
(***************************************************************************)
(* Who reaches what, and whose a session is: the proof of what Access      *)
(* promises, for any users, machines, names and rows, and any number of    *)
(* requests at once.                                                       *)
(*                                                                         *)
(* A request acts on the grants it arrived with, which may be gone by the  *)
(* time the agent answers; so what is proved of a session on a machine of  *)
(* somebody else is that its maker has held a grant on the whole machine   *)
(* (`Recorded`, `SentByUsers`).  That a list shows what may be reached is  *)
(* a matter of the two rules alone and needs no induction.  Attribution    *)
(* and the team's cap are promised of requests taken one at a time, as     *)
(* long as nothing the model names in `undone' has happened: for them the  *)
(* invariant says which one session the request under way has yet to       *)
(* settle (`Settling`, `Owing`), and that a create that has been let       *)
(* through still finds room for it (`Room`).                               *)
(***************************************************************************)
EXTENDS Access, FiniteSetTheorems, TLAPS

CallSet ==
  [at : {"idle", "asks", "sent", "replied"}, user : Users \cup {None}, scope : SUBSET RowSet,
   op : {"none", "create", "delete"}, label : Labels \cup {None},
   name : Names \cup {None}, to : Agents \cup {None}, reply : {"none", "ok", "error"}]

\* What a request knows at each point.
Placed(q) ==
  /\ q.at # "idle" => q.user \in Users /\ q.op \in {"create", "delete"} /\ q.name \in Names
  /\ q.at \in {"sent", "replied"} => q.to \in Agents
  /\ q.at = "replied" => q.reply \in {"ok", "error"}

TypeInv ==
  /\ TypeOK
  /\ call \in [Callers -> CallSet] /\ \A c \in Callers : Placed(call[c])

-----------------------------------------------------------------------------
(* Grants, however requests overlap.                                         *)
Recorded ==
  /\ Uses(rows) \subseteq uses
  /\ \A c \in Callers : Uses(call[c].scope) \subseteq uses

SentByUsers ==
  \A c \in Callers : call[c].at = "sent" /\ call[c].op = "create" =>
    OwnerOf[call[c].to] = call[c].user \/ <<call[c].user, call[c].to>> \in uses

Made == {p \in Agents \X Names : OwnerOf[p[1]] \in Pool /\ running[p[1]][p[2]] # None}
FiniteMade == IsFiniteSet(Made)

(* One request at a time.                                                    *)
OneCall == \A c, d \in Callers : call[c].at # "idle" /\ call[d].at # "idle" => c = d

Accurate(a, n) ==
  creators[a][n] = IF running[a][n] = OwnerOf[a] THEN None ELSE running[a][n]

Settling(q, a, n) == q.at = "replied" /\ q.reply = "ok" /\ q.to = a /\ q.name = n

Attributed ==
  \A a \in Agents, n \in Names : Accurate(a, n) \/ \E c \in Callers : Settling(call[c], a, n)

Owing ==
  \A c \in Callers : call[c].at = "replied" =>
    LET q == call[c] IN
    /\ q.op = "create" /\ q.reply = "ok" =>
         running[q.to][q.name] = q.user /\ creators[q.to][q.name] = None
    /\ q.op = "delete" => q.reply = "ok" /\ running[q.to][q.name] \in {None, OwnerOf[q.to]}

Room ==
  /\ Cardinality(Made) <= Cap
  /\ \A c \in Callers : call[c].at = "sent" /\ call[c].op = "create" => Cardinality(Made) < Cap

AccessInv ==
  /\ TypeInv /\ Recorded /\ SentByUsers /\ MadeByUsers /\ FiniteMade
  /\ ~overlap => OneCall
  /\ ~overlap /\ "blurred" \notin undone => Attributed /\ Owing
  /\ ~overlap /\ "uncounted" \notin undone => Room


-----------------------------------------------------------------------------
(* What the rules come to.                                                   *)

\* Whoever may use a machine that is not theirs has an agent row in scope.
LEMMA UseIsGranted ==
  ASSUME NEW u, NEW scope, NEW a, MayUse(u, scope, a)
  PROVE OwnerOf[a] = u \/ <<u, a>> \in Uses(scope)
BY DEF MayUse, HoldsKind, Held, Uses

LEMMA ResolvedIsAllowed ==
  ASSUME NEW u, NEW scope, NEW label, NEW n, NEW a \in Resolved(u, scope, label, n)
  PROVE a \in Allowed(u, scope, n)
BY DEF Resolved, Matches

LEMMA ScopeTypes == ASSUME TypeOK, NEW u PROVE ScopeOf(u) \in SUBSET RowSet
BY DEF TypeOK, ScopeOf

LEMMA UsesGrow ==
  ASSUME NEW small, NEW big, small \subseteq big
  PROVE Uses(small) \subseteq Uses(big)
BY DEF Uses

LEMMA UsesTypes ==
  ASSUME AccessAssumption, NEW rs \in SUBSET RowSet
  PROVE Uses(rs) \subseteq Users \X Agents
BY DEF Uses, AccessAssumption

-----------------------------------------------------------------------------
(* Lists and access, for any rows: an agent grant goes before a team's and   *)
(* a team's before names, on both sides.                                     *)
LEMMA ListedIsSeen ==
  ASSUME NEW u, NEW scope, NEW p \in ListFor(u, scope)
  PROVE MaySee(u, scope, p[1], p[2])
<1>1. Lists(u, scope, p[1], p[2], CreatorOf(p[1], p[2]))
  BY DEF ListFor
<1>2. CASE OwnerOf[p[1]] = u
  BY <1>2 DEF MaySee, MayUse
<1>3. CASE OwnerOf[p[1]] # u /\ HoldsKind(u, scope, p[1], "agent")
  BY <1>3 DEF MaySee, MayUse
<1>4. CASE OwnerOf[p[1]] # u /\ ~HoldsKind(u, scope, p[1], "agent")
  BY <1>1, <1>4 DEF Lists, MaySee
<1> QED BY <1>2, <1>3, <1>4

LEMMA MakersFindTheirs ==
  ASSUME NEW u, NEW scope, NEW a \in Agents, NEW n \in Names,
         n \in listed[a], MayUse(u, scope, a), CreatorOf(a, n) \in {u, OwnerOf[a]}
  PROVE <<a, n>> \in ListFor(u, scope)
<1> DEFINE p == <<a, n>>
<1>1. p \in Agents \X Names /\ p[1] = a /\ p[2] = n
  OBVIOUS
<1>2. HasAny(u, scope, a)
  BY DEF MayUse, HoldsKind, HasAny
<1>3. Lists(u, scope, a, n, CreatorOf(a, n))
  BY DEF MayUse, Lists
<1> HIDE DEF p
<1>4. p \in ListFor(u, scope)
  BY <1>1, <1>2, <1>3 DEF ListFor
<1> QED BY <1>4 DEF p

LEMMA ListsUsable == ListsAreUsable
BY ListedIsSeen, MakersFindTheirs DEF ListsAreUsable

-----------------------------------------------------------------------------
(* Types.                                                                    *)
LEMMA InitTypes == ASSUME AccessAssumption, Init PROVE TypeInv
<1>1. rows \in SUBSET RowSet
  BY DEF Init
<1>2. uses \subseteq Users \X Agents
  BY <1>1, UsesTypes DEF Init
<1>3. Idle \in CallSet /\ Placed(Idle)
  BY DEF Idle, CallSet, Placed
<1>4. call \in [Callers -> CallSet] /\ \A c \in Callers : Placed(call[c]) /\ call[c] = Idle
  BY <1>3 DEF Init
<1>5. Nobody \in [Names -> Users \cup {None}]
  BY DEF Nobody
<1>6. /\ creators \in [Agents -> [Names -> Users \cup {None}]]
      /\ running \in [Agents -> [Names -> Users \cup {None}]]
  BY <1>5 DEF Init
<1>7. calls \in 0..MaxCalls /\ changes \in 0..MaxChanges
  BY DEF Init, AccessAssumption
<1>8. \A c \in Callers : call[c] \in CallSet
  BY <1>4
<1>9. /\ overlap \in BOOLEAN /\ rows \subseteq RowSet /\ online \subseteq Agents
      /\ listed \in [Agents -> SUBSET Names] /\ undone \subseteq {"blurred", "uncounted"}
  BY <1>1 DEF Init
<1> QED BY <1>2, <1>4, <1>6, <1>7, <1>8, <1>9 DEF TypeInv, TypeOK, CallSet

\* A step that turns one call into another well-formed one keeps the calls so.
LEMMA CallTypes ==
  ASSUME call \in [Callers -> CallSet], \A d \in Callers : Placed(call[d]),
         NEW c \in Callers, NEW q \in CallSet, Placed(q), call' = [call EXCEPT ![c] = q]
  PROVE /\ call' \in [Callers -> CallSet] /\ \A d \in Callers : Placed(call[d])'
        /\ call'[c] = q /\ \A d \in Callers \ {c} : call'[d] = call[d]
        /\ \A d \in Callers :
             /\ call'[d].at \in {"idle", "asks", "sent", "replied"}
             /\ call'[d].scope \subseteq RowSet /\ call'[d].reply \in {"none", "ok", "error"}
<1>1. call' \in [Callers -> CallSet] /\ call'[c] = q
        /\ \A d \in Callers \ {c} : call'[d] = call[d]
  OBVIOUS
<1>2. \A d \in Callers : Placed(call'[d])
  BY <1>1
<1>3. \A d \in Callers : call'[d] \in CallSet
  BY <1>1
<1>4. \A d \in Callers : Placed(call[d])'
  BY <1>2 DEF Placed
<1> QED BY <1>1, <1>3, <1>4 DEF CallSet


\* What each step of a request makes of it.
LEMMA CallFields ==
  ASSUME TypeInv, NEW c \in Callers
  PROVE /\ call[c] \in CallSet /\ Placed(call[c]) /\ DOMAIN call = Callers
        /\ call[c].at # "idle" => call[c].user \in Users /\ call[c].name \in Names
        /\ call[c].at \in {"sent", "replied"} => call[c].to \in Agents
BY DEF TypeInv, Placed

LEMMA RefuseTypes ==
  ASSUME TypeInv, NEW c \in Callers, Refuse(c)
  PROVE /\ call' \in [Callers -> CallSet] /\ \A d \in Callers : Placed(call[d])'
        /\ call'[c] = Idle /\ \A d \in Callers \ {c} : call'[d] = call[d]
        /\ \A d \in Callers :
             /\ call'[d].at \in {"idle", "asks", "sent", "replied"}
             /\ call'[d].scope \subseteq RowSet /\ call'[d].reply \in {"none", "ok", "error"}
<1>1. Idle \in CallSet /\ Placed(Idle)
  BY DEF Idle, CallSet, Placed
<1> QED BY <1>1, CallTypes DEF Refuse, TypeInv

LEMMA RepliesTypes ==
  ASSUME TypeInv, NEW c \in Callers, NEW reply \in {"ok", "error"},
         call[c].at = "sent", Replies(c, reply)
  PROVE /\ call' \in [Callers -> CallSet] /\ \A d \in Callers : Placed(call[d])'
        /\ call'[c] = [call[c] EXCEPT !.at = "replied", !.reply = reply]
        /\ \A d \in Callers \ {c} : call'[d] = call[d]
        /\ \A d \in Callers :
             /\ call'[d].at \in {"idle", "asks", "sent", "replied"}
             /\ call'[d].scope \subseteq RowSet /\ call'[d].reply \in {"none", "ok", "error"}
<1> DEFINE q == [call[c] EXCEPT !.at = "replied", !.reply = reply]
<1>1. call[c] \in CallSet /\ Placed(call[c]) /\ call \in [Callers -> CallSet]
  BY DEF TypeInv
<1>2. q \in CallSet /\ Placed(q)
  BY <1>1 DEF CallSet, Placed
<1>3. call' = [call EXCEPT ![c] = q]
  BY <1>1 DEF Replies
<1> HIDE DEF q
<1>4. \A d \in Callers : Placed(call[d])
  BY DEF TypeInv
<1> QED BY <1>1, <1>2, <1>3, <1>4, CallTypes DEF q

LEMMA SentTypes ==
  ASSUME TypeInv, NEW c \in Callers, NEW a \in Agents, call[c].at = "asks",
         call' = [call EXCEPT ![c].at = "sent", ![c].to = a]
  PROVE /\ call' \in [Callers -> CallSet] /\ \A d \in Callers : Placed(call[d])'
        /\ call'[c] = [call[c] EXCEPT !.at = "sent", !.to = a]
        /\ \A d \in Callers \ {c} : call'[d] = call[d]
        /\ \A d \in Callers :
             /\ call'[d].at \in {"idle", "asks", "sent", "replied"}
             /\ call'[d].scope \subseteq RowSet /\ call'[d].reply \in {"none", "ok", "error"}
<1> DEFINE q == [call[c] EXCEPT !.at = "sent", !.to = a]
<1>1. call[c] \in CallSet /\ Placed(call[c]) /\ call \in [Callers -> CallSet]
  BY DEF TypeInv
<1>2. q \in CallSet /\ Placed(q)
  BY <1>1 DEF CallSet, Placed
<1>3. call' = [call EXCEPT ![c] = q]
  BY <1>1
<1> HIDE DEF q
<1>4. \A d \in Callers : Placed(call[d])
  BY DEF TypeInv
<1> QED BY <1>1, <1>2, <1>3, <1>4, CallTypes DEF q

LEMMA ArrivesTypes ==
  ASSUME TypeInv, NEW c \in Callers, NEW u \in Users, NEW op \in {"create", "delete"},
         NEW label \in Labels \cup {None}, NEW n \in Names, Arrives(c, u, op, label, n)
  PROVE /\ call' \in [Callers -> CallSet] /\ \A d \in Callers : Placed(call[d])'
        /\ call'[c] = [Idle EXCEPT !.at = "asks", !.user = u, !.op = op,
                         !.scope = ScopeOf(u), !.label = label, !.name = n]
        /\ \A d \in Callers \ {c} : call'[d] = call[d]
        /\ \A d \in Callers :
             /\ call'[d].at \in {"idle", "asks", "sent", "replied"}
             /\ call'[d].scope \subseteq RowSet /\ call'[d].reply \in {"none", "ok", "error"}
<1> DEFINE q == [Idle EXCEPT !.at = "asks", !.user = u, !.op = op,
                   !.scope = ScopeOf(u), !.label = label, !.name = n]
<1>1. ScopeOf(u) \in SUBSET RowSet
  BY ScopeTypes DEF TypeInv
<1>2. q \in CallSet /\ Placed(q)
  BY <1>1 DEF CallSet, Placed, Idle
<1>3. call' = [call EXCEPT ![c] = q]
  BY DEF Arrives
<1>4. call \in [Callers -> CallSet] /\ \A d \in Callers : Placed(call[d])
  BY DEF TypeInv
<1> HIDE DEF q
<1> QED BY <1>2, <1>3, <1>4, CallTypes DEF q


LEMMA ArrivesDoes ==
  ASSUME TypeInv, NEW c \in Callers, NEW u \in Users, NEW op \in {"create", "delete"},
         NEW label \in Labels \cup {None}, NEW n \in Names, Arrives(c, u, op, label, n)
  PROVE /\ call'[c].at = "asks" /\ call'[c].scope = ScopeOf(u)
        /\ \A d \in Callers \ {c} : call'[d] = call[d]
<1> DEFINE q == [Idle EXCEPT !.at = "asks", !.user = u, !.op = op,
                   !.scope = ScopeOf(u), !.label = label, !.name = n]
<1>1. call \in [Callers -> CallSet] /\ call' = [call EXCEPT ![c] = q]
  BY DEF TypeInv, Arrives
<1>2. q.at = "asks" /\ q.scope = ScopeOf(u)
  BY DEF Idle
<1> HIDE DEF q
<1> QED BY <1>1, <1>2

\* A create that is not refused has found its machine, among those its user
\* may use, and the count was below the cap.
LEMMA RoutesDoes ==
  ASSUME TypeInv, NEW c \in Callers, Routes(c)
  PROVE \/ Refuse(c)
        \/ \E a \in Agents :
             /\ call[c].at = "asks" /\ call' = [call EXCEPT ![c].at = "sent", ![c].to = a]
             /\ a \in Allowed(call[c].user, call[c].scope, Wanted(c))
             /\ call[c].op = "create" => UnderCap(Counted(call[c].user, call[c].scope))
<1> DEFINE found == Resolved(call[c].user, call[c].scope, call[c].label, Wanted(c))
<1>1. \A a \in found : a \in Allowed(call[c].user, call[c].scope, Wanted(c))
  BY ResolvedIsAllowed
<1>2. \A a \in found : a \in Agents
  BY <1>1 DEF Allowed, TypeInv, TypeOK
<1>3. Refuse(c) \/ ~(call[c].op = "create" /\ ~UnderCap(Counted(call[c].user, call[c].scope)))
  BY DEF Routes
<1>4. \/ Refuse(c)
      \/ \E a \in found : call' = [call EXCEPT ![c].at = "sent", ![c].to = a]
  BY DEF Routes
<1>5. call[c].at = "asks"
  BY DEF Routes
<1> HIDE DEF found
<1> QED BY <1>1, <1>2, <1>3, <1>4, <1>5

LEMMA RoutesTypes ==
  ASSUME TypeInv, NEW c \in Callers, Routes(c)
  PROVE /\ call' \in [Callers -> CallSet] /\ \A d \in Callers : Placed(call[d])'
        /\ \A d \in Callers :
             /\ call'[d].at \in {"idle", "asks", "sent", "replied"}
             /\ call'[d].scope \subseteq RowSet /\ call'[d].reply \in {"none", "ok", "error"}
<1>1. CASE Refuse(c)
  BY <1>1, RefuseTypes
<1>2. CASE \E a \in Agents :
             call[c].at = "asks" /\ call' = [call EXCEPT ![c].at = "sent", ![c].to = a]
  BY <1>2, SentTypes
<1> QED BY <1>1, <1>2, RoutesDoes

CallsWell ==
  /\ call \in [Callers -> CallSet] /\ \A d \in Callers : Placed(call[d])
  /\ \A d \in Callers :
       /\ call[d].at \in {"idle", "asks", "sent", "replied"}
       /\ call[d].scope \subseteq RowSet /\ call[d].reply \in {"none", "ok", "error"}

HubWell ==
  /\ overlap \in BOOLEAN /\ rows \subseteq RowSet /\ online \subseteq Agents
  /\ listed \in [Agents -> SUBSET Names]
  /\ creators \in [Agents -> [Names -> Users \cup {None}]]
  /\ running \in [Agents -> [Names -> Users \cup {None}]]
  /\ calls \in 0..MaxCalls /\ changes \in 0..MaxChanges
  /\ uses \subseteq Users \X Agents /\ undone \subseteq {"blurred", "uncounted"}

LEMMA TypeSplit == TypeInv <=> CallsWell /\ HubWell
BY DEF TypeInv, TypeOK, CallsWell, HubWell

LEMMA CallsStep ==
  ASSUME TypeInv, [Next]_accessVars
  PROVE CallsWell'
<1>0. CallsWell
  BY TypeSplit
<1>1. ASSUME UNCHANGED call PROVE CallsWell'
  BY <1>0, <1>1 DEF CallsWell, Placed
<1>2. ASSUME NEW c \in Callers, NEW u \in Users, NEW op \in {"create", "delete"},
             NEW label \in Labels \cup {None}, NEW n \in Names, Arrives(c, u, op, label, n)
      PROVE CallsWell'
  BY <1>2, ArrivesTypes DEF CallsWell
<1>3. ASSUME NEW c \in Callers, Proceed(c) PROVE CallsWell'
  <2>1. CASE Routes(c)
    BY <2>1, RoutesTypes DEF CallsWell
  <2>2. CASE AgentCreates(c)
    <3>1. call[c].at = "sent" /\ (Replies(c, "ok") \/ Replies(c, "error"))
      BY <2>2 DEF AgentCreates
    <3> QED BY <3>1, RepliesTypes DEF CallsWell
  <2>3. CASE AgentDeletes(c)
    <3>1. call[c].at = "sent" /\ (Replies(c, "ok") \/ Replies(c, "error"))
      BY <2>3 DEF AgentDeletes
    <3> QED BY <3>1, RepliesTypes DEF CallsWell
  <2>4. CASE GivesUp(c)
    BY <2>4, RefuseTypes DEF CallsWell, GivesUp
  <2>5. CASE Attributes(c)
    BY <2>5, RefuseTypes DEF CallsWell, Attributes
  <2>6. CASE Forgets(c)
    BY <2>6, RefuseTypes DEF CallsWell, Forgets
  <2> QED BY <1>3, <2>1, <2>2, <2>3, <2>4, <2>5, <2>6 DEF Proceed
<1>4. ASSUME NEW a \in Agents, Polls(a) \/ Drops(a) \/ Reconnects(a) PROVE UNCHANGED call
  BY <1>4 DEF Polls, Drops, Reconnects
<1>5. ASSUME NEW a \in Agents, NEW n \in Names, Leaves(a, n) \/ StartsAtMachine(a, n)
      PROVE UNCHANGED call
  BY <1>5 DEF Leaves, StartsAtMachine
<1>6. CASE RowsChange
  BY <1>1, <1>6 DEF RowsChange
<1>7. CASE UNCHANGED accessVars
  BY <1>1, <1>7 DEF accessVars
<1> QED BY <1>1, <1>2, <1>3, <1>4, <1>5, <1>6, <1>7 DEF Next


LEMMA SetsMaker ==
  ASSUME running \in [Agents -> [Names -> Users \cup {None}]],
         NEW a \in Agents, NEW n \in Names, NEW maker \in Users \cup {None},
         running' = [running EXCEPT ![a][n] = maker]
  PROVE running' \in [Agents -> [Names -> Users \cup {None}]]
<1>1. [running[a] EXCEPT ![n] = maker] \in [Names -> Users \cup {None}]
  OBVIOUS
<1>2. running' = [running EXCEPT ![a] = [running[a] EXCEPT ![n] = maker]]
  OBVIOUS
<1> QED BY <1>1, <1>2

LEMMA TypeStep ==
  ASSUME AccessAssumption, TypeInv, [Next]_accessVars
  PROVE TypeInv'
<1>0. HubWell
  BY TypeSplit
<1>r. running \in [Agents -> [Names -> Users \cup {None}]]
  BY <1>0 DEF HubWell, HubWell
<1>b. MaxCalls \in Nat /\ MaxChanges \in Nat /\ OwnerOf \in [Agents -> Users]
  BY DEF AccessAssumption
<1>h. Happens => changes' \in 0..MaxChanges
  BY <1>0, <1>b DEF Happens, HubWell
<1>1. ASSUME NEW c \in Callers, NEW u \in Users, NEW op \in {"create", "delete"},
             NEW label \in Labels \cup {None}, NEW n \in Names, Arrives(c, u, op, label, n)
      PROVE HubWell'
  <2>1. calls' \in 0..MaxCalls
    BY <1>0, <1>1, <1>b DEF Arrives, HubWell
  <2>2. UNCHANGED <<overlap, rows, online, listed, creators, running, changes, uses, undone>>
    BY <1>1 DEF Arrives, hub
  <2> QED BY <1>0, <2>1, <2>2 DEF HubWell
<1>2. ASSUME NEW c \in Callers, Proceed(c) PROVE HubWell'
  <2>0. /\ call[c].at # "idle" => call[c].user \in Users /\ call[c].name \in Names
        /\ call[c].at \in {"sent", "replied"} => call[c].to \in Agents
    BY CallFields
  <2>1. CASE Routes(c)
    <3>1. undone' \subseteq {"blurred", "uncounted"}
      BY <1>0, <2>1 DEF Routes, HubWell
    <3>2. UNCHANGED <<overlap, rows, online, listed, creators, running, calls, changes, uses>>
      BY <2>1 DEF Routes, hub, bounds
    <3> QED BY <1>0, <3>1, <3>2 DEF HubWell
  <2>2. CASE AgentCreates(c)
    <3>0. call[c].user \in Users /\ call[c].name \in Names /\ call[c].to \in Agents
      BY <2>0, <2>2 DEF AgentCreates
    <3>a. \/ UNCHANGED running
          \/ \E maker \in Users \cup {None} :
               running' = [running EXCEPT ![call[c].to][call[c].name] = maker]
      BY <2>2, <3>0 DEF AgentCreates
    <3>1. running' \in [Agents -> [Names -> Users \cup {None}]]
      BY <1>r, <3>0, <3>a, SetsMaker
    <3> QED BY <1>0, <2>2, <3>1 DEF AgentCreates, hub, bounds, HubWell
  <2>3. CASE AgentDeletes(c)
    <3>0. call[c].user \in Users /\ call[c].name \in Names /\ call[c].to \in Agents
      BY <2>0, <2>3 DEF AgentDeletes
    <3>a. \/ UNCHANGED running
          \/ \E maker \in Users \cup {None} :
               running' = [running EXCEPT ![call[c].to][call[c].name] = maker]
      BY <2>3, <3>0 DEF AgentDeletes
    <3>1. running' \in [Agents -> [Names -> Users \cup {None}]]
      BY <1>r, <3>0, <3>a, SetsMaker
    <3>2. undone' \subseteq {"blurred", "uncounted"}
      BY <1>0, <2>3 DEF AgentDeletes, HubWell
    <3> QED BY <1>0, <2>3, <3>1, <3>2 DEF AgentDeletes, hub, bounds, HubWell
  <2>4. CASE GivesUp(c)
    BY <1>0, <2>4 DEF GivesUp, hub, bounds, HubWell
  <2>5. CASE Attributes(c)
    <3>1. \A a \in Agents : Credited(call[c].user, a) \in Users \cup {None}
      BY <2>0, <2>5 DEF Attributes, Credited
    <3>2. creators' \in [Agents -> [Names -> Users \cup {None}]]
      BY <1>0, <2>0, <2>5, <3>1 DEF Attributes, HubWell
    <3>3. undone' \subseteq {"blurred", "uncounted"}
      BY <1>0, <2>5 DEF Attributes, HubWell
    <3> QED BY <1>0, <2>5, <3>2, <3>3 DEF Attributes, bounds, HubWell
  <2>6. CASE Forgets(c)
    <3>1. \A a \in Agents : Forgotten(a, call[c].name) \in [Names -> Users \cup {None}]
      BY <1>0, <2>0, <2>6 DEF Forgets, Forgotten, HubWell
    <3>2. creators' \in [Agents -> [Names -> Users \cup {None}]]
      BY <1>0, <2>6, <3>1 DEF Forgets, HubWell
    <3>3. undone' \subseteq {"blurred", "uncounted"}
      BY <1>0, <2>6 DEF Forgets, HubWell
    <3> QED BY <1>0, <2>6, <3>2, <3>3 DEF Forgets, bounds, HubWell
  <2> QED BY <1>2, <2>1, <2>2, <2>3, <2>4, <2>5, <2>6 DEF Proceed
<1>3. ASSUME NEW a \in Agents, Polls(a) PROVE HubWell'
  BY <1>0, <1>3 DEF Polls, bounds, HubWell
<1>4. ASSUME NEW a \in Agents, Drops(a) PROVE HubWell'
  <2>1. online' \subseteq Agents
    BY <1>0, <1>4 DEF Drops, HubWell
  <2> QED BY <1>0, <1>4, <1>h, <2>1 DEF Drops, HubWell
<1>5. ASSUME NEW a \in Agents, Reconnects(a) PROVE HubWell'
  <2>1. Nobody \in [Names -> Users \cup {None}]
    BY DEF Nobody
  <2>2. creators' \in [Agents -> [Names -> Users \cup {None}]] /\ online' \subseteq Agents
    BY <1>0, <1>5, <2>1 DEF Reconnects, HubWell
  <2>3. undone' \subseteq {"blurred", "uncounted"}
    BY <1>0, <1>5 DEF Reconnects, HubWell
  <2> QED BY <1>0, <1>5, <1>h, <2>2, <2>3 DEF Reconnects, HubWell
<1>6. ASSUME NEW a \in Agents, NEW n \in Names, Leaves(a, n) PROVE HubWell'
  <2>1. running' \in [Agents -> [Names -> Users \cup {None}]]
    BY <1>0, <1>6, <1>b DEF Leaves, HubWell
  <2>2. undone' \subseteq {"blurred", "uncounted"}
    BY <1>0, <1>6 DEF Leaves, HubWell
  <2>3. UNCHANGED <<overlap, rows, online, listed, creators, calls, uses>>
    BY <1>6 DEF Leaves, hub
  <2> QED BY <1>0, <1>6, <1>h, <2>1, <2>2, <2>3 DEF Leaves, HubWell
<1>7. ASSUME NEW a \in Agents, NEW n \in Names, StartsAtMachine(a, n) PROVE HubWell'
  <2>1. running' \in [Agents -> [Names -> Users \cup {None}]]
    BY <1>0, <1>7, <1>b DEF StartsAtMachine, HubWell
  <2>2. undone' \subseteq {"blurred", "uncounted"}
    BY <1>0, <1>7 DEF StartsAtMachine, HubWell
  <2>3. UNCHANGED <<overlap, rows, online, listed, creators, calls, uses>>
    BY <1>7 DEF StartsAtMachine, hub
  <2> QED BY <1>0, <1>7, <1>h, <2>1, <2>2, <2>3 DEF StartsAtMachine, HubWell
<1>8. ASSUME RowsChange PROVE HubWell'
  <2>1. rows' \in SUBSET RowSet
    BY <1>0, <1>8 DEF RowsChange, HubWell
  <2>2. uses' \subseteq Users \X Agents
    BY <1>0, <1>8, <2>1, UsesTypes DEF RowsChange, HubWell
  <2>3. UNCHANGED <<overlap, online, listed, creators, running, calls, undone>>
    BY <1>8 DEF RowsChange
  <2>4. changes' \in 0..MaxChanges
    BY <1>8, <1>h DEF RowsChange
  <2> QED BY <1>0, <2>1, <2>2, <2>3, <2>4 DEF HubWell
<1>9. ASSUME UNCHANGED accessVars PROVE HubWell'
  <2>1. UNCHANGED <<overlap, rows, online, listed, creators, running, calls, changes,
                    uses, undone>>
    BY <1>9 DEF accessVars
  <2> QED BY <1>0, <2>1 DEF HubWell
<1>10. HubWell'
  BY <1>1, <1>2, <1>3, <1>4, <1>5, <1>6, <1>7, <1>8, <1>9 DEF Next
<1>11. CallsWell'
  BY CallsStep
<1> QED BY <1>10, <1>11 DEF TypeInv, TypeOK, CallsWell, HubWell


-----------------------------------------------------------------------------
(* What each step leaves of the requests, the sessions and the attributions. *)

\* A step of one caller: the others' requests stay as they are.
LEMMA OthersKept ==
  ASSUME TypeInv, NEW c \in Callers, Proceed(c)
  PROVE \A d \in Callers \ {c} : call'[d] = call[d]
<1>1. CASE Routes(c)
  <2>1. CASE Refuse(c)
    BY <2>1, RefuseTypes
  <2>2. CASE \E a \in Agents :
               call[c].at = "asks" /\ call' = [call EXCEPT ![c].at = "sent", ![c].to = a]
    BY <2>2, SentTypes
  <2> QED BY <1>1, <2>1, <2>2, RoutesDoes
<1>2. CASE AgentCreates(c)
  <2>1. call[c].at = "sent" /\ (Replies(c, "ok") \/ Replies(c, "error"))
    BY <1>2 DEF AgentCreates
  <2> QED BY <2>1, RepliesTypes
<1>3. CASE AgentDeletes(c)
  <2>1. call[c].at = "sent" /\ (Replies(c, "ok") \/ Replies(c, "error"))
    BY <1>3 DEF AgentDeletes
  <2> QED BY <2>1, RepliesTypes
<1>4. CASE GivesUp(c)
  BY <1>4, RefuseTypes DEF GivesUp
<1>5. CASE Attributes(c)
  BY <1>5, RefuseTypes DEF Attributes
<1>6. CASE Forgets(c)
  BY <1>6, RefuseTypes DEF Forgets
<1> QED BY <1>1, <1>2, <1>3, <1>4, <1>5, <1>6 DEF Proceed

\* What a step of a request makes of the request.
LEMMA OwnKept ==
  ASSUME TypeInv, NEW c \in Callers, Proceed(c)
  PROVE \/ call'[c] = Idle
        \/ /\ Routes(c)
           /\ \E a \in Agents :
                /\ call'[c] = [call[c] EXCEPT !.at = "sent", !.to = a]
                /\ a \in Allowed(call[c].user, call[c].scope, Wanted(c))
                /\ call[c].op = "create" => UnderCap(Counted(call[c].user, call[c].scope))
        \/ /\ AgentCreates(c) \/ AgentDeletes(c)
           /\ \E reply \in {"ok", "error"} :
                call'[c] = [call[c] EXCEPT !.at = "replied", !.reply = reply]
<1>1. CASE Routes(c)
  <2>1. CASE Refuse(c)
    BY <2>1, RefuseTypes
  <2>2. CASE \E a \in Agents :
             /\ call[c].at = "asks" /\ call' = [call EXCEPT ![c].at = "sent", ![c].to = a]
             /\ a \in Allowed(call[c].user, call[c].scope, Wanted(c))
             /\ call[c].op = "create" => UnderCap(Counted(call[c].user, call[c].scope))
    BY <1>1, <2>2, SentTypes
  <2> QED BY <1>1, <2>1, <2>2, RoutesDoes
<1>2. CASE AgentCreates(c)
  <2>1. call[c].at = "sent" /\ (Replies(c, "ok") \/ Replies(c, "error"))
    BY <1>2 DEF AgentCreates
  <2> QED BY <1>2, <2>1, RepliesTypes
<1>3. CASE AgentDeletes(c)
  <2>1. call[c].at = "sent" /\ (Replies(c, "ok") \/ Replies(c, "error"))
    BY <1>3 DEF AgentDeletes
  <2> QED BY <1>3, <2>1, RepliesTypes
<1>4. CASE GivesUp(c)
  BY <1>4, RefuseTypes DEF GivesUp
<1>5. CASE Attributes(c)
  BY <1>5, RefuseTypes DEF Attributes
<1>6. CASE Forgets(c)
  BY <1>6, RefuseTypes DEF Forgets
<1> QED BY <1>1, <1>2, <1>3, <1>4, <1>5, <1>6 DEF Proceed

LEMMA UsesStay ==
  ASSUME [Next]_accessVars
  PROVE uses \subseteq uses'
<1>1. ASSUME NEW c \in Callers, Proceed(c) PROVE uses' = uses
  BY <1>1 DEF Proceed, Routes, AgentCreates, AgentDeletes, GivesUp, Attributes, Forgets
<1>2. ASSUME NEW a \in Agents, Polls(a) \/ Drops(a) \/ Reconnects(a) PROVE uses' = uses
  BY <1>2 DEF Polls, Drops, Reconnects
<1>3. ASSUME NEW a \in Agents, NEW n \in Names, Leaves(a, n) \/ StartsAtMachine(a, n)
      PROVE uses' = uses
  BY <1>3 DEF Leaves, StartsAtMachine
<1>4. ASSUME RowsChange PROVE uses \subseteq uses'
  BY <1>4 DEF RowsChange
<1>5. ASSUME NEW c \in Callers, NEW u \in Users, NEW op \in {"create", "delete"},
             NEW label \in Labels \cup {None}, NEW n \in Names, Arrives(c, u, op, label, n)
      PROVE uses' = uses
  BY <1>5 DEF Arrives
<1>6. ASSUME UNCHANGED accessVars PROVE uses' = uses
  BY <1>6 DEF accessVars
<1> QED BY <1>1, <1>2, <1>3, <1>4, <1>5, <1>6 DEF Next

\* Steps of the world leave every request alone.
World ==
  \/ \E a \in Agents : Polls(a) \/ Drops(a) \/ Reconnects(a)
  \/ \E a \in Agents, n \in Names : Leaves(a, n) \/ StartsAtMachine(a, n)
  \/ RowsChange \/ UNCHANGED accessVars

LEMMA Cases ==
  ASSUME [Next]_accessVars
  PROVE \/ \E c \in Callers, u \in Users, op \in {"create", "delete"},
             label \in Labels \cup {None}, n \in Names : Arrives(c, u, op, label, n)
        \/ \E c \in Callers : Proceed(c)
        \/ World
BY DEF Next, World

LEMMA WorldLeaves == ASSUME World PROVE UNCHANGED <<call, overlap>>
<1>1. ASSUME NEW a \in Agents, Polls(a) \/ Drops(a) \/ Reconnects(a)
      PROVE UNCHANGED <<call, overlap>>
  BY <1>1 DEF Polls, Drops, Reconnects, bounds
<1>2. ASSUME NEW a \in Agents, NEW n \in Names, Leaves(a, n) \/ StartsAtMachine(a, n)
      PROVE UNCHANGED <<call, overlap>>
  BY <1>2 DEF Leaves, StartsAtMachine
<1>3. CASE RowsChange
  BY <1>3 DEF RowsChange
<1>4. CASE UNCHANGED accessVars
  BY <1>4 DEF accessVars
<1> QED BY <1>1, <1>2, <1>3, <1>4 DEF World


\* Only a create that was sent makes a session for somebody else than the owner.
LEMMA SessionsChange ==
  ASSUME AccessAssumption, TypeInv, [Next]_accessVars, NEW a \in Agents, NEW n \in Names
  PROVE \/ running'[a][n] \in {running[a][n], None, OwnerOf[a]}
        \/ \E c \in Callers : /\ call[c].at = "sent" /\ call[c].op = "create"
                              /\ a = call[c].to /\ running'[a][n] = call[c].user
<1>t. running \in [Agents -> [Names -> Users \cup {None}]]
  BY DEF TypeInv, TypeOK
<1>1. ASSUME NEW c \in Callers, Routes(c) \/ GivesUp(c) \/ Attributes(c) \/ Forgets(c)
      PROVE running' = running
  BY <1>1 DEF Routes, GivesUp, Attributes, Forgets
<1>2. ASSUME NEW c \in Callers, AgentCreates(c)
      PROVE \/ running'[a][n] = running[a][n]
            \/ /\ call[c].at = "sent" /\ call[c].op = "create"
               /\ a = call[c].to /\ running'[a][n] = call[c].user
  <2>1. call[c].to \in Agents /\ call[c].name \in Names
    BY <1>2, CallFields DEF AgentCreates
  <2>2. call[c].at = "sent" /\ call[c].op = "create"
    BY <1>2 DEF AgentCreates
  <2>3. \/ running' = running
        \/ running' = [running EXCEPT ![call[c].to][call[c].name] = call[c].user]
    BY <1>2 DEF AgentCreates
  <2> QED BY <1>t, <2>1, <2>2, <2>3
<1>3. ASSUME NEW c \in Callers, AgentDeletes(c) PROVE running'[a][n] \in {running[a][n], None}
  <2>1. call[c].to \in Agents /\ call[c].name \in Names
    BY <1>3, CallFields DEF AgentDeletes
  <2>2. \/ running' = running
        \/ running' = [running EXCEPT ![call[c].to][call[c].name] = None]
    BY <1>3 DEF AgentDeletes
  <2> QED BY <1>t, <2>1, <2>2
<1>4. ASSUME NEW b \in Agents, Polls(b) \/ Drops(b) \/ Reconnects(b) PROVE running' = running
  BY <1>4 DEF Polls, Drops, Reconnects
<1>5. ASSUME NEW b \in Agents, NEW m \in Names, Leaves(b, m) \/ StartsAtMachine(b, m)
      PROVE running'[a][n] \in {running[a][n], None, OwnerOf[a]}
  <2>1. CASE Leaves(b, m)
    BY <1>t, <2>1 DEF Leaves
  <2>2. CASE StartsAtMachine(b, m)
    BY <1>t, <2>2 DEF StartsAtMachine
  <2> QED BY <1>5, <2>1, <2>2
<1>6. ASSUME RowsChange \/ UNCHANGED accessVars PROVE running' = running
  BY <1>6 DEF RowsChange, accessVars
<1>7. ASSUME NEW c \in Callers, NEW u \in Users, NEW op \in {"create", "delete"},
             NEW label \in Labels \cup {None}, NEW m \in Names, Arrives(c, u, op, label, m)
      PROVE running' = running
  BY <1>7 DEF Arrives
<1>8. ASSUME World PROVE running'[a][n] \in {running[a][n], None, OwnerOf[a]}
  BY <1>4, <1>5, <1>6, <1>8 DEF World
<1>9. ASSUME NEW c \in Callers, Proceed(c)
      PROVE \/ running'[a][n] \in {running[a][n], None}
            \/ /\ call[c].at = "sent" /\ call[c].op = "create"
               /\ a = call[c].to /\ running'[a][n] = call[c].user
  BY <1>1, <1>2, <1>3, <1>9 DEF Proceed
<1> QED BY <1>7, <1>8, <1>9, Cases

LEMMA RowsStay ==
  ASSUME [Next]_accessVars
  PROVE rows' = rows \/ uses' = uses \cup Uses(rows')
<1>1. ASSUME NEW c \in Callers, Proceed(c) PROVE rows' = rows
  BY <1>1 DEF Proceed, Routes, AgentCreates, AgentDeletes, GivesUp, Attributes, Forgets, hub
<1>2. ASSUME NEW a \in Agents, Polls(a) \/ Drops(a) \/ Reconnects(a) PROVE rows' = rows
  BY <1>2 DEF Polls, Drops, Reconnects
<1>3. ASSUME NEW a \in Agents, NEW n \in Names, Leaves(a, n) \/ StartsAtMachine(a, n)
      PROVE rows' = rows
  BY <1>3 DEF Leaves, StartsAtMachine, hub
<1>4. ASSUME RowsChange PROVE uses' = uses \cup Uses(rows')
  BY <1>4 DEF RowsChange
<1>5. ASSUME NEW c \in Callers, NEW u \in Users, NEW op \in {"create", "delete"},
             NEW label \in Labels \cup {None}, NEW n \in Names, Arrives(c, u, op, label, n)
      PROVE rows' = rows
  BY <1>5 DEF Arrives, hub
<1>6. ASSUME UNCHANGED accessVars PROVE rows' = rows
  BY <1>6 DEF accessVars
<1> QED BY <1>1, <1>2, <1>3, <1>4, <1>5, <1>6 DEF Next

-----------------------------------------------------------------------------
(* Grants.                                                                   *)

LEMMA RecordedStep ==
  ASSUME TypeInv, Recorded, [Next]_accessVars
  PROVE Recorded'
<1>0. uses \subseteq uses'
  BY UsesStay
<1>1. Uses(rows') \subseteq uses'
  <2>1. CASE rows' = rows
    BY <1>0, <2>1 DEF Recorded
  <2>2. CASE uses' = uses \cup Uses(rows')
    BY <2>2
  <2> QED BY <2>1, <2>2, RowsStay
<1>2. ASSUME NEW c \in Callers, NEW u \in Users, NEW op \in {"create", "delete"},
             NEW label \in Labels \cup {None}, NEW n \in Names, Arrives(c, u, op, label, n),
             NEW d \in Callers
      PROVE Uses(call'[d].scope) \subseteq uses'
  <2>1. CASE d = c
    <3>1. call'[c].scope = ScopeOf(u)
      BY <1>2, ArrivesDoes
    <3>2. Uses(ScopeOf(u)) \subseteq Uses(rows)
      BY UsesGrow DEF ScopeOf
    <3> QED BY <1>0, <2>1, <3>1, <3>2 DEF Recorded
  <2>2. CASE d # c
    BY <1>0, <1>2, <2>2, ArrivesDoes DEF Recorded
  <2> QED BY <2>1, <2>2
<1>3. ASSUME NEW c \in Callers, Proceed(c), NEW d \in Callers
      PROVE Uses(call'[d].scope) \subseteq uses'
  <2>1. CASE d # c
    BY <1>0, <1>3, <2>1, OthersKept DEF Recorded
  <2>2. CASE d = c
    <3>1. call[c] \in CallSet
      BY CallFields
    <3>2. call'[c] = Idle \/ call'[c].scope = call[c].scope
      BY <1>3, <3>1, OwnKept DEF CallSet
    <3>3. Uses(Idle.scope) = {}
      BY DEF Idle, Uses
    <3> QED BY <1>0, <2>2, <3>2, <3>3 DEF Recorded
  <2> QED BY <2>1, <2>2
<1>4. ASSUME World, NEW d \in Callers PROVE Uses(call'[d].scope) \subseteq uses'
  BY <1>0, <1>4, WorldLeaves DEF Recorded
<1>5. \A d \in Callers : Uses(call'[d].scope) \subseteq uses'
  BY <1>2, <1>3, <1>4, Cases
<1> QED BY <1>1, <1>5 DEF Recorded, Uses

LEMMA SentStep ==
  ASSUME TypeInv, Recorded, SentByUsers, [Next]_accessVars
  PROVE SentByUsers'
<1> DEFINE Grant(q) == OwnerOf[q.to] = q.user \/ <<q.user, q.to>> \in uses'
<1>0. uses \subseteq uses'
  BY UsesStay
<1>1. ASSUME NEW d \in Callers, call[d].at = "sent", call[d].op = "create" PROVE Grant(call[d])
  BY <1>0, <1>1 DEF SentByUsers
<1>2. ASSUME NEW c \in Callers, NEW u \in Users, NEW op \in {"create", "delete"},
             NEW label \in Labels \cup {None}, NEW n \in Names, Arrives(c, u, op, label, n),
             NEW d \in Callers, call'[d].at = "sent", call'[d].op = "create"
      PROVE Grant(call'[d])
  <2>1. call'[c].at = "asks"
    BY <1>2, ArrivesDoes
  <2>2. d # c /\ call'[d] = call[d]
    BY <1>2, <2>1, ArrivesDoes
  <2> QED BY <1>1, <1>2, <2>2
<1>3. ASSUME NEW c \in Callers, Proceed(c),
             NEW d \in Callers, call'[d].at = "sent", call'[d].op = "create"
      PROVE Grant(call'[d])
  <2>1. CASE d # c
    BY <1>1, <1>3, <2>1, OthersKept
  <2>2. CASE d = c
    <3>0. call[c] \in CallSet
      BY CallFields
    <3>1. \E a \in Agents :
            /\ call'[c] = [call[c] EXCEPT !.at = "sent", !.to = a]
            /\ a \in Allowed(call[c].user, call[c].scope, Wanted(c))
      <4>1. call'[c] # Idle
        BY <1>3, <2>2 DEF Idle
      <4>2. ASSUME NEW reply \in {"ok", "error"},
                   call'[c] = [call[c] EXCEPT !.at = "replied", !.reply = reply]
            PROVE FALSE
        BY <1>3, <2>2, <3>0, <4>2 DEF CallSet
      <4> QED BY <1>3, <4>1, <4>2, OwnKept
    <3>2. PICK a \in Agents :
            /\ call'[c] = [call[c] EXCEPT !.at = "sent", !.to = a]
            /\ a \in Allowed(call[c].user, call[c].scope, Wanted(c))
      BY <3>1
    <3>3. /\ call'[c].op = call[c].op /\ call'[c].user = call[c].user /\ call'[c].to = a
      BY <3>0, <3>2 DEF CallSet
    <3>4. MayUse(call[c].user, call[c].scope, a)
      BY <1>3, <2>2, <3>2, <3>3 DEF Wanted, Allowed
    <3>5. OwnerOf[a] = call[c].user \/ <<call[c].user, a>> \in Uses(call[c].scope)
      BY <3>4, UseIsGranted
    <3> QED BY <1>0, <2>2, <3>3, <3>5 DEF Recorded
  <2> QED BY <2>1, <2>2
<1>4. ASSUME World, NEW d \in Callers, call'[d].at = "sent", call'[d].op = "create"
      PROVE Grant(call'[d])
  BY <1>1, <1>4, WorldLeaves
<1>5. \A d \in Callers : call'[d].at = "sent" /\ call'[d].op = "create" => Grant(call'[d])
  BY <1>2, <1>3, <1>4, Cases
<1> QED BY <1>5 DEF SentByUsers

LEMMA MadeStep ==
  ASSUME AccessAssumption, TypeInv, SentByUsers, MadeByUsers, [Next]_accessVars
  PROVE MadeByUsers'
<1>0. uses \subseteq uses'
  BY UsesStay
<1>1. ASSUME NEW a \in Agents, NEW n \in Names
      PROVE running'[a][n] \in {None, OwnerOf[a]} \/ <<running'[a][n], a>> \in uses'
  <2>1. CASE running'[a][n] \in {running[a][n], None, OwnerOf[a]}
    BY <1>0, <2>1 DEF MadeByUsers
  <2>2. ASSUME NEW c \in Callers, call[c].at = "sent", call[c].op = "create",
               a = call[c].to, running'[a][n] = call[c].user
        PROVE running'[a][n] = OwnerOf[a] \/ <<running'[a][n], a>> \in uses'
    BY <1>0, <2>2 DEF SentByUsers
  <2> QED BY <2>1, <2>2, SessionsChange
<1> QED BY <1>1 DEF MadeByUsers


-----------------------------------------------------------------------------
(* The pool's sessions, and what a step makes of them.                       *)

LEMMA MadeGrows ==
  ASSUME NEW b, NEW m,
         \A a \in Agents, n \in Names :
           a # b \/ n # m => running'[a][n] \in {running[a][n], None}
  PROVE Made' \subseteq Made \cup {<<b, m>>}
<1> SUFFICES ASSUME NEW p \in Made', p # <<b, m>> PROVE p \in Made
  OBVIOUS
<1>1. p \in Agents \X Names /\ OwnerOf[p[1]] \in Pool /\ running'[p[1]][p[2]] # None
  BY DEF Made
<1>2. p = <<p[1], p[2]>> /\ p[1] \in Agents /\ p[2] \in Names
  BY <1>1
<1>3. p[1] # b \/ p[2] # m
  BY <1>2
<1>4. running[p[1]][p[2]] # None
  BY <1>1, <1>2, <1>3
<1> QED BY <1>1, <1>4 DEF Made

LEMMA MadeShrinks ==
  ASSUME \A a \in Agents, n \in Names : running'[a][n] \in {running[a][n], None}
  PROVE Made' \subseteq Made
<1> SUFFICES ASSUME NEW p \in Made' PROVE p \in Made
  OBVIOUS
<1>1. p \in Agents \X Names /\ OwnerOf[p[1]] \in Pool /\ running'[p[1]][p[2]] # None
  BY DEF Made
<1>2. p[1] \in Agents /\ p[2] \in Names
  BY <1>1
<1> QED BY <1>1, <1>2 DEF Made

\* Nothing ever takes back what was noted, and requests keep to their way.
LEMMA UndoneStays ==
  ASSUME [Next]_accessVars
  PROVE undone \subseteq undone' /\ overlap' = overlap
<1>1. ASSUME NEW c \in Callers, Proceed(c) PROVE undone \subseteq undone' /\ overlap' = overlap
  BY <1>1 DEF Proceed, Routes, AgentCreates, AgentDeletes, GivesUp, Attributes, Forgets, bounds
<1>2. ASSUME NEW a \in Agents, Polls(a) \/ Drops(a) \/ Reconnects(a)
      PROVE undone \subseteq undone' /\ overlap' = overlap
  BY <1>2 DEF Polls, Drops, Reconnects, bounds
<1>3. ASSUME NEW a \in Agents, NEW n \in Names, Leaves(a, n) \/ StartsAtMachine(a, n)
      PROVE undone \subseteq undone' /\ overlap' = overlap
  BY <1>3 DEF Leaves, StartsAtMachine
<1>4. ASSUME RowsChange \/ UNCHANGED accessVars PROVE undone' = undone /\ overlap' = overlap
  BY <1>4 DEF RowsChange, accessVars
<1>5. ASSUME NEW c \in Callers, NEW u \in Users, NEW op \in {"create", "delete"},
             NEW label \in Labels \cup {None}, NEW n \in Names, Arrives(c, u, op, label, n)
      PROVE undone' = undone /\ overlap' = overlap
  BY <1>5 DEF Arrives
<1> QED BY <1>1, <1>2, <1>3, <1>4, <1>5 DEF Next

\* The pool gains a session by a create that was sent, or by an uncounted start.
LEMMA MadeChanges ==
  ASSUME TypeInv, [Next]_accessVars
  PROVE \/ Made' \subseteq Made
        \/ \E p : /\ Made' \subseteq Made \cup {p}
                  /\ \/ \E c \in Callers : AgentCreates(c)
                     \/ "uncounted" \in undone'
<1>t. running \in [Agents -> [Names -> Users \cup {None}]]
  BY DEF TypeInv, TypeOK
<1>0. ASSUME running' = running PROVE Made' \subseteq Made
  BY <1>0 DEF Made
<1>1. ASSUME NEW c \in Callers, Routes(c) \/ GivesUp(c) \/ Attributes(c) \/ Forgets(c)
      PROVE Made' \subseteq Made
  BY <1>0, <1>1 DEF Routes, GivesUp, Attributes, Forgets
<1>2. ASSUME NEW c \in Callers, AgentCreates(c) PROVE \E p : Made' \subseteq Made \cup {p}
  <2>1. call[c].to \in Agents /\ call[c].name \in Names
    BY <1>2, CallFields DEF AgentCreates
  <2>2. \/ running' = running
        \/ running' = [running EXCEPT ![call[c].to][call[c].name] = call[c].user]
    BY <1>2 DEF AgentCreates
  <2>3. \A a \in Agents, n \in Names :
          a # call[c].to \/ n # call[c].name => running'[a][n] \in {running[a][n], None}
    BY <1>t, <2>1, <2>2
  <2> DEFINE b == call[c].to  m == call[c].name
  <2> HIDE DEF b, m
  <2>a. \A a \in Agents, n \in Names : a # b \/ n # m => running'[a][n] \in {running[a][n], None}
    BY <2>3 DEF b, m
  <2>4. Made' \subseteq Made \cup {<<b, m>>}
    BY <2>a, MadeGrows
  <2> QED BY <2>4
<1>3. ASSUME NEW c \in Callers, AgentDeletes(c) PROVE Made' \subseteq Made
  <2>1. call[c].to \in Agents /\ call[c].name \in Names
    BY <1>3, CallFields DEF AgentDeletes
  <2>2. \/ running' = running
        \/ running' = [running EXCEPT ![call[c].to][call[c].name] = None]
    BY <1>3 DEF AgentDeletes
  <2>3. \A a \in Agents, n \in Names : running'[a][n] \in {running[a][n], None}
    BY <1>t, <2>1, <2>2
  <2> QED BY <2>3, MadeShrinks
<1>4. ASSUME NEW b \in Agents, Polls(b) \/ Drops(b) \/ Reconnects(b) PROVE Made' \subseteq Made
  BY <1>0, <1>4 DEF Polls, Drops, Reconnects
<1>5. ASSUME NEW b \in Agents, NEW m \in Names, Leaves(b, m) PROVE Made' \subseteq Made
  <2>1. \A a \in Agents, n \in Names : running'[a][n] \in {running[a][n], None}
    BY <1>t, <1>5 DEF Leaves
  <2> QED BY <2>1, MadeShrinks
<1>6. ASSUME NEW b \in Agents, NEW m \in Names, StartsAtMachine(b, m)
      PROVE (\E p : Made' \subseteq Made \cup {p}) /\ "uncounted" \in undone'
  <2>1. \A a \in Agents, n \in Names : a # b \/ n # m => running'[a][n] = running[a][n]
    BY <1>t, <1>6 DEF StartsAtMachine
  <2>2. Made' \subseteq Made \cup {<<b, m>>}
    BY <2>1, MadeGrows
  <2>3. "uncounted" \in undone'
    BY <1>6 DEF StartsAtMachine
  <2> QED BY <2>2, <2>3
<1>7. ASSUME RowsChange \/ UNCHANGED accessVars PROVE Made' \subseteq Made
  BY <1>0, <1>7 DEF RowsChange, accessVars
<1>8. ASSUME NEW c \in Callers, NEW u \in Users, NEW op \in {"create", "delete"},
             NEW label \in Labels \cup {None}, NEW m \in Names, Arrives(c, u, op, label, m)
      PROVE Made' \subseteq Made
  BY <1>0, <1>8 DEF Arrives
<1>9. ASSUME World
      PROVE Made' \subseteq Made
              \/ ((\E p : Made' \subseteq Made \cup {p}) /\ "uncounted" \in undone')
  BY <1>4, <1>5, <1>6, <1>7, <1>9 DEF World
<1>10. ASSUME NEW c \in Callers, Proceed(c)
       PROVE Made' \subseteq Made
               \/ ((\E p : Made' \subseteq Made \cup {p}) /\ AgentCreates(c))
  BY <1>1, <1>2, <1>3, <1>10 DEF Proceed
<1> QED BY <1>8, <1>9, <1>10, Cases

LEMMA FiniteStep ==
  ASSUME TypeInv, FiniteMade, [Next]_accessVars
  PROVE FiniteMade'
<1>1. ASSUME NEW p, Made' \subseteq Made \cup {p} PROVE IsFiniteSet(Made')
  <2>1. IsFiniteSet(Made \cup {p})
    BY FS_AddElement DEF FiniteMade
  <2> QED BY <1>1, <2>1, FS_Subset
<1>2. ASSUME Made' \subseteq Made PROVE IsFiniteSet(Made')
  BY <1>2, FS_Subset DEF FiniteMade
<1>3. IsFiniteSet(Made')
  BY <1>1, <1>2, MadeChanges
<1> QED BY <1>3 DEF FiniteMade

-----------------------------------------------------------------------------
(* One request at a time.                                                    *)

LEMMA OneStep ==
  ASSUME TypeInv, ~overlap => OneCall, [Next]_accessVars, ~overlap'
  PROVE OneCall /\ OneCall'
<1>0. ~overlap /\ OneCall
  BY UndoneStays
<1>1. ASSUME NEW c \in Callers, NEW u \in Users, NEW op \in {"create", "delete"},
             NEW label \in Labels \cup {None}, NEW n \in Names, Arrives(c, u, op, label, n)
      PROVE \A d \in Callers : call'[d].at # "idle" => d = c
  <2>0. overlap \/ Alone
    BY <1>1 DEF Arrives
  <2>1. \A d \in Callers : call[d].at = "idle"
    BY <1>0, <2>0 DEF Alone
  <2> QED BY <1>1, <2>1, ArrivesDoes
<1>2. ASSUME NEW c \in Callers, Proceed(c)
      PROVE \A d \in Callers : call'[d].at # "idle" => call[d].at # "idle"
  <2>1. call[c].at # "idle"
    BY <1>2 DEF Proceed, Routes, AgentCreates, AgentDeletes, GivesUp, Attributes, Forgets
  <2> QED BY <1>2, <2>1, OthersKept
<1>3. ASSUME World PROVE \A d \in Callers : call'[d].at # "idle" => call[d].at # "idle"
  BY <1>3, WorldLeaves
<1>4. ASSUME \A d \in Callers : call'[d].at # "idle" => call[d].at # "idle" PROVE OneCall'
  BY <1>0, <1>4 DEF OneCall
<1>5. ASSUME NEW c \in Callers, \A d \in Callers : call'[d].at # "idle" => d = c PROVE OneCall'
  BY <1>5 DEF OneCall
<1>6. OneCall'
  BY <1>1, <1>2, <1>3, <1>4, <1>5, Cases
<1> QED BY <1>0, <1>6


-----------------------------------------------------------------------------
(* The team's cap.                                                           *)

\* On lists that are up to date the gate counts what the pool has made.
LEMMA CountIsMade ==
  ASSUME NEW u \in Pool, NEW scope,
         \A a \in Agents : listed[a] = {n \in Names : running[a][n] # None}
  PROVE Counted(u, scope) = Cardinality(Made)
<1>1. \A p \in Agents \X Names : p[1] \in Agents /\ p[2] \in Names
  OBVIOUS
<1>2. \A p \in Agents \X Names : p[2] \in listed[p[1]] <=> running[p[1]][p[2]] # None
  BY <1>1
<1>3. PoolsListed = Made
  BY <1>2 DEF PoolsListed, Made
<1> QED BY <1>3 DEF Counted

\* A create on its way was so before, or has just passed the gate.
LEMMA SendersCome ==
  ASSUME TypeInv, [Next]_accessVars,
         NEW d \in Callers, call'[d].at = "sent", call'[d].op = "create"
  PROVE \/ call[d].at = "sent" /\ call[d].op = "create"
        \/ Routes(d) /\ call[d].op = "create" /\ UnderCap(Counted(call[d].user, call[d].scope))
<1>1. ASSUME NEW c \in Callers, NEW u \in Users, NEW op \in {"create", "delete"},
             NEW label \in Labels \cup {None}, NEW n \in Names, Arrives(c, u, op, label, n)
      PROVE call'[d] = call[d]
  <2>1. d # c
    BY <1>1, ArrivesDoes
  <2> QED BY <1>1, <2>1, ArrivesDoes
<1>2. ASSUME NEW c \in Callers, Proceed(c), d # c PROVE call'[d] = call[d]
  BY <1>2, OthersKept
<1>3. ASSUME Proceed(d)
      PROVE Routes(d) /\ call[d].op = "create" /\ UnderCap(Counted(call[d].user, call[d].scope))
  <2>0. call[d] \in CallSet
    BY CallFields
  <2>1. call'[d] # Idle
    BY DEF Idle
  <2>2. ASSUME NEW reply \in {"ok", "error"},
               call'[d] = [call[d] EXCEPT !.at = "replied", !.reply = reply]
        PROVE FALSE
    BY <2>0, <2>2 DEF CallSet
  <2>3. /\ Routes(d)
        /\ \E a \in Agents :
             /\ call'[d] = [call[d] EXCEPT !.at = "sent", !.to = a]
             /\ call[d].op = "create" => UnderCap(Counted(call[d].user, call[d].scope))
    BY <1>3, <2>1, <2>2, OwnKept
  <2>4. call'[d].op = call[d].op
    BY <2>0, <2>3 DEF CallSet
  <2> QED BY <2>3, <2>4
<1>4. ASSUME World PROVE call'[d] = call[d]
  BY <1>4, WorldLeaves
<1> QED BY <1>1, <1>2, <1>3, <1>4, Cases

LEMMA RoomStep ==
  ASSUME AccessAssumption, TypeInv, FiniteMade, Room, OneCall,
         [Next]_accessVars, "uncounted" \notin undone'
  PROVE Room'
<1>n. Cap \in Nat /\ Cardinality(Made) \in Nat /\ Cardinality(Made) <= Cap
  BY FS_CardinalityType DEF AccessAssumption, FiniteMade, Room
<1>f. IsFiniteSet(Made')
  BY FiniteStep DEF FiniteMade
<1>m. Cardinality(Made') \in Nat
  BY <1>f, FS_CardinalityType
<1>1. ASSUME Made' \subseteq Made PROVE Cardinality(Made') <= Cardinality(Made)
  BY <1>1, FS_Subset DEF FiniteMade
<1>2. ASSUME NEW c \in Callers, AgentCreates(c), NEW p, Made' \subseteq Made \cup {p}
      PROVE Cardinality(Made') <= Cap
  <2>1. call[c].at = "sent" /\ call[c].op = "create"
    BY <1>2 DEF AgentCreates
  <2>2. Cardinality(Made) < Cap
    BY <2>1 DEF Room
  <2>3. /\ IsFiniteSet(Made \cup {p})
        /\ Cardinality(Made \cup {p}) \in {Cardinality(Made), Cardinality(Made) + 1}
    BY FS_AddElement DEF FiniteMade
  <2>4. Cardinality(Made') <= Cardinality(Made \cup {p})
    BY <1>2, <2>3, FS_Subset
  <2> QED BY <1>n, <1>m, <2>2, <2>3, <2>4
<1>3. Cardinality(Made') <= Cap
  BY <1>n, <1>m, <1>1, <1>2, MadeChanges
<1>4. ASSUME NEW d \in Callers, call'[d].at = "sent", call'[d].op = "create"
      PROVE Cardinality(Made') < Cap
  <2>1. ASSUME NEW c \in Callers, AgentCreates(c) PROVE FALSE
    <3>1. call[c].at = "sent" /\ ~Routes(d)
      <4>1. call[c].at = "sent"
        BY <2>1 DEF AgentCreates
      <4>2. call[d].at = "asks" => d = c
        BY <4>1 DEF OneCall
      <4> QED BY <4>1, <4>2 DEF Routes
    <3>2. call[d].at = "sent"
      BY <1>4, <3>1, SendersCome
    <3>3. d = c
      BY <3>1, <3>2 DEF OneCall
    <3>4. Replies(c, "ok") \/ Replies(c, "error")
      BY <2>1 DEF AgentCreates
    <3>a. \E reply \in {"ok", "error"} :
            call'[c] = [call[c] EXCEPT !.at = "replied", !.reply = reply]
      BY <3>1, <3>4, RepliesTypes
    <3>b. call[c] \in CallSet
      BY CallFields
    <3>5. call'[c].at = "replied"
      BY <3>a, <3>b DEF CallSet
    <3> QED BY <1>4, <3>3, <3>5
  <2>2. Made' \subseteq Made
    BY <2>1, MadeChanges
  <2>3. CASE call[d].at = "sent" /\ call[d].op = "create"
    <3>1. Cardinality(Made) < Cap
      BY <2>3 DEF Room
    <3> QED BY <1>n, <1>m, <1>1, <2>2, <3>1
  <2>4. CASE Routes(d) /\ call[d].op = "create"
             /\ UnderCap(Counted(call[d].user, call[d].scope))
    <3>1. ~Uncounted(d)
      BY <2>4 DEF Routes
    <3>2. /\ call[d].user \in Pool
          /\ \A a \in Agents : listed[a] = {n \in Names : running[a][n] # None}
      BY <2>4, <3>1 DEF Uncounted
    <3>3. Counted(call[d].user, call[d].scope) = Cardinality(Made)
      BY <3>2, CountIsMade
    <3>4. Cardinality(Made) < Cap
      BY <2>4, <3>3 DEF UnderCap
    <3> QED BY <1>n, <1>m, <1>1, <2>2, <3>4
  <2> QED BY <1>4, <2>3, <2>4, SendersCome
<1> QED BY <1>3, <1>4 DEF Room


-----------------------------------------------------------------------------
(* Whose a session is.                                                       *)

Credits == Attributed /\ Owing

\* A step that touches neither side, and no reply, changes nothing here.
LEMMA CreditsStay ==
  ASSUME Credits, UNCHANGED <<creators, running>>,
         \A d \in Callers : call[d].at = "replied" \/ call'[d].at = "replied" => call'[d] = call[d]
  PROVE Credits'
<1>1. ASSUME NEW a \in Agents, NEW n \in Names
      PROVE Accurate(a, n)' \/ \E d \in Callers : Settling(call'[d], a, n)
  <2>1. CASE Accurate(a, n)
    BY <2>1 DEF Accurate
  <2>2. ASSUME NEW d \in Callers, Settling(call[d], a, n) PROVE Settling(call'[d], a, n)
    <3>1. call'[d] = call[d]
      BY <2>2 DEF Settling
    <3> QED BY <2>2, <3>1
  <2> QED BY <2>1, <2>2 DEF Credits, Attributed
<1>2. Attributed'
  BY <1>1 DEF Attributed, Settling
<1>3. Owing'
  BY DEF Credits, Owing
<1> QED BY <1>2, <1>3 DEF Credits

\* Nobody has a reply to settle: then every session is put down truly.
LEMMA AllAccurate ==
  ASSUME Credits, \A d \in Callers : call[d].at # "replied",
         NEW a \in Agents, NEW n \in Names
  PROVE Accurate(a, n)
BY DEF Credits, Attributed, Settling

LEMMA NoReplyCredits ==
  ASSUME \A a \in Agents, n \in Names : Accurate(a, n)',
         \A d \in Callers : call'[d].at # "replied"
  PROVE Credits'
BY DEF Credits, Attributed, Owing

LEMMA WorldCredits ==
  ASSUME AccessAssumption, TypeInv, Credits, World, "blurred" \notin undone'
  PROVE Credits'
<1>0. call' = call
  BY WorldLeaves
<1>t. /\ creators \in [Agents -> [Names -> Users \cup {None}]]
      /\ running \in [Agents -> [Names -> Users \cup {None}]]
      /\ OwnerOf \in [Agents -> Users] /\ None \notin Users
  BY DEF TypeInv, TypeOK, AccessAssumption
<1>1. ASSUME NEW a \in Agents, Polls(a) \/ Drops(a) PROVE UNCHANGED <<creators, running>>
  BY <1>1 DEF Polls, Drops
<1>2. ASSUME NEW a \in Agents, Reconnects(a) PROVE FALSE
  BY <1>2 DEF Reconnects
<1>3. ASSUME NEW a \in Agents, NEW n \in Names, Leaves(a, n) PROVE FALSE
  BY <1>3 DEF Leaves
<1>4. ASSUME RowsChange \/ UNCHANGED accessVars PROVE UNCHANGED <<creators, running>>
  BY <1>4 DEF RowsChange, accessVars
<1>5. ASSUME UNCHANGED <<creators, running>> PROVE Credits'
  BY <1>0, <1>5, CreditsStay
<1>6. ASSUME NEW a \in Agents, NEW n \in Names, StartsAtMachine(a, n) PROVE Credits'
  <2>1. /\ running[a][n] = None /\ creators' = creators
        /\ running' = [running EXCEPT ![a][n] = OwnerOf[a]]
    BY <1>6 DEF StartsAtMachine, hub
  <2>2. ASSUME NEW b \in Agents, NEW m \in Names
        PROVE Accurate(b, m)' \/ \E d \in Callers : Settling(call'[d], b, m)
    <3>1. CASE Accurate(b, m)
      BY <1>t, <2>1, <3>1 DEF Accurate
    <3>2. CASE \E d \in Callers : Settling(call[d], b, m)
      BY <1>0, <3>2
    <3> QED BY <3>1, <3>2 DEF Credits, Attributed
  <2>3. Attributed'
    BY <2>2 DEF Attributed, Settling
  <2>4. ASSUME NEW d \in Callers, call[d].at = "replied"
        PROVE /\ call[d].op = "create" /\ call[d].reply = "ok" =>
                   /\ running'[call[d].to][call[d].name] = call[d].user
                   /\ creators'[call[d].to][call[d].name] = None
              /\ call[d].op = "delete" =>
                   /\ call[d].reply = "ok"
                   /\ running'[call[d].to][call[d].name] \in {None, OwnerOf[call[d].to]}
    <3>1. call[d].to \in Agents /\ call[d].name \in Names /\ call[d].user \in Users
      BY <2>4, CallFields
    <3> QED BY <1>t, <2>1, <2>4, <3>1 DEF Credits, Owing
  <2>5. Owing'
    BY <1>0, <2>4 DEF Owing
  <2> QED BY <2>3, <2>5 DEF Credits
<1> QED BY <1>1, <1>2, <1>3, <1>4, <1>5, <1>6 DEF World


LEMMA RouteCredits ==
  ASSUME TypeInv, Credits, OneCall, NEW c \in Callers, Routes(c)
  PROVE Credits'
<1>1. UNCHANGED <<creators, running>> /\ call[c].at = "asks"
  BY DEF Routes, hub
<1>2. call'[c].at # "replied"
  <2>1. call[c] \in CallSet
    BY CallFields
  <2>2. CASE Refuse(c)
    BY <2>2, RefuseTypes DEF Idle
  <2>3. CASE \E a \in Agents :
               call[c].at = "asks" /\ call' = [call EXCEPT ![c].at = "sent", ![c].to = a]
    <3>1. \E a \in Agents : call'[c] = [call[c] EXCEPT !.at = "sent", !.to = a]
      BY <2>3, SentTypes
    <3> QED BY <2>1, <3>1 DEF CallSet
  <2> QED BY <2>2, <2>3, RoutesDoes
<1>3. \A d \in Callers \ {c} : call'[d] = call[d]
  BY OthersKept DEF Proceed
<1> QED BY <1>1, <1>2, <1>3, CreditsStay

\* An answer: the one session it is about is the request's to settle.
LEMMA AnswerCredits ==
  ASSUME AccessAssumption, TypeInv, Credits, OneCall, NEW c \in Callers,
         AgentCreates(c) \/ AgentDeletes(c), "blurred" \notin undone'
  PROVE Credits'
<1> DEFINE to == call[c].to  name == call[c].name  user == call[c].user
<1>t. /\ creators \in [Agents -> [Names -> Users \cup {None}]]
      /\ running \in [Agents -> [Names -> Users \cup {None}]]
      /\ OwnerOf \in [Agents -> Users] /\ None \notin Users
  BY DEF TypeInv, TypeOK, AccessAssumption
<1>0. /\ call[c].at = "sent" /\ to \in Agents /\ name \in Names /\ user \in Users
      /\ creators' = creators /\ call[c] \in CallSet
  BY CallFields DEF AgentCreates, AgentDeletes, hub
<1>1. \A d \in Callers : call[d].at # "replied"
  BY <1>0 DEF OneCall
<1>2. \A a \in Agents, n \in Names : Accurate(a, n)
  BY <1>1, AllAccurate
<1>3. \A d \in Callers : d # c => call'[d].at # "replied"
  BY <1>1, OthersKept DEF Proceed
<1>4. ASSUME NEW reply \in {"ok", "error"}, Replies(c, reply)
      PROVE /\ call'[c].at = "replied" /\ call'[c].reply = reply /\ call'[c].to = to
            /\ call'[c].name = name /\ call'[c].user = user /\ call'[c].op = call[c].op
  <2>1. call'[c] = [call[c] EXCEPT !.at = "replied", !.reply = reply]
    BY <1>0, <1>4, RepliesTypes
  <2> QED BY <1>0, <2>1 DEF CallSet
<1> HIDE DEF to, name, user
<1>5. ASSUME AgentCreates(c), Replies(c, "error"), UNCHANGED running PROVE Credits'
  <2>1. call'[c].reply = "error" /\ call'[c].op = "create"
    BY <1>4, <1>5 DEF AgentCreates
  <2>2. Attributed'
    BY <1>0, <1>2, <1>5 DEF Attributed, Accurate
  <2>3. Owing'
    BY <1>3, <2>1 DEF Owing
  <2> QED BY <2>2, <2>3 DEF Credits
<1>6. ASSUME NEW maker \in Users \cup {None}, running' = [running EXCEPT ![to][name] = maker],
             Replies(c, "ok")
      PROVE Attributed'
  <2>1. /\ call'[c].at = "replied" /\ call'[c].reply = "ok" /\ call'[c].to = to
        /\ call'[c].name = name
    BY <1>4, <1>6
  <2>2. ASSUME NEW a \in Agents, NEW n \in Names
        PROVE Accurate(a, n)' \/ \E d \in Callers : Settling(call'[d], a, n)
    <3>1. CASE a = to /\ n = name
      BY <2>1, <3>1 DEF Settling
    <3>2. CASE ~(a = to /\ n = name)
      <4>1. running'[a][n] = running[a][n]
        BY <1>t, <1>0, <1>6, <3>2
      <4> QED BY <1>0, <1>2, <4>1 DEF Accurate
    <3> QED BY <3>1, <3>2
  <2> QED BY <2>2 DEF Attributed, Settling
<1>7. ASSUME AgentCreates(c), running[to][name] = None, Replies(c, "ok"),
             running' = [running EXCEPT ![to][name] = user]
      PROVE Credits'
  <2>1. /\ call'[c].op = "create" /\ call'[c].to = to /\ call'[c].name = name
        /\ call'[c].user = user
    BY <1>4, <1>7 DEF AgentCreates
  <2>2. Attributed'
    BY <1>0, <1>6, <1>7
  <2>3. running'[to][name] = user
    BY <1>t, <1>0, <1>7
  <2>4. creators'[to][name] = None
    BY <1>t, <1>0, <1>2, <1>7 DEF Accurate
  <2>5. Owing'
    BY <1>3, <2>1, <2>3, <2>4 DEF Owing
  <2> QED BY <2>2, <2>5 DEF Credits
<1>8. ASSUME AgentDeletes(c), Replies(c, "ok"), running' = [running EXCEPT ![to][name] = None]
      PROVE Credits'
  <2>1. /\ call'[c].op = "delete" /\ call'[c].reply = "ok"
        /\ call'[c].to = to /\ call'[c].name = name
    BY <1>4, <1>8 DEF AgentDeletes
  <2>2. Attributed'
    BY <1>6, <1>8
  <2>3. running'[to][name] = None
    BY <1>t, <1>0, <1>8
  <2>4. Owing'
    BY <1>3, <2>1, <2>3 DEF Owing
  <2> QED BY <2>2, <2>4 DEF Credits
<1>9. CASE AgentCreates(c)
  <2>1. \/ Replies(c, "error") /\ UNCHANGED running
        \/ /\ running[to][name] = None /\ Replies(c, "ok")
           /\ running' = [running EXCEPT ![to][name] = user]
    BY <1>9 DEF AgentCreates, to, name, user
  <2> QED BY <1>5, <1>7, <1>9, <2>1
<1>10. CASE AgentDeletes(c)
  <2>1. Replies(c, "ok") /\ running' = [running EXCEPT ![to][name] = None]
    BY <1>10 DEF AgentDeletes, to, name
  <2> QED BY <1>8, <1>10, <2>1
<1> QED BY <1>9, <1>10

\* Settling: the machine found is the one that answered, and it is put right.
LEMMA SettleCredits ==
  ASSUME AccessAssumption, TypeInv, Credits, OneCall, NEW c \in Callers,
         Attributes(c) \/ Forgets(c), "blurred" \notin undone'
  PROVE Credits'
<1> DEFINE to == call[c].to  name == call[c].name  user == call[c].user
<1>t. /\ creators \in [Agents -> [Names -> Users \cup {None}]]
      /\ running \in [Agents -> [Names -> Users \cup {None}]]
      /\ OwnerOf \in [Agents -> Users] /\ None \notin Users
  BY DEF TypeInv, TypeOK, AccessAssumption
<1>0. /\ call[c].at = "replied" /\ to \in Agents /\ name \in Names /\ user \in Users
      /\ running' = running /\ call[c] \in CallSet /\ Placed(call[c])
  BY CallFields DEF Attributes, Forgets
<1>1. \A d \in Callers : d # c => call[d].at = "idle"
  BY <1>0 DEF OneCall
<1>2. \A d \in Callers : call'[d].at # "replied"
  <2>1. call'[c] = Idle /\ \A d \in Callers \ {c} : call'[d] = call[d]
    BY RefuseTypes DEF Attributes, Forgets
  <2> QED BY <1>1, <2>1 DEF Idle
<1>3. ASSUME NEW a \in Agents, NEW n \in Names, ~(a = to /\ n = name /\ call[c].reply = "ok")
      PROVE Accurate(a, n)
  BY <1>1, <1>3 DEF Credits, Attributed, Settling
<1>4. CASE Attributes(c)
  <2> DEFINE found == Resolved(user, call[c].scope, call[c].label, None)
  <2>1. found = {to} /\ call[c].op = "create"
    BY <1>4 DEF Attributes
  <2>2. creators' = IF call[c].reply = "ok"
                    THEN [a \in Agents |->
                           IF a \in found /\ Credited(user, a) # None
                           THEN [creators[a] EXCEPT ![name] = Credited(user, a)]
                           ELSE creators[a]]
                    ELSE creators
    BY <1>4 DEF Attributes
  <2> HIDE DEF to, name, user, found
  <2>3. CASE call[c].reply # "ok"
    <3>1. \A a \in Agents, n \in Names : Accurate(a, n)'
      BY <1>0, <1>3, <2>2, <2>3 DEF Accurate
    <3> QED BY <1>2, <3>1, NoReplyCredits
  <2>4. CASE call[c].reply = "ok"
    <3>1. running[to][name] = user /\ creators[to][name] = None
      BY <1>0, <2>1, <2>4 DEF Credits, Owing, to, name, user
    <3>2. creators'[to] = IF Credited(user, to) # None
                          THEN [creators[to] EXCEPT ![name] = Credited(user, to)]
                          ELSE creators[to]
      BY <1>0, <2>1, <2>2, <2>4
    <3>3. \A a \in Agents : a # to => creators'[a] = creators[a]
      BY <2>1, <2>2, <2>4
    <3>4. ASSUME NEW a \in Agents, NEW n \in Names PROVE Accurate(a, n)'
      <4>1. CASE a = to /\ n = name
        <5>1. creators[to] \in [Names -> Users \cup {None}]
          BY <1>t, <1>0
        <5>2. creators'[to][name] = IF OwnerOf[to] # user THEN user ELSE None
          BY <1>t, <1>0, <3>1, <3>2, <5>1 DEF Credited
        <5> QED BY <1>0, <3>1, <4>1, <5>2 DEF Accurate
      <4>2. CASE ~(a = to /\ n = name)
        <5>1. creators'[a][n] = creators[a][n]
          BY <1>t, <1>0, <3>2, <3>3, <4>2
        <5> QED BY <1>0, <1>3, <4>2, <5>1 DEF Accurate
      <4> QED BY <4>1, <4>2
    <3> QED BY <1>2, <3>4, NoReplyCredits
  <2> QED BY <2>3, <2>4
<1>5. CASE Forgets(c)
  <2> DEFINE found == Resolved(user, call[c].scope, call[c].label, name)
  <2>1. found = {to} /\ call[c].op = "delete"
    BY <1>5 DEF Forgets
  <2>2. creators' = [a \in Agents |-> IF a \in found THEN Forgotten(a, name) ELSE creators[a]]
    BY <1>5 DEF Forgets
  <2> HIDE DEF to, name, user, found
  <2>3. running[to][name] \in {None, OwnerOf[to]}
    BY <1>0, <2>1 DEF Credits, Owing, to, name, user
  <2>4. creators'[to] = [creators[to] EXCEPT ![name] = None]
    BY <1>0, <2>1, <2>2 DEF Forgotten
  <2>5. \A a \in Agents : a # to => creators'[a] = creators[a]
    BY <2>1, <2>2
  <2>6. ASSUME NEW a \in Agents, NEW n \in Names PROVE Accurate(a, n)'
    <3>1. CASE a = to /\ n = name
      <4>1. creators'[to][name] = None
        BY <1>t, <1>0, <2>4
      <4> QED BY <1>0, <2>3, <3>1, <4>1 DEF Accurate
    <3>2. CASE ~(a = to /\ n = name)
      <4>1. creators'[a][n] = creators[a][n]
        BY <1>t, <1>0, <2>4, <2>5, <3>2
      <4> QED BY <1>0, <1>3, <3>2, <4>1 DEF Accurate
    <3> QED BY <3>1, <3>2
  <2> QED BY <1>2, <2>6, NoReplyCredits
<1> QED BY <1>4, <1>5


LEMMA CreditsStep ==
  ASSUME AccessAssumption, TypeInv, Credits, OneCall, ~overlap,
         [Next]_accessVars, "blurred" \notin undone'
  PROVE Credits'
<1>1. ASSUME NEW c \in Callers, NEW u \in Users, NEW op \in {"create", "delete"},
             NEW label \in Labels \cup {None}, NEW n \in Names, Arrives(c, u, op, label, n)
      PROVE Credits'
  <2>1. UNCHANGED <<creators, running>> /\ call[c].at = "idle"
    BY <1>1 DEF Arrives, hub
  <2>2. call'[c].at = "asks" /\ \A d \in Callers \ {c} : call'[d] = call[d]
    BY <1>1, ArrivesDoes
  <2> QED BY <2>1, <2>2, CreditsStay
<1>2. ASSUME NEW c \in Callers, Proceed(c) PROVE Credits'
  <2>1. ~GivesUp(c)
    BY DEF GivesUp
  <2> QED BY <1>2, <2>1, RouteCredits, AnswerCredits, SettleCredits DEF Proceed
<1>3. ASSUME World PROVE Credits'
  BY <1>3, WorldCredits
<1> QED BY <1>1, <1>2, <1>3, Cases

-----------------------------------------------------------------------------
(* All together.                                                             *)

LEMMA InitAccess == ASSUME AccessAssumption, Init PROVE AccessInv
<1>1. TypeInv
  BY InitTypes
<1>2. \A c \in Callers : call[c] = Idle
  BY DEF Init
<1>3. /\ \A a \in Agents, n \in Names : running[a][n] = None /\ creators[a][n] = None
      /\ uses = Uses(rows) /\ undone = {}
  BY DEF Init, Nobody
<1>4. Recorded /\ SentByUsers
  BY <1>2, <1>3 DEF Recorded, SentByUsers, Idle, Uses
<1>5. MadeByUsers
  BY <1>3 DEF MadeByUsers
<1>6. Made = {}
  <2>1. \A p \in Agents \X Names : p[1] \in Agents /\ p[2] \in Names
    OBVIOUS
  <2> QED BY <1>3, <2>1 DEF Made
<1>7. FiniteMade /\ Cardinality(Made) = 0
  BY <1>6, FS_EmptySet DEF FiniteMade
<1>8. Room
  BY <1>2, <1>7 DEF Room, Idle, AccessAssumption
<1>9. OneCall
  BY <1>2 DEF OneCall, Idle
<1>10. Attributed /\ Owing
  <2>1. \A a \in Agents, n \in Names : Accurate(a, n)
    BY <1>3 DEF Accurate
  <2> QED BY <1>2, <2>1 DEF Attributed, Owing, Idle
<1> QED BY <1>1, <1>4, <1>5, <1>7, <1>8, <1>9, <1>10 DEF AccessInv

LEMMA AccessStep ==
  ASSUME AccessAssumption, AccessInv, [Next]_accessVars
  PROVE AccessInv'
<1>0. /\ TypeInv /\ Recorded /\ SentByUsers /\ MadeByUsers /\ FiniteMade
      /\ ~overlap => OneCall
      /\ ~overlap /\ "blurred" \notin undone => Attributed /\ Owing
      /\ ~overlap /\ "uncounted" \notin undone => Room
  BY DEF AccessInv
<1>1. undone \subseteq undone' /\ overlap' = overlap
  BY UndoneStays
<1>2. TypeInv' /\ Recorded' /\ SentByUsers' /\ MadeByUsers' /\ FiniteMade'
  BY <1>0, TypeStep, RecordedStep, SentStep, MadeStep, FiniteStep
<1>3. ~overlap' => OneCall'
  BY <1>0, OneStep
<1>4. ASSUME ~overlap', "blurred" \notin undone' PROVE Attributed' /\ Owing'
  <2>1. ~overlap /\ "blurred" \notin undone
    BY <1>1, <1>4
  <2>2. Credits /\ OneCall
    BY <1>0, <2>1 DEF Credits
  <2> QED BY <1>0, <1>4, <2>1, <2>2, CreditsStep DEF Credits
<1>5. ASSUME ~overlap', "uncounted" \notin undone' PROVE Room'
  <2>1. ~overlap /\ "uncounted" \notin undone
    BY <1>1, <1>5
  <2> QED BY <1>0, <1>5, <2>1, RoomStep
<1> QED BY <1>2, <1>3, <1>4, <1>5 DEF AccessInv

\* What was promised follows: with nobody waiting there is nothing to settle.
LEMMA Promised == ASSUME AccessInv PROVE AccessHolds
<1>1. MadeByUsers /\ ListsAreUsable
  BY ListsUsable DEF AccessInv
<1>2. AttributionIsTrue
  <2>1. ASSUME ~overlap, "blurred" \notin undone, Alone, NEW a \in Agents, NEW n \in Names
        PROVE creators[a][n] = IF running[a][n] = OwnerOf[a] THEN None ELSE running[a][n]
    <3>1. \A c \in Callers : ~Settling(call[c], a, n)
      BY <2>1 DEF Alone, Settling
    <3>2. Accurate(a, n)
      BY <2>1, <3>1 DEF AccessInv, Attributed
    <3> QED BY <3>2 DEF Accurate
  <2> QED BY <2>1 DEF AttributionIsTrue
<1>3. PoolWithinCap
  BY DEF AccessInv, Room, Made, PoolWithinCap
<1> QED BY <1>1, <1>2, <1>3 DEF AccessHolds

THEOREM AccessInvariant == ASSUME AccessAssumption PROVE Spec => []AccessInv
<1>1. Init => AccessInv
  BY InitAccess
<1>2. AccessInv /\ [Next]_accessVars => AccessInv'
  BY AccessStep
<1> QED BY <1>1, <1>2, PTL DEF Spec

(* A session on a machine of somebody else was made by a user who has held a *)
(* grant on all of it; whatever a list shows can be attached to, and a maker *)
(* finds their own there; taken one at a time, requests put every session    *)
(* down to its maker and keep a team within its cap, whatever else happens   *)
(* in between that the model does not name as blurring the one or the other  *)
(* (registry.rs, create and delete of handlers.rs).                          *)
THEOREM AccessSafe == ASSUME AccessAssumption PROVE Spec => []AccessHolds
<1>1. AccessInv => AccessHolds
  BY Promised
<1> QED BY <1>1, AccessInvariant, PTL
=============================================================================
