---------------------------- MODULE Teams_proof ----------------------------
(***************************************************************************)
(* A team stays whole, and its seats are respected, however requests       *)
(* overlap: proofs about Teams for any number of users, teams and requests *)
(* at once.                                                                *)
(*                                                                         *)
(* What a handler has read is stale when its statement runs, so nothing    *)
(* can rest on the checks it made before: the invariant says of a call     *)
(* only what it is about to write (`Calling`).  The rest follows from the  *)
(* guards inside the statements, and from the prune that every removal     *)
(* still owes, which LeaverLosesSight itself names.                        *)
(***************************************************************************)
EXTENDS Teams, FiniteSetTheorems, TLAPS

CallSet == [op : Ops, org : Orgs \cup {""}, user : Users,
            to : Roles \cup {"", "visible", "hidden"}]

\* What a call is about to write.
Calling(call) ==
  /\ call.op # "link" => call.org \in Orgs
  /\ call.op = "write" => call.to \in Roles
  /\ call.op = "join" => call.to = "member"
  /\ call.op = "hide" => call.to \in {"visible", "hidden"}

TypeInv ==
  /\ TypeOK
  /\ calls \in [Callers -> {Idle} \cup CallSet]
  /\ \A c \in Callers : calls[c] # Idle => Calling(calls[c])

SoleOwner ==
  \A o \in Orgs : \A u, v \in Users :
    role[o][u] = "owner" /\ role[o][v] = "owner" => u = v

SoleTeam ==
  \A u \in Users : \A o, p \in Orgs :
    role[o][u] # "none" /\ role[p][u] # "none" => o = p

TeamsInv == TypeInv /\ SoleOwner /\ SoleTeam /\ LeaverLosesSight

-----------------------------------------------------------------------------
(* Operators: what is implied, and what materialize, prune and reconcile     *)
(* make of the rows.                                                         *)
LEMMA ImpliedRow ==
  ASSUME TypeOK, NEW o \in Orgs, NEW r \in Implied(o)
  PROVE  r \in Orgs \X Users \X Users /\ r[1] = o
           /\ r[2] \in Members(o) /\ r[3] \in Members(o)
<1>1. PICK u \in {w \in Members(o) : machine[w] = "visible"}, v \in Members(o) :
        r = <<o, u, v>>
  BY DEF Implied
<1>2. u \in Members(o) /\ u \in Users /\ v \in Users
  BY <1>1 DEF Members
<1> QED
  BY <1>1, <1>2

\* What a call is once it goes on, and the record it then is.
LEMMA CallIs ==
  ASSUME NEW op \in Ops, NEW o \in Orgs \cup {""}, NEW u \in Users,
         NEW v \in Roles \cup {"", "visible", "hidden"}
  PROVE  /\ Call(op, o, u, v) \in CallSet
         /\ Call(op, o, u, v) # Idle
         /\ Call(op, o, u, v).op = op /\ Call(op, o, u, v).org = o
         /\ Call(op, o, u, v).user = u /\ Call(op, o, u, v).to = v
BY DEF Call, CallSet, Idle, Ops

LEMMA AtCall ==
  ASSUME TypeInv, NEW c \in Callers, NEW op \in Ops, At(c, op)
  PROVE  /\ calls[c] \in CallSet /\ calls[c].op = op /\ Calling(calls[c])
         /\ calls[c].user \in Users /\ (op # "link" => calls[c].org \in Orgs)
<1>1. calls[c] # Idle
  BY DEF At, Idle, Ops
<1>2. calls[c] \in CallSet /\ Calling(calls[c])
  BY <1>1 DEF TypeInv
<1> QED
  BY <1>2 DEF At, CallSet, Calling

-----------------------------------------------------------------------------
(* What becomes of `calls`: one call goes on, or ends.                       *)
LEMMA GotoCalls ==
  ASSUME TypeInv, NEW c \in Callers, NEW op \in Ops, NEW o \in Orgs \cup {""},
         NEW u \in Users, NEW v \in Roles \cup {"", "visible", "hidden"},
         Calling(Call(op, o, u, v)),
         calls' = [calls EXCEPT ![c] = Call(op, o, u, v)]
  PROVE  /\ calls' \in [Callers -> {Idle} \cup CallSet]
         /\ \A d \in Callers : calls'[d] # Idle => Calling(calls'[d])
         /\ \A d \in Callers : calls'[d] = Idle \/ calls'[d].op \in Ops
<1>1. Call(op, o, u, v) \in CallSet /\ Call(op, o, u, v).op \in Ops
  BY DEF Call, CallSet
<1>2. calls \in [Callers -> {Idle} \cup CallSet]
  BY DEF TypeInv
<1>3. \A d \in Callers : calls'[d] = IF d = c THEN Call(op, o, u, v) ELSE calls[d]
  BY <1>2
<1> QED
  BY <1>1, <1>2, <1>3 DEF TypeInv, TypeOK

LEMMA DoneCalls ==
  ASSUME TypeInv, NEW c \in Callers, Done(c)
  PROVE  /\ calls' \in [Callers -> {Idle} \cup CallSet]
         /\ \A d \in Callers : calls'[d] # Idle => Calling(calls'[d])
         /\ \A d \in Callers : calls'[d] = Idle \/ calls'[d].op \in Ops
<1>1. \A d \in Callers : calls'[d] = IF d = c THEN Idle ELSE calls[d]
  BY DEF Done, TypeInv
<1> QED
  BY <1>1 DEF Done, TypeInv, TypeOK

CallsTyped ==
  /\ calls \in [Callers -> {Idle} \cup CallSet]
  /\ \A c \in Callers : calls[c] # Idle => Calling(calls[c])
  /\ \A c \in Callers : calls[c] = Idle \/ calls[c].op \in Ops

LEMMA SameCalls ==
  ASSUME TypeInv, UNCHANGED calls
  PROVE  CallsTyped'
BY DEF TypeInv, TypeOK, CallsTyped

LEMMA InitTeams ==
  ASSUME TeamsAssumption, Init
  PROVE  TeamsInv
<1>1. \A o \in Orgs, u \in Users :
        role[o][u] = IF u \notin Roster[o] THEN "none"
                     ELSE IF u = Founder[o] THEN "owner" ELSE "member"
  BY DEF Init
<1>2. machine \in [Users -> {"none", "visible", "hidden"}]
  BY DEF Init
<1>3. rows \subseteq Orgs \X Users \X Users
       /\ \A r \in rows : {r[2], r[3]} \subseteq Members(r[1])
  <2> SUFFICES ASSUME NEW r \in rows
               PROVE  r \in Orgs \X Users \X Users /\ {r[2], r[3]} \subseteq Members(r[1])
    OBVIOUS
  <2>1. PICK o \in Orgs : r \in Implied(o)
    BY DEF Init
  <2>2. PICK u \in {w \in Members(o) : machine[w] = "visible"}, v \in Members(o) :
          r = <<o, u, v>>
    BY <2>1 DEF Implied
  <2> QED
    BY <2>1, <2>2 DEF Members
<1>4. TypeOK
  <2>1. role \in [Orgs -> [Users -> Roles \cup {"none"}]]
    BY DEF Init, Roles
  <2>2. seats \in [Orgs -> 0..MaxSeats] /\ made \in 0..MaxCalls /\ missed \subseteq Orgs
    BY DEF Init, TeamsAssumption
  <2>3. invite \in [Orgs -> [Users -> Statuses]]
    BY DEF Init, Statuses
  <2>4. \A c \in Callers : calls[c] = Idle \/ calls[c].op \in Ops
    BY DEF Init
  <2> QED
    BY <1>2, <1>3, <2>1, <2>2, <2>3, <2>4 DEF TypeOK
<1>5. calls \in [Callers -> {Idle} \cup CallSet]
       /\ \A c \in Callers : calls[c] # Idle => Calling(calls[c])
  BY DEF Init
<1>6. SoleOwner
  BY <1>1 DEF SoleOwner
<1>7. SoleTeam
  <2> SUFFICES ASSUME NEW u \in Users, NEW o \in Orgs, NEW p \in Orgs,
                      role[o][u] # "none", role[p][u] # "none"
               PROVE  o = p
    BY DEF SoleTeam
  <2>1. u \in Roster[o] \cap Roster[p]
    BY <1>1
  <2> QED
    BY <2>1 DEF TeamsAssumption
<1>8. LeaverLosesSight
  BY <1>3 DEF LeaverLosesSight
<1> QED
  BY <1>4, <1>5, <1>6, <1>7, <1>8 DEF TeamsInv, TypeInv

-----------------------------------------------------------------------------
(* Types, step by step.                                                      *)
LEMMA RowsType ==
  ASSUME TypeOK, NEW o \in Orgs
  PROVE  /\ Materialized(o) \subseteq Orgs \X Users \X Users
         /\ \A r \in Materialized(o) : r \in rows \/ r \in Implied(o)
BY ImpliedRow DEF Materialized, TypeOK

LEMMA TypeFromParts ==
  ASSUME role' \in [Orgs -> [Users -> Roles \cup {"none"}]],
         seats' \in [Orgs -> 0..MaxSeats],
         invite' \in [Orgs -> [Users -> Statuses]],
         machine' \in [Users -> {"none", "visible", "hidden"}],
         rows' \subseteq Orgs \X Users \X Users,
         made' \in 0..MaxCalls, missed' \subseteq Orgs, CallsTyped'
  PROVE  TypeInv'
BY DEF TypeInv, TypeOK, CallsTyped

LEMMA MadeMore ==
  ASSUME TypeInv, TeamsAssumption, made < MaxCalls, made' = made + 1
  PROVE  made' \in 0..MaxCalls
BY DEF TypeInv, TypeOK, TeamsAssumption

(* The statements of calls under way.                                        *)
LEMMA ProceedType ==
  ASSUME TypeInv, TeamsAssumption, NEW c \in Callers, Proceed(c)
  PROVE  TypeInv'
<1> DEFINE o == calls[c].org
           u == calls[c].user
<1>0. /\ role \in [Orgs -> [Users -> Roles \cup {"none"}]]
      /\ seats \in [Orgs -> 0..MaxSeats]
      /\ invite \in [Orgs -> [Users -> Statuses]]
      /\ machine \in [Users -> {"none", "visible", "hidden"}]
      /\ rows \subseteq Orgs \X Users \X Users
      /\ made \in 0..MaxCalls /\ missed \subseteq Orgs /\ TypeOK
  BY DEF TypeInv, TypeOK
<1>d. Done(c) => CallsTyped'
  BY DoneCalls DEF CallsTyped
<1>g. ASSUME NEW p \in Orgs, NEW w \in Users, NEW op \in {"materialize", "prune"},
             Goto(c, op, p, w, "")
      PROVE  CallsTyped'
  <2>1. op \in Ops /\ p \in Orgs \cup {""} /\ "" \in Roles \cup {"", "visible", "hidden"}
    BY DEF Ops
  <2>2. Calling(Call(op, p, w, ""))
    BY DEF Calling, Call
  <2> QED
    BY <1>g, <2>1, <2>2, GotoCalls DEF Goto, CallsTyped
<1>1. CASE Materialize(c)
  <2>1. o \in Orgs
    BY <1>1, AtCall DEF Materialize, Ops
  <2> QED
    BY <1>0, <1>1, <1>d, <2>1, RowsType, TypeFromParts DEF Materialize
<1>2. CASE Prune(c)
  BY <1>0, <1>2, <1>d, TypeFromParts DEF Prune, Pruned
<1>3. CASE CreateInsert(c)
  <2>0. o \in Orgs /\ u \in Users
    BY <1>3, AtCall DEF CreateInsert, Ops
  <2>1. role' \in [Orgs -> [Users -> Roles \cup {"none"}]]
    <3>1. CASE role' = [role EXCEPT ![o][u] = "owner"]
      BY <1>0, <2>0, <3>1 DEF Roles
    <3> QED
      BY <1>0, <1>3, <3>1 DEF CreateInsert
  <2>2. seats' \in [Orgs -> 0..MaxSeats]
    <3>1. CASE seats' = [seats EXCEPT ![o] = 0]
      <4>1. 0 \in 0..MaxSeats
        BY <1>0, <2>0 DEF TeamsAssumption
      <4> QED
        BY <1>0, <2>0, <3>1, <4>1
    <3> QED
      BY <1>0, <1>3, <3>1 DEF CreateInsert
  <2> QED
    BY <1>0, <1>3, <1>d, <2>1, <2>2, TypeFromParts DEF CreateInsert
<1>4. CASE Join(c)
  <2>1. o \in Orgs /\ u \in Users /\ calls[c].to = "member"
    BY <1>4, AtCall DEF Join, Ops, Calling
  <2>2. role' \in [Orgs -> [Users -> Roles \cup {"none"}]]
    <3>1. CASE role' = [role EXCEPT ![o][u] = "member"]
      BY <1>0, <2>1, <3>1 DEF Roles
    <3> QED
      BY <1>0, <1>4, <2>1, <3>1 DEF Join
  <2>3. invite' \in [Orgs -> [Users -> Statuses]]
    <3>1. CASE invite' = [invite EXCEPT ![o][u] =
                            IF @ \in {"pending", "overdue"} THEN "accepted" ELSE @]
      BY <1>0, <2>1, <3>1 DEF Statuses
    <3> QED
      BY <1>0, <1>4, <3>1 DEF Join
  <2>4. CallsTyped'
    BY <1>4, <1>d, <1>g, <2>1 DEF Join
  <2> QED
    BY <1>0, <1>4, <2>2, <2>3, <2>4, TypeFromParts DEF Join
<1>5. CASE SetRoleWrite(c)
  <2>1. o \in Orgs /\ u \in Users /\ calls[c].to \in Roles
    BY <1>5, AtCall DEF SetRoleWrite, Ops, Calling
  <2>2. role' \in [Orgs -> [Users -> Roles \cup {"none"}]]
    BY <1>0, <1>5, <2>1 DEF SetRoleWrite, Roles
  <2> QED
    BY <1>0, <1>5, <1>d, <2>2, TypeFromParts DEF SetRoleWrite
<1>6. CASE RemoveWrite(c)
  <2>1. o \in Orgs /\ u \in Users
    BY <1>6, AtCall DEF RemoveWrite, Ops
  <2>2. role' \in [Orgs -> [Users -> Roles \cup {"none"}]]
    BY <1>0, <1>6, <2>1 DEF RemoveWrite
  <2> QED
    BY <1>0, <1>6, <1>g, <2>1, <2>2, TypeFromParts DEF RemoveWrite
<1>7. CASE SetVisibleWrite(c)
  <2>1. o \in Orgs /\ u \in Users /\ calls[c].to \in {"visible", "hidden"}
    BY <1>7, AtCall DEF SetVisibleWrite, Ops, Calling
  <2>2. machine' \in [Users -> {"none", "visible", "hidden"}]
    BY <1>0, <1>7, <2>1 DEF SetVisibleWrite
  <2>3. CallsTyped'
    BY <1>7, <1>d, <1>g, <2>1 DEF SetVisibleWrite
  <2> QED
    BY <1>0, <1>7, <2>2, <2>3, TypeFromParts DEF SetVisibleWrite
<1>8. CASE LinkHook(c)
  <2>1. u \in Users
    BY <1>8, AtCall DEF LinkHook, Ops
  <2>2. CallsTyped'
    BY <1>8, <1>d, <1>g, <2>1 DEF LinkHook, TeamOf
  <2> QED
    BY <1>0, <1>8, <2>2, TypeFromParts DEF LinkHook
<1> QED
  BY <1>1, <1>2, <1>3, <1>4, <1>5, <1>6, <1>7, <1>8 DEF Proceed

(* The requests, and what comes without one.                                 *)
LEMMA AskType ==
  ASSUME TypeInv, TeamsAssumption, NEW c \in Callers, NEW o \in Orgs, NEW u \in Users,
         \/ Create(c, o, u) \/ Accept(c, o, u) \/ LinkMachine(c, u)
         \/ \E to \in {"visible", "hidden"} : SetVisible(c, o, u, to)
         \/ \E v \in Users : \/ Remove(c, o, u, v)
                             \/ \E to \in Roles : SetRole(c, o, u, v, to)
  PROVE  TypeInv'
<1>0. /\ role \in [Orgs -> [Users -> Roles \cup {"none"}]]
      /\ seats \in [Orgs -> 0..MaxSeats]
      /\ invite \in [Orgs -> [Users -> Statuses]]
      /\ machine \in [Users -> {"none", "visible", "hidden"}]
      /\ rows \subseteq Orgs \X Users \X Users
      /\ missed \subseteq Orgs
  BY DEF TypeInv, TypeOK
<1>m. ASSUME Start(c) PROVE made' \in 0..MaxCalls
  BY <1>m, MadeMore DEF Start
<1>g. ASSUME NEW op \in Ops, NEW p \in Orgs \cup {""}, NEW w \in Users,
             NEW to \in Roles \cup {"", "visible", "hidden"},
             Calling(Call(op, p, w, to)),
             calls' = [calls EXCEPT ![c] = Call(op, p, w, to)]
      PROVE  CallsTyped'
  BY <1>g, GotoCalls DEF CallsTyped
<1>1. CASE Create(c, o, u)
  <2>1. CallsTyped'
    BY <1>1, <1>g DEF Create, Goto, Calling, Call, Ops, Roles
  <2> QED
    BY <1>0, <1>1, <1>m, <2>1, TypeFromParts DEF Create
<1>2. CASE Accept(c, o, u)
  <2>1. CallsTyped'
    <3>1. CASE UNCHANGED calls
      BY <3>1, SameCalls
    <3>2. CASE Goto(c, "join", o, u, "member")
      BY <3>2, <1>g DEF Goto, Calling, Call, Ops, Roles
    <3> QED
      BY <1>2, <3>1, <3>2 DEF Accept
  <2>2. invite' \in [Orgs -> [Users -> Statuses]]
    <3>1. CASE invite' = [invite EXCEPT ![o][u] = "accepted"]
      BY <1>0, <3>1 DEF Statuses
    <3> QED
      BY <1>0, <1>2, <3>1 DEF Accept
  <2> QED
    BY <1>0, <1>2, <1>m, <2>1, <2>2, TypeFromParts DEF Accept
<1>3. CASE LinkMachine(c, u)
  <2>1. CallsTyped'
    BY <1>3, <1>g DEF LinkMachine, Calling, Call, Ops, Roles
  <2>2. machine' \in [Users -> {"none", "visible", "hidden"}]
    BY <1>0, <1>3 DEF LinkMachine
  <2> QED
    BY <1>0, <1>3, <1>m, <2>1, <2>2, TypeFromParts DEF LinkMachine
<1>4. ASSUME NEW to \in {"visible", "hidden"}, SetVisible(c, o, u, to)
      PROVE  TypeInv'
  <2>1. CallsTyped'
    BY <1>4, <1>g DEF SetVisible, Goto, Calling, Call, Ops, Roles
  <2> QED
    BY <1>0, <1>4, <1>m, <2>1, TypeFromParts DEF SetVisible
<1>5. ASSUME NEW v \in Users, Remove(c, o, u, v)
      PROVE  TypeInv'
  <2>1. CallsTyped'
    BY <1>5, <1>g DEF Remove, Goto, Calling, Call, Ops, Roles
  <2> QED
    BY <1>0, <1>5, <1>m, <2>1, TypeFromParts DEF Remove
<1>6. ASSUME NEW v \in Users, NEW to \in Roles, SetRole(c, o, u, v, to)
      PROVE  TypeInv'
  <2>1. CallsTyped'
    BY <1>6, <1>g DEF SetRole, Goto, Calling, Call, Ops, Roles
  <2> QED
    BY <1>0, <1>6, <1>m, <2>1, TypeFromParts DEF SetRole
<1> QED
  BY <1>1, <1>2, <1>3, <1>4, <1>5, <1>6

LEMMA OtherType ==
  ASSUME TypeInv, TeamsAssumption,
         \/ \E o \in Orgs, u \in Users :
              \/ Decline(o, u) \/ InviteFallsDue(o, u)
              \/ \E v \in Users : Invite(o, u, v) \/ InviteRevoke(o, u, v)
         \/ \E u \in Users : UnlinkMachine(u)
         \/ \E o \in Orgs, n \in 0..MaxSeats : SetSeats(o, n)
         \/ Restart
         \/ \E o \in Orgs : Reconcile(o)
  PROVE  TypeInv'
<1>0. /\ role \in [Orgs -> [Users -> Roles \cup {"none"}]]
      /\ seats \in [Orgs -> 0..MaxSeats]
      /\ invite \in [Orgs -> [Users -> Statuses]]
      /\ machine \in [Users -> {"none", "visible", "hidden"}]
      /\ rows \subseteq Orgs \X Users \X Users
      /\ missed \subseteq Orgs /\ made \in 0..MaxCalls /\ TypeOK
  BY DEF TypeInv, TypeOK
<1>c. UNCHANGED calls => CallsTyped'
  BY SameCalls
<1>m. made < MaxCalls /\ made' = made + 1 => made' \in 0..MaxCalls
  BY MadeMore
<1>i. ASSUME NEW o \in Orgs, NEW u \in Users, NEW s \in Statuses,
             invite' = [invite EXCEPT ![o][u] = s]
      PROVE  invite' \in [Orgs -> [Users -> Statuses]]
  BY <1>0, <1>i
<1>1. ASSUME NEW o \in Orgs, NEW u \in Users, Decline(o, u)
      PROVE  TypeInv'
  <2>1. invite' \in [Orgs -> [Users -> Statuses]]
    BY <1>0, <1>1 DEF Decline, Statuses
  <2> QED
    BY <1>0, <1>1, <1>c, <1>m, <2>1, TypeFromParts DEF Decline
<1>2. ASSUME NEW o \in Orgs, NEW u \in Users, InviteFallsDue(o, u)
      PROVE  TypeInv'
  <2>1. invite' \in [Orgs -> [Users -> Statuses]]
    BY <1>0, <1>2, <1>i DEF InviteFallsDue, Statuses
  <2> QED
    BY <1>0, <1>2, <1>c, <1>m, <2>1, TypeFromParts DEF InviteFallsDue
<1>3. ASSUME NEW o \in Orgs, NEW u \in Users, NEW v \in Users, Invite(o, u, v)
      PROVE  TypeInv'
  <2>1. invite' \in [Orgs -> [Users -> Statuses]]
    BY <1>0, <1>3 DEF Invite, Statuses
  <2> QED
    BY <1>0, <1>3, <1>c, <1>m, <2>1, TypeFromParts DEF Invite
<1>4. ASSUME NEW o \in Orgs, NEW u \in Users, NEW v \in Users, InviteRevoke(o, u, v)
      PROVE  TypeInv'
  <2>1. invite' \in [Orgs -> [Users -> Statuses]]
    BY <1>0, <1>4 DEF InviteRevoke, Statuses
  <2> QED
    BY <1>0, <1>4, <1>c, <1>m, <2>1, TypeFromParts DEF InviteRevoke
<1>5. ASSUME NEW u \in Users, UnlinkMachine(u)
      PROVE  TypeInv'
  <2>1. machine' \in [Users -> {"none", "visible", "hidden"}]
    BY <1>0, <1>5 DEF UnlinkMachine
  <2> QED
    BY <1>0, <1>5, <1>c, <1>m, <2>1, TypeFromParts DEF UnlinkMachine
<1>6. ASSUME NEW o \in Orgs, NEW n \in 0..MaxSeats, SetSeats(o, n)
      PROVE  TypeInv'
  <2>1. seats' \in [Orgs -> 0..MaxSeats]
    BY <1>0, <1>6 DEF SetSeats
  <2> QED
    BY <1>0, <1>6, <1>c, <1>m, <2>1, TypeFromParts DEF SetSeats
<1>7. CASE Restart
  <2>1. CallsTyped'
    BY <1>7 DEF Restart, CallsTyped
  <2>2. missed' \subseteq Orgs
    <3>1. \A d \in Callers : calls[d].op \in {"materialize", "prune"} => calls[d].org \in Orgs
      BY DEF TypeInv, Idle, Calling
    <3> QED
      BY <1>0, <1>7, <3>1 DEF Restart, TeamOf
  <2> QED
    BY <1>0, <1>7, <2>1, <2>2, TypeFromParts DEF Restart
<1>8. ASSUME NEW o \in Orgs, Reconcile(o)
      PROVE  TypeInv'
  <2>1. rows' \subseteq Orgs \X Users \X Users
    BY <1>0, <1>8, RowsType DEF Reconcile
  <2> QED
    BY <1>0, <1>8, <1>c, <2>1, TypeFromParts DEF Reconcile
<1> QED
  BY <1>1, <1>2, <1>3, <1>4, <1>5, <1>6, <1>7, <1>8

LEMMA NextType ==
  ASSUME TypeInv, TeamsAssumption, [Next]_teamVars
  PROVE  TypeInv'
<1>1. CASE UNCHANGED teamVars
  BY <1>1 DEF TypeInv, TypeOK, teamVars
<1>2. CASE Next
  BY <1>2, ProceedType, AskType, OtherType DEF Next, Request
<1> QED
  BY <1>1, <1>2

-----------------------------------------------------------------------------
(* Roles.  Only four statements write them, and each tests in itself what    *)
(* the promise needs.                                                        *)
RoleWrite(c) == CreateInsert(c) \/ Join(c) \/ SetRoleWrite(c) \/ RemoveWrite(c)

LEMMA RolesRest ==
  ASSUME [Next]_teamVars
  PROVE  UNCHANGED role \/ \E c \in Callers : RoleWrite(c)
<1>1. CASE UNCHANGED teamVars
  BY <1>1 DEF teamVars
<1>2. CASE Request
  <2>1. ASSUME NEW c \in Callers, NEW o \in Orgs, NEW u \in Users,
               \/ Create(c, o, u) \/ Accept(c, o, u) \/ LinkMachine(c, u)
               \/ \E to \in {"visible", "hidden"} : SetVisible(c, o, u, to)
               \/ \E v \in Users : \/ Remove(c, o, u, v)
                                   \/ \E to \in Roles : SetRole(c, o, u, v, to)
        PROVE  UNCHANGED role
    BY <2>1 DEF Create, Accept, LinkMachine, SetVisible, Remove, SetRole
  <2>2. ASSUME NEW o \in Orgs, NEW u \in Users,
               \/ Decline(o, u) \/ InviteFallsDue(o, u)
               \/ \E v \in Users : Invite(o, u, v) \/ InviteRevoke(o, u, v)
        PROVE  UNCHANGED role
    BY <2>2 DEF Decline, InviteFallsDue, Invite, InviteRevoke
  <2> QED
    BY <1>2, <2>1, <2>2 DEF Request, UnlinkMachine, SetSeats
<1>3. CASE Restart \/ \E o \in Orgs : Reconcile(o)
  BY <1>3 DEF Restart, Reconcile
<1>4. CASE \E c \in Callers : Proceed(c)
  BY <1>4 DEF Proceed, RoleWrite, Materialize, Prune, SetVisibleWrite, LinkHook
<1> QED
  BY <1>1, <1>2, <1>3, <1>4 DEF Next

(* What the write of a role does to the roles: founding an empty team, a     *)
(* join, a transfer, another role for a member, or a removal.                *)
Founds(o, u) ==
  /\ InNoTeam(u) /\ Members(o) = {}
  /\ role' = [role EXCEPT ![o][u] = "owner"]
Joins(o, u) ==
  /\ InNoTeam(u) /\ SeatFree(o) /\ UNCHANGED seats
  /\ role' = [role EXCEPT ![o][u] = "member"]
Transfers(o, u) ==
  /\ u \in Members(o)
  /\ role' = [role EXCEPT ![o] = [v \in Users |-> IF v = u THEN "owner"
                ELSE IF @[v] = "owner" THEN "admin" ELSE @[v]]]
Appoints(o, u) ==
  /\ u \in Members(o)
  /\ \E to \in Roles \ {"owner"} : role' = [role EXCEPT ![o][u] = to]
Removes(c, o, u) ==
  /\ RemoveWrite(c) /\ calls[c].org = o
  /\ role' = [role EXCEPT ![o][u] = "none"]

LEMMA RoleWritten ==
  ASSUME TypeInv, NEW c \in Callers, RoleWrite(c)
  PROVE  \/ UNCHANGED role
         \/ \E o \in Orgs, u \in Users :
              Founds(o, u) \/ Joins(o, u) \/ Transfers(o, u) \/ Appoints(o, u)
                \/ Removes(c, o, u)
<1> DEFINE o == calls[c].org
           u == calls[c].user
<1>1. CASE CreateInsert(c)
  <2>1. o \in Orgs /\ u \in Users
    BY <1>1, AtCall DEF CreateInsert, Ops
  <2>2. UNCHANGED role \/ Founds(o, u)
    BY <1>1 DEF CreateInsert, Founds
  <2> QED
    BY <2>1, <2>2
<1>2. CASE Join(c)
  <2>1. o \in Orgs /\ u \in Users /\ calls[c].to = "member"
    BY <1>2, AtCall DEF Join, Ops, Calling
  <2>2. UNCHANGED role \/ Joins(o, u)
    BY <1>2, <2>1 DEF Join, Joins
  <2> QED
    BY <2>1, <2>2
<1>3. CASE SetRoleWrite(c)
  <2>1. o \in Orgs /\ u \in Users /\ calls[c].to \in Roles
    BY <1>3, AtCall DEF SetRoleWrite, Ops, Calling
  <2>2. UNCHANGED role \/ Transfers(o, u) \/ Appoints(o, u)
    BY <1>3, <2>1 DEF SetRoleWrite, Transfers, Appoints
  <2> QED
    BY <2>1, <2>2
<1>4. CASE RemoveWrite(c)
  <2>1. o \in Orgs /\ u \in Users
    BY <1>4, AtCall DEF RemoveWrite, Ops
  <2>2. Removes(c, o, u)
    BY <1>4 DEF RemoveWrite, Removes
  <2> QED
    BY <2>1, <2>2
<1> QED
  BY <1>1, <1>2, <1>3, <1>4 DEF RoleWrite

LEMMA OwnersStep ==
  ASSUME TypeInv, SoleOwner, SoleTeam, [Next]_teamVars
  PROVE  SoleOwner' /\ SoleTeam'
<1>0. role \in [Orgs -> [Users -> Roles \cup {"none"}]]
  BY DEF TypeInv, TypeOK
<1>1. CASE UNCHANGED role
  BY <1>1 DEF SoleOwner, SoleTeam
<1>2. ASSUME NEW c \in Callers, RoleWrite(c), ~UNCHANGED role
      PROVE  SoleOwner' /\ SoleTeam'
  <2> PICK o \in Orgs, u \in Users :
        Founds(o, u) \/ Joins(o, u) \/ Transfers(o, u) \/ Appoints(o, u)
          \/ Removes(c, o, u)
    BY <1>2, RoleWritten
  <2>1. CASE Founds(o, u)
    <3>1. \A p \in Orgs, v \in Users :
            role'[p][v] = IF p = o /\ v = u THEN "owner" ELSE role[p][v]
      BY <1>0, <2>1 DEF Founds
    <3>2. (\A p \in Orgs : role[p][u] = "none") /\ (\A v \in Users : role[o][v] = "none")
      BY <2>1 DEF Founds, InNoTeam, Members
    <3> QED
      BY <3>1, <3>2 DEF SoleOwner, SoleTeam
  <2>2. CASE Joins(o, u)
    <3>1. \A p \in Orgs, v \in Users :
            role'[p][v] = IF p = o /\ v = u THEN "member" ELSE role[p][v]
      BY <1>0, <2>2 DEF Joins
    <3>2. \A p \in Orgs : role[p][u] = "none"
      BY <2>2 DEF Joins, InNoTeam
    <3> QED
      BY <3>1, <3>2 DEF SoleOwner, SoleTeam
  <2>3. CASE Transfers(o, u)
    <3>1. \A p \in Orgs, v \in Users :
            role'[p][v] = IF p = o THEN IF v = u THEN "owner"
                                        ELSE IF role[o][v] = "owner" THEN "admin"
                                        ELSE role[o][v]
                          ELSE role[p][v]
      BY <1>0, <2>3 DEF Transfers
    <3>2. role[o][u] # "none"
      BY <2>3 DEF Transfers, Members
    <3> QED
      BY <3>1, <3>2 DEF SoleOwner, SoleTeam
  <2>4. CASE Appoints(o, u)
    <3> PICK to \in Roles \ {"owner"} : role' = [role EXCEPT ![o][u] = to]
      BY <2>4 DEF Appoints
    <3>1. \A p \in Orgs, v \in Users :
            role'[p][v] = IF p = o /\ v = u THEN to ELSE role[p][v]
      BY <1>0, <2>4
    <3>2. role[o][u] # "none"
      BY <2>4 DEF Appoints, Members
    <3> QED
      BY <3>1, <3>2 DEF SoleOwner, SoleTeam
  <2>5. CASE Removes(c, o, u)
    <3>1. \A p \in Orgs, v \in Users :
            role'[p][v] = IF p = o /\ v = u THEN "none" ELSE role[p][v]
      BY <1>0, <2>5 DEF Removes
    <3> QED
      BY <3>1 DEF SoleOwner, SoleTeam
  <2> QED
    BY <2>1, <2>2, <2>3, <2>4, <2>5
<1> QED
  BY <1>1, <1>2, RolesRest

(* Members stay members in every step but a removal.                         *)
LEMMA MembersStay ==
  ASSUME TypeInv, [Next]_teamVars, NEW o \in Orgs,
         ~\E c \in Callers : RemoveWrite(c) /\ calls[c].org = o
  PROVE  Members(o) \subseteq Members(o)'
<1>0. role \in [Orgs -> [Users -> Roles \cup {"none"}]]
  BY DEF TypeInv, TypeOK
<1>1. CASE UNCHANGED role
  BY <1>1 DEF Members
<1>2. ASSUME NEW c \in Callers, RoleWrite(c), ~UNCHANGED role
      PROVE  Members(o) \subseteq Members(o)'
  <2> PICK p \in Orgs, u \in Users :
        Founds(p, u) \/ Joins(p, u) \/ Transfers(p, u) \/ Appoints(p, u)
          \/ Removes(c, p, u)
    BY <1>2, RoleWritten
  <2> SUFFICES ASSUME NEW v \in Users, role[o][v] # "none"
               PROVE  role'[o][v] # "none"
    BY DEF Members
  <2>1. CASE Founds(p, u)
    BY <1>0, <2>1 DEF Founds
  <2>2. CASE Joins(p, u)
    BY <1>0, <2>2 DEF Joins
  <2>3. CASE Transfers(p, u)
    BY <1>0, <2>3 DEF Transfers
  <2>4. CASE Appoints(p, u)
    BY <1>0, <2>4 DEF Appoints, Roles
  <2>5. CASE Removes(c, p, u)
    <3>1. p # o
      BY <1>2, <2>5 DEF Removes
    <3> QED
      BY <1>0, <2>5, <3>1 DEF Removes
  <2> QED
    BY <2>1, <2>2, <2>3, <2>4, <2>5
<1> QED
  BY <1>1, <1>2, RolesRest

-----------------------------------------------------------------------------
(* Sight.  A step that adds no row, drops no prune and removes nobody leaves *)
(* the promise as it was.                                                    *)
PrunesStay == \A c \in Callers : At(c, "prune") => calls'[c] = calls[c]

LEMMA SightStays ==
  ASSUME TypeInv, LeaverLosesSight, [Next]_teamVars, rows' \subseteq rows,
         missed \subseteq missed', PrunesStay, ~\E c \in Callers : RemoveWrite(c)
  PROVE  LeaverLosesSight'
<1> SUFFICES ASSUME NEW r \in rows',
                    r[1] \notin missed',
                    ~\E c \in Callers : At(c, "prune")' /\ calls'[c].org = r[1]
             PROVE  {r[2], r[3]} \subseteq Members(r[1])'
  BY DEF LeaverLosesSight
<1>1. {r[2], r[3]} \subseteq Members(r[1])
  BY DEF LeaverLosesSight, PrunesStay, At
<1>2. r[1] \in Orgs
  BY DEF TypeInv, TypeOK
<1> QED
  BY <1>1, <1>2, MembersStay

\* A call that was not pruning goes on, and the others wait.
LEMMA OneCallMoves ==
  ASSUME TypeInv, NEW c \in Callers, NEW new, ~At(c, "prune"),
         calls' = [calls EXCEPT ![c] = new]
  PROVE  PrunesStay
BY DEF PrunesStay, TypeInv

LEMMA NotPruning ==
  ASSUME TypeInv, NEW c \in Callers,
         calls[c] = Idle \/ \E op \in Ops \ {"prune"} : At(c, op)
  PROVE  ~At(c, "prune")
BY DEF At, Idle

LEMMA RequestSight ==
  ASSUME TypeInv, LeaverLosesSight, Request
  PROVE  LeaverLosesSight'
<1>0. [Next]_teamVars
  BY DEF Next
<1>1. rows' \subseteq rows /\ missed' = missed /\ PrunesStay /\ role' = role
  <2>1. ASSUME NEW c \in Callers, NEW o \in Orgs, NEW u \in Users,
               \/ Create(c, o, u) \/ Accept(c, o, u) \/ LinkMachine(c, u)
               \/ \E to \in {"visible", "hidden"} : SetVisible(c, o, u, to)
               \/ \E v \in Users : \/ Remove(c, o, u, v)
                                   \/ \E to \in Roles : SetRole(c, o, u, v, to)
        PROVE  rows' = rows /\ missed' = missed /\ PrunesStay /\ role' = role
    <3>1. calls[c] = Idle /\ rows' = rows /\ missed' = missed /\ role' = role
      BY <2>1 DEF Create, Accept, LinkMachine, SetVisible, Remove, SetRole, Start
    <3>2. UNCHANGED calls \/ \E new : calls' = [calls EXCEPT ![c] = new]
      BY <2>1 DEF Create, Accept, LinkMachine, SetVisible, Remove, SetRole, Goto
    <3> QED
      BY <3>1, <3>2, OneCallMoves, NotPruning DEF PrunesStay
  <2>2. ASSUME NEW o \in Orgs, NEW u \in Users,
               \/ Decline(o, u) \/ InviteFallsDue(o, u)
               \/ \E v \in Users : Invite(o, u, v) \/ InviteRevoke(o, u, v)
        PROVE  rows' = rows /\ missed' = missed /\ UNCHANGED calls /\ role' = role
    BY <2>2 DEF Decline, InviteFallsDue, Invite, InviteRevoke
  <2>3. ASSUME NEW u \in Users, UnlinkMachine(u)
        PROVE  rows' \subseteq rows /\ missed' = missed /\ UNCHANGED calls /\ role' = role
    BY <2>3 DEF UnlinkMachine
  <2>4. ASSUME NEW o \in Orgs, NEW n \in 0..MaxSeats, SetSeats(o, n)
        PROVE  rows' = rows /\ missed' = missed /\ UNCHANGED calls /\ role' = role
    BY <2>4 DEF SetSeats
  <2> QED
    BY <2>1, <2>2, <2>3, <2>4 DEF Request, PrunesStay
<1> SUFFICES ASSUME NEW r \in rows',
                    r[1] \notin missed',
                    ~\E c \in Callers : At(c, "prune")' /\ calls'[c].org = r[1]
             PROVE  {r[2], r[3]} \subseteq Members(r[1])'
  BY DEF LeaverLosesSight
<1>2. {r[2], r[3]} \subseteq Members(r[1])
  BY <1>1 DEF LeaverLosesSight, PrunesStay, At
<1> QED
  BY <1>1, <1>2 DEF Members

LEMMA ProceedSight ==
  ASSUME TypeInv, LeaverLosesSight, NEW c \in Callers, Proceed(c)
  PROVE  LeaverLosesSight'
<1> DEFINE o == calls[c].org
<1>0. [Next]_teamVars
  BY DEF Next
<1>1. CASE Materialize(c)
  <2>1. o \in Orgs /\ ~At(c, "prune")
    BY <1>1, AtCall DEF Materialize, Ops, At
  <2>2. PrunesStay
    BY <1>1, <2>1, OneCallMoves DEF Materialize, Done
  <2> SUFFICES ASSUME NEW r \in rows',
                      r[1] \notin missed',
                      ~\E d \in Callers : At(d, "prune")' /\ calls'[d].org = r[1]
               PROVE  {r[2], r[3]} \subseteq Members(r[1])'
    BY DEF LeaverLosesSight
  <2>3. role' = role /\ missed' = missed /\ r \in Materialized(o)
    BY <1>1 DEF Materialize
  <2>4. {r[2], r[3]} \subseteq Members(r[1])
    <3>1. CASE r \in rows
      BY <2>2, <2>3, <3>1 DEF LeaverLosesSight, PrunesStay, At
    <3>2. CASE r \in Implied(o)
      BY <2>1, <3>2, ImpliedRow DEF TypeInv
    <3> QED
      BY <2>1, <2>3, <3>1, <3>2, RowsType DEF TypeInv
  <2> QED
    BY <2>3, <2>4 DEF Members
<1>2. CASE Prune(c)
  <2>1. o \in Orgs /\ role' = role /\ missed' = missed /\ rows' = Pruned(o)
    BY <1>2, AtCall DEF Prune, Ops
  <2>2. \A d \in Callers \ {c} : calls'[d] = calls[d]
    BY <1>2 DEF Prune, Done, TypeInv
  <2> SUFFICES ASSUME NEW r \in rows',
                      r[1] \notin missed',
                      ~\E d \in Callers : At(d, "prune")' /\ calls'[d].org = r[1]
               PROVE  {r[2], r[3]} \subseteq Members(r[1])
    BY <2>1 DEF LeaverLosesSight, Members
  <2>3. r \in rows /\ (r[1] = o => r \in Implied(o))
    BY <2>1 DEF Pruned
  <2>4. CASE r[1] = o
    BY <2>1, <2>3, <2>4, ImpliedRow DEF TypeInv
  <2>5. CASE r[1] # o
    BY <2>1, <2>2, <2>3, <2>5 DEF LeaverLosesSight, At
  <2> QED
    BY <2>4, <2>5
<1>3. CASE RemoveWrite(c)
  <2>1. /\ o \in Orgs /\ calls[c].user \in Users /\ ~At(c, "prune")
        /\ rows' = rows /\ missed' = missed
        /\ Goto(c, "prune", o, calls[c].user, "")
    BY <1>3, AtCall DEF RemoveWrite, Ops, At
  <2>2. PrunesStay
    BY <2>1, OneCallMoves DEF Goto
  <2>3. At(c, "prune")' /\ calls'[c].org = o
    BY <2>1 DEF Goto, Call, At, TypeInv
  <2> SUFFICES ASSUME NEW r \in rows',
                      r[1] \notin missed',
                      ~\E d \in Callers : At(d, "prune")' /\ calls'[d].org = r[1]
               PROVE  {r[2], r[3]} \subseteq Members(r[1])'
    BY DEF LeaverLosesSight
  <2>4. r[1] # o /\ r[1] \in Orgs
    BY <2>1, <2>3 DEF TypeInv, TypeOK
  <2>5. {r[2], r[3]} \subseteq Members(r[1])
    BY <2>1, <2>2 DEF LeaverLosesSight, PrunesStay, At
  <2>6. role' = [role EXCEPT ![o][calls[c].user] = "none"]
    BY <1>3 DEF RemoveWrite
  <2>7. Members(r[1])' = Members(r[1])
    BY <2>1, <2>4, <2>6 DEF Members, TypeInv, TypeOK
  <2> QED
    BY <2>5, <2>7
<1>4. CASE CreateInsert(c) \/ Join(c) \/ SetRoleWrite(c) \/ SetVisibleWrite(c) \/ LinkHook(c)
  <2>1. rows' = rows /\ missed' = missed
    BY <1>4 DEF CreateInsert, Join, SetRoleWrite, SetVisibleWrite, LinkHook
  <2>2. ~At(c, "prune") /\ ~At(c, "remove")
    BY <1>4 DEF CreateInsert, Join, SetRoleWrite, SetVisibleWrite, LinkHook, At
  <2>3. \E new : calls' = [calls EXCEPT ![c] = new]
    BY <1>4 DEF CreateInsert, Join, SetRoleWrite, SetVisibleWrite, LinkHook, Goto, Done
  <2>4. PrunesStay
    BY <2>2, <2>3, OneCallMoves
  <2>5. ~\E d \in Callers : RemoveWrite(d)
    <3> SUFFICES ASSUME NEW d \in Callers, RemoveWrite(d) PROVE FALSE
      OBVIOUS
    <3>1. d # c /\ calls'[d] = calls[d]
      BY <2>2, <2>3 DEF RemoveWrite, TypeInv
    <3>2. At(d, "remove") /\ calls'[d].op = "prune"
      BY DEF RemoveWrite, Goto, Call, TypeInv
    <3> QED
      BY <3>1, <3>2 DEF At
  <2> QED
    BY <1>0, <2>1, <2>4, <2>5, SightStays
<1> QED
  BY <1>1, <1>2, <1>3, <1>4 DEF Proceed

LEMMA RestartSight ==
  ASSUME TypeInv, LeaverLosesSight, Restart
  PROVE  LeaverLosesSight'
<1>1. role' = role /\ rows' = rows /\ missed \subseteq missed'
  BY DEF Restart
<1>2. \A c \in Callers : At(c, "prune") => calls[c].org \in missed'
  BY DEF Restart, At
<1> QED
  BY <1>1, <1>2 DEF LeaverLosesSight, Members

LEMMA ReconcileSight ==
  ASSUME TypeInv, LeaverLosesSight, NEW o \in Orgs, Reconcile(o)
  PROVE  LeaverLosesSight'
<1>1. role' = role /\ calls' = calls /\ missed' = missed \ {o}
  BY DEF Reconcile
<1> SUFFICES ASSUME NEW r \in rows',
                    r[1] \notin missed',
                    ~\E d \in Callers : At(d, "prune") /\ calls[d].org = r[1]
             PROVE  {r[2], r[3]} \subseteq Members(r[1])
  BY <1>1 DEF LeaverLosesSight, Members, At
<1>2. r \in Materialized(o) /\ (r[1] = o => r \in Implied(o))
  BY DEF Reconcile
<1>3. CASE r[1] = o
  BY <1>2, <1>3, ImpliedRow DEF TypeInv
<1>4. CASE r[1] # o
  <2>1. r \in rows
    BY <1>2, <1>4, RowsType, ImpliedRow DEF TypeInv
  <2> QED
    BY <1>1, <1>4, <2>1 DEF LeaverLosesSight
<1> QED
  BY <1>3, <1>4

LEMMA NextTeams ==
  ASSUME TeamsInv, TeamsAssumption, [Next]_teamVars
  PROVE  TeamsInv'
<1>1. TypeInv'
  BY NextType DEF TeamsInv
<1>2. SoleOwner' /\ SoleTeam'
  BY OwnersStep DEF TeamsInv
<1>3. LeaverLosesSight'
  <2>1. CASE UNCHANGED teamVars
    BY <2>1 DEF TeamsInv, LeaverLosesSight, teamVars, Members, At
  <2>2. CASE Next
    BY <2>2, RequestSight, ProceedSight, RestartSight, ReconcileSight DEF TeamsInv, Next
  <2> QED
    BY <2>1, <2>2
<1> QED
  BY <1>1, <1>2, <1>3 DEF TeamsInv

-----------------------------------------------------------------------------
LEMMA AtMostOne ==
  ASSUME NEW S, \A x, y \in S : x = y
  PROVE  Cardinality(S) < 2
<1>1. CASE S = {}
  BY <1>1, FS_EmptySet
<1>2. CASE S # {}
  <2>1. PICK x \in S : TRUE
    BY <1>2
  <2>2. S = {x}
    BY <2>1
  <2> QED
    BY <2>2, FS_Singleton
<1> QED
  BY <1>1, <1>2

LEMMA WholeTeams ==
  ASSUME TeamsInv
  PROVE  TeamsStayWhole
<1>1. AtMostOneOwner
  BY AtMostOne DEF TeamsInv, SoleOwner, AtMostOneOwner
<1>2. OneTeamEach
  BY AtMostOne DEF TeamsInv, SoleTeam, OneTeamEach, TeamOf, Members
<1> QED
  BY <1>1, <1>2 DEF TeamsInv, TeamsStayWhole

LEMMA TeamsInvariant ==
  ASSUME TeamsAssumption
  PROVE  Spec => []TeamsInv
<1>1. Init => TeamsInv
  BY InitTeams
<1>2. TeamsInv /\ [Next]_teamVars => TeamsInv'
  BY NextTeams
<1> QED
  BY <1>1, <1>2, PTL DEF Spec

(* Whatever requests overlap, are cut off by a restart or are repaired by    *)
(* night, a team has one owner at most, a user is in one team at most, and   *)
(* whoever left a team sees its machines only while the prune is still to    *)
(* come (org.rs, db.rs).                                                     *)
THEOREM TeamsSafe ==
  ASSUME TeamsAssumption
  PROVE  Spec => []TeamsStayWhole
<1>1. TeamsInv => TeamsStayWhole
  BY WholeTeams
<1> QED
  BY <1>1, TeamsInvariant, PTL

LEMMA SeatStep ==
  ASSUME TypeInv, [Next]_teamVars
  PROVE  SeatTaken
<1>0. role \in [Orgs -> [Users -> Roles \cup {"none"}]]
  BY DEF TypeInv, TypeOK
<1> SUFFICES ASSUME NEW p \in Orgs, NEW w \in Users, Members(p) # {},
                    role[p][w] = "none", role'[p][w] # "none"
             PROVE  Cardinality(Members(p)) < seats[p]
  BY DEF SeatTaken
<1>1. PICK c \in Callers : RoleWrite(c)
  BY RolesRest
<1>2. PICK o \in Orgs, u \in Users :
        Founds(o, u) \/ Joins(o, u) \/ Transfers(o, u) \/ Appoints(o, u)
          \/ Removes(c, o, u)
  BY <1>1, RoleWritten
<1>3. ~Founds(o, u)
  BY <1>0 DEF Founds
<1>4. ~Transfers(o, u)
  BY <1>0 DEF Transfers, Members
<1>5. ~Appoints(o, u)
  BY <1>0 DEF Appoints, Members
<1>6. ~Removes(c, o, u)
  BY <1>0 DEF Removes
<1>7. Joins(o, u)
  BY <1>2, <1>3, <1>4, <1>5, <1>6
<1>8. o = p
  BY <1>0, <1>7 DEF Joins
<1> QED
  BY <1>7, <1>8 DEF Joins, SeatFree

(* Nobody joins a team whose seats are all taken at that moment, for any     *)
(* number of accepts that race for the last one (org_invite_respond).        *)
THEOREM SeatsSafe ==
  ASSUME TeamsAssumption
  PROVE  Spec => SeatsRespected
<1>1. TeamsInv /\ [Next]_teamVars => SeatTaken
  BY SeatStep DEF TeamsInv
<1> QED
  BY <1>1, TeamsInvariant, PTL DEF Spec, SeatsRespected
=============================================================================
