-------------------------------- MODULE Teams --------------------------------
(* Teams on a multi-tenant hub (crates/hub/src/org.rs over the org functions *)
(* of db.rs): membership and roles, the seat gate, invitations, and the team *)
(* visibility that membership implies.                                       *)
(*                                                                           *)
(* A member sees every visible machine of the fellow members. That is stored *)
(* as rows of `shares` of kind 'team', written by materialize and removed by *)
(* prune: two idempotent repairs of a whole team that every change of        *)
(* membership, machine or opt-out runs after its own statement. Each request *)
(* is a sequence of statements awaited one by one; a call remembers what it  *)
(* has read. Each user has one machine here.                                 *)
EXTENDS Naturals, FiniteSets

CONSTANTS Users, Orgs,
          Founder,       \* the owner of each team that exists at the start
          Roster,        \* its members at the start; empty: not created yet
          MaxSeats,      \* bound on seat_count
          Callers,       \* requests in progress at once
          MaxCalls       \* bound on the requests of a behaviour

TeamsAssumption ==
  /\ Founder \in [Orgs -> Users]
  /\ Roster \in [Orgs -> SUBSET Users]
  /\ \A o \in Orgs : Roster[o] # {} => Founder[o] \in Roster[o]
  /\ \A o, p \in Orgs : o # p => Roster[o] \cap Roster[p] = {}
  /\ MaxSeats \in Nat /\ MaxCalls \in Nat

VARIABLES role,        \* org_members: [Orgs -> [Users -> role]], "none" if no row
          seats,       \* orgs.seat_count
          invite,      \* org_invites: [Orgs -> [Users -> status]]
          machine,     \* agents: the user's machine, with its team_visible flag
          rows,        \* shares of kind 'team': <<team, owner, grantee>>
          calls,       \* the requests in progress
          made,        \* requests so far
          missed       \* history: teams that lost a hook since they were last reconciled

teamVars == <<role, seats, invite, machine, rows, calls, made, missed>>

Roles == {"owner", "admin", "member"}
Statuses == {"absent", "pending", "overdue", "accepted", "declined", "revoked", "expired"}
Ops == {"write", "insert", "join", "remove", "hide", "link", "materialize", "prune"}

Members(o) == {u \in Users : role[o][u] # "none"}
InNoTeam(u) == \A o \in Orgs : role[o][u] = "none"
TeamOf(u) == {o \in Orgs : u \in Members(o)}
IsAdmin(o, u) == role[o][u] \in {"owner", "admin"}

Idle == [op |-> "idle"]
Call(op, o, u, v) == [op |-> op, org |-> o, user |-> u, to |-> v]

TypeOK ==
  /\ role \in [Orgs -> [Users -> Roles \cup {"none"}]]
  /\ seats \in [Orgs -> 0..MaxSeats]
  /\ invite \in [Orgs -> [Users -> Statuses]]
  /\ machine \in [Users -> {"none", "visible", "hidden"}]
  /\ rows \subseteq Orgs \X Users \X Users
  /\ \A c \in Callers : calls[c] = Idle \/ calls[c].op \in Ops
  /\ made \in 0..MaxCalls /\ missed \subseteq Orgs

(* A row is implied by two different members of the team, the machine being  *)
(* linked and not opted out.                                                 *)
Implied(o) ==
  {<<o, u, v>> : u \in {w \in Members(o) : machine[w] = "visible"}, v \in Members(o)}
     \ {<<o, u, u>> : u \in Users}

Init ==
  /\ role = [o \in Orgs |-> [u \in Users |->
               IF u \notin Roster[o] THEN "none"
               ELSE IF u = Founder[o] THEN "owner" ELSE "member"]]
  /\ seats = [o \in Orgs |-> IF Roster[o] = {} THEN 0 ELSE MaxSeats]
  /\ invite = [o \in Orgs |-> [u \in Users |->
                 IF Roster[o] = {} \/ u \in Roster[o] THEN "absent" ELSE "pending"]]
  /\ machine = [u \in Users |-> "visible"]
  /\ rows = UNION {Implied(o) : o \in Orgs}
  /\ calls = [c \in Callers |-> Idle]
  /\ made = 0 /\ missed = {}

Start(c) == calls[c] = Idle /\ made < MaxCalls /\ made' = made + 1
Goto(c, op, o, u, v) == calls' = [calls EXCEPT ![c] = Call(op, o, u, v)]
Done(c) == calls' = [calls EXCEPT ![c] = Idle]
At(c, op) == calls[c].op = op

-----------------------------------------------------------------------------
(* team_shares_materialize is one INSERT OR IGNORE ... SELECT: what is       *)
(* implied now. A pair that already has a team row, of whatever team, is     *)
(* ignored: the unique key is (machine, grantee). team_shares_prune is one   *)
(* DELETE of this team's rows that are not implied now.                      *)
Materialized(o) ==
  rows \cup {r \in Implied(o) : \A q \in rows : <<q[2], q[3]>> # <<r[2], r[3]>>}
SlipPruned(o) == {r \in rows : r[1] = o => r[2] \in Members(o)}
Pruned(o) == {r \in rows : r[1] = o => r \in Implied(o)}

Materialize(c) ==
  /\ At(c, "materialize")
  /\ rows' = Materialized(calls[c].org)
  /\ Done(c)
  /\ UNCHANGED <<role, seats, invite, machine, made, missed>>

Prune(c) ==
  /\ At(c, "prune")
  /\ rows' = Pruned(calls[c].org)
  /\ Done(c)
  /\ UNCHANGED <<role, seats, invite, machine, made, missed>>

(* org_create: the creator is in no team; org and owner row are one          *)
(* transaction, and the UNIQUE(user_id) key refuses a creator who has joined *)
(* a team since. An org without members stands for one not created yet.      *)
Create(c, o, u) ==
  /\ Start(c) /\ InNoTeam(u) /\ Members(o) = {}
  /\ Goto(c, "insert", o, u, "owner")
  /\ UNCHANGED <<role, seats, invite, machine, rows, missed>>

CreateInsert(c) ==
  LET o == calls[c].org
      u == calls[c].user IN
  /\ At(c, "insert") /\ Done(c)
  /\ IF InNoTeam(u) /\ Members(o) = {}
     THEN role' = [role EXCEPT ![o][u] = "owner"] /\ seats' = [seats EXCEPT ![o] = 0]
     ELSE UNCHANGED <<role, seats>>
  /\ UNCHANGED <<invite, machine, rows, made, missed>>

(* invite_create: an owner or admin; org_invite_create refreshes whatever    *)
(* row the address has to pending, unless it is accepted or the address      *)
(* belongs to a member.                                                      *)
Invite(o, u, v) ==
  /\ made < MaxCalls /\ made' = made + 1
  /\ IsAdmin(o, u) /\ v # u
  /\ invite' = [invite EXCEPT ![o][v] =
       IF @ = "accepted" \/ (@ = "absent" /\ v \in Members(o)) THEN "accepted"
       ELSE IF v \in Members(o) THEN @ ELSE "pending"]
  /\ UNCHANGED <<role, seats, machine, rows, calls, missed>>

\* org_invite_revoke, and the expiry flips of the inbox, outbox and sweep.
InviteRevoke(o, u, v) ==
  /\ made < MaxCalls /\ made' = made + 1
  /\ IsAdmin(o, u) /\ invite[o][v] \in {"pending", "overdue"}
  /\ invite' = [invite EXCEPT ![o][v] = "revoked"]
  /\ UNCHANGED <<role, seats, machine, rows, calls, missed>>

InviteFallsDue(o, v) ==
  /\ made < MaxCalls /\ made' = made + 1
  /\ \/ invite[o][v] = "pending" /\ invite' = [invite EXCEPT ![o][v] = "overdue"]
     \/ invite[o][v] = "overdue" /\ invite' = [invite EXCEPT ![o][v] = "expired"]
     \/ invite[o][v] \in {"declined", "revoked", "expired"} /\ invite' = [invite EXCEPT ![o][v] = "absent"]
  /\ UNCHANGED <<role, seats, machine, rows, calls, missed>>

(* org_invite_respond. An overdue row is flipped, a decline is one guarded   *)
(* UPDATE; an accept by a member of this team converges; otherwise the       *)
(* invitee must be in no team and the team must have seats.                  *)
Decline(o, v) ==
  /\ made < MaxCalls /\ made' = made + 1
  /\ invite[o][v] \in {"pending", "overdue"}
  /\ invite' = [invite EXCEPT ![o][v] = IF @ = "overdue" THEN "expired" ELSE "declined"]
  /\ UNCHANGED <<role, seats, machine, rows, calls, missed>>

Accept(c, o, v) ==
  /\ Start(c) /\ invite[o][v] = "pending"
  /\ IF v \in Members(o)
     THEN invite' = [invite EXCEPT ![o][v] = "accepted"] /\ UNCHANGED calls
     ELSE /\ InNoTeam(v) /\ seats[o] # 0
          /\ Goto(c, "join", o, v, "member")
          /\ UNCHANGED invite
  /\ UNCHANGED <<role, seats, machine, rows, missed>>

\* The guarded INSERT counts the members in the statement that adds one.
SlipSeatFree(o) == Cardinality(Members(o)) <= seats[o]
SeatFree(o) == Cardinality(Members(o)) < seats[o]

Join(c) ==
  LET o == calls[c].org
      u == calls[c].user IN
  /\ At(c, "join")
  /\ IF InNoTeam(u) /\ SeatFree(o)
     THEN /\ role' = [role EXCEPT ![o][u] = calls[c].to]
          /\ invite' = [invite EXCEPT ![o][u] = IF @ \in {"pending", "overdue"} THEN "accepted" ELSE @]
          /\ Goto(c, "materialize", o, u, "")
     ELSE Done(c) /\ UNCHANGED <<role, invite>>
  /\ UNCHANGED <<seats, machine, rows, made, missed>>

(* member_role: the owner only. org_set_role reads the target's role; a      *)
(* transfer demotes and promotes in one transaction that checks the target   *)
(* is still there; any other role is an unguarded UPDATE.                    *)
SetRole(c, o, u, v, to) ==
  /\ Start(c)
  /\ role[o][u] = "owner" /\ v \in Members(o)
  /\ to = "owner" \/ role[o][v] # "owner"
  /\ Goto(c, "write", o, v, to)
  /\ UNCHANGED <<role, seats, invite, machine, rows, missed>>

SetRoleWrite(c) ==
  LET o == calls[c].org
      v == calls[c].user
      to == calls[c].to IN
  /\ At(c, "write") /\ Done(c)
  /\ role' =
       IF v \notin Members(o) THEN role                      \* rolled back, or no row
       ELSE IF to = "owner"
       THEN [role EXCEPT ![o] = [u \in Users |-> IF u = v THEN "owner"
                                                 ELSE IF @[u] = "owner" THEN "admin" ELSE @[u]]]
       ELSE [role EXCEPT ![o][v] = to]
  /\ UNCHANGED <<seats, invite, machine, rows, made, missed>>

(* member_remove and leave: the role checks on what was read, then           *)
(* org_remove_member reads again, deletes by user and prunes.                *)
Remove(c, o, u, v) ==
  /\ Start(c)
  /\ v \in Members(o) /\ role[o][v] # "owner"
  /\ \/ u = v
     \/ role[o][u] = "owner"
     \/ role[o][u] = "admin" /\ role[o][v] = "member"
  /\ Goto(c, "remove", o, v, "")
  /\ UNCHANGED <<role, seats, invite, machine, rows, missed>>

RemoveWrite(c) ==
  LET o == calls[c].org
      v == calls[c].user IN
  /\ At(c, "remove")
  /\ role' = [role EXCEPT ![o][v] = "none"]
  /\ Goto(c, "prune", o, v, "")
  /\ UNCHANGED <<seats, invite, machine, rows, made, missed>>

(* machine_visibility: the team is read first, the flag is written, then     *)
(* that team is repaired. device_approve links a machine, visible by         *)
(* default, and repairs the team its user is in by then.                     *)
SetVisible(c, o, u, to) ==
  /\ Start(c)
  /\ u \in Members(o) /\ machine[u] \notin {"none", to}
  /\ Goto(c, "hide", o, u, to)
  /\ UNCHANGED <<role, seats, invite, machine, rows, missed>>

SetVisibleWrite(c) ==
  LET u == calls[c].user
      to == calls[c].to IN
  /\ At(c, "hide")
  /\ IF machine[u] = "none" THEN Done(c) /\ UNCHANGED machine
     ELSE /\ machine' = [machine EXCEPT ![u] = to]
          /\ Goto(c, IF to = "visible" THEN "materialize" ELSE "prune", calls[c].org, u, "")
  /\ UNCHANGED <<role, seats, invite, rows, made, missed>>

LinkMachine(c, u) ==
  /\ Start(c) /\ machine[u] = "none"
  /\ machine' = [machine EXCEPT ![u] = "visible"]
  /\ calls' = [calls EXCEPT ![c] = Call("link", "", u, "")]
  /\ UNCHANGED <<role, seats, invite, rows, missed>>

LinkHook(c) ==
  /\ At(c, "link")
  /\ IF TeamOf(calls[c].user) = {} THEN Done(c)
     ELSE \E o \in TeamOf(calls[c].user) : Goto(c, "materialize", o, calls[c].user, "")
  /\ UNCHANGED <<role, seats, invite, machine, rows, made, missed>>

\* delete_agent: the row goes and, by cascade, every share of it.
UnlinkMachine(u) ==
  /\ made < MaxCalls /\ made' = made + 1
  /\ machine[u] # "none"
  /\ machine' = [machine EXCEPT ![u] = "none"]
  /\ rows' = {r \in rows : r[2] # u}
  /\ UNCHANGED <<role, seats, invite, calls, missed>>

(* org_set_seats and the billing write: any number, whatever the membership. *)
SetSeats(o, n) ==
  /\ made < MaxCalls /\ made' = made + 1
  /\ Members(o) # {} /\ n # seats[o]
  /\ seats' = [seats EXCEPT ![o] = n]
  /\ UNCHANGED <<role, invite, machine, rows, calls, missed>>

(* A hub that stops drops the requests it was serving: the statements done   *)
(* stay and the hooks not yet run are lost. The nightly reconcile repairs    *)
(* every team in turn.                                                       *)
Restart ==
  /\ \E c \in Callers : calls[c] # Idle
  /\ calls' = [c \in Callers |-> Idle]
  /\ missed' = missed \cup {calls[c].org : c \in {d \in Callers : calls[d].op \in {"materialize", "prune"}}}
                   \cup UNION {TeamOf(calls[c].user) : c \in {d \in Callers : calls[d].op = "link"}}
  /\ UNCHANGED <<role, seats, invite, machine, rows, made>>

SlipReconcile(o) ==
  /\ rows' = {r \in rows : r[1] = o => r \in Implied(o)}
  /\ missed' = missed \ {o}
  /\ <<rows, missed>>' # <<rows, missed>>
  /\ UNCHANGED <<role, seats, invite, machine, calls, made>>
Reconcile(o) ==
  /\ rows' = {r \in Materialized(o) : r[1] = o => r \in Implied(o)}
  /\ missed' = missed \ {o}
  /\ <<rows, missed>>' # <<rows, missed>>
  /\ UNCHANGED <<role, seats, invite, machine, calls, made>>

Proceed(c) ==
  \/ Materialize(c) \/ Prune(c) \/ CreateInsert(c) \/ Join(c) \/ SetRoleWrite(c)
  \/ RemoveWrite(c) \/ SetVisibleWrite(c) \/ LinkHook(c)

Request ==
  \/ \E c \in Callers, o \in Orgs, u \in Users :
       \/ Create(c, o, u) \/ Accept(c, o, u) \/ LinkMachine(c, u)
       \/ \E to \in {"visible", "hidden"} : SetVisible(c, o, u, to)
       \/ \E v \in Users : \/ Remove(c, o, u, v)
                           \/ \E to \in Roles : SetRole(c, o, u, v, to)
  \/ \E o \in Orgs, u \in Users :
       \/ Decline(o, u) \/ InviteFallsDue(o, u)
       \/ \E v \in Users : Invite(o, u, v) \/ InviteRevoke(o, u, v)
  \/ \E u \in Users : UnlinkMachine(u)
  \/ \E o \in Orgs, n \in 0..MaxSeats : SetSeats(o, n)

Next ==
  \/ Request \/ Restart
  \/ \E c \in Callers : Proceed(c)
  \/ \E o \in Orgs : Reconcile(o)

(* A statement once begun ends, and every night comes.                       *)
Fairness ==
  /\ \A c \in Callers : WF_teamVars(Proceed(c))
  /\ \A o \in Orgs : WF_teamVars(Reconcile(o))

Spec == Init /\ [][Next]_teamVars /\ Fairness

-----------------------------------------------------------------------------
(* Joins racing for the last seat: nobody becomes a member of a team whose   *)
(* seats are all taken at that moment, however stale what the accept read.   *)
SeatTaken ==
  \A o \in Orgs, u \in Users :
    role[o][u] = "none" /\ role'[o][u] # "none" /\ Members(o) # {}
      => Cardinality(Members(o)) < seats[o]
SeatsRespected == [][SeatTaken]_teamVars

(* Transfers, demotions and removals that overlap never make a second owner. *)
AtMostOneOwner == \A o \in Orgs : Cardinality({u \in Users : role[o][u] = "owner"}) < 2

(* A person is in one team at most, though joining one and founding another  *)
(* may be in progress together.                                              *)
OneTeamEach == \A u \in Users : Cardinality(TeamOf(u)) < 2

(* Whoever left a team or was removed from it stops seeing its machines, and *)
(* its members theirs, as soon as the removal has run its prune; only a      *)
(* restart in between puts that off to the night.                            *)
LeaverLosesSight ==
  \A r \in rows :
    \/ {r[2], r[3]} \subseteq Members(r[1])
    \/ r[1] \in missed
    \/ \E c \in Callers : At(c, "prune") /\ calls[c].org = r[1]

(* What a team is, at any moment of any overlap.                             *)
TeamsStayWhole == AtMostOneOwner /\ OneTeamEach /\ LeaverLosesSight

(* Once the requests stop, every team sees exactly what its membership and   *)
(* the opt-outs imply, whatever hooks were lost or ran against a team the    *)
(* user had left meanwhile.                                                  *)
SightIsExact == rows = UNION {Implied(o) : o \in Orgs}
SightSettles == <>[]SightIsExact
=============================================================================
