----------------------------- MODULE Enrollment -----------------------------
(* How a machine or a terminal gets its credential from a multi-tenant hub:  *)
(* the device-authorization flow (crates/hub/src/device.rs over the device   *)
(* functions of db.rs), the plan cap on machines, unlink, rotation, and the  *)
(* revocation of terminal tokens.                                            *)
(*                                                                           *)
(* A host asks for a code and polls with it; a signed-in user approves the   *)
(* code, which mints the credential and parks it in the enrollment row for   *)
(* the next poll. Polls and approvals are sequences of statements awaited    *)
(* one by one and the row is guarded by none of them: a call is a record of  *)
(* what it has read. Tokens are numbered in the order they are minted, and   *)
(* only the newest hash of a machine is stored.                              *)
EXTENDS Naturals, FiniteSets

CONSTANTS Users,
          Codes,        \* enrollments; the label of the machine goes with them
          KindOf,       \* [Codes -> {"agent", "client"}]
          LabelOf,      \* [Codes -> Labels]: the machine's label
          Labels,
          MaxAgents,    \* the plan's max_agents
          Callers,      \* requests in progress at once
          MaxCodes,     \* bound on the codes asked for in a behaviour
          MaxTokens,    \* bound on the tokens minted
          NoUser

EnrollmentAssumption ==
  /\ \A d \in Codes : KindOf[d] \in {"agent", "client"} /\ LabelOf[d] \in Labels
  /\ MaxAgents \in Nat /\ MaxCodes \in Nat /\ MaxTokens \in Nat /\ NoUser \notin Users

VARIABLES overlap,      \* requests may overlap: fixed for the behaviour
          codes,        \* device_enrollments: status, user and parked token
          overdue,      \* codes past expires_at
          recent,       \* codes polled less than `interval` ago
          agents,       \* agents: <<user, label>> -> the token of its hash, 0 if no row
          terminals,    \* client_tokens: token -> user, NoUser if no row
          minted,       \* tokens minted so far
          calls,        \* the requests in progress
          handed,       \* history: <<code, token>> -> times it was handed over
          overCap       \* history: users a rotation took past the cap

enrollVars == <<overlap, codes, overdue, recent, agents, terminals, minted,
                calls, handed, overCap>>

Tokens == 1..MaxTokens
Unused == [st |-> "unused", user |-> NoUser, token |-> 0]
Absent == [st |-> "absent", user |-> NoUser, token |-> 0]   \* deleted
Idle == [op |-> "idle"]
Call(op, code, user, token, saw) ==
  [op |-> op, code |-> code, user |-> user, token |-> token, saw |-> saw]

TypeOK ==
  /\ overlap \in BOOLEAN
  /\ codes \in [Codes -> [st : {"unused", "absent", "pending", "approved"},
                          user : Users \cup {NoUser}, token : 0..MaxTokens]]
  /\ overdue \in SUBSET Codes /\ recent \in SUBSET Codes
  /\ agents \in [Users \X Labels -> 0..MaxTokens]
  /\ terminals \in [Tokens -> Users \cup {NoUser}]
  /\ minted \in 0..MaxTokens
  /\ \A c \in Callers : calls[c] = Idle \/ calls[c].op \in
       {"pollExpire", "pollStamp", "pollTake", "gate", "mint", "park"}
  /\ handed \in [Codes \X Tokens -> 0..2]
  /\ overCap \subseteq Users

Init ==
  /\ overlap \in BOOLEAN
  /\ codes = [c \in Codes |-> Unused] /\ overdue = {} /\ recent = {}
  /\ agents = [m \in Users \X Labels |-> 0]
  /\ terminals = [t \in Tokens |-> NoUser]
  /\ minted = 0 /\ calls = [c \in Callers |-> Idle]
  /\ handed = [p \in Codes \X Tokens |-> 0] /\ overCap = {}

Quiet == \A c \in Callers : calls[c] = Idle
MayStart(c) == calls[c] = Idle /\ (overlap \/ Quiet)
At(c, op) == calls[c].op = op
Done(c) == calls' = [calls EXCEPT ![c] = Idle]
Goto(c, op, code, user, token, saw) ==
  calls' = [calls EXCEPT ![c] = Call(op, code, user, token, saw)]
Owned(u) == {l \in Labels : agents[<<u, l>>] # 0}

-----------------------------------------------------------------------------
\* device_create, device_create_client: one INSERT of a pending row.
AskForCode(d) ==
  /\ codes[d] = Unused
  /\ Cardinality({e \in Codes : codes[e] # Unused}) < MaxCodes
  /\ overlap \/ Quiet
  /\ codes' = [codes EXCEPT ![d] = [@ EXCEPT !.st = "pending"]]
  /\ UNCHANGED <<overlap, overdue, recent, agents, terminals, minted, calls, handed, overCap>>

FallDue(d) ==
  /\ codes[d].st \in {"pending", "approved"} /\ d \notin overdue
  /\ overdue' = overdue \cup {d}
  /\ UNCHANGED <<overlap, codes, recent, agents, terminals, minted, calls, handed, overCap>>

IntervalPasses(d) ==
  /\ d \in recent /\ recent' = recent \ {d}
  /\ UNCHANGED <<overlap, codes, overdue, agents, terminals, minted, calls, handed, overCap>>

\* device_sweep: expired rows, and approved ones nobody polled for an hour.
Sweep(d) ==
  /\ overlap \/ Quiet
  /\ \/ codes[d].st = "pending" /\ d \in overdue
     \/ codes[d].st = "approved" /\ (d \in overdue \/ d \notin recent)
  /\ codes' = [codes EXCEPT ![d] = Absent]
  /\ recent' = recent \ {d}
  /\ UNCHANGED <<overlap, overdue, agents, terminals, minted, calls, handed, overCap>>

(* device_poll: the row of this code and this kind, read once; an expired    *)
(* one is deleted. The throttle is decided by the timestamp that was read    *)
(* and the new one written before the status is looked at; an approved row   *)
(* hands over what was read and is deleted last. A code polled through the   *)
(* endpoint of the other kind is answered like an unknown one.               *)
Poll(c, d, kind) ==
  /\ MayStart(c)
  /\ codes[d].st \in {"pending", "approved"} /\ kind = KindOf[d]
  /\ IF d \in overdue THEN Goto(c, "pollExpire", d, NoUser, 0, "expired")
     ELSE Goto(c, "pollStamp", d, codes[d].user, codes[d].token,
               IF d \in recent THEN "tooFast" ELSE codes[d].st)
  /\ UNCHANGED <<overlap, codes, overdue, recent, agents, terminals, minted, handed, overCap>>

PollExpire(c) ==
  /\ At(c, "pollExpire")
  /\ codes' = [codes EXCEPT ![calls[c].code] = Absent]
  /\ Done(c)
  /\ UNCHANGED <<overlap, overdue, recent, agents, terminals, minted, handed, overCap>>

PollStamp(c) ==
  LET k == calls[c] IN
  /\ At(c, "pollStamp")
  /\ recent' = IF codes[k.code] = Absent THEN recent ELSE recent \cup {k.code}
  /\ IF k.saw = "approved" THEN Goto(c, "pollTake", k.code, k.user, k.token, k.saw) ELSE Done(c)
  /\ UNCHANGED <<overlap, codes, overdue, agents, terminals, minted, handed, overCap>>

HandOver(d, t) == handed' = [handed EXCEPT ![<<d, t>>] = IF @ < 2 THEN @ + 1 ELSE @]

PollTake(c) ==
  LET k == calls[c] IN
  /\ At(c, "pollTake")
  /\ codes' = [codes EXCEPT ![k.code] = Absent]
  /\ recent' = recent \ {k.code}
  /\ HandOver(k.code, k.token)
  /\ Done(c)
  /\ UNCHANGED <<overlap, overdue, agents, terminals, minted, overCap>>

(* device_approve: the pending, unexpired row. A terminal's code mints a     *)
(* client token at once. A machine's code is gated first: a label this user  *)
(* does not have yet must fit under max_agents, counted before the mint.     *)
Approve(c, u, d) ==
  /\ MayStart(c)
  /\ codes[d].st = "pending" /\ d \notin overdue
  /\ Goto(c, IF KindOf[d] = "client" THEN "mint" ELSE "gate", d, u, 0, "pending")
  /\ UNCHANGED <<overlap, codes, overdue, recent, agents, terminals, minted, handed, overCap>>

SlipUnderCap(u, l) == l \in Owned(u) \/ Cardinality(Owned(u)) <= MaxAgents
UnderCap(u, l) == l \in Owned(u) \/ Cardinality(Owned(u)) < MaxAgents

ApproveGate(c) ==
  LET k == calls[c] IN
  /\ At(c, "gate")
  /\ IF UnderCap(k.user, LabelOf[k.code])
     THEN Goto(c, "mint", k.code, k.user, 0, "pending") ELSE Done(c)
  /\ UNCHANGED <<overlap, codes, overdue, recent, agents, terminals, minted, handed, overCap>>

\* INSERT INTO client_tokens, or upsert_agent: a known label gets a new hash.
ApproveMint(c) ==
  LET k == calls[c]
      t == minted + 1 IN
  /\ At(c, "mint") /\ minted < MaxTokens
  /\ minted' = t
  /\ IF KindOf[k.code] = "client"
     THEN terminals' = [terminals EXCEPT ![t] = k.user] /\ UNCHANGED agents
     ELSE agents' = [agents EXCEPT ![<<k.user, LabelOf[k.code]>>] = t] /\ UNCHANGED terminals
  /\ Goto(c, "park", k.code, k.user, t, "pending")
  /\ UNCHANGED <<overlap, codes, overdue, recent, handed, overCap>>

\* The plaintext is parked by an UPDATE of the row by its device_code.
Parked(k) == [st |-> "approved", user |-> k.user, token |-> k.token]

ApprovePark(c) ==
  LET k == calls[c] IN
  /\ At(c, "park")
  /\ codes' = [codes EXCEPT ![k.code] = IF @ = Absent THEN @ ELSE Parked(k)]
  /\ Done(c)
  /\ UNCHANGED <<overlap, overdue, recent, agents, terminals, minted, handed, overCap>>

(* POST /api/agents/rotate: upsert_agent without the gate, so a label the    *)
(* user does not have is created whatever the plan says.                     *)
Rotate(u, l) ==
  /\ overlap \/ Quiet
  /\ minted < MaxTokens /\ minted' = minted + 1
  /\ overCap' = IF UnderCap(u, l) THEN overCap ELSE overCap \cup {u}
  /\ agents' = [agents EXCEPT ![<<u, l>>] = minted + 1]
  /\ UNCHANGED <<overlap, codes, overdue, recent, terminals, calls, handed>>

\* delete_agent, and delete_client_token: owner-scoped deletes.
Unlink(u, l) ==
  /\ overlap \/ Quiet
  /\ agents[<<u, l>>] # 0
  /\ agents' = [agents EXCEPT ![<<u, l>>] = 0]
  /\ UNCHANGED <<overlap, codes, overdue, recent, terminals, minted, calls, handed, overCap>>

RevokeTerminal(t) ==
  /\ overlap \/ Quiet
  /\ terminals[t] # NoUser
  /\ terminals' = [terminals EXCEPT ![t] = NoUser]
  /\ UNCHANGED <<overlap, codes, overdue, recent, agents, minted, calls, handed, overCap>>

Next ==
  \/ \E d \in Codes : AskForCode(d) \/ FallDue(d) \/ IntervalPasses(d) \/ Sweep(d)
  \/ \E c \in Callers :
       \/ \E d \in Codes : \/ \E kind \in {"agent", "client"} : Poll(c, d, kind)
                           \/ \E u \in Users : Approve(c, u, d)
       \/ PollExpire(c) \/ PollStamp(c) \/ PollTake(c)
       \/ ApproveGate(c) \/ ApproveMint(c) \/ ApprovePark(c)
  \/ \E u \in Users, l \in Labels : Rotate(u, l) \/ Unlink(u, l)
  \/ \E t \in Tokens : RevokeTerminal(t)

Spec == Init /\ [][Next]_enrollVars

\* resolve_agent and user_by_client_token_hash: whom a presented token names.
Resolves(t) ==
  {m \in Users \X Labels : agents[m] = t} \cup
  {<<u, "terminal">> : u \in {terminals[t]} \ {NoUser}}

-----------------------------------------------------------------------------
(* A credential parked for a host names, if it still names anyone, the user  *)
(* recorded beside it and the machine of that code, whichever of two         *)
(* approvals that ran together was written last.                             *)
ParkedForItsUser ==
  \A d \in Codes : codes[d].st = "approved" =>
    Resolves(codes[d].token) \subseteq
      {<<codes[d].user, IF KindOf[d] = "client" THEN "terminal" ELSE LabelOf[d]>>}

(* The plan's cap: requests taken one at a time leave a user over it only    *)
(* through a rotation that names a label the user does not have.             *)
CapHolds ==
  ~overlap => \A u \in Users \ overCap : Cardinality(Owned(u)) <= MaxAgents

(* A parked credential is handed over at most once when polls do not overlap.*)
HandedOnce == ~overlap => \A p \in DOMAIN handed : handed[p] < 2

(* Every credential is where it belongs, and there are no more than allowed. *)
CredentialsInPlace == ParkedForItsUser /\ CapHolds /\ HandedOnce
=============================================================================
