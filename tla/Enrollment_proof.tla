-------------------------- MODULE Enrollment_proof --------------------------
(***************************************************************************)
(* A parked credential is its user's, is handed over once, and the plan's  *)
(* cap holds: the proof of what Enrollment promises, for any number of     *)
(* users, codes, labels and requests at once.                              *)
(*                                                                         *)
(* That a token names nobody but the user it is parked for holds however   *)
(* requests overlap, because a token is never minted twice (`Ahead`): the  *)
(* one an approval is about to park is stored for its own user and machine *)
(* or, rotated or revoked meanwhile, for nobody (`Belongs`).  The cap and  *)
(* the single hand-over are promised of requests taken one at a time.  For *)
(* them the invariant says that the one call under way still finds the row *)
(* it read (`RowStands`), that a code which was handed over has no row any *)
(* more and never gets one (`HandedRowsGo`), and that what the gate counted*)
(* is still so when the machine is written (`Gated`).                      *)
(***************************************************************************)
EXTENDS Enrollment, FiniteSetTheorems, TLAPS

Steps == {"pollExpire", "pollStamp", "pollTake", "gate", "mint", "park"}
Approving == {"gate", "mint", "park"}

CallSet == [op : Steps, code : Codes, user : Users \cup {NoUser}, token : 0..MaxTokens,
            saw : {"expired", "tooFast", "pending", "approved"}]

\* An approval is some user's.
Placed(k) == k.op \in Approving => k.user \in Users

TypeInv ==
  /\ TypeOK
  /\ calls \in [Callers -> {Idle} \cup CallSet]
  /\ \A c \in Callers : calls[c] # Idle => Placed(calls[c])

-----------------------------------------------------------------------------
(* Whose a token is, however requests overlap.                               *)
Ahead ==
  /\ \A m \in Users \X Labels : agents[m] <= minted
  /\ \A t \in Tokens : terminals[t] # NoUser => t <= minted

Belongs(t, u, d) ==
  /\ t \in 1..minted
  /\ \A m \in Users \X Labels : agents[m] = t => KindOf[d] = "agent" /\ m = <<u, LabelOf[d]>>
  /\ terminals[t] # NoUser => KindOf[d] = "client" /\ terminals[t] = u

RowsBelong ==
  \A d \in Codes : codes[d].st = "approved" => Belongs(codes[d].token, codes[d].user, d)

CallsBelong ==
  \A c \in Callers :
    calls[c].op = "park" => Belongs(calls[c].token, calls[c].user, calls[c].code)

Finite == \A u \in Users : IsFiniteSet(Owned(u))

-----------------------------------------------------------------------------
(* One request at a time.                                                    *)
Alone == \A c, d \in Callers : calls[c] # Idle /\ calls[d] # Idle => c = d

RowStands ==
  \A c \in Callers :
    calls[c] # Idle => codes[calls[c].code].st \in {"pending", "approved"}

HandedRowsGo ==
  \A d \in Codes, t \in Tokens : handed[<<d, t>>] # 0 => codes[d] = Absent

Gated ==
  \A c \in Callers :
    calls[c].op = "mint" /\ KindOf[calls[c].code] = "agent" =>
      UnderCap(calls[c].user, LabelOf[calls[c].code])

WithinCap == \A u \in Users \ overCap : Cardinality(Owned(u)) <= MaxAgents

Once == \A d \in Codes, t \in Tokens : handed[<<d, t>>] < 2

Serial == Alone /\ RowStands /\ HandedRowsGo /\ Gated /\ WithinCap /\ Once

EnrollmentInv ==
  /\ TypeInv /\ Ahead /\ RowsBelong /\ CallsBelong /\ Finite
  /\ ~overlap => Serial

-----------------------------------------------------------------------------
(* How a request proceeds.                                                   *)
LEMMA CallIs ==
  ASSUME NEW op \in Steps, NEW d \in Codes, NEW u \in Users \cup {NoUser},
         NEW t \in 0..MaxTokens, NEW saw \in {"expired", "tooFast", "pending", "approved"}
  PROVE  /\ Call(op, d, u, t, saw) \in CallSet /\ Call(op, d, u, t, saw) # Idle
         /\ Call(op, d, u, t, saw).op = op /\ Call(op, d, u, t, saw).code = d
         /\ Call(op, d, u, t, saw).user = u /\ Call(op, d, u, t, saw).token = t
         /\ Call(op, d, u, t, saw).saw = saw
BY DEF Call, CallSet, Idle, Steps

LEMMA AtCall ==
  ASSUME TypeInv, NEW c \in Callers, NEW op \in Steps, At(c, op)
  PROVE  /\ calls[c] # Idle /\ calls[c] \in CallSet /\ calls[c].op = op
         /\ calls[c].code \in Codes /\ calls[c].user \in Users \cup {NoUser}
         /\ calls[c].token \in 0..MaxTokens
         /\ calls[c].saw \in {"expired", "tooFast", "pending", "approved"}
         /\ op \in Approving => calls[c].user \in Users
<1>1. calls[c] # Idle
  BY DEF At, Idle, Steps
<1>2. calls[c] \in CallSet /\ Placed(calls[c])
  BY <1>1 DEF TypeInv
<1> QED
  BY <1>1, <1>2 DEF At, CallSet, Placed

LEMMA IdleIs ==
  ASSUME NEW c \in Callers, calls[c] = Idle
  PROVE  calls[c].op = "idle"
BY DEF Idle

CallsTyped ==
  /\ calls \in [Callers -> {Idle} \cup CallSet]
  /\ \A c \in Callers : calls[c] # Idle => Placed(calls[c])

LEMMA GotoIs ==
  ASSUME TypeInv, NEW c \in Callers, NEW op \in Steps, NEW d \in Codes,
         NEW u \in Users \cup {NoUser}, NEW t \in 0..MaxTokens,
         NEW saw \in {"expired", "tooFast", "pending", "approved"},
         op \in Approving => u \in Users, Goto(c, op, d, u, t, saw)
  PROVE  /\ CallsTyped'
         /\ \A e \in Callers : calls'[e] = IF e = c THEN Call(op, d, u, t, saw) ELSE calls[e]
         /\ calls'[c] # Idle /\ calls'[c].op = op /\ calls'[c].code = d
         /\ calls'[c].user = u /\ calls'[c].token = t
<1>1. /\ Call(op, d, u, t, saw) \in CallSet /\ Placed(Call(op, d, u, t, saw))
      /\ Call(op, d, u, t, saw) # Idle
  BY CallIs DEF Placed
<1>2. \A e \in Callers : calls'[e] = IF e = c THEN Call(op, d, u, t, saw) ELSE calls[e]
  BY DEF Goto, TypeInv
<1>3. CallsTyped'
  BY <1>1, <1>2 DEF Goto, TypeInv, CallsTyped
<1> QED
  BY <1>1, <1>2, <1>3, CallIs

LEMMA DoneIs ==
  ASSUME TypeInv, NEW c \in Callers, Done(c)
  PROVE  /\ CallsTyped'
         /\ \A e \in Callers : calls'[e] = IF e = c THEN Idle ELSE calls[e]
<1>1. \A e \in Callers : calls'[e] = IF e = c THEN Idle ELSE calls[e]
  BY DEF Done, TypeInv
<1> QED
  BY <1>1 DEF Done, TypeInv, CallsTyped

(* What a step does to the calls: nothing, or one call goes on, begins or    *)
(* ends. A call that is about to mint or to park is an approval's.           *)
Around(d) == AskForCode(d) \/ FallDue(d) \/ IntervalPasses(d) \/ Sweep(d)
Account == \/ \E u \in Users, l \in Labels : Rotate(u, l) \/ Unlink(u, l)
           \/ \E t \in Tokens : RevokeTerminal(t)
Begin(c) ==
  \E d \in Codes : \/ \E kind \in {"agent", "client"} : Poll(c, d, kind)
                   \/ \E u \in Users : Approve(c, u, d)
Proceed(c) == \/ PollExpire(c) \/ PollStamp(c) \/ PollTake(c)
              \/ ApproveGate(c) \/ ApproveMint(c) \/ ApprovePark(c)

LEMMA NextIs ==
  ASSUME Next
  PROVE  \/ \E d \in Codes : Around(d)
         \/ \E c \in Callers : Begin(c) \/ Proceed(c)
         \/ Account
BY DEF Next, Around, Begin, Proceed, Account

LEMMA BeginIs ==
  ASSUME EnrollmentAssumption, TypeInv, NEW c \in Callers, Begin(c)
  PROVE  /\ MayStart(c) /\ CallsTyped'
         /\ calls'[c].op \in {"pollExpire", "pollStamp", "gate", "mint"}
         /\ calls'[c].op = "mint" => KindOf[calls'[c].code] = "client"
         /\ calls'[c].code \in Codes
         /\ codes[calls'[c].code].st \in {"pending", "approved"}
         /\ \A e \in Callers \ {c} : calls'[e] = calls[e]
         /\ UNCHANGED <<overlap, codes, overdue, recent, agents, terminals, minted,
                        handed, overCap>>
<1>t. codes \in [Codes -> [st : {"unused", "absent", "pending", "approved"},
                           user : Users \cup {NoUser}, token : 0..MaxTokens]]
  BY DEF TypeInv, TypeOK
<1>z. 0 \in 0..MaxTokens
  BY DEF EnrollmentAssumption
<1>1. ASSUME NEW d \in Codes, NEW kind \in {"agent", "client"}, Poll(c, d, kind)
      PROVE  /\ CallsTyped' /\ calls'[c].op \in {"pollExpire", "pollStamp"}
             /\ calls'[c].code = d /\ \A e \in Callers \ {c} : calls'[e] = calls[e]
  <2>1. /\ codes[d].user \in Users \cup {NoUser} /\ codes[d].token \in 0..MaxTokens
        /\ codes[d].st \in {"pending", "approved"}
    BY <1>1, <1>t DEF Poll
  <2>3. CASE d \in overdue
    <3>1. Goto(c, "pollExpire", d, NoUser, 0, "expired")
      BY <1>1, <2>3 DEF Poll
    <3>2. "pollExpire" \in Steps /\ "pollExpire" \notin Approving
      BY DEF Steps, Approving
    <3>3. CallsTyped' /\ calls'[c].op = "pollExpire" /\ calls'[c].code = d
      BY <1>z, <3>1, <3>2, GotoIs
    <3>4. \A e \in Callers \ {c} : calls'[e] = calls[e]
      BY <1>z, <3>1, <3>2, GotoIs
    <3> QED
      BY <3>3, <3>4
  <2>4. CASE d \notin overdue
    <3>1. PICK saw \in {"tooFast", "pending", "approved"} :
            Goto(c, "pollStamp", d, codes[d].user, codes[d].token, saw)
      BY <1>1, <2>1, <2>4 DEF Poll
    <3> QED
      BY <2>1, <3>1, GotoIs DEF Steps, Approving
  <2> QED
    BY <2>3, <2>4
<1>2. ASSUME NEW d \in Codes, NEW u \in Users, Approve(c, u, d)
      PROVE  /\ CallsTyped' /\ calls'[c].op \in {"gate", "mint"}
             /\ calls'[c].op = "mint" => KindOf[d] = "client"
             /\ calls'[c].code = d /\ \A e \in Callers \ {c} : calls'[e] = calls[e]
  <2>2. PICK op \in {"gate", "mint"} : /\ Goto(c, op, d, u, 0, "pending")
                                       /\ op = "mint" => KindOf[d] = "client"
    BY <1>2 DEF Approve
  <2> QED
    BY <1>z, <2>2, GotoIs DEF Steps, Approving
<1>3. CASE \E d \in Codes, kind \in {"agent", "client"} : Poll(c, d, kind)
  BY <1>1, <1>3 DEF Poll
<1>4. CASE \E d \in Codes, u \in Users : Approve(c, u, d)
  BY <1>2, <1>4 DEF Approve
<1> QED
  BY <1>3, <1>4 DEF Begin

\* What is on the way to the park is an approval, its token freshly minted.
Mints(c, k) ==
  LET t == minted + 1 IN
  /\ calls[c].op = "mint" /\ minted < MaxTokens /\ minted' = t
  /\ k.code = calls[c].code /\ k.user = calls[c].user /\ k.token = t
  /\ \/ /\ KindOf[k.code] = "client"
        /\ terminals' = [terminals EXCEPT ![t] = k.user] /\ UNCHANGED agents
     \/ /\ KindOf[k.code] = "agent"
        /\ agents' = [agents EXCEPT ![<<k.user, LabelOf[k.code]>>] = t] /\ UNCHANGED terminals

LEMMA ProceedIs ==
  ASSUME EnrollmentAssumption, TypeInv, NEW c \in Callers, Proceed(c)
  PROVE  /\ CallsTyped' /\ calls[c] # Idle /\ calls[c].code \in Codes
         /\ \A e \in Callers \ {c} : calls'[e] = calls[e]
         /\ \/ calls'[c] = Idle
            \/ /\ calls'[c] # Idle /\ calls'[c].code = calls[c].code
               /\ UNCHANGED codes
         /\ calls'[c].op = "mint" =>
              UnderCap(calls'[c].user, LabelOf[calls'[c].code]) /\ UNCHANGED agents
         /\ calls'[c].op = "park" => Mints(c, calls'[c])
<1>z. 0 \in 0..MaxTokens
  BY DEF EnrollmentAssumption
<1>i. /\ Idle.op = "idle"
      /\ calls[c].code \in Codes => calls[c].code = calls[c].code
  BY DEF Idle
<1>1. ASSUME NEW op \in Steps, At(c, op), Done(c)
      PROVE  /\ CallsTyped' /\ calls[c] # Idle /\ calls[c].code \in Codes
             /\ calls'[c] = Idle /\ calls'[c].op = "idle"
             /\ \A e \in Callers \ {c} : calls'[e] = calls[e]
  BY <1>1, <1>i, AtCall, DoneIs
<1>2. CASE PollExpire(c) \/ PollTake(c) \/ ApprovePark(c)
  <2>1. \E op \in {"pollExpire", "pollTake", "park"} : At(c, op) /\ Done(c)
    BY <1>2 DEF PollExpire, PollTake, ApprovePark
  <2> QED
    BY <1>1, <2>1 DEF Steps
<1>3. CASE PollStamp(c)
  <2>1. At(c, "pollStamp") /\ "pollStamp" \in Steps /\ UNCHANGED codes
    BY <1>3 DEF PollStamp, Steps
  <2>2. CASE Done(c)
    BY <1>1, <2>1, <2>2
  <2>3. CASE ~Done(c)
    <3>1. Goto(c, "pollTake", calls[c].code, calls[c].user, calls[c].token, calls[c].saw)
      BY <1>3, <2>3 DEF PollStamp
    <3>2. "pollTake" \in Steps /\ "pollTake" \notin Approving
      BY DEF Steps, Approving
    <3>3. /\ CallsTyped' /\ calls'[c] # Idle /\ calls'[c].op = "pollTake"
          /\ calls'[c].code = calls[c].code
          /\ \A e \in Callers \ {c} : calls'[e] = calls[e]
      <4>1. /\ calls[c].code \in Codes /\ calls[c].user \in Users \cup {NoUser}
            /\ calls[c].token \in 0..MaxTokens
            /\ calls[c].saw \in {"expired", "tooFast", "pending", "approved"}
        BY <2>1, AtCall
      <4> QED
        BY <3>1, <3>2, <4>1, GotoIs
    <3> QED
      BY <2>1, <3>3, AtCall
  <2> QED
    BY <2>2, <2>3
<1>4. CASE ApproveGate(c)
  <2>1. At(c, "gate") /\ "gate" \in Steps /\ UNCHANGED <<codes, agents>>
    BY <1>4 DEF ApproveGate, Steps
  <2>2. CASE Done(c)
    BY <1>1, <2>1, <2>2
  <2>3. CASE ~Done(c)
    <3>1. /\ Goto(c, "mint", calls[c].code, calls[c].user, 0, "pending")
          /\ UnderCap(calls[c].user, LabelOf[calls[c].code])
      BY <1>4, <2>3 DEF ApproveGate
    <3>2. "mint" \in Steps /\ calls[c].user \in Users
      BY <2>1, AtCall DEF Steps, Approving
    <3>3. /\ CallsTyped' /\ calls'[c] # Idle /\ calls'[c].op = "mint"
          /\ calls'[c].code = calls[c].code /\ calls'[c].user = calls[c].user
          /\ \A e \in Callers \ {c} : calls'[e] = calls[e]
      BY <1>z, <2>1, <3>1, <3>2, AtCall, GotoIs
    <3> QED
      BY <2>1, <3>1, <3>3, AtCall
  <2> QED
    BY <2>2, <2>3
<1>5. CASE ApproveMint(c)
  <2>1. At(c, "mint") /\ "mint" \in Steps /\ UNCHANGED codes
    BY <1>5 DEF ApproveMint, Steps
  <2>2. /\ calls[c] # Idle /\ calls[c].op = "mint" /\ calls[c].code \in Codes
        /\ calls[c].user \in Users
    BY <2>1, AtCall DEF Approving
  <2>3. minted \in 0..MaxTokens /\ minted < MaxTokens /\ MaxTokens \in Nat
    BY <1>5 DEF ApproveMint, TypeInv, TypeOK, EnrollmentAssumption
  <2>4. minted + 1 \in 0..MaxTokens
    BY <2>3
  <2>5. Goto(c, "park", calls[c].code, calls[c].user, minted + 1, "pending")
    BY <1>5 DEF ApproveMint
  <2>6. "park" \in Steps
    BY DEF Steps
  <2>7. /\ CallsTyped' /\ calls'[c] # Idle /\ calls'[c].op = "park"
        /\ calls'[c].code = calls[c].code /\ calls'[c].user = calls[c].user
        /\ calls'[c].token = minted + 1
        /\ \A e \in Callers \ {c} : calls'[e] = calls[e]
    BY <2>2, <2>4, <2>5, <2>6, GotoIs
  <2>8. KindOf[calls[c].code] \in {"agent", "client"}
    BY <2>2 DEF EnrollmentAssumption
  <2>9. Mints(c, calls'[c])
    BY <1>5, <2>2, <2>7, <2>8 DEF ApproveMint, Mints
  <2> QED
    BY <2>1, <2>2, <2>7, <2>9
<1> QED
  BY <1>2, <1>3, <1>4, <1>5 DEF Proceed

-----------------------------------------------------------------------------
(* Types, step by step.                                                      *)
RowSet == [st : {"unused", "absent", "pending", "approved"},
           user : Users \cup {NoUser}, token : 0..MaxTokens]

LEMMA RowsAre ==
  ASSUME EnrollmentAssumption, TypeInv
  PROVE  /\ codes \in [Codes -> RowSet] /\ Absent \in RowSet
         /\ \A d \in Codes : [codes[d] EXCEPT !.st = "pending"] \in RowSet
<1>1. codes \in [Codes -> RowSet]
  BY DEF TypeInv, TypeOK, RowSet
<1>2. Absent \in RowSet
  BY DEF Absent, RowSet, EnrollmentAssumption
<1>3. \A row \in RowSet : [row EXCEPT !.st = "pending"] \in RowSet
  BY DEF RowSet
<1> QED
  BY <1>1, <1>2, <1>3

LEMMA TypeFromParts ==
  ASSUME overlap' \in BOOLEAN, codes' \in [Codes -> RowSet],
         overdue' \in SUBSET Codes, recent' \in SUBSET Codes,
         agents' \in [Users \X Labels -> 0..MaxTokens],
         terminals' \in [Tokens -> Users \cup {NoUser}], minted' \in 0..MaxTokens,
         handed' \in [Codes \X Tokens -> 0..2], overCap' \in SUBSET Users, CallsTyped'
  PROVE  TypeInv'
<1>1. \A c \in Callers : calls'[c] = Idle \/ calls'[c] \in CallSet
  BY DEF CallsTyped
<1> QED
  BY <1>1 DEF TypeInv, TypeOK, CallsTyped, CallSet, Steps, RowSet

LEMMA AroundType ==
  ASSUME EnrollmentAssumption, TypeInv, NEW d \in Codes, Around(d)
  PROVE  TypeInv'
<1>1. UNCHANGED calls => CallsTyped'
  BY DEF TypeInv, CallsTyped
<1>2. codes' \in [Codes -> RowSet]
  <2>1. \/ UNCHANGED codes
        \/ codes' = [codes EXCEPT ![d] = [@ EXCEPT !.st = "pending"]]
        \/ codes' = [codes EXCEPT ![d] = Absent]
    BY DEF Around, AskForCode, FallDue, IntervalPasses, Sweep
  <2> QED
    BY <2>1, RowsAre
<1>3. overdue' \in SUBSET Codes /\ recent' \in SUBSET Codes
  BY DEF Around, AskForCode, FallDue, IntervalPasses, Sweep, TypeInv, TypeOK
<1>4. UNCHANGED <<overlap, agents, terminals, minted, calls, handed, overCap>>
  BY DEF Around, AskForCode, FallDue, IntervalPasses, Sweep
<1> QED
  BY <1>1, <1>2, <1>3, <1>4, TypeFromParts DEF TypeInv, TypeOK

LEMMA AccountType ==
  ASSUME EnrollmentAssumption, TypeInv, Account
  PROVE  TypeInv'
<1>1. UNCHANGED <<overlap, codes, overdue, recent, calls, handed>>
  BY DEF Account, Rotate, Unlink, RevokeTerminal
<1>2. CallsTyped'
  BY <1>1 DEF TypeInv, CallsTyped
<1>3. /\ agents' \in [Users \X Labels -> 0..MaxTokens] /\ minted' \in 0..MaxTokens
      /\ overCap' \in SUBSET Users
  <2>0. /\ agents \in [Users \X Labels -> 0..MaxTokens] /\ minted \in 0..MaxTokens
        /\ overCap \in SUBSET Users /\ 0 \in 0..MaxTokens
    BY DEF TypeInv, TypeOK, EnrollmentAssumption
  <2>1. ASSUME NEW u \in Users, NEW l \in Labels, Rotate(u, l)
        PROVE  /\ agents' \in [Users \X Labels -> 0..MaxTokens] /\ minted' \in 0..MaxTokens
               /\ overCap' \in SUBSET Users
    <3>1. minted + 1 \in 0..MaxTokens
      BY <2>0, <2>1 DEF Rotate, EnrollmentAssumption
    <3>2. overCap' \in SUBSET Users
      BY <2>0, <2>1 DEF Rotate
    <3> QED
      BY <2>0, <2>1, <3>1, <3>2 DEF Rotate
  <2>2. ASSUME NEW u \in Users, NEW l \in Labels, Unlink(u, l)
        PROVE  agents' \in [Users \X Labels -> 0..MaxTokens] /\ UNCHANGED <<minted, overCap>>
    BY <2>0, <2>2 DEF Unlink
  <2>3. ASSUME NEW t \in Tokens, RevokeTerminal(t)
        PROVE  UNCHANGED <<agents, minted, overCap>>
    BY <2>3 DEF RevokeTerminal
  <2> QED
    BY <2>0, <2>1, <2>2, <2>3 DEF Account
<1>4. terminals' \in [Tokens -> Users \cup {NoUser}]
  BY DEF Account, Rotate, Unlink, RevokeTerminal, TypeInv, TypeOK
<1> QED
  BY <1>1, <1>2, <1>3, <1>4, TypeFromParts DEF TypeInv, TypeOK

LEMMA ProceedType ==
  ASSUME EnrollmentAssumption, TypeInv, NEW c \in Callers, Proceed(c)
  PROVE  TypeInv'
<1>1. CallsTyped' /\ calls[c].code \in Codes
  BY ProceedIs
<1>2. UNCHANGED <<overlap, overdue, overCap>>
  BY DEF Proceed, PollExpire, PollStamp, PollTake, ApproveGate, ApproveMint, ApprovePark
<1>3. recent' \in SUBSET Codes
  BY <1>1 DEF Proceed, PollExpire, PollStamp, PollTake, ApproveGate, ApproveMint,
              ApprovePark, TypeInv, TypeOK
<1>4. codes' \in [Codes -> RowSet]
  <2>1. CASE UNCHANGED codes
    BY <2>1, RowsAre
  <2>2. CASE PollExpire(c) \/ PollTake(c)
    BY <2>2, RowsAre DEF PollExpire, PollTake
  <2>3. CASE ApprovePark(c)
    <3>1. calls[c].user \in Users /\ calls[c].token \in 0..MaxTokens
      BY <2>3, AtCall DEF ApprovePark, Steps, Approving
    <3>2. Parked(calls[c]) \in RowSet
      BY <3>1 DEF Parked, RowSet
    <3> QED
      BY <2>3, <3>2, RowsAre DEF ApprovePark
  <2> QED
    BY <2>1, <2>2, <2>3 DEF Proceed, PollStamp, ApproveGate, ApproveMint
<1>5. handed' \in [Codes \X Tokens -> 0..2]
  <2>1. \A n \in 0..2 : (IF n < 2 THEN n + 1 ELSE n) \in 0..2
    OBVIOUS
  <2>2. CASE PollTake(c)
    BY <2>1, <2>2 DEF PollTake, HandOver, TypeInv, TypeOK
  <2>3. CASE ~PollTake(c)
    BY <2>3 DEF Proceed, PollExpire, PollStamp, ApproveGate, ApproveMint, ApprovePark,
                TypeInv, TypeOK
  <2> QED
    BY <2>2, <2>3
<1>6. /\ agents' \in [Users \X Labels -> 0..MaxTokens]
      /\ terminals' \in [Tokens -> Users \cup {NoUser}] /\ minted' \in 0..MaxTokens
  <2>1. CASE ApproveMint(c)
    <3>1. calls[c].user \in Users
      BY <2>1, AtCall DEF ApproveMint, Steps, Approving
    <3>2. minted + 1 \in 0..MaxTokens
      BY <2>1 DEF ApproveMint, TypeInv, TypeOK, EnrollmentAssumption
    <3> QED
      BY <2>1, <3>1, <3>2 DEF ApproveMint, TypeInv, TypeOK
  <2>2. CASE ~ApproveMint(c)
    BY <2>2 DEF Proceed, PollExpire, PollStamp, PollTake, ApproveGate, ApprovePark,
                TypeInv, TypeOK
  <2> QED
    BY <2>1, <2>2
<1> QED
  BY <1>1, <1>2, <1>3, <1>4, <1>5, <1>6, TypeFromParts DEF TypeInv, TypeOK

LEMMA TypeStep ==
  ASSUME EnrollmentAssumption, TypeInv, [Next]_enrollVars
  PROVE  TypeInv'
<1>1. CASE UNCHANGED enrollVars
  <2>1. CallsTyped'
    BY <1>1 DEF enrollVars, TypeInv, CallsTyped
  <2> QED
    BY <1>1, <2>1, RowsAre, TypeFromParts DEF enrollVars, TypeInv, TypeOK
<1>2. ASSUME NEW c \in Callers, Begin(c)
      PROVE  TypeInv'
  BY <1>2, BeginIs, RowsAre, TypeFromParts DEF TypeInv, TypeOK
<1> QED
  BY <1>1, <1>2, NextIs, AroundType, AccountType, ProceedType

-----------------------------------------------------------------------------
(* Whose a token is. A step stores nothing under an old token: a machine or  *)
(* a terminal keeps its token, loses it, or gets one minted in that step.    *)
Fades ==
  /\ minted \in Nat /\ minted' \in Nat /\ minted <= minted'
  /\ \A m \in Users \X Labels :
       agents'[m] \in {agents[m], 0} \/ (agents'[m] = minted + 1 /\ minted' = minted + 1)
  /\ \A t \in Tokens :
       terminals'[t] \in {terminals[t], NoUser} \/ (t = minted + 1 /\ minted' = minted + 1)

LEMMA MintFades ==
  ASSUME EnrollmentAssumption, TypeInv, NEW c \in Callers, Mints(c, calls'[c])
  PROVE  Fades
<1>0. /\ agents \in [Users \X Labels -> 0..MaxTokens] /\ minted \in 0..MaxTokens
      /\ terminals \in [Tokens -> Users \cup {NoUser}]
  BY DEF TypeInv, TypeOK
<1>1. minted \in Nat /\ minted + 1 \in Nat /\ minted <= minted + 1 /\ minted' = minted + 1
  BY <1>0 DEF Mints
<1>2. \A m \in Users \X Labels : agents'[m] = agents[m] \/ agents'[m] = minted + 1
  BY <1>0 DEF Mints
<1>3. \A t \in Tokens : terminals'[t] = terminals[t] \/ t = minted + 1
  BY <1>0 DEF Mints
<1> QED
  BY <1>1, <1>2, <1>3 DEF Fades

LEMMA AccountFades ==
  ASSUME EnrollmentAssumption, TypeInv, Account
  PROVE  Fades
<1>0. /\ agents \in [Users \X Labels -> 0..MaxTokens] /\ minted \in 0..MaxTokens
      /\ terminals \in [Tokens -> Users \cup {NoUser}]
  BY DEF TypeInv, TypeOK
<1>m. minted \in Nat /\ minted + 1 \in Nat /\ minted <= minted + 1 /\ minted <= minted
  BY <1>0
<1>1. ASSUME NEW u \in Users, NEW l \in Labels, Rotate(u, l)
      PROVE  Fades
  <2>1. minted' = minted + 1 /\ UNCHANGED terminals
    BY <1>1 DEF Rotate
  <2>2. \A m \in Users \X Labels : agents'[m] = agents[m] \/ agents'[m] = minted + 1
    BY <1>0, <1>1 DEF Rotate
  <2> QED
    BY <1>m, <2>1, <2>2 DEF Fades
<1>2. ASSUME NEW u \in Users, NEW l \in Labels, Unlink(u, l)
      PROVE  Fades
  <2>1. minted' = minted /\ terminals' = terminals
    BY <1>2 DEF Unlink
  <2>2. \A m \in Users \X Labels : agents'[m] = agents[m] \/ agents'[m] = 0
    BY <1>0, <1>2 DEF Unlink
  <2> QED
    BY <1>m, <2>1, <2>2 DEF Fades
<1>3. ASSUME NEW t \in Tokens, RevokeTerminal(t)
      PROVE  Fades
  <2>1. minted' = minted /\ agents' = agents
    BY <1>3 DEF RevokeTerminal
  <2>2. \A s \in Tokens : terminals'[s] = terminals[s] \/ terminals'[s] = NoUser
    BY <1>0, <1>3 DEF RevokeTerminal
  <2> QED
    BY <1>m, <2>1, <2>2 DEF Fades
<1> QED
  BY <1>1, <1>2, <1>3 DEF Account

LEMMA StillFades ==
  ASSUME TypeInv, UNCHANGED <<agents, terminals, minted>>
  PROVE  Fades
<1>1. minted \in Nat /\ minted' \in Nat /\ minted <= minted'
  BY DEF TypeInv, TypeOK
<1>2. agents' = agents /\ terminals' = terminals
  OBVIOUS
<1>3. \A m \in Users \X Labels : agents'[m] \in {agents[m], 0}
  BY <1>2
<1>4. \A t \in Tokens : terminals'[t] \in {terminals[t], NoUser}
  BY <1>2
<1> QED
  BY <1>1, <1>3, <1>4 DEF Fades

LEMMA StepFades ==
  ASSUME EnrollmentAssumption, TypeInv, [Next]_enrollVars
  PROVE  Fades
<1>1. CASE UNCHANGED enrollVars
  BY <1>1, StillFades DEF enrollVars
<1>2. ASSUME NEW d \in Codes, Around(d)
      PROVE  Fades
  BY <1>2, StillFades DEF Around, AskForCode, FallDue, IntervalPasses, Sweep
<1>3. ASSUME NEW c \in Callers, Begin(c)
      PROVE  Fades
  BY <1>3, BeginIs, StillFades
<1>4. ASSUME NEW c \in Callers, Proceed(c)
      PROVE  Fades
  <2>1. CASE ApproveMint(c)
    <3>1. Goto(c, "park", calls[c].code, calls[c].user, minted + 1, "pending")
      BY <2>1 DEF ApproveMint
    <3>2. calls'[c] = Call("park", calls[c].code, calls[c].user, minted + 1, "pending")
      BY <3>1 DEF Goto, TypeInv
    <3>3. calls'[c].op = "park"
      BY <3>2 DEF Call
    <3> QED
      BY <1>4, <3>3, ProceedIs, MintFades
  <2>2. CASE ~ApproveMint(c)
    BY <1>4, <2>2, StillFades DEF Proceed, PollExpire, PollStamp, PollTake, ApproveGate,
                                  ApprovePark
  <2> QED
    BY <2>1, <2>2
<1> QED
  BY <1>1, <1>2, <1>3, <1>4, NextIs, AccountFades

LEMMA AheadStep ==
  ASSUME TypeInv, Fades, Ahead
  PROVE  Ahead'
<1>0. \A m \in Users \X Labels : agents[m] \in Nat
  BY DEF TypeInv, TypeOK
<1>1. ASSUME NEW m \in Users \X Labels
      PROVE  agents'[m] <= minted'
  BY <1>0 DEF Fades, Ahead
<1>2. ASSUME NEW t \in Tokens, terminals'[t] # NoUser
      PROVE  t <= minted'
  BY <1>2 DEF Fades, Ahead, Tokens
<1> QED
  BY <1>1, <1>2 DEF Ahead

\* What a token named it may cease to name, and it names nothing new.
LEMMA BelongsStays ==
  ASSUME TypeInv, Fades, NEW t, NEW u, NEW d, Belongs(t, u, d), MaxTokens \in Nat
  PROVE  Belongs(t, u, d)'
<1>1. t \in Nat /\ t # 0 /\ t <= minted /\ t # minted + 1
  BY DEF Belongs, Fades
<1>2. t \in 1..minted'
  BY <1>1 DEF Fades
<1>3. ASSUME NEW m \in Users \X Labels, agents'[m] = t
      PROVE  KindOf[d] = "agent" /\ m = <<u, LabelOf[d]>>
  <2>1. agents[m] = t
    BY <1>1, <1>3 DEF Fades
  <2> QED
    BY <2>1 DEF Belongs
<1>4. ASSUME terminals'[t] # NoUser
      PROVE  KindOf[d] = "client" /\ terminals'[t] = u
  <2>1. t \in Tokens
    BY <1>1 DEF Tokens, TypeInv, TypeOK
  <2>2. terminals'[t] = terminals[t]
    BY <1>1, <1>4, <2>1 DEF Fades
  <2> QED
    BY <1>4, <2>2 DEF Belongs
<1> QED
  BY <1>2, <1>3, <1>4 DEF Belongs

\* A token that has just been minted is stored for the one it was minted for.
LEMMA MintedBelongs ==
  ASSUME EnrollmentAssumption, TypeInv, Ahead, NEW c \in Callers, Mints(c, calls'[c]),
         calls[c].code \in Codes, calls[c].user \in Users
  PROVE  Belongs(calls[c].token, calls[c].user, calls[c].code)'
<1> DEFINE t == minted + 1
           k == calls'[c]
<1>0. /\ agents \in [Users \X Labels -> 0..MaxTokens] /\ minted \in 0..MaxTokens
      /\ terminals \in [Tokens -> Users \cup {NoUser}]
  BY DEF TypeInv, TypeOK
<1>1. k.token = t /\ t \in 1..minted' /\ t \in Tokens
  BY <1>0 DEF Mints, Tokens, EnrollmentAssumption
<1>2. terminals[t] = NoUser /\ \A m \in Users \X Labels : agents[m] # t
  BY <1>0, <1>1 DEF Ahead
<1>3. CASE KindOf[k.code] = "client" /\ UNCHANGED agents
           /\ terminals' = [terminals EXCEPT ![t] = k.user]
  <2>1. \A m \in Users \X Labels : agents'[m] # t
    BY <1>2, <1>3
  <2>2. terminals'[t] = k.user
    BY <1>0, <1>1, <1>3
  <2> QED
    BY <1>1, <1>3, <2>1, <2>2 DEF Belongs
<1>4. CASE KindOf[k.code] = "agent" /\ UNCHANGED terminals
           /\ agents' = [agents EXCEPT ![<<k.user, LabelOf[k.code]>>] = t]
  <2>1. ASSUME NEW m \in Users \X Labels, agents'[m] = t
        PROVE  m = <<k.user, LabelOf[k.code]>>
    BY <1>0, <1>2, <1>4, <2>1
  <2>2. terminals'[t] = NoUser
    BY <1>2, <1>4
  <2> QED
    BY <1>1, <1>4, <2>1, <2>2 DEF Belongs
<1> QED
  BY <1>3, <1>4 DEF Mints

\* A row is approved by a call that parks what it has minted, and by no other.
LEMMA RowsChange ==
  ASSUME EnrollmentAssumption, TypeInv, [Next]_enrollVars, NEW d \in Codes,
         codes'[d].st = "approved"
  PROVE  \/ codes'[d] = codes[d]
         \/ \E c \in Callers : /\ calls[c].op = "park" /\ d = calls[c].code
                               /\ codes'[d] = Parked(calls[c])
<1>0. codes \in [Codes -> RowSet] /\ Absent.st = "absent"
  BY RowsAre DEF Absent
<1>1. ASSUME NEW e \in Codes, Around(e)
      PROVE  codes'[d] = codes[d]
  <2>1. CASE AskForCode(e)
    <3>1. codes' = [codes EXCEPT ![e] = [@ EXCEPT !.st = "pending"]]
      BY <2>1 DEF AskForCode
    <3>2. [codes[e] EXCEPT !.st = "pending"].st = "pending"
      BY <1>0 DEF RowSet
    <3> QED
      BY <1>0, <3>1, <3>2
  <2>2. CASE Sweep(e)
    BY <1>0, <2>2 DEF Sweep
  <2> QED
    BY <1>1, <2>1, <2>2 DEF Around, FallDue, IntervalPasses
<1>2. ASSUME NEW c \in Callers, Proceed(c)
      PROVE  \/ codes'[d] = codes[d]
             \/ /\ calls[c].op = "park" /\ d = calls[c].code
                /\ codes'[d] = Parked(calls[c])
  <2>1. CASE PollExpire(c) \/ PollTake(c)
    BY <1>0, <2>1 DEF PollExpire, PollTake
  <2>2. CASE ApprovePark(c)
    BY <1>0, <2>2 DEF ApprovePark, At
  <2> QED
    BY <1>2, <2>1, <2>2 DEF Proceed, PollStamp, ApproveGate, ApproveMint
<1>3. CASE Account
  BY <1>3 DEF Account, Rotate, Unlink, RevokeTerminal
<1>4. CASE UNCHANGED enrollVars
  BY <1>4 DEF enrollVars
<1> QED
  BY <1>1, <1>2, <1>3, <1>4, BeginIs, NextIs

LEMMA RowsBelongStep ==
  ASSUME EnrollmentAssumption, TypeInv, [Next]_enrollVars, RowsBelong, CallsBelong
  PROVE  RowsBelong'
<1>1. Fades /\ MaxTokens \in Nat
  BY StepFades DEF EnrollmentAssumption
<1>2. SUFFICES ASSUME NEW d \in Codes, codes'[d].st = "approved"
               PROVE  Belongs(codes[d].token, codes[d].user, d)'
  BY DEF RowsBelong
<1>3. PICK t, u : codes'[d].token = t /\ codes'[d].user = u /\ Belongs(t, u, d)
  <2>1. CASE codes'[d] = codes[d]
    BY <1>2, <2>1 DEF RowsBelong
  <2>2. ASSUME NEW c \in Callers, calls[c].op = "park", d = calls[c].code,
               codes'[d] = Parked(calls[c])
        PROVE  \E t, u : codes'[d].token = t /\ codes'[d].user = u /\ Belongs(t, u, d)
    <3>1. codes'[d].token = calls[c].token /\ codes'[d].user = calls[c].user
      BY <2>2 DEF Parked
    <3>2. Belongs(calls[c].token, calls[c].user, d)
      BY <2>2 DEF CallsBelong
    <3> QED
      BY <3>1, <3>2
  <2> QED
    BY <1>2, <2>1, <2>2, RowsChange
<1>4. Belongs(t, u, d)'
  BY <1>1, <1>3, BelongsStays
<1> QED
  BY <1>3, <1>4

LEMMA CallsBelongStep ==
  ASSUME EnrollmentAssumption, TypeInv, [Next]_enrollVars, Ahead, CallsBelong
  PROVE  CallsBelong'
<1>1. Fades /\ MaxTokens \in Nat
  BY StepFades DEF EnrollmentAssumption
<1>2. SUFFICES ASSUME NEW c \in Callers, calls'[c].op = "park"
               PROVE  Belongs(calls[c].token, calls[c].user, calls[c].code)'
  BY DEF CallsBelong
<1>3. CASE calls'[c] = calls[c]
  <2>1. Belongs(calls[c].token, calls[c].user, calls[c].code)
    BY <1>2, <1>3 DEF CallsBelong
  <2>2. PICK t, u, d : /\ calls[c].token = t /\ calls[c].user = u /\ calls[c].code = d
                       /\ Belongs(t, u, d)
    BY <2>1
  <2>3. Belongs(t, u, d)'
    BY <1>1, <2>2, BelongsStays
  <2> QED
    BY <1>3, <2>2, <2>3
<1>4. CASE calls'[c] # calls[c]
  <2>1. Proceed(c)
    <3>1. ASSUME NEW e \in Callers, Begin(e)
          PROVE  FALSE
      BY <1>2, <1>4, <3>1, BeginIs
    <3>2. ASSUME NEW e \in Callers, Proceed(e)
          PROVE  e = c
      BY <1>4, <3>2, ProceedIs
    <3>3. ~UNCHANGED calls
      BY <1>4
    <3> QED
      BY <3>1, <3>2, <3>3, NextIs
      DEF enrollVars, Around, AskForCode, FallDue, IntervalPasses, Sweep, Account, Rotate,
          Unlink, RevokeTerminal
  <2>2. Mints(c, calls'[c]) /\ calls[c].code \in Codes
    BY <1>2, <2>1, ProceedIs
  <2>3. calls[c].user \in Users
    BY <2>2, AtCall DEF Mints, At, Steps, Approving
  <2> QED
    BY <2>2, <2>3, MintedBelongs
<1> QED
  BY <1>3, <1>4

-----------------------------------------------------------------------------
(* The machines a user has, counted.                                         *)
LEMMA OwnedStep ==
  ASSUME EnrollmentAssumption, TypeInv, Finite, NEW u \in Users, NEW v \in Users,
         NEW l \in Labels, NEW t \in 1..MaxTokens,
         agents' = [agents EXCEPT ![<<u, l>>] = t]
  PROVE  /\ IsFiniteSet(Owned(v)')
         /\ UnderCap(u, l) /\ Cardinality(Owned(v)) <= MaxAgents =>
              Cardinality(Owned(v)') <= MaxAgents
         /\ u # v => Owned(v)' = Owned(v)
<1>0. agents \in [Users \X Labels -> 0..MaxTokens] /\ t # 0 /\ IsFiniteSet(Owned(v))
  BY DEF TypeInv, TypeOK, Finite, EnrollmentAssumption
<1>1. CASE u = v
  <2>1. Owned(v)' = Owned(v) \cup {l}
    BY <1>0, <1>1 DEF Owned
  <2>2. /\ IsFiniteSet(Owned(v) \cup {l})
        /\ Cardinality(Owned(v) \cup {l}) =
             IF l \in Owned(v) THEN Cardinality(Owned(v)) ELSE Cardinality(Owned(v)) + 1
    BY <1>0, FS_AddElement
  <2>3. Cardinality(Owned(v)) \in Nat
    BY <1>0, FS_CardinalityType
  <2> QED
    BY <1>1, <2>1, <2>2, <2>3 DEF UnderCap, EnrollmentAssumption
<1>2. CASE u # v
  <2>1. Owned(v)' = Owned(v)
    BY <1>0, <1>2 DEF Owned
  <2> QED
    BY <1>0, <1>2, <2>1
<1> QED
  BY <1>1, <1>2

LEMMA UnlinkedStep ==
  ASSUME EnrollmentAssumption, TypeInv, Finite, NEW u \in Users, NEW v \in Users,
         NEW l \in Labels, agents' = [agents EXCEPT ![<<u, l>>] = 0]
  PROVE  /\ IsFiniteSet(Owned(v)')
         /\ Cardinality(Owned(v)) <= MaxAgents => Cardinality(Owned(v)') <= MaxAgents
<1>0. agents \in [Users \X Labels -> 0..MaxTokens] /\ IsFiniteSet(Owned(v))
  BY DEF TypeInv, TypeOK, Finite
<1>1. Owned(v)' \in SUBSET Owned(v)
  BY <1>0 DEF Owned
<1>2. /\ IsFiniteSet(Owned(v)')
      /\ Cardinality(Owned(v)') <= Cardinality(Owned(v))
  BY <1>0, <1>1, FS_Subset
<1>3. Cardinality(Owned(v)) \in Nat /\ Cardinality(Owned(v)') \in Nat
  BY <1>0, <1>2, FS_CardinalityType
<1> QED
  BY <1>2, <1>3 DEF EnrollmentAssumption

LEMMA OwnedStill ==
  ASSUME agents' = agents, NEW v \in Users
  PROVE  Owned(v)' = Owned(v)
BY DEF Owned

\* What a step does to the machines: nothing, a mint, a rotation or an unlink.
LEMMA MachinesChange ==
  ASSUME EnrollmentAssumption, TypeInv, [Next]_enrollVars
  PROVE  \/ agents' = agents
         \/ \E c \in Callers, u \in Users, l \in Labels, t \in 1..MaxTokens :
              /\ ApproveMint(c) /\ Proceed(c) /\ KindOf[calls[c].code] = "agent"
              /\ u = calls[c].user /\ l = LabelOf[calls[c].code]
              /\ agents' = [agents EXCEPT ![<<u, l>>] = t] /\ overCap' = overCap
         \/ \E u \in Users, l \in Labels, t \in 1..MaxTokens :
              /\ Rotate(u, l) /\ agents' = [agents EXCEPT ![<<u, l>>] = t]
         \/ \E u \in Users, l \in Labels :
              Unlink(u, l) /\ agents' = [agents EXCEPT ![<<u, l>>] = 0]
<1>0. minted < MaxTokens => minted + 1 \in 1..MaxTokens
  BY DEF TypeInv, TypeOK, EnrollmentAssumption
<1>1. ASSUME NEW c \in Callers, ApproveMint(c), agents' # agents
      PROVE  \E u \in Users, l \in Labels, t \in 1..MaxTokens :
               /\ ApproveMint(c) /\ Proceed(c) /\ KindOf[calls[c].code] = "agent"
               /\ u = calls[c].user /\ l = LabelOf[calls[c].code]
               /\ agents' = [agents EXCEPT ![<<u, l>>] = t] /\ overCap' = overCap
  <2>1. calls[c].user \in Users /\ calls[c].code \in Codes
    BY <1>1, AtCall DEF ApproveMint, Steps, Approving
  <2>2. LabelOf[calls[c].code] \in Labels /\ KindOf[calls[c].code] \in {"agent", "client"}
    BY <2>1 DEF EnrollmentAssumption
  <2> QED
    BY <1>0, <1>1, <2>1, <2>2 DEF ApproveMint, Proceed
<1>2. ASSUME NEW u \in Users, NEW l \in Labels, Rotate(u, l)
      PROVE  \E t \in 1..MaxTokens : agents' = [agents EXCEPT ![<<u, l>>] = t]
  BY <1>0, <1>2 DEF Rotate
<1>3. ASSUME NEW u \in Users, NEW l \in Labels, Unlink(u, l)
      PROVE  agents' = [agents EXCEPT ![<<u, l>>] = 0]
  BY <1>3 DEF Unlink
<1>4. ASSUME NEW c \in Callers, Proceed(c), ~ApproveMint(c)
      PROVE  agents' = agents
  BY <1>4 DEF Proceed, PollExpire, PollStamp, PollTake, ApproveGate, ApprovePark
<1>5. CASE Account
  BY <1>2, <1>3, <1>5 DEF Account, RevokeTerminal
<1>6. CASE UNCHANGED enrollVars \/ \E d \in Codes : Around(d)
  BY <1>6 DEF enrollVars, Around, AskForCode, FallDue, IntervalPasses, Sweep
<1> QED
  BY <1>1, <1>4, <1>5, <1>6, NextIs, BeginIs

LEMMA FiniteStep ==
  ASSUME EnrollmentAssumption, TypeInv, [Next]_enrollVars, Finite
  PROVE  Finite'
<1>1. SUFFICES ASSUME NEW v \in Users PROVE IsFiniteSet(Owned(v)')
  BY DEF Finite
<1>2. IsFiniteSet(Owned(v))
  BY DEF Finite
<1> QED
  BY <1>2, MachinesChange, OwnedStep, UnlinkedStep, OwnedStill

-----------------------------------------------------------------------------
(* Requests taken one at a time, step by step.                               *)
LEMMA QuietSerial ==
  ASSUME TypeInv, Serial, Quiet, UNCHANGED calls, HandedRowsGo', WithinCap', Once'
  PROVE  Serial'
<1>1. \A c \in Callers : calls'[c] = Idle /\ calls'[c].op = "idle"
  BY DEF Quiet, Idle
<1> QED
  BY <1>1 DEF Serial, Alone, RowStands, Gated

LEMMA CapStill ==
  ASSUME WithinCap, agents' = agents, overCap' = overCap
  PROVE  WithinCap'
<1>1. \A v \in Users : Owned(v)' = Owned(v)
  BY OwnedStill
<1> QED
  BY <1>1 DEF WithinCap

LEMMA HandedStill ==
  ASSUME HandedRowsGo, Once, handed' = handed, \A d \in Codes : codes[d] = Absent => codes'[d] = Absent
  PROVE  HandedRowsGo' /\ Once'
BY DEF HandedRowsGo, Once

LEMMA AroundSerial ==
  ASSUME EnrollmentAssumption, TypeInv, ~overlap, Serial, NEW d \in Codes, Around(d)
  PROVE  Serial'
<1>1. UNCHANGED <<agents, overCap, calls, handed>>
  BY DEF Around, AskForCode, FallDue, IntervalPasses, Sweep
<1>2. WithinCap'
  BY <1>1, CapStill DEF Serial
<1>3. CASE AskForCode(d) \/ Sweep(d)
  <2>1. Quiet
    BY <1>3 DEF AskForCode, Sweep
  <2>2. \A e \in Codes : codes[e] = Absent => codes'[e] = Absent
    BY <1>3, RowsAre DEF AskForCode, Sweep, Unused, Absent
  <2>3. HandedRowsGo' /\ Once'
    BY <1>1, <2>2, HandedStill DEF Serial
  <2> QED
    BY <1>1, <1>2, <2>1, <2>3, QuietSerial
<1>4. CASE FallDue(d) \/ IntervalPasses(d)
  <2>1. UNCHANGED codes
    BY <1>4 DEF FallDue, IntervalPasses
  <2> QED
    BY <1>1, <1>2, <2>1
    DEF Serial, Alone, RowStands, HandedRowsGo, Gated, UnderCap, Owned, Once
<1> QED
  BY <1>3, <1>4 DEF Around

LEMMA AccountSerial ==
  ASSUME EnrollmentAssumption, TypeInv, Finite, ~overlap, Serial, Account
  PROVE  Serial'
<1>1. Quiet /\ UNCHANGED <<codes, calls, handed>>
  BY DEF Account, Rotate, Unlink, RevokeTerminal
<1>2. HandedRowsGo' /\ Once'
  BY <1>1, HandedStill DEF Serial
<1>3. ASSUME NEW u \in Users, NEW l \in Labels, Rotate(u, l)
      PROVE  WithinCap'
  <2>0. minted + 1 \in 1..MaxTokens
    BY <1>3 DEF Rotate, TypeInv, TypeOK, EnrollmentAssumption
  <2>1. /\ agents' = [agents EXCEPT ![<<u, l>>] = minted + 1]
        /\ overCap' = IF UnderCap(u, l) THEN overCap ELSE overCap \cup {u}
    BY <1>3 DEF Rotate
  <2>2. SUFFICES ASSUME NEW v \in Users \ overCap'
                 PROVE  Cardinality(Owned(v)') <= MaxAgents
    BY DEF WithinCap
  <2>3. v \in Users /\ Cardinality(Owned(v)) <= MaxAgents
    BY <2>1, <2>2 DEF Serial, WithinCap
  <2>4. /\ UnderCap(u, l) => Cardinality(Owned(v)') <= MaxAgents
        /\ u # v => Owned(v)' = Owned(v)
    BY <2>0, <2>1, <2>3, OwnedStep
  <2>5. u = v => UnderCap(u, l)
    BY <2>1, <2>2
  <2> QED
    BY <2>3, <2>4, <2>5
<1>4. ASSUME NEW u \in Users, NEW l \in Labels, Unlink(u, l)
      PROVE  WithinCap'
  <2>1. agents' = [agents EXCEPT ![<<u, l>>] = 0] /\ overCap' = overCap
    BY <1>4 DEF Unlink
  <2>2. SUFFICES ASSUME NEW v \in Users \ overCap
                 PROVE  Cardinality(Owned(v)') <= MaxAgents
    BY <2>1 DEF WithinCap
  <2>3. Cardinality(Owned(v)) <= MaxAgents
    BY DEF Serial, WithinCap
  <2> QED
    BY <2>1, <2>3, UnlinkedStep
<1>5. ASSUME NEW t \in Tokens, RevokeTerminal(t)
      PROVE  WithinCap'
  BY <1>5, CapStill DEF RevokeTerminal, Serial
<1>6. WithinCap'
  BY <1>3, <1>4, <1>5 DEF Account
<1> QED
  BY <1>1, <1>2, <1>6, QuietSerial

LEMMA BeginSerial ==
  ASSUME EnrollmentAssumption, TypeInv, ~overlap, Serial, NEW c \in Callers, Begin(c)
  PROVE  Serial'
<1>0. /\ calls'[c].op \in {"pollExpire", "pollStamp", "gate", "mint"}
      /\ calls'[c].op = "mint" => KindOf[calls'[c].code] = "client"
      /\ codes[calls'[c].code].st \in {"pending", "approved"}
      /\ \A e \in Callers \ {c} : calls'[e] = calls[e]
      /\ codes' = codes /\ agents' = agents /\ handed' = handed /\ overCap' = overCap
      /\ MayStart(c)
  BY BeginIs
<1>1. \A e \in Callers \ {c} : calls'[e] = Idle /\ calls'[e].op = "idle"
  BY <1>0 DEF MayStart, Quiet, Idle
<1>2. Alone'
  BY <1>1 DEF Alone
<1>3. RowStands'
  BY <1>0, <1>1 DEF RowStands
<1>4. Gated'
  BY <1>0, <1>1 DEF Gated
<1>5. HandedRowsGo' /\ Once'
  BY <1>0, HandedStill DEF Serial
<1>6. WithinCap'
  BY <1>0, CapStill DEF Serial
<1> QED
  BY <1>2, <1>3, <1>4, <1>5, <1>6 DEF Serial

LEMMA ProceedSerial ==
  ASSUME EnrollmentAssumption, TypeInv, Finite, ~overlap, Serial, NEW c \in Callers,
         Proceed(c)
  PROVE  Serial'
<1>0. /\ calls[c] # Idle /\ calls[c].code \in Codes
      /\ \A e \in Callers \ {c} : calls'[e] = calls[e]
      /\ \/ calls'[c] = Idle
         \/ /\ calls'[c] # Idle /\ calls'[c].code = calls[c].code
            /\ UNCHANGED codes
      /\ calls'[c].op = "mint" =>
           UnderCap(calls'[c].user, LabelOf[calls'[c].code]) /\ UNCHANGED agents
  BY ProceedIs
<1>1. \A e \in Callers \ {c} : calls'[e] = Idle /\ calls'[e].op = "idle"
  BY <1>0 DEF Serial, Alone, Idle
<1>2. Alone'
  BY <1>1 DEF Alone
<1>3. codes[calls[c].code].st \in {"pending", "approved"}
  BY <1>0 DEF Serial, RowStands
<1>4. RowStands'
  BY <1>0, <1>1, <1>3 DEF RowStands
<1>5. Gated'
  <2>1. SUFFICES ASSUME calls'[c].op = "mint"
                 PROVE  UnderCap(calls[c].user, LabelOf[calls[c].code])'
    BY <1>1 DEF Gated
  <2>2. agents' = agents /\ UnderCap(calls'[c].user, LabelOf[calls'[c].code])
    BY <1>0, <2>1
  <2> QED
    BY <2>2 DEF UnderCap, Owned
<1>6. HandedRowsGo' /\ Once'
  <2>1. CASE PollTake(c)
    <3> DEFINE d == calls[c].code
               n == calls[c].token
    <3>0. codes \in [Codes -> RowSet] /\ handed \in [Codes \X Tokens -> 0..2]
      BY RowsAre DEF TypeInv, TypeOK
    <3>1. \A t \in Tokens : handed[<<d, t>>] = 0
      BY <1>0, <1>3 DEF Serial, HandedRowsGo, Absent
    <3>2. /\ codes' = [codes EXCEPT ![d] = Absent]
          /\ handed' = [handed EXCEPT ![<<d, n>>] = IF @ < 2 THEN @ + 1 ELSE @]
      BY <2>1 DEF PollTake, HandOver
    <3>3. ASSUME NEW e \in Codes, NEW t \in Tokens
          PROVE  /\ handed'[<<e, t>>] # 0 => codes'[e] = Absent
                 /\ handed'[<<e, t>>] < 2
      <4>1. CASE e = d
        <5>1. handed'[<<e, t>>] \in {0, 1}
          BY <1>0, <3>0, <3>1, <3>2, <4>1
        <5> QED
          BY <1>0, <3>0, <3>2, <4>1, <5>1
      <4>2. CASE e # d
        <5>1. handed'[<<e, t>>] = handed[<<e, t>>] /\ codes'[e] = codes[e]
          BY <3>0, <3>2, <4>2
        <5> QED
          BY <5>1 DEF Serial, HandedRowsGo, Once
      <4> QED
        BY <4>1, <4>2
    <3> QED
      BY <3>3 DEF HandedRowsGo, Once
  <2>2. CASE ~PollTake(c)
    <3>1. handed' = handed
      BY <2>2 DEF Proceed, PollExpire, PollStamp, ApproveGate, ApproveMint, ApprovePark
    <3>2. \A d \in Codes : codes[d] = Absent => codes'[d] = Absent
      BY <2>2, RowsAre
      DEF Proceed, PollExpire, PollStamp, ApproveGate, ApproveMint, ApprovePark
    <3> QED
      BY <3>1, <3>2, HandedStill DEF Serial
  <2> QED
    BY <2>1, <2>2
<1>7. WithinCap'
  <2>1. overCap' = overCap
    BY DEF Proceed, PollExpire, PollStamp, PollTake, ApproveGate, ApproveMint, ApprovePark
  <2>2. CASE agents' = agents
    BY <2>1, <2>2, CapStill DEF Serial
  <2>3. CASE agents' # agents
    <3>1. ApproveMint(c)
      BY <2>3 DEF Proceed, PollExpire, PollStamp, PollTake, ApproveGate, ApprovePark
    <3>2. /\ calls[c].op = "mint" /\ calls[c].user \in Users
          /\ KindOf[calls[c].code] = "agent" /\ LabelOf[calls[c].code] \in Labels
      <4>1. calls[c].op = "mint" /\ calls[c].user \in Users
        BY <3>1, AtCall DEF ApproveMint, Steps, Approving
      <4>2. KindOf[calls[c].code] # "client"
        BY <2>3, <3>1 DEF ApproveMint
      <4> QED
        BY <1>0, <4>1, <4>2 DEF EnrollmentAssumption
    <3>3. UnderCap(calls[c].user, LabelOf[calls[c].code])
      BY <3>2 DEF Serial, Gated
    <3>4. /\ agents' = [agents EXCEPT ![<<calls[c].user, LabelOf[calls[c].code]>>] = minted + 1]
          /\ minted + 1 \in 1..MaxTokens
      BY <3>1, <3>2 DEF ApproveMint, TypeInv, TypeOK, EnrollmentAssumption
    <3>5. ASSUME NEW v \in Users \ overCap
          PROVE  Cardinality(Owned(v)') <= MaxAgents
      <4>1. Cardinality(Owned(v)) <= MaxAgents
        BY DEF Serial, WithinCap
      <4> QED
        BY <3>2, <3>3, <3>4, <4>1, OwnedStep
    <3> QED
      BY <2>1, <3>5 DEF WithinCap
  <2> QED
    BY <2>2, <2>3
<1> QED
  BY <1>2, <1>4, <1>5, <1>6, <1>7 DEF Serial

-----------------------------------------------------------------------------
LEMMA EnrollmentInit ==
  ASSUME EnrollmentAssumption, Init
  PROVE  EnrollmentInv
<1>1. \A c \in Callers : calls[c] = Idle /\ calls[c].op = "idle"
  BY DEF Init, Idle
<1>2. TypeInv
  <2>1. TypeOK
    BY DEF Init, TypeOK, Unused, EnrollmentAssumption
  <2> QED
    BY <1>1, <2>1 DEF TypeInv, Init
<1>3. Ahead /\ RowsBelong /\ CallsBelong
  BY <1>1 DEF Ahead, RowsBelong, CallsBelong, Init, Unused
<1>4. \A u \in Users : Owned(u) = {}
  BY DEF Init, Owned
<1>5. Finite /\ WithinCap
  BY <1>4, FS_EmptySet DEF Finite, WithinCap, EnrollmentAssumption
<1>6. Alone /\ RowStands /\ HandedRowsGo /\ Gated /\ Once
  BY <1>1 DEF Alone, RowStands, HandedRowsGo, Gated, Once, Init
<1> QED
  BY <1>2, <1>3, <1>5, <1>6 DEF EnrollmentInv, Serial

LEMMA EnrollmentStep ==
  ASSUME EnrollmentAssumption, EnrollmentInv, [Next]_enrollVars
  PROVE  EnrollmentInv'
<1>1. TypeInv' /\ Fades
  BY TypeStep, StepFades DEF EnrollmentInv
<1>2. Ahead' /\ RowsBelong' /\ CallsBelong' /\ Finite'
  BY <1>1, AheadStep, RowsBelongStep, CallsBelongStep, FiniteStep DEF EnrollmentInv
<1>3. ASSUME ~overlap', ~UNCHANGED enrollVars
      PROVE  Serial'
  <2>1. ~overlap
    BY <1>3, NextIs, BeginIs
    DEF EnrollmentInv, Around, AskForCode, FallDue, IntervalPasses, Sweep, Account, Rotate,
        Unlink, RevokeTerminal, Proceed, PollExpire, PollStamp, PollTake, ApproveGate,
        ApproveMint, ApprovePark
  <2> QED
    BY <1>3, <2>1, NextIs, AroundSerial, AccountSerial, BeginSerial, ProceedSerial
    DEF EnrollmentInv
<1>4. ASSUME ~overlap', UNCHANGED enrollVars
      PROVE  Serial'
  BY <1>4
  DEF enrollVars, EnrollmentInv, Serial, Alone, RowStands, HandedRowsGo, Gated, UnderCap,
      Owned, WithinCap, Once
<1> QED
  BY <1>1, <1>2, <1>3, <1>4 DEF EnrollmentInv

THEOREM EnrollmentInvariant ==
  ASSUME EnrollmentAssumption
  PROVE  Spec => []EnrollmentInv
<1>1. Init => EnrollmentInv
  BY EnrollmentInit
<1>2. EnrollmentInv /\ [Next]_enrollVars => EnrollmentInv'
  BY EnrollmentStep
<1> QED
  BY <1>1, <1>2, PTL DEF Spec

(* However requests overlap, a parked credential names nobody but the user   *)
(* recorded beside it and that code's machine; of requests taken one at a    *)
(* time, each credential is handed over once at most and only a rotation     *)
(* takes a user past the plan's cap (device.rs, db.rs).                      *)
THEOREM CredentialsSafe ==
  ASSUME EnrollmentAssumption
  PROVE  Spec => []CredentialsInPlace
<1>1. ASSUME EnrollmentInv
      PROVE  ParkedForItsUser
  <2>1. SUFFICES ASSUME NEW d \in Codes, codes[d].st = "approved"
                 PROVE  Resolves(codes[d].token) \subseteq
                          {<<codes[d].user,
                             IF KindOf[d] = "client" THEN "terminal" ELSE LabelOf[d]>>}
    BY DEF ParkedForItsUser
  <2>2. Belongs(codes[d].token, codes[d].user, d)
    BY <1>1, <2>1 DEF EnrollmentInv, RowsBelong
  <2> QED
    BY <2>2 DEF Belongs, Resolves
<1>2. ASSUME EnrollmentInv
      PROVE  CapHolds /\ HandedOnce
  <2>1. handed \in [Codes \X Tokens -> 0..2]
    BY <1>2 DEF EnrollmentInv, TypeInv, TypeOK
  <2> QED
    BY <1>2, <2>1 DEF EnrollmentInv, Serial, WithinCap, Once, CapHolds, HandedOnce
<1>3. EnrollmentInv => CredentialsInPlace
  BY <1>1, <1>2 DEF CredentialsInPlace
<1> QED
  BY <1>3, EnrollmentInvariant, PTL
=============================================================================
