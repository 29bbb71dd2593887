--------------------------- MODULE Sharing_proof ---------------------------
(***************************************************************************)
(* Nobody is granted what they did not consent to: the proof of what       *)
(* Sharing promises, for any number of rows, grants and requests at once.  *)
(*                                                                         *)
(* Three of its four parts hold however requests overlap, because a guard  *)
(* inside a statement makes them so: an answer is counted only on a row    *)
(* that is still pending (`Unanswered`), a grant is written only by a call *)
(* that has just accepted (`ConsentFirst`), and nothing is written for a   *)
(* machine that is gone.  The fourth, that invites and grants agree, holds *)
(* of requests taken one at a time.  For it the invariant says what the    *)
(* one call under way still owes (`Owed`), and that the pair has one row   *)
(* and one grant at most, without which the statements of revoke and leave *)
(* would settle one row and leave another.                                 *)
(***************************************************************************)
EXTENDS Sharing, TLAPS

CallSet == [op : Steps, row : Rows \cup GrantIds \cup {NoRow},
            saw : Statuses \cup {"present"}]

OfInvite == {"expire", "accept", "decline", "grantRead", "revokeWrite", "strip"}
OfOffer == {"offerWrite", "attachWrite"}

\* Which row a call is about.
Placed(call) ==
  /\ call.op \in OfInvite => call.row \in Rows
  /\ call.op \in OfOffer => call.row \in Rows \cup {NoRow}
  /\ call.op = "leaveDelete" => call.row \in GrantIds

TypeInv ==
  /\ TypeOK
  /\ calls \in [Callers -> {Idle} \cup CallSet]
  /\ \A c \in Callers : calls[c] # Idle => Placed(calls[c])

Unanswered == \A r \in Rows : invites[r] = "pending" => answers[r] = 0

ConsentFirst ==
  \A c \in Callers : calls[c].op \in {"grantRead", "grantWrite"} => consented

-----------------------------------------------------------------------------
(* One request at a time.                                                    *)
Accepted == {r \in Rows : invites[r] = "accepted"}
Agree == grants # {} <=> Accepted # {}

Owed(call) ==
  LET row == call.row IN
  CASE call.op \in OfOffer ->
         /\ Agree
         /\ IF row = NoRow THEN Present = {} /\ call.saw # "accepted"
            ELSE row \in Present /\ call.saw = invites[row]
    [] call.op \in {"expire", "accept", "decline"} -> Agree /\ invites[row] = "pending"
    [] call.op = "grantRead" -> invites[row] = "accepted" /\ grants = {}
    [] call.op = "grantWrite" -> Accepted # {} /\ grants = {} /\ call.saw # "present"
    [] call.op = "revokeWrite" -> row \in Present
    [] call.op = "strip" -> Accepted = {}
    [] call.op = "leaveDelete" -> row \in grants
    [] call.op = "settle" -> grants = {}
    [] OTHER -> Agree

Alone == \A c, d \in Callers : calls[c] # Idle /\ calls[d] # Idle => c = d
OneRow == \A r, s \in Present : r = s
OneGrant == \A g, h \in grants : g = h

Serial ==
  /\ Alone /\ OneRow /\ OneGrant
  /\ Quiet => Agree
  /\ \A c \in Callers : calls[c] # Idle => Owed(calls[c])

SharingInv ==
  /\ TypeInv /\ OneAnswerPerOffer /\ Unanswered
  /\ NeverWithoutConsent /\ ConsentFirst /\ UnlinkedIsUnshared
  /\ ~overlap => Serial

-----------------------------------------------------------------------------
LEMMA CallIs ==
  ASSUME NEW op \in Steps, NEW row \in Rows \cup GrantIds \cup {NoRow},
         NEW saw \in Statuses \cup {"present"}
  PROVE  /\ Call(op, row, saw) \in CallSet /\ Call(op, row, saw) # Idle
         /\ Call(op, row, saw).op = op /\ Call(op, row, saw).row = row
         /\ Call(op, row, saw).saw = saw
BY DEF Call, CallSet, Idle, Steps

LEMMA AtCall ==
  ASSUME TypeInv, NEW c \in Callers, NEW op \in Steps, At(c, op)
  PROVE  calls[c] # Idle /\ calls[c] \in CallSet /\ calls[c].op = op /\ Placed(calls[c])
<1>1. calls[c] # Idle
  BY DEF At, Idle, Steps
<1> QED
  BY <1>1 DEF TypeInv, At

LEMMA GotoIs ==
  ASSUME TypeInv, NEW c \in Callers, NEW op \in Steps,
         NEW row \in Rows \cup GrantIds \cup {NoRow}, NEW saw \in Statuses \cup {"present"},
         Placed(Call(op, row, saw)), Goto(c, op, row, saw)
  PROVE  /\ calls' \in [Callers -> {Idle} \cup CallSet]
         /\ \A d \in Callers : calls'[d] # Idle => Placed(calls'[d])
         /\ \A d \in Callers : calls'[d] = IF d = c THEN Call(op, row, saw) ELSE calls[d]
<1>1. Call(op, row, saw) \in CallSet
  BY CallIs
<1>2. \A d \in Callers : calls'[d] = IF d = c THEN Call(op, row, saw) ELSE calls[d]
  BY DEF Goto, TypeInv
<1> QED
  BY <1>1, <1>2 DEF Goto, TypeInv

LEMMA DoneIs ==
  ASSUME TypeInv, NEW c \in Callers, Done(c)
  PROVE  /\ calls' \in [Callers -> {Idle} \cup CallSet]
         /\ \A d \in Callers : calls'[d] # Idle => Placed(calls'[d])
         /\ \A d \in Callers : calls'[d] = IF d = c THEN Idle ELSE calls[d]
<1>1. \A d \in Callers : calls'[d] = IF d = c THEN Idle ELSE calls[d]
  BY DEF Done, TypeInv
<1> QED
  BY <1>1 DEF Done, TypeInv

\* What the write of an offer does: nothing, or one row is offered.
Offers(c, r) ==
  /\ Offered(r)
  /\ \/ calls[c].row # NoRow /\ r = calls[c].row /\ r \in Present /\ calls[c].saw # "accepted"
     \/ calls[c].row = NoRow /\ r \notin Present /\ linked /\ (slice = "agent" \/ Present = {})

LEMMA OfferWritten ==
  ASSUME TypeInv, NEW c \in Callers, calls[c].op \in OfOffer, calls[c] # Idle, NEW op,
         WriteOffer(c, Goto(c, op, NoRow, "absent"))
  PROVE  /\ Goto(c, op, NoRow, "absent") \/ Done(c)
         /\ \/ UNCHANGED <<invites, overdue, answers>>
            \/ \E r \in Rows : Offers(c, r)
<1>1. calls[c].row \in Rows \cup {NoRow}
  BY DEF TypeInv, Placed
<1>2. calls[c].row \in Present => calls[c].row \in Rows
  BY DEF Present
<1> QED
  BY <1>1, <1>2 DEF WriteOffer, Offers

-----------------------------------------------------------------------------
(* Types, step by step.                                                      *)
CallsTyped ==
  /\ calls \in [Callers -> {Idle} \cup CallSet]
  /\ \A c \in Callers : calls[c] # Idle => Placed(calls[c])

LEMMA TypeFromParts ==
  ASSUME slice' \in Slices, overlap' \in BOOLEAN, linked' \in BOOLEAN,
         account' \in BOOLEAN, consented' \in BOOLEAN,
         invites' \in [Rows -> Statuses], overdue' \in SUBSET Rows,
         grants' \in SUBSET GrantIds, email' \in EmailStates,
         answers' \in [Rows -> 0..2], CallsTyped'
  PROVE  TypeInv'
<1>1. \A c \in Callers : calls'[c] = Idle \/ calls'[c] \in CallSet
  BY DEF CallsTyped
<1> QED
  BY <1>1 DEF TypeInv, TypeOK, CallsTyped, CallSet

\* The steps that touch no table: a request begins.
Tables == <<slice, overlap, linked, invites, overdue, grants, email, answers, consented>>

Begins(c) ==
  /\ MayStart(c) /\ UNCHANGED Tables /\ account' \in BOOLEAN
  /\ \/ UNCHANGED calls
     \/ \E op \in Steps \ {"grantRead", "grantWrite"} :
          \E row \in Rows \cup GrantIds \cup {NoRow}, saw \in Statuses \cup {"present"} :
            /\ Placed(Call(op, row, saw)) /\ Goto(c, op, row, saw)
            /\ ~overlap /\ Agree => Owed(Call(op, row, saw))

LEMMA Request ==
  ASSUME SharingAssumption, TypeInv, NEW c \in Callers,
         \/ Create(c) \/ CreateByMail(c) \/ SignUp(c) \/ OpenLink(c)
         \/ \E r \in Rows : Respond(c, r) \/ Revoke(c, r)
         \/ \E g \in GrantIds : Leave(c, g)
  PROVE  Begins(c)
<1>s. "absent" \in Statuses \cup {"present"} /\ NoRow \in Rows \cup GrantIds \cup {NoRow}
  BY DEF Statuses
<1>n. NoRow \notin Rows
  BY DEF SharingAssumption
<1>a. account \in BOOLEAN /\ invites \in [Rows -> Statuses]
  BY DEF TypeInv, TypeOK
<1>1. CASE Create(c)
  <2>1. \/ \E r \in Present : Goto(c, "offerWrite", r, invites[r])
        \/ Present = {} /\ Goto(c, "offerWrite", NoRow, "absent")
    BY <1>1 DEF Create, ReadOffer
  <2>2. ASSUME NEW r \in Present, Goto(c, "offerWrite", r, invites[r])
        PROVE  Begins(c)
    <3>1. r \in Rows /\ invites[r] \in Statuses \cup {"present"}
      BY <1>a DEF Present
    <3>2. /\ Placed(Call("offerWrite", r, invites[r]))
          /\ Agree => Owed(Call("offerWrite", r, invites[r]))
      BY <1>n, <3>1 DEF Placed, Owed, Call, OfInvite, OfOffer
    <3> QED
      BY <1>1, <1>a, <2>2, <3>1, <3>2 DEF Create, Begins, Tables, Steps
  <2>3. ASSUME Present = {}, Goto(c, "offerWrite", NoRow, "absent")
        PROVE  Begins(c)
    <3>1. /\ Placed(Call("offerWrite", NoRow, "absent"))
          /\ Agree => Owed(Call("offerWrite", NoRow, "absent"))
      BY <2>3 DEF Placed, Owed, Call, OfInvite, OfOffer
    <3> QED
      BY <1>1, <1>a, <1>s, <2>3, <3>1 DEF Create, Begins, Tables, Steps
  <2> QED
    BY <2>1, <2>2, <2>3
<1>2. ASSUME NEW op \in {"mailWrite", "attachRead"}, Goto(c, op, NoRow, "absent"),
             MayStart(c), UNCHANGED Tables, account' \in BOOLEAN
      PROVE  Begins(c)
  <2>1. /\ Placed(Call(op, NoRow, "absent"))
        /\ Agree => Owed(Call(op, NoRow, "absent"))
    BY DEF Placed, Owed, Call, OfInvite, OfOffer
  <2>2. op \in Steps \ {"grantRead", "grantWrite"}
    BY DEF Steps
  <2> QED
    BY <1>2, <1>s, <2>1, <2>2 DEF Begins
<1>3. CASE CreateByMail(c)
  BY <1>2, <1>3, <1>a DEF CreateByMail, Tables
<1>4. CASE SignUp(c)
  <2>1. MayStart(c) /\ UNCHANGED Tables /\ account' \in BOOLEAN
    BY <1>4 DEF SignUp, Tables
  <2>2. UNCHANGED calls \/ Goto(c, "attachRead", NoRow, "absent")
    BY <1>4 DEF SignUp, Attach
  <2> QED
    BY <1>2, <2>1, <2>2 DEF Begins
<1>5. CASE OpenLink(c)
  BY <1>2, <1>5, <1>a DEF OpenLink, Attach, Tables
<1>6. ASSUME NEW r \in Rows, Respond(c, r) \/ Revoke(c, r)
      PROVE  Begins(c)
  <2>1. PICK op \in {"expire", "accept", "decline", "revokeWrite"} :
          /\ Goto(c, op, r, "absent")
          /\ op = "revokeWrite" => invites[r] \in {"pending", "accepted"}
          /\ op # "revokeWrite" => invites[r] = "pending"
    BY <1>6 DEF Respond, Revoke
  <2>2. /\ Placed(Call(op, r, "absent"))
        /\ Agree => Owed(Call(op, r, "absent"))
    BY <2>1 DEF Placed, Owed, Call, OfInvite, OfOffer, Present
  <2>3. op \in Steps \ {"grantRead", "grantWrite"}
    BY DEF Steps
  <2> QED
    BY <1>6, <1>a, <1>s, <2>1, <2>2, <2>3 DEF Respond, Revoke, Begins, Tables
<1>7. ASSUME NEW g \in GrantIds, Leave(c, g)
      PROVE  Begins(c)
  <2>1. /\ Placed(Call("leaveDelete", g, "absent"))
        /\ Owed(Call("leaveDelete", g, "absent"))
    BY <1>7 DEF Leave, Placed, Owed, Call, OfInvite, OfOffer
  <2> QED
    BY <1>7, <1>a, <1>s, <2>1 DEF Leave, Begins, Tables, Steps
<1> QED
  BY <1>1, <1>3, <1>4, <1>5, <1>6, <1>7

LEMMA BeginsType ==
  ASSUME TypeInv, NEW c \in Callers, Begins(c)
  PROVE  TypeInv'
<1>1. CallsTyped'
  <2>1. CASE UNCHANGED calls
    BY <2>1 DEF TypeInv, CallsTyped
  <2>2. CASE ~UNCHANGED calls
    BY <2>2, GotoIs DEF Begins, CallsTyped
  <2> QED
    BY <2>1, <2>2
<1> QED
  BY <1>1, TypeFromParts DEF Begins, Tables, TypeInv, TypeOK

LEMMA DoneTyped ==
  ASSUME TypeInv, NEW c \in Callers, Done(c)
  PROVE  CallsTyped'
BY DoneIs DEF CallsTyped

\* A call goes on to a statement about no particular row, or about an invite.
LEMMA GotoTyped ==
  ASSUME TypeInv, NEW c \in Callers, NEW op \in Steps, NEW row \in Rows \cup {NoRow},
         NEW saw \in {"absent", "present"}, Goto(c, op, row, saw),
         op \in OfInvite => row \in Rows, op # "leaveDelete"
  PROVE  CallsTyped'
<1>1. saw \in Statuses \cup {"present"}
  BY DEF Statuses
<1>2. Placed(Call(op, row, saw))
  BY DEF Placed, Call
<1> QED
  BY <1>1, <1>2, GotoIs DEF CallsTyped

LEMMA ProceedType ==
  ASSUME SharingAssumption, TypeInv, NEW c \in Callers, Proceed(c)
  PROVE  TypeInv'
<1> DEFINE row == calls[c].row
<1>0. /\ slice \in Slices /\ overlap \in BOOLEAN /\ linked \in BOOLEAN
      /\ account \in BOOLEAN /\ consented \in BOOLEAN
      /\ invites \in [Rows -> Statuses] /\ overdue \in SUBSET Rows
      /\ grants \in SUBSET GrantIds /\ email \in EmailStates
      /\ answers \in [Rows -> 0..2]
  BY DEF TypeInv, TypeOK
<1>d. Done(c) => CallsTyped'
  BY DoneTyped
<1>n. ASSUME NEW op \in Steps, op \notin OfInvite, op # "leaveDelete",
             NEW saw \in {"absent", "present"}, Goto(c, op, NoRow, saw)
      PROVE  CallsTyped'
  BY <1>n, GotoTyped
<1>1. ASSUME NEW r \in Rows, Offered(r)
      PROVE  /\ invites' \in [Rows -> Statuses] /\ overdue' \in SUBSET Rows
             /\ answers' \in [Rows -> 0..2]
  BY <1>0, <1>1 DEF Offered, Statuses
<1>2. ASSUME NEW op \in {"mintLink", "convert"}, calls[c].op \in OfOffer,
             WriteOffer(c, Goto(c, op, NoRow, "absent"))
      PROVE  /\ invites' \in [Rows -> Statuses] /\ overdue' \in SUBSET Rows
             /\ answers' \in [Rows -> 0..2] /\ CallsTyped'
  <2>1. calls[c] # Idle
    BY <1>2 DEF Idle, OfOffer
  <2>2. op \in Steps /\ op \notin OfInvite /\ op # "leaveDelete"
    BY DEF Steps, OfInvite
  <2> QED
    BY <1>0, <1>1, <1>2, <1>d, <1>n, <2>1, <2>2, OfferWritten DEF Offers
<1>3. CASE CreateWrite(c)
  BY <1>0, <1>2, <1>3, TypeFromParts DEF CreateWrite, At, OfOffer
<1>4. CASE AttachWrite(c)
  BY <1>0, <1>2, <1>4, TypeFromParts DEF AttachWrite, At, OfOffer
<1>5. CASE CreateLink(c)
  BY <1>0, <1>5, <1>d, TypeFromParts DEF CreateLink, EmailStates
<1>6. CASE CreateByMailWrite(c)
  BY <1>0, <1>6, <1>d, TypeFromParts DEF CreateByMailWrite, EmailStates
<1>7. CASE AttachConvert(c)
  BY <1>0, <1>7, <1>d, TypeFromParts DEF AttachConvert, EmailStates
<1>8. CASE RespondExpire(c)
  <2>1. invites' \in [Rows -> Statuses] /\ overdue' \in SUBSET Rows
    BY <1>0, <1>8 DEF RespondExpire, Statuses, Terminal
  <2> QED
    BY <1>0, <1>8, <1>d, <2>1, TypeFromParts DEF RespondExpire
<1>9. CASE RespondWrite(c)
  <2>1. row \in Rows
    BY <1>9, AtCall DEF RespondWrite, At, Steps, Placed, OfInvite
  <2>2. invites' \in [Rows -> Statuses] /\ overdue' \in SUBSET Rows
    BY <1>0, <1>9 DEF RespondWrite, Statuses, Terminal
  <2>3. answers' \in [Rows -> 0..2] /\ consented' \in BOOLEAN
    <3>1. UNCHANGED answers \/ answers' = [answers EXCEPT ![row] = IF @ < 2 THEN @ + 1 ELSE @]
      BY <1>9 DEF RespondWrite
    <3>2. answers[row] \in 0..2
      BY <1>0, <2>1
    <3>3. (IF answers[row] < 2 THEN answers[row] + 1 ELSE answers[row]) \in 0..2
      BY <3>2
    <3>4. answers' \in [Rows -> 0..2]
      BY <1>0, <3>1, <3>3
    <3>5. consented' \in BOOLEAN
      BY <1>0, <1>9 DEF RespondWrite, At
    <3> QED
      BY <3>4, <3>5
  <2>4. Goto(c, "grantRead", row, "absent") => CallsTyped'
    BY <2>1, GotoTyped DEF Steps
  <2>5. CallsTyped'
    BY <1>9, <1>d, <2>4 DEF RespondWrite
  <2> QED
    BY <1>0, <1>9, <2>2, <2>3, <2>5, TypeFromParts DEF RespondWrite
<1>10. CASE Materialise(c)
  <2>1. \A saw \in {"absent", "present"} : Goto(c, "grantWrite", NoRow, saw) => CallsTyped'
    BY <1>n DEF Steps, OfInvite
  <2>2. CallsTyped'
    BY <1>10, <1>d, <2>1 DEF Materialise
  <2> QED
    BY <1>0, <1>10, <2>2, TypeFromParts DEF Materialise
<1>11. CASE MaterialiseWrite(c)
  <2>1. grants' \in SUBSET GrantIds
    BY <1>0, <1>11 DEF MaterialiseWrite
  <2> QED
    BY <1>0, <1>11, <1>d, <2>1, TypeFromParts DEF MaterialiseWrite
<1>12. CASE RevokeWrite(c)
  <2>1. row \in Rows
    BY <1>12, AtCall DEF RevokeWrite, Steps, Placed, OfInvite
  <2>2. invites' \in [Rows -> Statuses] /\ overdue' \in SUBSET Rows
    BY <1>0, <1>12 DEF RevokeWrite, Statuses, Terminal
  <2>3. CallsTyped'
    BY <1>12, <2>1, GotoTyped DEF RevokeWrite, Steps
  <2> QED
    BY <1>0, <1>12, <2>2, <2>3, TypeFromParts DEF RevokeWrite
<1>13. CASE RevokeStrip(c)
  BY <1>0, <1>13, <1>d, TypeFromParts DEF RevokeStrip
<1>14. CASE LeaveDelete(c)
  <2>1. Goto(c, "settle", NoRow, "absent") => CallsTyped'
    BY <1>n DEF Steps, OfInvite
  <2>2. CallsTyped'
    BY <1>14, <1>d, <2>1 DEF LeaveDelete
  <2>3. grants' \in SUBSET GrantIds
    BY <1>0, <1>14 DEF LeaveDelete
  <2> QED
    BY <1>0, <1>14, <2>2, <2>3, TypeFromParts DEF LeaveDelete
<1>15. CASE LeaveSettle(c)
  <2>1. invites' \in [Rows -> Statuses] /\ overdue' \in SUBSET Rows
    BY <1>15 DEF LeaveSettle, Statuses, Terminal
  <2> QED
    BY <1>0, <1>15, <1>d, <2>1, TypeFromParts DEF LeaveSettle
<1>16. CASE AttachRead(c)
  <2>1. ASSUME NEW r \in Present, Goto(c, "attachWrite", r, invites[r])
        PROVE  CallsTyped'
    <3>1. r \in Rows /\ invites[r] \in Statuses
      BY <1>0 DEF Present
    <3>2. "attachWrite" \in Steps /\ Placed(Call("attachWrite", r, invites[r]))
      BY <3>1 DEF Steps, Placed, Call, OfInvite, OfOffer
    <3> QED
      BY <2>1, <3>1, <3>2, GotoIs DEF CallsTyped
  <2>2. Goto(c, "attachWrite", NoRow, "absent") => CallsTyped'
    BY <1>n DEF Steps, OfInvite
  <2>3. CallsTyped'
    BY <1>16, <1>d, <2>1, <2>2 DEF AttachRead, ReadOffer
  <2> QED
    BY <1>0, <1>16, <2>3, TypeFromParts DEF AttachRead
<1> QED
  BY <1>3, <1>4, <1>5, <1>6, <1>7, <1>8, <1>9, <1>10, <1>11, <1>12, <1>13, <1>14, <1>15, <1>16
     DEF Proceed

\* The steps of no call: the owner's outbox, time, the sweeps, the machine.
Aside == RevokeMail \/ FallDue \/ ExpireOverdue \/ Sweep \/ Unlink

LEMMA AsideType ==
  ASSUME TypeInv, Aside
  PROVE  TypeInv'
<1>0. /\ slice \in Slices /\ overlap \in BOOLEAN /\ linked \in BOOLEAN
      /\ account \in BOOLEAN /\ consented \in BOOLEAN
      /\ invites \in [Rows -> Statuses] /\ overdue \in SUBSET Rows
      /\ grants \in SUBSET GrantIds /\ email \in EmailStates
      /\ answers \in [Rows -> 0..2]
  BY DEF TypeInv, TypeOK
<1>c. UNCHANGED calls => CallsTyped'
  BY DEF TypeInv, CallsTyped
<1>1. CASE RevokeMail
  BY <1>0, <1>1, <1>c, TypeFromParts DEF RevokeMail, EmailStates
<1>2. CASE FallDue
  BY <1>0, <1>2, <1>c, TypeFromParts DEF FallDue, EmailStates
<1>3. CASE ExpireOverdue
  <2>1. invites' \in [Rows -> Statuses] /\ overdue' \in SUBSET Rows
    BY <1>0, <1>3 DEF ExpireOverdue, Statuses, Terminal
  <2> QED
    BY <1>0, <1>3, <1>c, <2>1, TypeFromParts DEF ExpireOverdue
<1>4. CASE Sweep
  <2>1. invites' \in [Rows -> Statuses] /\ email' \in EmailStates
    BY <1>0, <1>4 DEF Sweep, Statuses, EmailStates
  <2> QED
    BY <1>0, <1>4, <1>c, <2>1, TypeFromParts DEF Sweep
<1>5. CASE Unlink
  <2>1. invites' \in [Rows -> Statuses] /\ overdue' \in SUBSET Rows
        /\ grants' \in SUBSET GrantIds /\ email' \in EmailStates
    BY <1>5 DEF Unlink, Statuses, EmailStates
  <2> QED
    BY <1>0, <1>5, <1>c, <2>1, TypeFromParts DEF Unlink
<1> QED
  BY <1>1, <1>2, <1>3, <1>4, <1>5 DEF Aside

LEMMA NextCases ==
  ASSUME SharingAssumption, TypeInv, Next
  PROVE  Aside \/ \E c \in Callers : Begins(c) \/ Proceed(c)
BY Request DEF Next, Aside

LEMMA NextType ==
  ASSUME SharingAssumption, TypeInv, [Next]_sharingVars
  PROVE  TypeInv'
<1>1. CASE UNCHANGED sharingVars
  BY <1>1 DEF sharingVars, TypeInv, TypeOK
<1>2. CASE Next
  BY <1>2, NextCases, BeginsType, ProceedType, AsideType
<1> QED
  BY <1>1, <1>2

-----------------------------------------------------------------------------
(* What holds however requests overlap.                                      *)
Always ==
  /\ OneAnswerPerOffer /\ Unanswered /\ NeverWithoutConsent /\ ConsentFirst
  /\ UnlinkedIsUnshared

\* An offer is pending and unanswered; any other row changes to what is not.
NoNewPending ==
  \A r \in Rows : invites'[r] = "pending" => invites[r] = "pending" \/ answers'[r] = 0

(* A step that counts no answer, grants nothing and writes no row of a       *)
(* machine that is gone.                                                     *)
LEMMA AlwaysStays ==
  ASSUME TypeInv, Always, NoNewPending,
         \A r \in Rows : answers'[r] = answers[r] \/ answers'[r] = 0,
         grants' \subseteq grants, consented' = consented,
         \A c \in Callers : calls'[c].op \in {"grantRead", "grantWrite"} =>
                              calls[c].op \in {"grantRead", "grantWrite"},
         linked' = linked \/ (grants' = {} /\ Present' = {}),
         ~linked => Present' = {}
  PROVE  Always'
<1>1. OneAnswerPerOffer' /\ Unanswered'
  BY DEF Always, OneAnswerPerOffer, Unanswered, NoNewPending
<1>2. NeverWithoutConsent' /\ ConsentFirst'
  BY DEF Always, NeverWithoutConsent, ConsentFirst
<1>3. UnlinkedIsUnshared'
  BY DEF Always, UnlinkedIsUnshared
<1> QED
  BY <1>1, <1>2, <1>3 DEF Always

\* A call that goes on to anything but a grant, or ends, brings none nearer.
LEMMA NoGrantNearer ==
  ASSUME TypeInv, NEW c \in Callers,
         \/ UNCHANGED calls
         \/ Done(c)
         \/ \E op, row, saw : Goto(c, op, row, saw) /\ op \notin {"grantRead", "grantWrite"}
  PROVE  \A d \in Callers : calls'[d].op \in {"grantRead", "grantWrite"} =>
                              calls[d].op \in {"grantRead", "grantWrite"}
BY DEF TypeInv, Done, Goto, Call, Idle

LEMMA BeginsAlways ==
  ASSUME TypeInv, Always, NEW c \in Callers, Begins(c)
  PROVE  Always'
<1>1. \A d \in Callers : calls'[d].op \in {"grantRead", "grantWrite"} =>
                           calls[d].op \in {"grantRead", "grantWrite"}
  BY NoGrantNearer DEF Begins
<1> QED
  BY <1>1, AlwaysStays DEF Begins, Tables, NoNewPending, Always, UnlinkedIsUnshared, Present

LEMMA OfferAlways ==
  ASSUME TypeInv, Always, NEW c \in Callers, calls[c].op \in OfOffer,
         NEW op \in {"mintLink", "convert"}, WriteOffer(c, Goto(c, op, NoRow, "absent")),
         UNCHANGED <<linked, grants, consented>>
  PROVE  Always'
<1>1. calls[c] # Idle
  BY DEF Idle, OfOffer
<1>2. /\ Goto(c, op, NoRow, "absent") \/ Done(c)
      /\ \/ UNCHANGED <<invites, overdue, answers>>
         \/ \E r \in Rows : Offers(c, r)
  BY <1>1, OfferWritten
<1>3. \A d \in Callers : calls'[d].op \in {"grantRead", "grantWrite"} =>
                           calls[d].op \in {"grantRead", "grantWrite"}
  BY <1>2, NoGrantNearer
<1>4. CASE UNCHANGED <<invites, overdue, answers>>
  BY <1>3, <1>4, AlwaysStays DEF NoNewPending, Always, UnlinkedIsUnshared, Present
<1>5. ASSUME NEW r \in Rows, Offers(c, r)
      PROVE  Always'
  <2>1. /\ \A s \in Rows : invites'[s] = IF s = r THEN "pending" ELSE invites[s]
        /\ \A s \in Rows : answers'[s] = IF s = r THEN 0 ELSE answers[s]
    BY <1>5 DEF Offers, Offered, TypeInv, TypeOK
  <2>2. linked
    BY <1>5 DEF Offers, Always, UnlinkedIsUnshared
  <2> QED
    BY <1>3, <2>1, <2>2, AlwaysStays DEF NoNewPending
<1> QED
  BY <1>2, <1>4, <1>5

LEMMA ProceedAlways ==
  ASSUME TypeInv, Always, NEW c \in Callers, Proceed(c)
  PROVE  Always'
<1> DEFINE row == calls[c].row
<1>0. /\ invites \in [Rows -> Statuses] /\ answers \in [Rows -> 0..2]
      /\ calls \in [Callers -> {Idle} \cup CallSet]
  BY DEF TypeInv, TypeOK
<1>1. CASE CreateWrite(c) \/ AttachWrite(c)
  BY <1>1, OfferAlways DEF CreateWrite, AttachWrite, At, OfOffer
<1>2. CASE CreateLink(c) \/ CreateByMailWrite(c) \/ AttachConvert(c) \/ AttachRead(c)
  <2>1. UNCHANGED <<linked, invites, grants, answers, consented>>
    BY <1>2 DEF CreateLink, CreateByMailWrite, AttachConvert, AttachRead
  <2>2. Done(c) \/ \E op, r, saw : Goto(c, op, r, saw) /\ op \notin {"grantRead", "grantWrite"}
    BY <1>2 DEF CreateLink, CreateByMailWrite, AttachConvert, AttachRead, ReadOffer
  <2> QED
    BY <2>1, <2>2, NoGrantNearer, AlwaysStays
       DEF NoNewPending, Always, UnlinkedIsUnshared, Present
<1>3. CASE RespondExpire(c)
  <2>1. UNCHANGED <<linked, grants, answers, consented>> /\ Done(c)
    BY <1>3 DEF RespondExpire
  <2>2. \A r \in Rows : invites'[r] = invites[r]
                          \/ (invites'[r] = "expired" /\ r \in Present)
    BY <1>0, <1>3 DEF RespondExpire
  <2> QED
    BY <2>1, <2>2, NoGrantNearer, AlwaysStays
       DEF NoNewPending, Always, UnlinkedIsUnshared, Present
<1>4. CASE RespondWrite(c)
  <2>0. row \in Rows
    BY <1>4, AtCall DEF RespondWrite, At, Steps, Placed, OfInvite
  <2>1. CASE StillPending(row)
    <3>1. /\ UNCHANGED <<linked, grants>>
          /\ invites' = [invites EXCEPT ![row] = IF At(c, "accept") THEN "accepted" ELSE "declined"]
          /\ answers' = [answers EXCEPT ![row] = IF @ < 2 THEN @ + 1 ELSE @]
          /\ consented' = (consented \/ At(c, "accept"))
          /\ IF At(c, "accept") THEN Goto(c, "grantRead", row, "absent") ELSE Done(c)
      BY <1>4, <2>1 DEF RespondWrite
    <3>2. answers[row] = 0 /\ invites[row] = "pending"
      BY <2>0, <2>1 DEF StillPending, Always, Unanswered
    <3>3. /\ \A r \in Rows : answers'[r] = IF r = row THEN 1 ELSE answers[r]
          /\ \A r \in Rows : invites'[r] = IF r # row THEN invites[r]
                                           ELSE IF At(c, "accept") THEN "accepted" ELSE "declined"
      BY <1>0, <3>1, <3>2
    <3>4. OneAnswerPerOffer' /\ Unanswered'
      BY <3>3 DEF Always, OneAnswerPerOffer, Unanswered
    <3>5. \A d \in Callers \ {c} : calls'[d] = calls[d]
      BY <1>0, <3>1 DEF Goto, Done
    <3>c. consented => consented'
      BY <3>1
    <3>6. ConsentFirst'
      <4>1. CASE At(c, "accept")
        BY <3>1, <4>1 DEF ConsentFirst
      <4>2. CASE ~At(c, "accept")
        <5>1. calls'[c] = Idle
          BY <3>1, <4>2, DoneIs
        <5> QED
          BY <3>c, <3>5, <5>1 DEF ConsentFirst, Always, Idle
      <4> QED
        BY <4>1, <4>2
    <3>7. NeverWithoutConsent'
      BY <3>1 DEF NeverWithoutConsent, Always
    <3>8. UnlinkedIsUnshared'
      BY <2>0, <3>1, <3>2 DEF UnlinkedIsUnshared, Always, Present
    <3> QED
      BY <3>4, <3>6, <3>7, <3>8 DEF Always
  <2>2. CASE ~StillPending(row)
    <3>1. UNCHANGED <<linked, grants, invites, answers, consented>> /\ Done(c)
      BY <1>4, <2>2 DEF RespondWrite
    <3> QED
      BY <3>1, NoGrantNearer, AlwaysStays DEF NoNewPending, Always, UnlinkedIsUnshared, Present
  <2> QED
    BY <2>1, <2>2
<1>5. CASE Materialise(c)
  <2>1. UNCHANGED <<linked, grants, invites, answers, consented>>
    BY <1>5 DEF Materialise
  <2>2. \A d \in Callers \ {c} : calls'[d] = calls[d]
    BY <1>0, <1>5 DEF Materialise, Goto, Done
  <2>3. calls[c].op = "grantRead"
    BY <1>5 DEF Materialise, At
  <2> QED
    BY <2>1, <2>2, <2>3, AlwaysStays DEF NoNewPending, Always, UnlinkedIsUnshared, Present
<1>6. CASE MaterialiseWrite(c)
  <2>1. UNCHANGED <<linked, invites, answers, consented>> /\ Done(c)
    BY <1>6 DEF MaterialiseWrite
  <2>2. consented
    BY <1>6 DEF MaterialiseWrite, At, Always, ConsentFirst
  <2>3. ~linked => grants' = grants
    BY <1>6 DEF MaterialiseWrite
  <2> QED
    BY <2>1, <2>2, <2>3, NoGrantNearer
       DEF Always, OneAnswerPerOffer, Unanswered, NeverWithoutConsent, ConsentFirst,
           UnlinkedIsUnshared, Present
<1>7. CASE RevokeWrite(c)
  <2>1. UNCHANGED <<linked, grants, answers, consented>> /\ Goto(c, "strip", row, "absent")
    BY <1>7 DEF RevokeWrite
  <2>2. \A r \in Rows : invites'[r] = invites[r]
                          \/ (invites'[r] = "revoked" /\ r \in Present)
    BY <1>0, <1>7 DEF RevokeWrite
  <2> QED
    BY <2>1, <2>2, NoGrantNearer, AlwaysStays
       DEF NoNewPending, Always, UnlinkedIsUnshared, Present
<1>8. CASE RevokeStrip(c) \/ LeaveDelete(c)
  <2>1. UNCHANGED <<linked, invites, answers, consented>> /\ grants' \subseteq grants
    BY <1>8 DEF RevokeStrip, LeaveDelete
  <2>2. Done(c) \/ Goto(c, "settle", NoRow, "absent")
    BY <1>8 DEF RevokeStrip, LeaveDelete
  <2> QED
    BY <2>1, <2>2, NoGrantNearer, AlwaysStays
       DEF NoNewPending, Always, UnlinkedIsUnshared, Present
<1>9. CASE LeaveSettle(c)
  <2>1. UNCHANGED <<linked, grants, answers, consented>> /\ Done(c)
    BY <1>9 DEF LeaveSettle
  <2>2. \A r \in Rows : invites'[r] = IF r \in Present THEN "declined" ELSE "absent"
    BY <1>9 DEF LeaveSettle
  <2> QED
    BY <2>1, <2>2, NoGrantNearer, AlwaysStays
       DEF NoNewPending, Always, UnlinkedIsUnshared, Present
<1> QED
  BY <1>1, <1>2, <1>3, <1>4, <1>5, <1>6, <1>7, <1>8, <1>9 DEF Proceed

LEMMA AsideAlways ==
  ASSUME TypeInv, Always, Aside
  PROVE  Always'
<1>0. invites \in [Rows -> Statuses] /\ UNCHANGED <<calls, answers, consented>>
  BY DEF TypeInv, TypeOK, Aside, RevokeMail, FallDue, ExpireOverdue, Sweep, Unlink
<1>1. CASE Unlink
  <2>1. (\A r \in Rows : invites'[r] = "absent") /\ grants' = {} /\ Present' = {}
    BY <1>1 DEF Unlink, Present
  <2> QED
    BY <1>0, <2>1, AlwaysStays DEF NoNewPending
<1>2. CASE RevokeMail \/ FallDue \/ ExpireOverdue \/ Sweep
  <2>1. UNCHANGED <<linked, grants>>
    BY <1>2 DEF RevokeMail, FallDue, ExpireOverdue, Sweep
  <2>2. \A r \in Rows : \/ invites'[r] = invites[r]
                        \/ invites'[r] = "expired" /\ r \in Present
                        \/ invites'[r] = "absent"
    BY <1>0, <1>2 DEF RevokeMail, FallDue, ExpireOverdue, Sweep, Present
  <2> QED
    BY <1>0, <2>1, <2>2, AlwaysStays DEF NoNewPending, Always, UnlinkedIsUnshared, Present
<1> QED
  BY <1>1, <1>2 DEF Aside

-----------------------------------------------------------------------------
(* What holds of requests taken one at a time.                               *)
LEMMA SerialMoves ==
  ASSUME Serial, NEW c \in Callers, calls[c] # Idle \/ Quiet,
         \A d \in Callers \ {c} : calls'[d] = calls[d],
         OneRow', OneGrant',
         calls'[c] = Idle => Agree', calls'[c] # Idle => Owed(calls[c])'
  PROVE  Serial'
<1>1. \A d \in Callers : d # c => calls'[d] = Idle
  BY DEF Serial, Alone, Quiet
<1>2. Alone'
  BY <1>1 DEF Alone
<1>3. Quiet' => Agree'
  BY DEF Quiet
<1>4. \A d \in Callers : calls'[d] # Idle => Owed(calls[d])'
  BY <1>1
<1> QED
  BY <1>2, <1>3, <1>4 DEF Serial

\* The tables as they were: what was agreed, and how many rows there are.
LEMMA SameTables ==
  ASSUME UNCHANGED <<invites, grants>>
  PROVE  /\ Present' = Present /\ Accepted' = Accepted /\ Agree' = Agree
         /\ OneRow' = OneRow /\ OneGrant' = OneGrant
BY DEF Present, Accepted, Agree, OneRow, OneGrant

LEMMA BeginsSerial ==
  ASSUME TypeInv, Serial, ~overlap, NEW c \in Callers, Begins(c)
  PROVE  Serial'
<1>1. Quiet /\ Agree /\ OneRow /\ OneGrant
  BY DEF Begins, MayStart, Serial
<1>2. /\ Present' = Present /\ Accepted' = Accepted /\ Agree' /\ OneRow' /\ OneGrant'
      /\ UNCHANGED <<invites, grants>>
  BY <1>1, SameTables DEF Begins, Tables
<1>3. CASE UNCHANGED calls
  BY <1>1, <1>2, <1>3 DEF Serial, Quiet, Alone
<1>4. CASE ~UNCHANGED calls
  <2>1. PICK op \in Steps, row \in Rows \cup GrantIds \cup {NoRow},
             saw \in Statuses \cup {"present"} :
          /\ Placed(Call(op, row, saw)) /\ Goto(c, op, row, saw)
          /\ Owed(Call(op, row, saw))
    BY <1>1, <1>4 DEF Begins
  <2>2. /\ \A d \in Callers \ {c} : calls'[d] = calls[d]
        /\ calls'[c] = Call(op, row, saw)
    BY <2>1, GotoIs
  <2>3. Owed(calls[c])'
    BY <1>2, <2>1, <2>2 DEF Owed
  <2> QED
    BY <1>1, <1>2, <2>2, <2>3, SerialMoves DEF Begins, MayStart, Call, Idle
<1> QED
  BY <1>3, <1>4

LEMMA OfferSerial ==
  ASSUME TypeInv, Serial, NEW c \in Callers, calls[c].op \in OfOffer,
         NEW op \in {"mintLink", "convert"}, WriteOffer(c, Goto(c, op, NoRow, "absent")),
         UNCHANGED grants
  PROVE  Serial'
<1>0. invites \in [Rows -> Statuses] /\ answers \in [Rows -> 0..2]
      /\ calls \in [Callers -> {Idle} \cup CallSet]
  BY DEF TypeInv, TypeOK
<1>1. calls[c] # Idle
  BY DEF Idle, OfOffer
<1>2. /\ Goto(c, op, NoRow, "absent") \/ Done(c)
      /\ \/ UNCHANGED <<invites, overdue, answers>>
         \/ \E r \in Rows : Offers(c, r)
  BY <1>1, OfferWritten
<1>3. /\ \A d \in Callers \ {c} : calls'[d] = calls[d]
      /\ calls'[c] = Idle \/ calls'[c] = Call(op, NoRow, "absent")
  BY <1>0, <1>2 DEF Goto, Done
<1>4. calls'[c] # Idle => (Owed(calls[c])' <=> Agree')
  BY <1>3 DEF Owed, Call, OfOffer
<1>5. /\ Agree /\ OneRow /\ OneGrant
      /\ IF calls[c].row = NoRow THEN Present = {} /\ calls[c].saw # "accepted"
         ELSE calls[c].row \in Present /\ calls[c].saw = invites[calls[c].row]
  <2>1. OneRow /\ OneGrant /\ Owed(calls[c])
    BY <1>1 DEF Serial
  <2> QED
    BY <2>1 DEF Owed, OfOffer
<1>6. CASE UNCHANGED <<invites, overdue, answers>>
  BY <1>1, <1>3, <1>4, <1>5, <1>6, SameTables, SerialMoves
<1>7. ASSUME NEW r \in Rows, Offers(c, r)
      PROVE  Serial'
  <2>1. \A s \in Rows : invites'[s] = IF s = r THEN "pending" ELSE invites[s]
    BY <1>0, <1>7 DEF Offers, Offered
  <2>2. invites[r] # "accepted" /\ (r \in Present \/ Present = {})
    BY <1>5, <1>7 DEF Offers, Present
  <2>3. Accepted' = Accepted
    BY <2>1, <2>2 DEF Accepted
  <2>4. OneRow'
    BY <1>5, <2>1, <2>2 DEF OneRow, Present
  <2>5. Agree' /\ OneGrant'
    BY <1>5, <2>3 DEF Agree, OneGrant
  <2> QED
    BY <1>1, <1>3, <1>4, <2>4, <2>5, SerialMoves
<1> QED
  BY <1>2, <1>6, <1>7

LEMMA ProceedSerial ==
  ASSUME SharingAssumption, TypeInv, Always, Serial, NEW c \in Callers, Proceed(c)
  PROVE  Serial'
<1> DEFINE row == calls[c].row
<1>0. /\ invites \in [Rows -> Statuses] /\ grants \in SUBSET GrantIds
      /\ calls \in [Callers -> {Idle} \cup CallSet] /\ OneRow /\ OneGrant
  BY DEF TypeInv, TypeOK, Serial
<1>i. calls[c].op \in Steps => calls[c] # Idle /\ Owed(calls[c])
  BY DEF Serial, Idle, Steps
<1>d. Done(c) => /\ \A d \in Callers \ {c} : calls'[d] = calls[d]
                 /\ calls'[c] = Idle
  BY DoneIs
<1>g. \A op, r, saw : Goto(c, op, r, saw) =>
        /\ \A d \in Callers \ {c} : calls'[d] = calls[d]
        /\ calls'[c] = [op |-> op, row |-> r, saw |-> saw]
  BY <1>0 DEF Goto, Call
<1>e. ASSUME calls[c] # Idle, Done(c), OneRow', OneGrant', Agree'
      PROVE  Serial'
  BY <1>d, <1>e, SerialMoves
<1>p. \A r \in Present : Present = {r}
  BY <1>0 DEF OneRow
<1>1. CASE CreateWrite(c) \/ AttachWrite(c)
  BY <1>1, OfferSerial DEF CreateWrite, AttachWrite, At, OfOffer
<1>2. CASE CreateLink(c) \/ CreateByMailWrite(c) \/ AttachConvert(c)
  <2>1. calls[c].op \in {"mintLink", "mailWrite", "convert"}
        /\ UNCHANGED <<invites, grants>> /\ Done(c)
    BY <1>2 DEF CreateLink, CreateByMailWrite, AttachConvert, At
  <2>2. calls[c] # Idle /\ Agree
    BY <1>i, <2>1 DEF Owed, OfOffer, Steps
  <2> QED
    BY <1>0, <1>e, <2>1, <2>2, SameTables
<1>3. CASE AttachRead(c)
  <2>1. calls[c].op = "attachRead" /\ UNCHANGED <<invites, grants>>
    BY <1>3 DEF AttachRead, At
  <2>2. calls[c] # Idle /\ Agree
    BY <1>i, <2>1 DEF Owed, OfOffer, Steps
  <2>3. Agree' /\ OneRow' /\ OneGrant' /\ Present' = Present
    BY <1>0, <2>1, <2>2, SameTables
  <2>4. ASSUME NEW r \in Present, Goto(c, "attachWrite", r, invites[r])
        PROVE  Serial'
    <3>1. r # NoRow
      BY DEF Present, SharingAssumption
    <3>2. /\ \A d \in Callers \ {c} : calls'[d] = calls[d]
          /\ calls'[c] = [op |-> "attachWrite", row |-> r, saw |-> invites[r]]
      BY <1>g, <2>4
    <3>3. Owed(calls[c])'
      BY <2>1, <2>3, <3>1, <3>2 DEF Owed, OfOffer
    <3> QED
      BY <2>2, <2>3, <3>2, <3>3, SerialMoves
  <2>5. ASSUME Present = {}, Goto(c, "attachWrite", NoRow, "absent")
        PROVE  Serial'
    <3>2. /\ \A d \in Callers \ {c} : calls'[d] = calls[d]
          /\ calls'[c] = [op |-> "attachWrite", row |-> NoRow, saw |-> "absent"]
      BY <1>g, <2>5
    <3>3. Owed(calls[c])'
      BY <2>3, <2>5, <3>2 DEF Owed, OfOffer
    <3> QED
      BY <2>2, <2>3, <3>2, <3>3, SerialMoves
  <2>6. CASE Done(c)
    BY <1>e, <2>2, <2>3, <2>6
  <2> QED
    BY <1>3, <2>4, <2>5, <2>6 DEF AttachRead, ReadOffer
<1>4. CASE RespondExpire(c) \/ RespondWrite(c)
  <2>1. calls[c].op \in {"expire", "accept", "decline"}
    BY <1>4 DEF RespondExpire, RespondWrite, At
  <2>2. calls[c] # Idle /\ Agree /\ invites[row] = "pending" /\ row \in Rows
    <3>1. calls[c] # Idle /\ Agree /\ invites[row] = "pending"
      BY <1>i, <2>1 DEF Owed, OfOffer, Steps
    <3> QED
      BY <2>1, <3>1 DEF TypeInv, Placed, OfInvite
  <2>3. Present = {row} /\ Accepted = {} /\ grants = {}
    <3>1. Present = {row}
      BY <1>p, <2>2 DEF Present
    <3>2. Accepted = {}
      BY <2>2, <3>1 DEF Accepted, Present
    <3> QED
      BY <2>2, <3>1, <3>2 DEF Agree
  <2>4. PICK s \in {"expired", "declined", "accepted"} :
          /\ invites' = [invites EXCEPT ![row] = s] /\ UNCHANGED grants
          /\ IF s = "accepted" THEN Goto(c, "grantRead", row, "absent") ELSE Done(c)
    BY <1>4, <2>2, <2>3 DEF RespondExpire, RespondWrite, StillPending
  <2>5. Present' = {row} /\ (s # "accepted" => Accepted' = {}) /\ invites'[row] = s
    BY <1>0, <2>2, <2>3, <2>4 DEF Present, Accepted
  <2>6. OneRow' /\ OneGrant' /\ (s # "accepted" => Agree')
    BY <2>3, <2>4, <2>5 DEF OneRow, OneGrant, Agree
  <2>7. CASE s = "accepted"
    <3>1. /\ \A d \in Callers \ {c} : calls'[d] = calls[d]
          /\ calls'[c] = [op |-> "grantRead", row |-> row, saw |-> "absent"]
      BY <1>g, <2>4, <2>7
    <3>2. Owed(calls[c])'
      BY <2>3, <2>4, <2>5, <2>7, <3>1 DEF Owed, OfOffer
    <3> QED
      BY <2>2, <2>6, <3>1, <3>2, SerialMoves DEF Idle
  <2>8. CASE s # "accepted"
    BY <1>e, <2>2, <2>4, <2>6, <2>8
  <2> QED
    BY <2>7, <2>8
<1>5. CASE Materialise(c)
  <2>1. calls[c].op = "grantRead" /\ UNCHANGED <<invites, grants>>
    BY <1>5 DEF Materialise, At
  <2>2. calls[c] # Idle /\ invites[row] = "accepted" /\ grants = {} /\ row \in Rows
    BY <1>i, <2>1 DEF Owed, OfOffer, Steps, TypeInv, Placed, OfInvite
  <2>3. linked
    BY <2>2 DEF Always, UnlinkedIsUnshared, Present
  <2>4. Goto(c, "grantWrite", NoRow, "absent")
    BY <1>5, <2>2, <2>3 DEF Materialise
  <2>5. /\ \A d \in Callers \ {c} : calls'[d] = calls[d]
        /\ calls'[c] = [op |-> "grantWrite", row |-> NoRow, saw |-> "absent"]
    BY <1>g, <2>4
  <2>6. Accepted' # {}
    BY <2>1, <2>2 DEF Accepted
  <2>7. Owed(calls[c])'
    BY <2>1, <2>2, <2>5, <2>6 DEF Owed, OfOffer
  <2>8. OneRow' /\ OneGrant'
    BY <1>0, <2>1 DEF OneRow, OneGrant, Present
  <2> QED
    BY <2>2, <2>5, <2>7, <2>8, SerialMoves DEF Idle
<1>6. CASE MaterialiseWrite(c)
  <2>1. calls[c].op = "grantWrite" /\ UNCHANGED <<invites, linked>> /\ Done(c)
    BY <1>6 DEF MaterialiseWrite, At
  <2>2. calls[c] # Idle /\ Accepted # {} /\ grants = {} /\ calls[c].saw # "present"
    BY <1>i, <2>1 DEF Owed, OfOffer, Steps
  <2>3. linked
    BY <2>2 DEF Always, UnlinkedIsUnshared, Present, Accepted
  <2>4. PICK g : grants' = {g}
    BY <1>6, <2>2, <2>3 DEF MaterialiseWrite
  <2>5. OneRow' /\ OneGrant' /\ Agree'
    BY <1>0, <2>1, <2>2, <2>4 DEF OneRow, OneGrant, Agree, Present, Accepted
  <2> QED
    BY <1>e, <2>1, <2>2, <2>5
<1>7. CASE RevokeWrite(c)
  <2>1. calls[c].op = "revokeWrite" /\ UNCHANGED grants /\ Goto(c, "strip", row, "absent")
    BY <1>7 DEF RevokeWrite, At
  <2>2. calls[c] # Idle /\ row \in Present
    BY <1>i, <2>1 DEF Owed, OfOffer, Steps
  <2>3. Present = {row} /\ row \in Rows
    BY <1>p, <2>2 DEF Present
  <2>4. invites' = [invites EXCEPT ![row] = "revoked"]
    BY <1>7, <2>2 DEF RevokeWrite
  <2>5. Present' = {row} /\ Accepted' = {}
    BY <1>0, <2>3, <2>4 DEF Present, Accepted
  <2>6. /\ \A d \in Callers \ {c} : calls'[d] = calls[d]
        /\ calls'[c] = [op |-> "strip", row |-> row, saw |-> "absent"]
    BY <1>g, <2>1
  <2>7. Owed(calls[c])'
    BY <2>5, <2>6 DEF Owed, OfOffer
  <2>8. OneRow' /\ OneGrant'
    BY <1>0, <2>1, <2>5 DEF OneRow, OneGrant
  <2> QED
    BY <2>2, <2>6, <2>7, <2>8, SerialMoves DEF Idle
<1>8. CASE RevokeStrip(c)
  <2>1. calls[c].op = "strip" /\ UNCHANGED invites /\ grants' = {} /\ Done(c)
    BY <1>8 DEF RevokeStrip, At
  <2>2. calls[c] # Idle /\ Accepted = {}
    BY <1>i, <2>1 DEF Owed, OfOffer, Steps
  <2>3. OneRow' /\ OneGrant' /\ Agree'
    BY <1>0, <2>1, <2>2 DEF OneRow, OneGrant, Agree, Present, Accepted
  <2> QED
    BY <1>e, <2>1, <2>2, <2>3
<1>9. CASE LeaveDelete(c)
  <2>1. calls[c].op = "leaveDelete" /\ UNCHANGED invites /\ grants' = grants \ {row}
    BY <1>9 DEF LeaveDelete, At
  <2>2. calls[c] # Idle /\ row \in grants
    BY <1>i, <2>1 DEF Owed, OfOffer, Steps
  <2>3. grants' = {}
    BY <1>0, <2>1, <2>2 DEF OneGrant
  <2>4. Goto(c, "settle", NoRow, "absent")
    BY <1>9, <2>2 DEF LeaveDelete
  <2>5. /\ \A d \in Callers \ {c} : calls'[d] = calls[d]
        /\ calls'[c] = [op |-> "settle", row |-> NoRow, saw |-> "absent"]
    BY <1>g, <2>4
  <2>6. Owed(calls[c])'
    BY <2>3, <2>5 DEF Owed, OfOffer
  <2>7. OneRow' /\ OneGrant'
    BY <1>0, <2>1, <2>3 DEF OneRow, OneGrant, Present
  <2> QED
    BY <2>2, <2>5, <2>6, <2>7, SerialMoves DEF Idle
<1>10. CASE LeaveSettle(c)
  <2>1. calls[c].op = "settle" /\ UNCHANGED grants /\ Done(c)
        /\ invites' = [r \in Rows |-> IF r \in Present THEN "declined" ELSE "absent"]
    BY <1>10 DEF LeaveSettle, At
  <2>2. calls[c] # Idle /\ grants = {}
    BY <1>i, <2>1 DEF Owed, OfOffer, Steps
  <2>3. Accepted' = {}
    BY <2>1 DEF Accepted
  <2>4. OneRow' /\ OneGrant' /\ Agree'
    BY <1>0, <2>1, <2>2, <2>3 DEF OneRow, OneGrant, Agree, Present
  <2> QED
    BY <1>e, <2>1, <2>2, <2>4
<1> QED
  BY <1>1, <1>2, <1>3, <1>4, <1>5, <1>6, <1>7, <1>8, <1>9, <1>10 DEF Proceed

LEMMA AsideSerial ==
  ASSUME TypeInv, Serial, ~overlap, Aside
  PROVE  Serial'
<1>0. invites \in [Rows -> Statuses] /\ UNCHANGED calls /\ OneRow /\ OneGrant
  BY DEF TypeInv, TypeOK, Serial, Aside, RevokeMail, FallDue, ExpireOverdue, Sweep, Unlink
<1>1. CASE UNCHANGED <<invites, grants>>
  BY <1>0, <1>1 DEF Serial, Alone, OneRow, OneGrant, Quiet, Agree, Owed, Present, Accepted
<1>2. CASE ~UNCHANGED <<invites, grants>>
  <2>1. Quiet
    BY <1>2 DEF Aside, RevokeMail, FallDue, ExpireOverdue, Sweep, Unlink
  <2>2. Agree
    BY <2>1 DEF Serial
  <2>3. OneRow' /\ OneGrant' /\ Agree'
    <3>1. CASE Unlink
      <4>1. (\A r \in Rows : invites'[r] = "absent") /\ grants' = {}
        BY <3>1 DEF Unlink
      <4> QED
        BY <4>1 DEF OneRow, OneGrant, Agree, Present, Accepted
    <3>2. CASE ExpireOverdue \/ Sweep
      <4>1. grants' = grants
        BY <3>2 DEF ExpireOverdue, Sweep
      <4>2. \A r \in Rows : \/ invites'[r] = invites[r]
                            \/ /\ invites[r] \notin {"absent", "accepted"}
                               /\ invites'[r] \in {"absent", "expired"}
        BY <1>0, <3>2 DEF ExpireOverdue, Sweep, Terminal
      <4>3. Present' \subseteq Present /\ Accepted' = Accepted
        BY <4>2 DEF Present, Accepted
      <4> QED
        BY <1>0, <2>2, <4>1, <4>3 DEF OneRow, OneGrant, Agree
    <3> QED
      BY <1>2, <3>1, <3>2 DEF Aside, RevokeMail, FallDue
  <2> QED
    BY <1>0, <2>1, <2>3 DEF Serial, Alone, Quiet
<1> QED
  BY <1>1, <1>2

-----------------------------------------------------------------------------
LEMMA InitSharing ==
  ASSUME SharingAssumption, Init
  PROVE  SharingInv
<1>1. TypeInv
  <2>1. /\ invites \in [Rows -> Statuses] /\ overdue \in SUBSET Rows
        /\ grants \in SUBSET GrantIds /\ email \in EmailStates
        /\ answers \in [Rows -> 0..2]
    BY DEF Init, Statuses, EmailStates
  <2>2. /\ slice \in Slices /\ overlap \in BOOLEAN /\ linked \in BOOLEAN
        /\ account \in BOOLEAN /\ consented \in BOOLEAN
    BY DEF Init
  <2>3. calls \in [Callers -> {Idle} \cup CallSet] /\ \A c \in Callers : calls[c] = Idle
    BY DEF Init
  <2> QED
    BY <2>1, <2>2, <2>3 DEF TypeInv, TypeOK
<1>2. OneAnswerPerOffer /\ Unanswered /\ NeverWithoutConsent /\ UnlinkedIsUnshared
  BY DEF Init, OneAnswerPerOffer, Unanswered, NeverWithoutConsent, UnlinkedIsUnshared
<1>3. ConsentFirst
  BY DEF Init, ConsentFirst, Idle
<1>4. Serial
  BY DEF Init, Serial, Alone, OneRow, OneGrant, Agree, Present, Accepted
<1> QED
  BY <1>1, <1>2, <1>3, <1>4 DEF SharingInv

LEMMA NextSharing ==
  ASSUME SharingAssumption, SharingInv, [Next]_sharingVars
  PROVE  SharingInv'
<1>0. TypeInv /\ Always /\ (~overlap => Serial)
  BY DEF SharingInv, Always
<1>1. CASE UNCHANGED sharingVars
  <2>1. Always' /\ (~overlap => Serial)'
    BY <1>0, <1>1
       DEF sharingVars, Always, OneAnswerPerOffer, Unanswered, NeverWithoutConsent,
           ConsentFirst, UnlinkedIsUnshared, Serial, Alone, OneRow, OneGrant, Quiet,
           Agree, Owed, Present, Accepted
  <2> QED
    BY <1>0, <1>1, <2>1, NextType DEF SharingInv, Always
<1>2. CASE Next
  <2>1. overlap' = overlap
    BY <1>2 DEF Next, Proceed, Create, CreateByMail, SignUp, OpenLink, Respond, Revoke, Leave,
         CreateWrite, CreateLink, CreateByMailWrite, RespondExpire, RespondWrite, Materialise,
         MaterialiseWrite, RevokeWrite, RevokeStrip, LeaveDelete, LeaveSettle, AttachRead,
         AttachWrite, AttachConvert, RevokeMail, FallDue, ExpireOverdue, Sweep, Unlink
  <2>2. Always'
    BY <1>0, <1>2, NextCases, BeginsAlways, ProceedAlways, AsideAlways
  <2>3. ~overlap => Serial'
    BY <1>0, <1>2, NextCases, BeginsSerial, ProceedSerial, AsideSerial
  <2> QED
    BY <1>0, <1>2, <2>1, <2>2, <2>3, NextType DEF SharingInv, Always
<1> QED
  BY <1>1, <1>2

LEMMA SharingInvariant ==
  ASSUME SharingAssumption
  PROVE  Spec => []SharingInv
<1>1. Init => SharingInv
  BY InitSharing
<1>2. SharingInv /\ [Next]_sharingVars => SharingInv'
  BY NextSharing
<1> QED
  BY <1>1, <1>2, PTL DEF Spec

(* However offers, answers, revocations and unlinking overlap, one answer to *)
(* an offer counts, nothing is granted without consent and nothing outlives  *)
(* its machine; taken one at a time they keep invites and grants in step     *)
(* (share.rs, db.rs).                                                        *)
THEOREM GrantsSafe ==
  ASSUME SharingAssumption
  PROVE  Spec => []GrantsAreConsented
<1>1. SharingInv => GrantsAreConsented
  BY DEF SharingInv, Serial, Agree, Accepted, GrantsAreConsented, TablesAgree
<1> QED
  BY <1>1, SharingInvariant, PTL
=============================================================================
