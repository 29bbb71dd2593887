-------------------------- MODULE InviteMail_proof --------------------------
(***************************************************************************)
(* What is written about mail is true, and no more leaves than may: the    *)
(* proof of what InviteMail promises, for any number of addresses, offers  *)
(* and mail tasks at once, and any caps.                                   *)
(*                                                                         *)
(* A receipt is written by the token alone, so that it speaks of the row's *)
(* own link needs only that a task which says `sent` has let its message   *)
(* leave (`SentLeft`).  An address's cap holds because the window is taken *)
(* before the task exists: what has left plus what is on its way is never  *)
(* more than what was let through (`LetThrough`).  The cap on live         *)
(* invitations is promised of offers taken one at a time; for it the       *)
(* invariant says that what the offer under way has counted is still so    *)
(* (`Counted`), and that what each kind has live is a finite set.          *)
(***************************************************************************)
EXTENDS InviteMail, FiniteSetTheorems, TLAPS

AnyRow == CHOOSE q \in Rows : TRUE
RowSet == [st : {"absent", "pending", "settled"}, token : 0..MaxOffers,
           delivery : {"none", "sending"} \cup Outcomes, today : BOOLEAN]

TypeInv ==
  /\ overlap \in BOOLEAN
  /\ rows \in [Rows -> RowSet]
  /\ attempts \in [Tokens -> [phase : Phases, row : Rows \cup {AnyRow}]]
  /\ \A t \in Tokens : attempts[t].phase # "none" => attempts[t].row \in Rows
  /\ minted \in 0..MaxOffers
  /\ hits \in [Dests -> 0..DestCap]
  /\ mailed \subseteq Tokens /\ leftFor \in [Dests -> Nat]

\* A token beyond the last minted has no attempt.
Unminted == \A t \in Tokens : t > minted => attempts[t].phase = "none"

SentLeft == \A t \in Tokens : attempts[t].phase = "sent" => t \in mailed

\* The messages let through to an address that may still leave.
OnTheWay(d) == {t \in Tokens : attempts[t].phase \in {"spawned", "stamped"} /\ RowOf(t)[2] = d}
LetThrough == \A d \in Dests : leftFor[d] + Cardinality(OnTheWay(d)) <= hits[d]

LiveOf(k) == {q \in Rows : q[1] = k /\ rows[q].st = "pending"}
FiniteLive == \A k \in Kinds : IsFiniteSet(LiveOf(k))

(* One offer at a time.                                                      *)
Alone == \A s, t \in Busy : s = t
Counted ==
  \A t \in Tokens : attempts[t].phase = "counted" => Cardinality(Live(RowOf(t))) < LiveCap
WithinCap == \A k \in Kinds : Cardinality(LiveOf(k)) <= LiveCap
Serial == Alone /\ Counted /\ WithinCap

MailInv ==
  /\ TypeInv /\ Unminted /\ SentLeft /\ ReceiptIsItsOwn /\ LetThrough /\ FiniteLive
  /\ ~overlap => Serial

-----------------------------------------------------------------------------
(* Types, step by step.                                                      *)
AttemptsTyped ==
  /\ attempts \in [Tokens -> [phase : Phases, row : Rows \cup {AnyRow}]]
  /\ \A t \in Tokens : attempts[t].phase # "none" => attempts[t].row \in Rows

LEMMA ToIs ==
  ASSUME TypeInv, NEW t \in Tokens, attempts[t].phase # "none", NEW p \in Phases, To(t, p)
  PROVE  /\ AttemptsTyped' /\ RowOf(t) \in Rows
         /\ \A s \in Tokens : /\ attempts'[s].phase = IF s = t THEN p ELSE attempts[s].phase
                              /\ attempts'[s].row = attempts[s].row
<1>0. /\ attempts \in [Tokens -> [phase : Phases, row : Rows \cup {AnyRow}]]
      /\ \A s \in Tokens : attempts[s].phase # "none" => attempts[s].row \in Rows
  BY DEF TypeInv
<1>1. attempts' = [attempts EXCEPT ![t] = [@ EXCEPT !.phase = p]]
  BY DEF To
<1>2. attempts' \in [Tokens -> [phase : Phases, row : Rows \cup {AnyRow}]]
  BY <1>0, <1>1
<1>3. \A s \in Tokens : /\ attempts'[s].phase = IF s = t THEN p ELSE attempts[s].phase
                        /\ attempts'[s].row = attempts[s].row
  BY <1>0, <1>1
<1> QED
  BY <1>0, <1>2, <1>3 DEF AttemptsTyped, RowOf

LEMMA FreshIs ==
  ASSUME NEW st \in {"absent", "pending", "settled"}, NEW t \in 0..MaxOffers
  PROVE  /\ Fresh(st, t) \in RowSet /\ Fresh(st, t).st = st /\ Fresh(st, t).token = t
         /\ Fresh(st, t).delivery = "none"
BY DEF Fresh, RowSet, Outcomes

\* The steps of a task, and what each does.
LEMMA ProceedIs ==
  ASSUME TypeInv, NEW t \in Tokens, Proceed(t)
  PROVE  /\ AttemptsTyped' /\ RowOf(t) \in Rows /\ attempts[t].phase \notin {"none", "done"}
         /\ UNCHANGED <<overlap, minted>>
         /\ \A s \in Tokens : attempts'[s].row = attempts[s].row
         /\ \A s \in Tokens \ {t} : attempts'[s].phase = attempts[s].phase
         /\ attempts'[t].phase \notin {"none", "counted"}
<1>o. Outcomes \subseteq Phases /\ "none" \notin Outcomes /\ "done" \notin Outcomes
      /\ "counted" \notin Outcomes
  BY DEF Phases, Outcomes
<1>1. UNCHANGED <<overlap, minted>>
  BY DEF Proceed, WriteOffer, MaySend, MarkSending, Send, DeliveryRecord
<1>2. attempts[t].phase \notin {"none", "done"}
  BY <1>o DEF Proceed, WriteOffer, MaySend, MarkSending, Send, DeliveryRecord, At
<1>3. PICK p \in Phases \ {"none", "counted"} : To(t, p)
  <2>1. CASE WriteOffer(t) \/ MaySend(t) \/ MarkSending(t) \/ DeliveryRecord(t)
    BY <2>1 DEF WriteOffer, MaySend, MarkSending, DeliveryRecord, Phases
  <2>2. CASE Send(t)
    BY <1>o, <2>2 DEF Send
  <2> QED
    BY <2>1, <2>2 DEF Proceed
<1> QED
  BY <1>1, <1>2, <1>3, ToIs

LEMMA RowsTyped ==
  ASSUME InviteMailAssumption, TypeInv, [Next]_mailVars
  PROVE  rows' \in [Rows -> RowSet]
<1>0. rows \in [Rows -> RowSet] /\ 0 \in 0..MaxOffers /\ Tokens \subseteq 0..MaxOffers
  BY DEF TypeInv, Tokens, InviteMailAssumption
<1>1. ASSUME NEW r \in Rows, Offer(r) \/ Settle(r) \/ Delete(r) \/ DeliverySweep(r)
      PROVE  rows' \in [Rows -> RowSet]
  <2>1. /\ [rows[r] EXCEPT !.st = "settled"] \in RowSet
        /\ [rows[r] EXCEPT !.delivery = "failed", !.today = TRUE] \in RowSet
    BY <1>0 DEF RowSet, Outcomes
  <2>2. NoRow \in RowSet
    BY <1>0, FreshIs DEF NoRow
  <2> QED
    BY <1>0, <1>1, <2>1, <2>2 DEF Offer, Settle, Delete, DeliverySweep
<1>2. ASSUME NEW t \in Tokens, Proceed(t)
      PROVE  rows' \in [Rows -> RowSet]
  <2>0. RowOf(t) \in Rows
    BY <1>2, ProceedIs
  <2>1. CASE WriteOffer(t)
    BY <1>0, <2>0, <2>1, FreshIs DEF WriteOffer
  <2>2. CASE MarkSending(t)
    <3>1. [rows[RowOf(t)] EXCEPT !.delivery = "sending"] \in RowSet
      BY <1>0, <2>0 DEF RowSet
    <3> QED
      BY <1>0, <2>0, <2>2, <3>1 DEF MarkSending
  <2>3. CASE DeliveryRecord(t)
    <3>1. [rows[RowOf(t)] EXCEPT !.delivery = attempts[t].phase, !.today = TRUE] \in RowSet
      BY <1>0, <2>0, <2>3 DEF RowSet, DeliveryRecord
    <3> QED
      BY <1>0, <2>0, <2>3, <3>1 DEF DeliveryRecord
  <2> QED
    BY <1>0, <1>2, <2>1, <2>2, <2>3 DEF Proceed, MaySend, Send
<1>3. CASE Restart \/ UNCHANGED mailVars
  BY <1>0, <1>3 DEF Restart, mailVars
<1>4. CASE DayPasses
  <2>1. \A r \in Rows : [rows[r] EXCEPT !.today = FALSE] \in RowSet
    BY <1>0 DEF RowSet
  <2> QED
    BY <1>4, <2>1 DEF DayPasses
<1> QED
  BY <1>1, <1>2, <1>3, <1>4 DEF Next

LEMMA AttemptsKept ==
  ASSUME InviteMailAssumption, TypeInv, [Next]_mailVars
  PROVE  AttemptsTyped'
<1>0. AttemptsTyped /\ minted \in 0..MaxOffers
  BY DEF TypeInv, AttemptsTyped
<1>1. ASSUME NEW r \in Rows, Offer(r)
      PROVE  AttemptsTyped'
  <2>1. [phase |-> "counted", row |-> r] \in [phase : Phases, row : Rows \cup {AnyRow}]
    BY DEF Phases
  <2>2. minted + 1 \in Tokens
    BY <1>0, <1>1 DEF Offer, Tokens, InviteMailAssumption
  <2> QED
    BY <1>0, <1>1, <2>1, <2>2 DEF Offer, AttemptsTyped
<1>2. CASE Restart
  <2>1. \A t \in Tokens : /\ attempts[t] \in [phase : Phases, row : Rows \cup {AnyRow}]
                          /\ [attempts[t] EXCEPT !.phase = "done"]
                               \in [phase : Phases, row : Rows \cup {AnyRow}]
                          /\ [attempts[t] EXCEPT !.phase = "done"].row = attempts[t].row
    BY <1>0 DEF AttemptsTyped, Phases
  <2>2. attempts' \in [Tokens -> [phase : Phases, row : Rows \cup {AnyRow}]]
    BY <1>2, <2>1 DEF Restart
  <2>3. ASSUME NEW t \in Tokens, attempts'[t].phase # "none"
        PROVE  attempts'[t].row \in Rows
    BY <1>0, <1>2, <2>1, <2>3 DEF Restart, Busy, AttemptsTyped
  <2> QED
    BY <2>2, <2>3 DEF AttemptsTyped
<1>3. ASSUME UNCHANGED attempts
      PROVE  AttemptsTyped'
  BY <1>0, <1>3 DEF AttemptsTyped
<1> QED
  BY <1>1, <1>2, <1>3, ProceedIs DEF Next, mailVars, Settle, Delete, DeliverySweep, DayPasses

LEMMA TypeStep ==
  ASSUME InviteMailAssumption, TypeInv, [Next]_mailVars
  PROVE  TypeInv'
<1>0. /\ minted \in 0..MaxOffers /\ hits \in [Dests -> 0..DestCap] /\ mailed \subseteq Tokens
      /\ leftFor \in [Dests -> Nat] /\ MaxOffers \in Nat /\ DestCap \in Nat
      /\ overlap \in BOOLEAN
  BY DEF TypeInv, InviteMailAssumption
<1>1. /\ minted' \in 0..MaxOffers /\ hits' \in [Dests -> 0..DestCap]
      /\ mailed' \subseteq Tokens /\ leftFor' \in [Dests -> Nat] /\ overlap' \in BOOLEAN
  <2>1. ASSUME NEW r \in Rows, Offer(r) \/ Settle(r) \/ Delete(r) \/ DeliverySweep(r)
        PROVE  /\ minted' \in 0..MaxOffers /\ UNCHANGED <<hits, mailed, leftFor, overlap>>
    BY <1>0, <2>1 DEF Offer, Settle, Delete, DeliverySweep
  <2>2. ASSUME NEW t \in Tokens, Proceed(t)
        PROVE  /\ hits' \in [Dests -> 0..DestCap] /\ mailed' \subseteq Tokens
               /\ leftFor' \in [Dests -> Nat] /\ UNCHANGED <<minted, overlap>>
    <3>1. RowOf(t)[2] \in Dests /\ UNCHANGED <<minted, overlap>>
      BY <2>2, ProceedIs DEF Rows
    <3>2. CASE MaySend(t)
      BY <1>0, <3>1, <3>2 DEF MaySend, DestinationOverCap
    <3>3. CASE Send(t)
      BY <1>0, <3>1, <3>3 DEF Send
    <3> QED
      BY <1>0, <2>2, <3>1, <3>2, <3>3 DEF Proceed, WriteOffer, MarkSending, DeliveryRecord
  <2>3. CASE Restart \/ DayPasses
    BY <1>0, <2>3 DEF Restart, DayPasses
  <2>4. CASE UNCHANGED mailVars
    BY <1>0, <2>4 DEF mailVars
  <2> QED
    BY <1>0, <2>1, <2>2, <2>3, <2>4 DEF Next
<1> QED
  BY <1>1, RowsTyped, AttemptsKept DEF TypeInv, AttemptsTyped

-----------------------------------------------------------------------------
(* Receipts.                                                                 *)
LEMMA UnmintedStep ==
  ASSUME InviteMailAssumption, TypeInv, Unminted, [Next]_mailVars
  PROVE  Unminted'
<1>0. /\ minted \in Nat
      /\ attempts \in [Tokens -> [phase : Phases, row : Rows \cup {AnyRow}]]
      /\ Tokens \subseteq Nat
  BY DEF TypeInv, Tokens
<1>1. ASSUME NEW r \in Rows, Offer(r)
      PROVE  Unminted'
  <2>1. /\ minted' = minted + 1
        /\ attempts' = [attempts EXCEPT ![minted + 1] = [phase |-> "counted", row |-> r]]
    BY <1>1 DEF Offer
  <2> QED
    BY <1>0, <2>1 DEF Unminted
<1>2. ASSUME NEW t \in Tokens, Proceed(t)
      PROVE  Unminted'
  BY <1>0, <1>2, ProceedIs DEF Unminted
<1>3. CASE Restart
  <2>1. \A t \in Tokens : attempts[t].phase = "none" => attempts'[t].phase = "none"
    BY <1>0, <1>3 DEF Restart, Busy
  <2> QED
    BY <1>3, <2>1 DEF Restart, Unminted
<1>4. CASE UNCHANGED <<attempts, minted>>
  BY <1>4 DEF Unminted
<1> QED
  BY <1>1, <1>2, <1>3, <1>4 DEF Next, mailVars, Settle, Delete, DeliverySweep, DayPasses

LEMMA SentLeftStep ==
  ASSUME InviteMailAssumption, TypeInv, SentLeft, [Next]_mailVars
  PROVE  SentLeft'
<1>0. attempts \in [Tokens -> [phase : Phases, row : Rows \cup {AnyRow}]]
  BY DEF TypeInv
<1>1. ASSUME NEW r \in Rows, Offer(r)
      PROVE  SentLeft'
  <2>1. \A t \in Tokens : attempts'[t].phase = "sent" => attempts[t].phase = "sent"
    BY <1>0, <1>1 DEF Offer
  <2> QED
    BY <1>1, <2>1 DEF Offer, SentLeft
<1>2. ASSUME NEW t \in Tokens, Proceed(t)
      PROVE  SentLeft'
  <2>1. mailed \subseteq mailed'
    BY <1>2 DEF Proceed, WriteOffer, MaySend, MarkSending, Send, DeliveryRecord
  <2>2. ASSUME attempts'[t].phase = "sent"
        PROVE  t \in mailed'
    <3>1. CASE Send(t)
      BY <2>2, <3>1 DEF Send
    <3>2. CASE ~Send(t)
      <4>1. \E p \in {"done", "written", "spawned", "stamped"} : To(t, p)
        BY <1>2, <3>2 DEF Proceed, WriteOffer, MaySend, MarkSending, DeliveryRecord
      <4>2. attempts'[t].phase \in {"done", "written", "spawned", "stamped"}
        BY <1>0, <4>1 DEF To
      <4> QED
        BY <2>2, <4>2
    <3> QED
      BY <3>1, <3>2
  <2> QED
    BY <1>2, <2>1, <2>2, ProceedIs DEF SentLeft
<1>3. CASE Restart
  <2>1. \A t \in Tokens : attempts'[t].phase # "sent"
    BY <1>0, <1>3 DEF Restart, Busy
  <2> QED
    BY <2>1 DEF SentLeft
<1>4. CASE UNCHANGED <<attempts, mailed>>
  BY <1>4 DEF SentLeft
<1> QED
  BY <1>1, <1>2, <1>3, <1>4 DEF Next, mailVars, Settle, Delete, DeliverySweep, DayPasses

LEMMA ReceiptStep ==
  ASSUME InviteMailAssumption, TypeInv, SentLeft, ReceiptIsItsOwn, [Next]_mailVars
  PROVE  ReceiptIsItsOwn'
<1>0. rows \in [Rows -> RowSet]
  BY DEF TypeInv
<1>1. mailed \subseteq mailed'
  BY DEF Next, mailVars, Offer, Settle, Delete, DeliverySweep, Proceed, WriteOffer, MaySend,
         MarkSending, Send, DeliveryRecord, Restart, DayPasses
\* A row says `sent` as before, or a task that says so has just written it.
<1>2. ASSUME NEW q \in Rows, rows'[q].delivery = "sent"
      PROVE  \/ rows[q].delivery = "sent" /\ rows'[q].token = rows[q].token
             \/ rows'[q].token \in mailed
  <2>1. ASSUME NEW r \in Rows, Offer(r) \/ Settle(r) \/ Delete(r) \/ DeliverySweep(r)
        PROVE  rows[q].delivery = "sent" /\ rows'[q].token = rows[q].token
    <3>1. NoRow.delivery = "none"
      BY FreshIs DEF NoRow, Fresh
    <3>2. CASE Offer(r) \/ Settle(r)
      BY <1>0, <1>2, <3>2 DEF Offer, Settle, RowSet
    <3>3. CASE Delete(r)
      BY <1>0, <1>2, <3>1, <3>3 DEF Delete
    <3>4. CASE DeliverySweep(r)
      <4>1. rows' = [rows EXCEPT ![r] = [@ EXCEPT !.delivery = "failed", !.today = TRUE]]
        BY <3>4 DEF DeliverySweep
      <4>2. [rows[r] EXCEPT !.delivery = "failed", !.today = TRUE].delivery = "failed"
        BY <1>0 DEF RowSet
      <4> QED
        BY <1>0, <1>2, <4>1, <4>2
    <3> QED
      BY <2>1, <3>2, <3>3, <3>4
  <2>2. ASSUME NEW t \in Tokens, Proceed(t)
        PROVE  \/ rows[q].delivery = "sent" /\ rows'[q].token = rows[q].token
               \/ rows'[q].token \in mailed
    <3>0. RowOf(t) \in Rows /\ t \in 0..MaxOffers
      BY <2>2, ProceedIs DEF Tokens, InviteMailAssumption
    <3>1. CASE WriteOffer(t)
      <4>1. \/ UNCHANGED rows
            \/ \E st \in {"pending", "settled"} : rows' = [rows EXCEPT ![RowOf(t)] = Fresh(st, t)]
        BY <3>1 DEF WriteOffer
      <4> QED
        BY <1>0, <1>2, <3>0, <4>1, FreshIs
    <3>2. CASE MarkSending(t)
      <4>1. \/ UNCHANGED rows
            \/ rows' = [rows EXCEPT ![RowOf(t)] = [@ EXCEPT !.delivery = "sending"]]
        BY <3>2 DEF MarkSending
      <4>2. [rows[RowOf(t)] EXCEPT !.delivery = "sending"].delivery = "sending"
        BY <1>0, <3>0 DEF RowSet
      <4> QED
        BY <1>0, <1>2, <3>0, <4>1, <4>2
    <3>3. CASE DeliveryRecord(t)
      <4> DEFINE o == attempts[t].phase
                 row == [rows[RowOf(t)] EXCEPT !.delivery = o, !.today = TRUE]
      <4>1. CASE Current(t)
        <5>1. rows' = [rows EXCEPT ![RowOf(t)] = row]
          BY <3>3, <4>1 DEF DeliveryRecord
        <5>2. row.delivery = o /\ row.token = t
          BY <1>0, <3>0, <4>1 DEF RowSet, Current
        <5> QED
          BY <1>0, <1>2, <3>0, <5>1, <5>2 DEF SentLeft
      <4>2. CASE ~Current(t)
        BY <1>2, <3>3, <4>2 DEF DeliveryRecord
      <4> QED
        BY <4>1, <4>2
    <3> QED
      BY <1>2, <2>2, <3>1, <3>2, <3>3 DEF Proceed, MaySend, Send
  <2>3. CASE DayPasses
    <3>1. rows'[q] = [rows[q] EXCEPT !.today = FALSE]
      BY <2>3 DEF DayPasses
    <3> QED
      BY <1>0, <1>2, <3>1 DEF RowSet
  <2>4. CASE UNCHANGED rows
    BY <1>2, <2>4
  <2> QED
    BY <2>1, <2>2, <2>3, <2>4 DEF Next, mailVars, Restart
<1> QED
  BY <1>1, <1>2 DEF ReceiptIsItsOwn

-----------------------------------------------------------------------------
(* What leaves for an address: it is let through first.                      *)
LEMMA OnTheWayFinite ==
  ASSUME InviteMailAssumption, NEW d
  PROVE  /\ IsFiniteSet(OnTheWay(d)) /\ Cardinality(OnTheWay(d)) \in Nat
         /\ IsFiniteSet(OnTheWay(d)') /\ Cardinality(OnTheWay(d)') \in Nat
<1>1. IsFiniteSet(Tokens)
  BY FS_Interval DEF Tokens, InviteMailAssumption
<1>2. OnTheWay(d) \in SUBSET Tokens /\ OnTheWay(d)' \in SUBSET Tokens
  BY DEF OnTheWay, Tokens
<1>3. IsFiniteSet(OnTheWay(d)) /\ IsFiniteSet(OnTheWay(d)')
  BY <1>1, <1>2, FS_Subset
<1> QED
  BY <1>3, FS_CardinalityType

LEMMA LetThroughStep ==
  ASSUME InviteMailAssumption, TypeInv, Unminted, LetThrough, [Next]_mailVars
  PROVE  LetThrough'
<1>0. /\ attempts \in [Tokens -> [phase : Phases, row : Rows \cup {AnyRow}]]
      /\ hits \in [Dests -> 0..DestCap] /\ leftFor \in [Dests -> Nat] /\ minted \in Nat
      /\ DestCap \in Nat
  BY DEF TypeInv, InviteMailAssumption
<1>1. SUFFICES ASSUME NEW d \in Dests
               PROVE  leftFor'[d] + Cardinality(OnTheWay(d)') <= hits'[d]
  BY DEF LetThrough
<1>2. leftFor[d] + Cardinality(OnTheWay(d)) <= hits[d] /\ hits[d] \in Nat /\ leftFor[d] \in Nat
  BY <1>0 DEF LetThrough
<1>f. /\ IsFiniteSet(OnTheWay(d)) /\ Cardinality(OnTheWay(d)) \in Nat
      /\ IsFiniteSet(OnTheWay(d)') /\ Cardinality(OnTheWay(d)') \in Nat
  BY OnTheWayFinite
<1>3. ASSUME NEW r \in Rows, Offer(r)
      PROVE  leftFor'[d] + Cardinality(OnTheWay(d)') <= hits'[d]
  <2>1. /\ attempts' = [attempts EXCEPT ![minted + 1] = [phase |-> "counted", row |-> r]]
        /\ UNCHANGED <<hits, leftFor>>
    BY <1>3 DEF Offer
  <2>2. minted + 1 \in Tokens => attempts[minted + 1].phase = "none"
    BY <1>0 DEF Unminted, Tokens
  <2>3. OnTheWay(d)' = OnTheWay(d)
    BY <1>0, <2>1, <2>2 DEF OnTheWay, RowOf
  <2> QED
    BY <1>2, <2>1, <2>3
<1>4. ASSUME NEW t \in Tokens, Proceed(t)
      PROVE  leftFor'[d] + Cardinality(OnTheWay(d)') <= hits'[d]
  <2>0. /\ \A s \in Tokens : attempts'[s].row = attempts[s].row
        /\ \A s \in Tokens \ {t} : attempts'[s].phase = attempts[s].phase
        /\ RowOf(t) \in Rows /\ RowOf(t)[2] \in Dests
    BY <1>4, ProceedIs DEF Rows
  <2>1. OnTheWay(d) \ {t} = OnTheWay(d)' \ {t}
    BY <2>0 DEF OnTheWay, RowOf, Tokens
  <2>2. CASE MaySend(t) /\ attempts'[t].phase = "spawned"
    <3>1. hits' = [hits EXCEPT ![RowOf(t)[2]] = @ + 1] /\ leftFor' = leftFor
          /\ attempts[t].phase = "written"
      <4>1. ~To(t, "done")
        BY <1>0, <2>2 DEF To
      <4> QED
        BY <2>2, <4>1 DEF MaySend, At
    <3>2. t \notin OnTheWay(d)
      BY <3>1 DEF OnTheWay
    <3>3. CASE d = RowOf(t)[2]
      <4>1. OnTheWay(d)' = OnTheWay(d) \cup {t}
        BY <2>0, <2>1, <2>2, <3>2, <3>3 DEF OnTheWay, RowOf, Tokens
      <4>2. Cardinality(OnTheWay(d)') = Cardinality(OnTheWay(d)) + 1
        BY <1>f, <3>2, <4>1, FS_AddElement
      <4>3. hits'[d] = hits[d] + 1 /\ leftFor'[d] = leftFor[d]
        BY <1>0, <3>1, <3>3
      <4> QED
        BY <1>2, <1>f, <4>2, <4>3
    <3>4. CASE d # RowOf(t)[2]
      <4>1. OnTheWay(d)' = OnTheWay(d)
        BY <2>0, <2>1, <3>2, <3>4 DEF OnTheWay, RowOf, Tokens
      <4>2. hits'[d] = hits[d] /\ leftFor'[d] = leftFor[d]
        BY <1>0, <3>1, <3>4
      <4> QED
        BY <1>2, <4>1, <4>2
    <3> QED
      BY <3>3, <3>4
  <2>3. CASE Send(t) /\ attempts'[t].phase = "sent"
    <3>1. /\ hits' = hits /\ leftFor' = [leftFor EXCEPT ![RowOf(t)[2]] = @ + 1]
          /\ attempts[t].phase = "stamped"
      BY <2>3 DEF Send, At
    <3>2. t \notin OnTheWay(d)'
      BY <2>3 DEF OnTheWay
    <3>3. CASE d = RowOf(t)[2]
      <4>1. t \in OnTheWay(d)
        BY <3>1, <3>3 DEF OnTheWay
      <4>2. OnTheWay(d)' = OnTheWay(d) \ {t}
        BY <2>1, <3>2
      <4>3. Cardinality(OnTheWay(d)') = Cardinality(OnTheWay(d)) - 1
        BY <1>f, <4>1, <4>2, FS_RemoveElement
      <4>4. hits'[d] = hits[d] /\ leftFor'[d] = leftFor[d] + 1
        BY <1>0, <3>1, <3>3
      <4> QED
        BY <1>2, <1>f, <4>3, <4>4
    <3>4. CASE d # RowOf(t)[2]
      <4>1. OnTheWay(d)' = OnTheWay(d)
        BY <2>1, <3>2, <3>4 DEF OnTheWay
      <4>2. hits'[d] = hits[d] /\ leftFor'[d] = leftFor[d]
        BY <1>0, <3>1, <3>4
      <4> QED
        BY <1>2, <4>1, <4>2
    <3> QED
      BY <3>3, <3>4
  <2>4. CASE ~(MaySend(t) /\ attempts'[t].phase = "spawned")
             /\ ~(Send(t) /\ attempts'[t].phase = "sent")
    <3>1. UNCHANGED <<hits, leftFor>>
      <4>1. MaySend(t) => UNCHANGED <<hits, leftFor>>
        <5>1. attempts' = [attempts EXCEPT ![t] = [@ EXCEPT !.phase = "spawned"]] =>
                attempts'[t].phase = "spawned"
          BY <1>0
        <5> QED
          BY <2>4, <5>1 DEF MaySend, To
      <4> QED
        BY <1>4, <2>4, <4>1 DEF Proceed, WriteOffer, MarkSending, Send, DeliveryRecord
    <3>2. attempts'[t].phase \in {"spawned", "stamped"} =>
            attempts[t].phase \in {"spawned", "stamped"}
      <4>1. CASE WriteOffer(t) \/ DeliveryRecord(t)
        <5>1. \E p \in {"done", "written"} : To(t, p)
          BY <4>1 DEF WriteOffer, DeliveryRecord
        <5> QED
          BY <1>0, <5>1 DEF To
      <4>2. CASE MaySend(t)
        <5>1. \E p \in {"done", "spawned"} : To(t, p)
          BY <4>2 DEF MaySend
        <5> QED
          BY <1>0, <2>4, <4>2, <5>1 DEF To
      <4>3. CASE MarkSending(t) \/ Send(t)
        BY <4>3 DEF MarkSending, Send, At
      <4> QED
        BY <1>4, <4>1, <4>2, <4>3 DEF Proceed
    <3>3. OnTheWay(d)' \in SUBSET OnTheWay(d)
      BY <2>0, <3>2 DEF OnTheWay, RowOf, Tokens
    <3>4. Cardinality(OnTheWay(d)') <= Cardinality(OnTheWay(d))
      BY <1>f, <3>3, FS_Subset
    <3> QED
      BY <1>2, <1>f, <3>1, <3>4
  <2> QED
    BY <2>2, <2>3, <2>4
<1>5. CASE Restart \/ DayPasses
  <2>1. OnTheWay(d)' = {}
    <3>1. \A t \in Tokens : attempts'[t].phase \in {"none", "done"}
      BY <1>0, <1>5 DEF Restart, DayPasses, Busy
    <3> QED
      BY <3>1 DEF OnTheWay, Tokens
  <2>2. leftFor'[d] = 0 /\ hits'[d] = 0
    BY <1>5 DEF Restart, DayPasses
  <2> QED
    BY <2>1, <2>2, FS_EmptySet
<1>6. CASE UNCHANGED <<attempts, hits, leftFor>>
  BY <1>2, <1>6 DEF OnTheWay, RowOf, Tokens
<1> QED
  BY <1>3, <1>4, <1>5, <1>6 DEF Next, mailVars, Settle, Delete, DeliverySweep

-----------------------------------------------------------------------------
(* Live invitations: only the write of an offer adds one, its own.           *)
Writes(t) ==
  /\ WriteOffer(t) /\ RowOf(t) \in Rows
  /\ rows' = [rows EXCEPT ![RowOf(t)] = Fresh("pending", t)]

LEMMA PendingChange ==
  ASSUME InviteMailAssumption, TypeInv, [Next]_mailVars
  PROVE  \/ \A q \in Rows : rows'[q].st = "pending" => rows[q].st = "pending"
         \/ \E t \in Tokens : Writes(t) /\ Proceed(t)
<1>0. rows \in [Rows -> RowSet]
  BY DEF TypeInv
<1>1. ASSUME NEW r \in Rows, Offer(r) \/ Settle(r) \/ Delete(r) \/ DeliverySweep(r),
             NEW q \in Rows, rows'[q].st = "pending"
      PROVE  rows[q].st = "pending"
  <2>1. /\ NoRow.st = "absent"
        /\ [rows[r] EXCEPT !.st = "settled"].st = "settled"
        /\ [rows[r] EXCEPT !.delivery = "failed", !.today = TRUE].st = rows[r].st
    BY <1>0 DEF RowSet, NoRow, Fresh
  <2>2. \/ UNCHANGED rows
        \/ rows' = [rows EXCEPT ![r] = [@ EXCEPT !.st = "settled"]]
        \/ rows' = [rows EXCEPT ![r] = NoRow]
        \/ rows' = [rows EXCEPT ![r] = [@ EXCEPT !.delivery = "failed", !.today = TRUE]]
    BY <1>1 DEF Offer, Settle, Delete, DeliverySweep
  <2> QED
    BY <1>0, <1>1, <2>1, <2>2
<1>2. ASSUME NEW t \in Tokens, Proceed(t), ~Writes(t), NEW q \in Rows, rows'[q].st = "pending"
      PROVE  rows[q].st = "pending"
  <2>0. RowOf(t) \in Rows /\ t \in 0..MaxOffers
    BY <1>2, ProceedIs DEF Tokens, InviteMailAssumption
  <2>1. CASE WriteOffer(t)
    <3>1. UNCHANGED rows \/ rows' = [rows EXCEPT ![RowOf(t)] = Fresh("settled", t)]
      BY <1>2, <2>0, <2>1 DEF WriteOffer, Writes
    <3> QED
      BY <1>0, <1>2, <2>0, <3>1, FreshIs
  <2>2. CASE MarkSending(t) \/ DeliveryRecord(t)
    <3>1. \/ UNCHANGED rows
          \/ rows' = [rows EXCEPT ![RowOf(t)] = [@ EXCEPT !.delivery = "sending"]]
          \/ rows' = [rows EXCEPT ![RowOf(t)] =
                        [@ EXCEPT !.delivery = attempts[t].phase, !.today = TRUE]]
      BY <2>2 DEF MarkSending, DeliveryRecord
    <3>2. \A row \in RowSet, o \in {"sending", attempts[t].phase} :
            /\ [row EXCEPT !.delivery = o].st = row.st
            /\ [row EXCEPT !.delivery = o, !.today = TRUE].st = row.st
      BY DEF RowSet
    <3> QED
      BY <1>0, <1>2, <2>0, <3>1, <3>2
  <2> QED
    BY <1>2, <2>1, <2>2 DEF Proceed, MaySend, Send
<1>3. ASSUME DayPasses, NEW q \in Rows, rows'[q].st = "pending"
      PROVE  rows[q].st = "pending"
  <2>1. rows'[q] = [rows[q] EXCEPT !.today = FALSE]
    BY <1>3 DEF DayPasses
  <2> QED
    BY <1>0, <1>3, <2>1 DEF RowSet
<1> QED
  BY <1>1, <1>2, <1>3 DEF Next, mailVars, Restart

LEMMA WritesLive ==
  ASSUME InviteMailAssumption, TypeInv, FiniteLive, NEW t \in Tokens, Writes(t)
  PROVE  /\ \A k \in Kinds : IsFiniteSet(LiveOf(k)')
         /\ IsFiniteSet(Live(RowOf(t))) /\ Cardinality(Live(RowOf(t))) \in Nat
         /\ \A k \in Kinds :
              Cardinality(LiveOf(k)') <= Cardinality(LiveOf(k))
                \/ Cardinality(LiveOf(k)') <= Cardinality(Live(RowOf(t))) + 1
<1> DEFINE r == RowOf(t)
<1>0. rows \in [Rows -> RowSet] /\ r \in Rows /\ r[1] \in Kinds /\ t \in 0..MaxOffers
  BY DEF TypeInv, Writes, Rows, Tokens, InviteMailAssumption
<1>1. \A q \in Rows : rows'[q].st = IF q = r THEN "pending" ELSE rows[q].st
  BY <1>0, FreshIs DEF Writes
<1>2. IsFiniteSet(Live(r)) /\ Cardinality(Live(r)) \in Nat
  <2>1. Live(r) \in SUBSET LiveOf(r[1]) /\ IsFiniteSet(LiveOf(r[1]))
    BY <1>0 DEF Live, LiveOf, FiniteLive
  <2> QED
    BY <2>1, FS_Subset, FS_CardinalityType
<1>3. ASSUME NEW k \in Kinds
      PROVE  /\ IsFiniteSet(LiveOf(k)')
             /\ Cardinality(LiveOf(k)') <= Cardinality(LiveOf(k))
                  \/ Cardinality(LiveOf(k)') <= Cardinality(Live(r)) + 1
  <2>0. IsFiniteSet(LiveOf(k)) /\ Cardinality(LiveOf(k)) \in Nat
    BY FS_CardinalityType DEF FiniteLive
  <2>1. CASE k = r[1]
    <3>1. LiveOf(k)' = Live(r) \cup {r}
      BY <1>0, <1>1, <2>1 DEF LiveOf, Live
    <3>2. /\ IsFiniteSet(Live(r) \cup {r})
          /\ Cardinality(Live(r) \cup {r}) = IF r \in Live(r) THEN Cardinality(Live(r))
                                             ELSE Cardinality(Live(r)) + 1
      BY <1>2, FS_AddElement
    <3> QED
      BY <1>2, <3>1, <3>2
  <2>2. CASE k # r[1]
    <3>1. LiveOf(k)' = LiveOf(k)
      BY <1>0, <1>1, <2>2 DEF LiveOf
    <3> QED
      BY <2>0, <3>1
  <2> QED
    BY <2>1, <2>2
<1> QED
  BY <1>2, <1>3

\* When no invitation becomes live, nothing that is counted grows.
LEMMA LiveShrinks ==
  ASSUME FiniteLive, \A q \in Rows : rows'[q].st = "pending" => rows[q].st = "pending"
  PROVE  /\ \A k \in Kinds : /\ IsFiniteSet(LiveOf(k)') /\ Cardinality(LiveOf(k)') \in Nat
                             /\ Cardinality(LiveOf(k)) \in Nat
                             /\ Cardinality(LiveOf(k)') <= Cardinality(LiveOf(k))
<1>1. ASSUME NEW k \in Kinds
      PROVE  /\ IsFiniteSet(LiveOf(k)') /\ Cardinality(LiveOf(k)') <= Cardinality(LiveOf(k))
             /\ IsFiniteSet(LiveOf(k))
  <2>1. LiveOf(k)' \in SUBSET LiveOf(k) /\ IsFiniteSet(LiveOf(k))
    BY DEF LiveOf, FiniteLive, Rows
  <2> QED
    BY <2>1, FS_Subset
<1> QED
  BY <1>1, FS_CardinalityType

LEMMA CountShrinks ==
  ASSUME FiniteLive, NEW r \in Rows,
         \A q \in Rows : rows'[q].st = "pending" => rows[q].st = "pending"
  PROVE  /\ Cardinality({q \in Rows : q[1] = r[1] /\ q # r /\ rows'[q].st = "pending"}) \in Nat
         /\ Cardinality(Live(r)) \in Nat
         /\ Cardinality({q \in Rows : q[1] = r[1] /\ q # r /\ rows'[q].st = "pending"})
              <= Cardinality(Live(r))
<1> DEFINE Left == {q \in Rows : q[1] = r[1] /\ q # r /\ rows'[q].st = "pending"}
<1>1. r[1] \in Kinds
  BY DEF Rows
<1>2. IsFiniteSet(LiveOf(r[1])) /\ Live(r) \in SUBSET LiveOf(r[1])
  BY <1>1 DEF FiniteLive, LiveOf, Live
<1>3. IsFiniteSet(Live(r)) /\ Left \in SUBSET Live(r)
  BY <1>2, FS_Subset DEF Live
<1>4. IsFiniteSet(Left) /\ Cardinality(Left) <= Cardinality(Live(r))
  BY <1>3, FS_Subset
<1> QED
  BY <1>3, <1>4, FS_CardinalityType

LEMMA FiniteLiveStep ==
  ASSUME InviteMailAssumption, TypeInv, FiniteLive, [Next]_mailVars
  PROVE  FiniteLive'
BY PendingChange, WritesLive, LiveShrinks DEF FiniteLive

LEMMA BusyIs ==
  ASSUME TypeInv, NEW t \in Tokens
  PROVE  t \in Busy <=> attempts[t].phase \notin {"none", "done"}
BY DEF Busy

LEMMA SerialStep ==
  ASSUME InviteMailAssumption, TypeInv, Unminted, FiniteLive, ~overlap, Serial,
         [Next]_mailVars
  PROVE  Serial'
<1>0. /\ attempts \in [Tokens -> [phase : Phases, row : Rows \cup {AnyRow}]]
      /\ \A t \in Tokens : attempts[t].phase # "none" => attempts[t].row \in Rows
      /\ LiveCap \in Nat
  BY DEF TypeInv, InviteMailAssumption
<1>1. WithinCap'
  <2>1. CASE \A q \in Rows : rows'[q].st = "pending" => rows[q].st = "pending"
    BY <1>0, <2>1, LiveShrinks DEF Serial, WithinCap
  <2>2. ASSUME NEW t \in Tokens, Writes(t)
        PROVE  WithinCap'
    <3>1. Cardinality(Live(RowOf(t))) < LiveCap
      BY <2>2 DEF Writes, WriteOffer, At, Serial, Counted
    <3>2. ASSUME NEW k \in Kinds
          PROVE  Cardinality(LiveOf(k)') <= LiveCap
      <4>1. Cardinality(LiveOf(k)) <= LiveCap /\ Cardinality(LiveOf(k)) \in Nat
            /\ Cardinality(LiveOf(k)') \in Nat
        BY <2>2, WritesLive, FS_CardinalityType DEF Serial, WithinCap, FiniteLive
      <4> QED
        BY <1>0, <2>2, <3>1, <4>1, WritesLive
    <3> QED
      BY <3>2 DEF WithinCap
  <2> QED
    BY <2>1, <2>2, PendingChange
<1>2. ASSUME NEW r \in Rows, Offer(r)
      PROVE  Alone' /\ Counted'
  <2>1. /\ \A t \in Tokens : attempts[t].phase \in {"none", "done"}
        /\ attempts' = [attempts EXCEPT ![minted + 1] = [phase |-> "counted", row |-> r]]
        /\ rows' = rows /\ Cardinality(Live(r)) < LiveCap
    BY <1>2, BusyIs DEF Offer
  <2>2. \A t \in Tokens : \/ attempts'[t].phase \in {"none", "done"}
                          \/ /\ t = minted + 1 /\ attempts'[t].row = r
    BY <1>0, <2>1
  <2>3. Alone'
    BY <2>2 DEF Alone, Busy
  <2>4. ASSUME NEW t \in Tokens, attempts'[t].phase = "counted"
        PROVE  Cardinality(Live(RowOf(t))') < LiveCap
    <3>1. attempts'[t].row = r
      BY <2>2, <2>4
    <3>2. Live(RowOf(t))' = Live(r)
      BY <2>1, <3>1 DEF Live, RowOf
    <3> QED
      BY <2>1, <3>2
  <2> QED
    BY <2>3, <2>4 DEF Counted
<1>3. ASSUME \A t \in Tokens : /\ attempts'[t].row = attempts[t].row
                               /\ attempts'[t].phase \notin {"none", "done"} => t \in Busy
                               /\ attempts'[t].phase = "counted" =>
                                    attempts[t].phase = "counted",
             (\A q \in Rows : rows'[q].st = "pending" => rows[q].st = "pending")
               \/ \A t \in Tokens : attempts'[t].phase # "counted"
      PROVE  Alone' /\ Counted'
  <2>1. Alone'
    BY <1>3 DEF Alone, Busy, Serial, Tokens
  <2>2. ASSUME NEW t \in Tokens, attempts'[t].phase = "counted"
        PROVE  Cardinality(Live(RowOf(t))') < LiveCap
    <3> DEFINE r == RowOf(t)
    <3>1. r \in Rows /\ attempts'[t].row = r /\ Cardinality(Live(r)) < LiveCap
      BY <1>0, <1>3, <2>2 DEF RowOf, Serial, Counted
    <3>2. Live(RowOf(t))' = {q \in Rows : q[1] = r[1] /\ q # r /\ rows'[q].st = "pending"}
      BY <3>1 DEF Live, RowOf, Rows
    <3> QED
      BY <1>0, <1>3, <2>2, <3>1, <3>2, CountShrinks
  <2> QED
    BY <2>1, <2>2 DEF Counted
<1>4. ASSUME NEW t \in Tokens, Proceed(t)
      PROVE  Alone' /\ Counted'
  <2>1. /\ attempts[t].phase \notin {"none", "done"} /\ t \in Busy
        /\ \A s \in Tokens : attempts'[s].row = attempts[s].row
        /\ \A s \in Tokens \ {t} : attempts'[s].phase = attempts[s].phase
        /\ attempts'[t].phase \notin {"none", "counted"}
    BY <1>4, ProceedIs, BusyIs
  <2>2. \A s \in Tokens \ {t} : attempts[s].phase \in {"none", "done"}
    BY <2>1, BusyIs DEF Serial, Alone
  <2>3. \A s \in Tokens : attempts'[s].phase # "counted"
    BY <2>1, <2>2
  <2> QED
    BY <1>3, <2>1, <2>2, <2>3
<1>5. ASSUME Restart
      PROVE  Alone' /\ Counted'
  <2>1. \A t \in Tokens : /\ attempts'[t].row = attempts[t].row
                          /\ attempts'[t].phase \in {"none", "done"}
    BY <1>0, <1>5 DEF Restart, Busy
  <2> QED
    BY <2>1 DEF Alone, Counted, Busy
<1>6. ASSUME attempts' = attempts
      PROVE  Alone' /\ Counted'
  <2>1. \A t \in Tokens : attempts'[t].phase \notin {"none", "done"} => t \in Busy
    BY <1>6, BusyIs
  <2>2. (\A q \in Rows : rows'[q].st = "pending" => rows[q].st = "pending")
           \/ \E t \in Tokens : Proceed(t)
    BY PendingChange
  <2> QED
    BY <1>3, <1>4, <1>6, <2>1, <2>2
<1>7. Alone' /\ Counted'
  <2>1. \/ \E r \in Rows : Offer(r)
        \/ \E t \in Tokens : Proceed(t)
        \/ Restart
        \/ attempts' = attempts
    BY DEF Next, mailVars, Settle, Delete, DeliverySweep, DayPasses
  <2> QED
    BY <1>2, <1>4, <1>5, <1>6, <2>1
<1> QED
  BY <1>1, <1>7 DEF Serial

-----------------------------------------------------------------------------
LEMMA MailInit ==
  ASSUME InviteMailAssumption, Init
  PROVE  MailInv
<1>0. 0 \in 0..MaxOffers /\ 0 \in 0..DestCap /\ LiveCap \in Nat /\ MaxOffers \in Nat
  BY DEF InviteMailAssumption
<1>1. attempts \in [Tokens -> [phase : Phases, row : Rows \cup {AnyRow}]]
      /\ \A t \in Tokens : attempts[t].phase = "none"
  <2>1. \A q \in {AnyRow} : /\ [phase |-> "none", row |-> q] \in [phase : Phases, row : Rows \cup {AnyRow}]
                            /\ [phase |-> "none", row |-> q].phase = "none"
    BY DEF Phases
  <2>2. attempts \in [Tokens -> {[phase |-> "none", row |-> q] : q \in {AnyRow}}]
    BY DEF Init, AnyRow
  <2> QED
    BY <2>1, <2>2
<1>2. rows = [r \in Rows |-> NoRow] /\ NoRow \in RowSet /\ NoRow.st = "absent"
      /\ NoRow.delivery = "none"
  BY <1>0, FreshIs DEF Init, NoRow
<1>3. TypeInv
  BY <1>0, <1>1, <1>2 DEF Init, TypeInv
<1>4. Unminted /\ SentLeft /\ ReceiptIsItsOwn
  BY <1>1, <1>2 DEF Unminted, SentLeft, ReceiptIsItsOwn
<1>5. LetThrough
  <2>1. \A d \in Dests : OnTheWay(d) = {} /\ leftFor[d] = 0 /\ hits[d] = 0
    BY <1>1 DEF OnTheWay, Init
  <2> QED
    BY <2>1, FS_EmptySet DEF LetThrough
<1>6. \A k \in Kinds : LiveOf(k) = {}
  BY <1>2 DEF LiveOf
<1>7. FiniteLive /\ WithinCap
  BY <1>0, <1>6, FS_EmptySet DEF FiniteLive, WithinCap
<1>8. Alone /\ Counted
  BY <1>1 DEF Alone, Counted, Busy
<1> QED
  BY <1>3, <1>4, <1>5, <1>7, <1>8 DEF MailInv, Serial

LEMMA MailStep ==
  ASSUME InviteMailAssumption, MailInv, [Next]_mailVars
  PROVE  MailInv'
<1>1. /\ TypeInv' /\ Unminted' /\ SentLeft' /\ ReceiptIsItsOwn' /\ LetThrough'
      /\ FiniteLive'
  BY TypeStep, UnmintedStep, SentLeftStep, ReceiptStep, LetThroughStep, FiniteLiveStep
  DEF MailInv
<1>2. overlap' = overlap
  BY ProceedIs
  DEF MailInv, Next, mailVars, Offer, Settle, Delete, DeliverySweep, Restart, DayPasses
<1>3. ~overlap' => Serial'
  BY <1>2, SerialStep DEF MailInv
<1> QED
  BY <1>1, <1>3 DEF MailInv

THEOREM MailInvariant ==
  ASSUME InviteMailAssumption
  PROVE  Spec => []MailInv
<1>1. Init => MailInv
  BY MailInit
<1>2. MailInv /\ [Next]_mailVars => MailInv'
  BY MailStep
<1> QED
  BY <1>1, <1>2, PTL DEF Spec

\* The live invitations of a kind are as many as the addresses that have one.
LEMMA LiveByAddress ==
  ASSUME MailInv, NEW k \in Kinds
  PROVE  /\ Cardinality({d \in Dests : rows[<<k, d>>].st = "pending"}) <= Cardinality(LiveOf(k))
         /\ Cardinality({d \in Dests : rows[<<k, d>>].st = "pending"}) \in Nat
<1> DEFINE D == {d \in Dests : rows[<<k, d>>].st = "pending"}
           f == [q \in LiveOf(k) |-> q[2]]
<1>1. IsFiniteSet(LiveOf(k))
  BY DEF MailInv, FiniteLive
<1>2. \A q \in LiveOf(k) : q[2] \in D
  BY DEF LiveOf, Rows
<1>3. ASSUME NEW d \in D
      PROVE  \E q \in LiveOf(k) : f[q] = d
  <2>1. <<k, d>> \in LiveOf(k)
    BY DEF LiveOf, Rows
  <2> QED
    BY <2>1
<1>4. f \in Surjection(LiveOf(k), D)
  BY <1>2, <1>3 DEF Surjection
<1> QED
  BY <1>1, <1>4, FS_Surjection, FS_CardinalityType

(* However offers, tasks, revocations and restarts interleave: a row says    *)
(* `sent` only if a message with its own token left, and no more leave for   *)
(* an address in a day than its cap; of offers taken one at a time no more   *)
(* invitations live than the cap allows (share.rs, org.rs, mailer.rs).       *)
THEOREM MailSafe ==
  ASSUME InviteMailAssumption
  PROVE  Spec => []MailIsAccounted
<1>1. ASSUME MailInv
      PROVE  DestinationBound
  <2>1. SUFFICES ASSUME NEW d \in Dests PROVE leftFor[d] <= DestCap
    BY DEF DestinationBound
  <2>2. /\ leftFor[d] \in Nat /\ hits[d] \in 0..DestCap /\ DestCap \in Nat
        /\ leftFor[d] + Cardinality(OnTheWay(d)) <= hits[d]
    BY <1>1 DEF MailInv, TypeInv, LetThrough, InviteMailAssumption
  <2>3. Cardinality(OnTheWay(d)) \in Nat
    BY OnTheWayFinite
  <2> QED
    BY <2>2, <2>3
<1>2. ASSUME MailInv
      PROVE  LiveBound
  <2>1. SUFFICES ASSUME ~overlap, NEW k \in Kinds
                 PROVE  Cardinality({d \in Dests : rows[<<k, d>>].st = "pending"}) <= LiveCap
    BY DEF LiveBound
  <2> DEFINE D == {d \in Dests : rows[<<k, d>>].st = "pending"}
  <2>2. Cardinality(LiveOf(k)) <= LiveCap /\ Cardinality(D) <= Cardinality(LiveOf(k))
    BY <1>2, <2>1, LiveByAddress DEF MailInv, Serial, WithinCap
  <2>3. Cardinality(LiveOf(k)) \in Nat /\ LiveCap \in Nat
    BY <1>2, FS_CardinalityType DEF MailInv, FiniteLive, InviteMailAssumption
  <2>4. Cardinality(D) \in Nat
    BY <1>2, LiveByAddress
  <2> QED
    BY <2>2, <2>3, <2>4
<1>3. MailInv => MailIsAccounted
  BY <1>1, <1>2 DEF MailInv, MailIsAccounted
<1> QED
  BY <1>3, MailInvariant, PTL
=============================================================================
