----------------------------- MODULE InviteMail -----------------------------
(* Mailing an invitation (crates/hub/src/share.rs and org.rs over db.rs and  *)
(* mailer.rs). An invitation is a row of org_invites or email_invites with a *)
(* link token; offering it again keeps the row and mints a fresh token. The  *)
(* handler answers at once and leaves the mail to a task of its own, which   *)
(* stamps the row `sending`, hands the message to the relay and records what *)
(* became of it. A revocation, an acceptance, another offer and a restart of *)
(* the hub can come between any two of these.                                *)
(*                                                                           *)
(* Every offer mints one token, and the offer and its task are named by it.  *)
(* One inviter, one team. A message takes 20 s at most and a stamp counts as *)
(* stuck after 300 s, so the sweep is modelled as meeting only stamps whose  *)
(* task has ended. A day of the rolling windows passes as a whole.           *)
EXTENDS Naturals, FiniteSets

CONSTANTS Kinds,       \* "team" and "share" invitations
          Dests,       \* addresses
          MaxOffers,   \* bound on the offers of a behaviour
          LiveCap,     \* ORG_INVITE_CAP, EMAIL_INVITE_CAP
          DayCap,      \* ORG_MAIL_PER_DAY, HUB_MAIL_PER_DAY: the tighter one
          DestCap      \* DEST_MAILS_PER_DAY

InviteMailAssumption ==
  /\ Kinds \subseteq {"team", "share"}
  /\ MaxOffers \in Nat /\ LiveCap \in Nat /\ DayCap \in Nat /\ DestCap \in Nat

VARIABLES overlap,     \* offers may be in progress together: fixed
          rows,        \* the invitation of each kind to each address
          attempts,    \* offer and mail task of each token
          minted,      \* tokens minted so far
          hits,        \* messages let through to an address, in memory
          mailed,      \* history: the tokens of the messages that left
          leftFor      \* history: messages to each address in this life and day

mailVars == <<overlap, rows, attempts, minted, hits, mailed, leftFor>>

Rows == Kinds \X Dests
Tokens == 1..MaxOffers
Outcomes == {"sent", "failed"}       \* a rejection is recorded like a failure
Phases == {"none", "counted", "written", "spawned", "stamped", "done"} \cup Outcomes
Fresh(st, t) == [st |-> st, token |-> t, delivery |-> "none", today |-> FALSE]
NoRow == Fresh("absent", 0)

TypeOK ==
  /\ overlap \in BOOLEAN
  /\ rows \in [Rows -> [st : {"absent", "pending", "settled"}, token : 0..MaxOffers,
                        delivery : {"none", "sending"} \cup Outcomes, today : BOOLEAN]]
  /\ attempts \in [Tokens -> [phase : Phases, row : Rows]]
  /\ minted \in 0..MaxOffers
  /\ hits \in [Dests -> 0..DestCap]
  /\ mailed \subseteq Tokens /\ leftFor \in [Dests -> 0..MaxOffers]

Init ==
  /\ overlap \in BOOLEAN
  /\ rows = [r \in Rows |-> NoRow]
  /\ attempts \in [Tokens -> {[phase |-> "none", row |-> r] : r \in {CHOOSE q \in Rows : TRUE}}]
  /\ minted = 0 /\ hits = [d \in Dests |-> 0]
  /\ mailed = {} /\ leftFor = [d \in Dests |-> 0]

Busy == {t \in Tokens : attempts[t].phase \notin {"none", "done"}}
At(t, phase) == attempts[t].phase = phase
To(t, phase) == attempts' = [attempts EXCEPT ![t].phase = phase]
RowOf(t) == attempts[t].row

-----------------------------------------------------------------------------
(* The offer: the live invitations, this row's left out, are counted, and    *)
(* the row is written after that. A row already accepted is answered as it   *)
(* is; otherwise it gets the new token and an empty receipt. A share to an   *)
(* address with an account is written converted and never counts.            *)
Live(r) == {q \in Rows : q[1] = r[1] /\ q # r /\ rows[q].st = "pending"}

Offer(r) ==
  /\ minted < MaxOffers /\ (overlap \/ Busy = {})
  /\ Cardinality(Live(r)) < LiveCap
  /\ minted' = minted + 1
  /\ attempts' = [attempts EXCEPT ![minted + 1] = [phase |-> "counted", row |-> r]]
  /\ UNCHANGED <<overlap, rows, hits, mailed, leftFor>>

WriteOffer(t) ==
  LET r == RowOf(t) IN
  /\ At(t, "counted")
  /\ \/ /\ r[1] = "team" /\ rows[r].st = "settled"
        /\ To(t, "done") /\ UNCHANGED rows
     \/ /\ rows' = [rows EXCEPT ![r] = Fresh("pending", t)]
        /\ To(t, "written")
     \/ /\ r[1] = "share"
        /\ rows' = [rows EXCEPT ![r] = Fresh("settled", t)]
        /\ To(t, "written")
  /\ UNCHANGED <<overlap, minted, hits, mailed, leftFor>>

(* may_send_invite_mail: the receipts of the day are counted, then the       *)
(* address's window is taken, under one lock. Over a ceiling the invitation  *)
(* stands and no task is spawned.                                            *)
SentToday == {r \in Rows : rows[r].today}
SlipDestinationOverCap(d) == hits[d] > DestCap
DestinationOverCap(d) == hits[d] >= DestCap

MaySend(t) ==
  LET d == RowOf(t)[2] IN
  /\ At(t, "written")
  /\ IF Cardinality(SentToday) >= DayCap \/ DestinationOverCap(d)
     THEN To(t, "done") /\ UNCHANGED hits
     ELSE To(t, "spawned") /\ hits' = [hits EXCEPT ![d] = @ + 1]
  /\ UNCHANGED <<overlap, rows, minted, mailed, leftFor>>

(* The task. Stamping is guarded by the row id and token, and for a team by  *)
(* the row being pending; it gives up if that writes nothing. The receipt is *)
(* guarded by the id and token alone.                                        *)
SlipCurrent(t) == rows[RowOf(t)].st # "absent"
Current(t) == rows[RowOf(t)].st # "absent" /\ rows[RowOf(t)].token = t

MarkSending(t) ==
  LET r == RowOf(t) IN
  /\ At(t, "spawned")
  /\ IF Current(t) /\ (r[1] = "team" => rows[r].st = "pending")
     THEN To(t, "stamped") /\ rows' = [rows EXCEPT ![r].delivery = "sending"]
     ELSE To(t, "done") /\ UNCHANGED rows
  /\ UNCHANGED <<overlap, minted, hits, mailed, leftFor>>

Send(t) ==
  /\ At(t, "stamped")
  /\ \E o \in Outcomes : To(t, o)
  /\ \/ attempts'[t].phase = "sent"
        /\ mailed' = mailed \cup {t}
        /\ leftFor' = [leftFor EXCEPT ![RowOf(t)[2]] = @ + 1]
     \/ attempts'[t].phase # "sent" /\ UNCHANGED <<mailed, leftFor>>
  /\ UNCHANGED <<overlap, rows, minted, hits>>

DeliveryRecord(t) ==
  LET o == attempts[t].phase IN
  /\ o \in Outcomes
  /\ To(t, "done")
  /\ rows' = IF Current(t)
             THEN [rows EXCEPT ![RowOf(t)].delivery = o, ![RowOf(t)].today = TRUE]
             ELSE rows
  /\ UNCHANGED <<overlap, minted, hits, mailed, leftFor>>

(* Meanwhile: a team row is answered, revoked or expires and stays; a share  *)
(* row is converted or expires and stays, or is deleted by a revocation, the *)
(* unlinking of the machine or the sweep.                                    *)
Settle(r) ==
  /\ rows[r].st = "pending"
  /\ rows' = [rows EXCEPT ![r].st = "settled"]
  /\ UNCHANGED <<overlap, attempts, minted, hits, mailed, leftFor>>

Delete(r) ==
  /\ rows[r].st # "absent"
  /\ r[1] = "share" \/ rows[r].st = "settled"
  /\ rows' = [rows EXCEPT ![r] = NoRow]
  /\ UNCHANGED <<overlap, attempts, minted, hits, mailed, leftFor>>

Stuck(r) == rows[r].delivery = "sending" /\ \A t \in Busy : ~(Current(t) /\ RowOf(t) = r)

\* invite_delivery_sweep: a stamp whose task is gone is a failed attempt.
DeliverySweep(r) ==
  /\ Stuck(r)
  /\ rows' = [rows EXCEPT ![r].delivery = "failed", ![r].today = TRUE]
  /\ UNCHANGED <<overlap, attempts, minted, hits, mailed, leftFor>>

Restart ==
  /\ Busy # {}
  /\ attempts' = [t \in Tokens |-> IF t \in Busy THEN [attempts[t] EXCEPT !.phase = "done"]
                                   ELSE attempts[t]]
  /\ hits' = [d \in Dests |-> 0] /\ leftFor' = [d \in Dests |-> 0]
  /\ UNCHANGED <<overlap, rows, minted, mailed>>

\* A day without a task in progress: the windows and the receipts age out.
DayPasses ==
  /\ Busy = {} /\ (\E d \in Dests : hits[d] > 0)
  /\ hits' = [d \in Dests |-> 0] /\ leftFor' = [d \in Dests |-> 0]
  /\ rows' = [r \in Rows |-> [rows[r] EXCEPT !.today = FALSE]]
  /\ UNCHANGED <<overlap, attempts, minted, mailed>>

Proceed(t) == WriteOffer(t) \/ MaySend(t) \/ MarkSending(t) \/ Send(t) \/ DeliveryRecord(t)

Next ==
  \/ \E r \in Rows : Offer(r) \/ Settle(r) \/ Delete(r) \/ DeliverySweep(r)
  \/ \E t \in Tokens : Proceed(t)
  \/ Restart \/ DayPasses

(* A statement and a message end; the sweep runs every few minutes.          *)
Fairness ==
  /\ \A t \in Tokens : WF_mailVars(Proceed(t))
  /\ \A r \in Rows : WF_mailVars(DeliverySweep(r))

Spec == Init /\ [][Next]_mailVars /\ Fairness

-----------------------------------------------------------------------------
(* A receipt speaks of the link the row has now: `sent` means that a message *)
(* with this very token left, however many offers and attempts overlapped.   *)
ReceiptIsItsOwn ==
  \A r \in Rows : rows[r].delivery = "sent" => rows[r].token \in mailed

(* However many offers to one address run together, no more messages leave   *)
(* for it in a day than its cap, as long as the hub is not restarted.        *)
DestinationBound == \A d \in Dests : leftFor[d] <= DestCap

(* Offers taken one at a time leave no more live invitations than the cap.   *)
LiveBound ==
  ~overlap => \A k \in Kinds :
     Cardinality({d \in Dests : rows[<<k, d>>].st = "pending"}) <= LiveCap

(* What is written about mail, and how much of it leaves.                    *)
MailIsAccounted == ReceiptIsItsOwn /\ DestinationBound /\ LiveBound

(* No row says `sending` for ever, though a restart loses the task that      *)
(* would have settled it.                                                    *)
Sending(r) == rows[r].delivery = "sending"
StampsSettle == \A r \in Rows : Sending(r) ~> ~Sending(r)
=============================================================================
