------------------------------- MODULE Billing -------------------------------
(* The billing mirror of a multi-tenant hub (crates/hub/src/billing.rs over  *)
(* the billing functions of db.rs). The truth about subscriptions is Stripe's*)
(* and the hub keeps a copy, in the row of the user or of the team: a        *)
(* webhook fetches the subscription an event names and applies what it got   *)
(* in one transaction with the event's id, and a nightly pass compares the   *)
(* rows it read with a paged listing of all subscriptions.                   *)
(*                                                                           *)
(* Events come late, several times, in any order or never; the subscription  *)
(* may change between the fetch and the transaction, and so may the row      *)
(* between the night's read and its write. One account per behaviour, of     *)
(* either kind: no statement touches two. Subscriptions are numbered in the  *)
(* order they are created; the listing gives the newest first.               *)
EXTENDS Naturals, FiniteSets

CONSTANTS Kinds,       \* "user" and "team" accounts
          MaxSubs,     \* bound on the subscriptions of the account
          MaxEvents,   \* bound on the events of a behaviour
          MaxSeats,    \* bound on a subscription's quantity
          Callers,     \* webhook requests in progress at once
          ListingFails \* a page of the listing may fail

BillingAssumption ==
  /\ Kinds \subseteq {"user", "team"} /\ ListingFails \in BOOLEAN
  /\ MaxSubs \in Nat \ {0} /\ MaxEvents \in Nat /\ MaxSeats \in Nat \ {0}

VARIABLES kind,        \* what the account is: fixed for the behaviour
          stripe,      \* Stripe: the subscriptions
          row,         \* the billing columns of the account
          events,      \* events Stripe has emitted: id -> what it names
          recorded,    \* billing_events
          calls,       \* webhook requests in progress
          night,       \* the nightly pass
          applied      \* history: times each event was applied

billVars == <<kind, stripe, row, events, recorded, calls, night, applied>>

Subs == 1..MaxSubs
Events == 1..MaxEvents
Paid == {"active", "past_due"}
SubStatus == {"none", "incomplete", "canceled"} \cup Paid
Idle == [op |-> "idle"]

\* A team's plan column always says team; its seats are what it confers.
Plans == {"free", "beta", "pro", "team"}
RowType == [plan : Plans, prior : Plans \cup {"none"}, status : {"none", "canceled"} \cup Paid,
            sub : 0..MaxSubs, known : BOOLEAN, seats : 0..MaxSeats]

TypeOK ==
  /\ kind \in Kinds
  /\ stripe \in [Subs -> [st : SubStatus, qty : 1..MaxSeats]]
  /\ row \in RowType
  /\ \A e \in DOMAIN events : events[e] \in [checkout : BOOLEAN, sub : Subs]
  /\ recorded \subseteq Events
  /\ \A c \in Callers : calls[c] = Idle \/ calls[c].op = "apply"
  /\ night.op \in {"idle", "list", "page", "gone"}
  /\ applied \in [Events -> 0..2]

Init ==
  /\ kind \in Kinds
  /\ stripe = [s \in Subs |-> [st |-> "none", qty |-> 1]]
  /\ row \in {[plan |-> p, prior |-> "none", status |-> "none", sub |-> 0,
               known |-> FALSE, seats |-> 0] :
                p \in IF kind = "user" THEN {"free", "beta"} ELSE {"team"}}
  /\ events = [e \in {} |-> Idle] /\ recorded = {}
  /\ calls = [c \in Callers |-> Idle]
  /\ night = Idle /\ applied = [e \in Events |-> 0]

-----------------------------------------------------------------------------
(* Stripe. A checkout creates a subscription of the account's customer, its  *)
(* status changes, and every change may emit an event.                       *)
Emit(checkout, s) ==
  \/ /\ Cardinality(DOMAIN events) < MaxEvents
     /\ events' = [e \in DOMAIN events \cup {Cardinality(DOMAIN events) + 1} |->
                     IF e \in DOMAIN events THEN events[e] ELSE [checkout |-> checkout, sub |-> s]]
  \/ ~checkout /\ UNCHANGED events

\* checkout: a team that has a subscription is refused, a user is not.
Checkout(s) ==
  /\ stripe[s].st = "none" /\ \A r \in Subs : r < s => stripe[r].st # "none"
  /\ kind = "team" => row.status \notin Paid
  /\ \E q \in 1..(IF kind = "team" THEN MaxSeats ELSE 1) :
       stripe' = [stripe EXCEPT ![s] = [st |-> "active", qty |-> q]]
  /\ Emit(TRUE, s)
  /\ UNCHANGED <<kind, row, recorded, calls, night, applied>>

SubscriptionChanges(s) ==
  /\ stripe[s].st \in Paid
  /\ \/ \E st \in Paid \cup {"canceled"} :
          st # stripe[s].st /\ stripe' = [stripe EXCEPT ![s].st = st]
     \/ \E q \in 1..MaxSeats :
          kind = "team" /\ q # stripe[s].qty /\ stripe' = [stripe EXCEPT ![s].qty = q]
  /\ Emit(FALSE, s)
  /\ UNCHANGED <<kind, row, recorded, calls, night, applied>>

-----------------------------------------------------------------------------
(* sub_to_apply and apply_sub_state, apply_org_sub_state. A paid state       *)
(* activates the plan, remembering once the plan it replaces; a terminal one *)
(* restores that plan, or takes the seats, and clears the subscription.      *)
Applied(r, s, sub) ==
  IF sub.st \in Paid
  THEN [r EXCEPT !.plan = IF kind = "user" THEN "pro" ELSE @,
                 !.prior = IF kind = "user" /\ @ = "none" THEN r.plan ELSE @,
                 !.status = sub.st, !.sub = s, !.known = TRUE,
                 !.seats = IF kind = "team" THEN sub.qty ELSE @]
  ELSE [r EXCEPT !.plan = IF kind # "user" THEN @ ELSE IF r.prior = "none" THEN "free" ELSE r.prior,
                 !.status = "canceled", !.sub = 0, !.known = TRUE, !.seats = 0]

Persisted(sub) == sub.st \in Paid \cup {"canceled"}

(* The webhook: verify, then fetch what the event names. A fetch that fails  *)
(* answers 502 and leaves everything as it is.                               *)
Fetch(c, e) ==
  /\ calls[c] = Idle /\ e \in DOMAIN events
  /\ applied[e] < 2
  /\ calls' = [calls EXCEPT ![c] = [op |-> "apply", event |-> e, got |-> stripe[events[e].sub]]]
  /\ UNCHANGED <<kind, stripe, row, events, recorded, night, applied>>

(* A checkout names the account itself; any other event is resolved by the   *)
(* customer, which the row knows once something was applied. What cannot be  *)
(* resolved is answered without recording the event. The insert of the event *)
(* id and the state change are one transaction.                              *)
SlipIsNew(e) == row.sub # events[e].sub
IsNew(e) == e \notin recorded

Apply(c) ==
  LET e == calls[c].event
      ev == events[e] IN
  /\ calls[c] # Idle
  /\ calls' = [calls EXCEPT ![c] = Idle]
  /\ IF (ev.checkout \/ row.known) /\ Persisted(calls[c].got) /\ IsNew(e)
     THEN /\ recorded' = recorded \cup {e}
          /\ row' = Applied(row, ev.sub, calls[c].got)
          /\ applied' = [applied EXCEPT ![e] = @ + 1]
     ELSE UNCHANGED <<row, recorded, applied>>
  /\ UNCHANGED <<kind, stripe, events, night>>

\* The hub stops: a webhook not yet committed is as if it had not come.
Restart ==
  /\ night # Idle \/ \E c \in Callers : calls[c] # Idle
  /\ calls' = [c \in Callers |-> Idle] /\ night' = Idle
  /\ UNCHANGED <<kind, stripe, row, events, recorded, applied>>

\* set_plan, the operator's command: the plan alone, never team.
SetPlan(p) ==
  /\ kind = "user" /\ row.plan # p
  /\ row' = [row EXCEPT !.plan = p]
  /\ UNCHANGED <<kind, stripe, events, recorded, calls, night, applied>>

-----------------------------------------------------------------------------
(* reconcile: the rows that carry billing state are read once; the listing   *)
(* is then paged, newest first, each page's subscriptions compared with the  *)
(* row as it was read; last, a row whose subscription was not listed is      *)
(* downgraded. A page that fails ends the listing, not the pass.             *)
NightBegins ==
  /\ night = Idle
  /\ row.known \/ row.status # "none"
  /\ night' = [op |-> "list", row |-> row, next |-> MaxSubs, seen |-> {},
              got |-> stripe[1]]
  /\ UNCHANGED <<kind, stripe, row, events, recorded, calls, applied>>

\* Nothing of the account in the listing, or no row to compare it with.
Listed(s) == stripe[s].st # "none"

NightPage ==
  /\ night.op = "list"
  /\ LET s == night.next IN
     night' = IF s = 0 THEN [night EXCEPT !.op = "gone"]
              ELSE IF ~Listed(s) THEN [night EXCEPT !.next = s - 1]
              ELSE [night EXCEPT !.op = "page", !.seen = @ \cup {s}, !.got = stripe[s]]
  /\ UNCHANGED <<kind, stripe, row, events, recorded, calls, applied>>

NightPageFails ==
  /\ ListingFails /\ night.op = "list" /\ night.next # 0
  /\ night' = [night EXCEPT !.op = "gone"]
  /\ UNCHANGED <<kind, stripe, row, events, recorded, calls, applied>>

\* reconcile_apply, reconcile_apply_org: does the row read agree already?
SlipAgrees(r, sub) == IF sub.st \in Paid THEN r.status = sub.st ELSE r.status = "canceled"
Agrees(r, sub) ==
  IF sub.st \in Paid
  THEN r.status = sub.st /\ (IF kind = "user" THEN r.plan = "pro" ELSE r.seats = sub.qty)
  ELSE r.status = "canceled" /\ (kind = "team" => r.seats = 0)

NightCompares ==
  /\ night.op = "page"
  /\ row' = IF row.known /\ Persisted(night.got) /\ ~Agrees(night.row, night.got)
            THEN Applied(row, night.next, night.got) ELSE row
  /\ night' = [night EXCEPT !.op = "list", !.next = @ - 1]
  /\ UNCHANGED <<kind, stripe, events, recorded, calls, applied>>

Gone == night.row.sub = 0 \/ night.row.sub \notin night.seen

NightEnds ==
  /\ night.op = "gone"
  /\ row' = IF Gone /\ night.row.status \in Paid
            THEN Applied(row, 0, [st |-> "canceled", qty |-> 1]) ELSE row
  /\ night' = Idle
  /\ UNCHANGED <<kind, stripe, events, recorded, calls, applied>>

Night == NightPage \/ NightCompares \/ NightEnds

Next ==
  \/ \E s \in Subs : Checkout(s) \/ SubscriptionChanges(s)
  \/ \E c \in Callers : Apply(c) \/ \E e \in Events : Fetch(c, e)
  \/ \E p \in {"free", "beta"} : SetPlan(p)
  \/ Restart \/ NightBegins \/ Night \/ NightPageFails

(* A transaction ends, every night comes, and the nightly pass is not for    *)
(* ever cut short. Stripe's own moves and its deliveries are not assumed.    *)
Fairness ==
  /\ \A c \in Callers : WF_billVars(Apply(c))
  /\ WF_billVars(NightBegins)
  /\ WF_billVars(NightPage) /\ WF_billVars(NightCompares) /\ WF_billVars(NightEnds)

Spec == Init /\ [][Next]_billVars /\ Fairness

-----------------------------------------------------------------------------
Subscribed == \E s \in Subs : stripe[s].st \in Paid
Confers == IF kind = "user" THEN row.plan = "pro" ELSE row.seats > 0

(* An event is applied at most once, however many deliveries of it are being *)
(* processed at the same moment.                                             *)
AppliedOnce == \A e \in Events : applied[e] < 2

(* A lapsed user falls back to the plan that the first subscription          *)
(* replaced, in whatever order events and nightly passes were applied.       *)
Lapses ==
  row'.status = "canceled" /\ row.status # "canceled" /\ kind = "user" /\ row.prior # "none"
    => row'.plan = row.prior
PriorPlanKept == [][Lapses]_billVars

(* Whatever was lost, repeated or applied out of order, the mirror comes to  *)
(* agree with Stripe for good, unless Stripe, the operator or restarts never *)
(* leave the account alone. What cannot be resolved to it is not its own.    *)
Mirrors == row.known => (Confers <=> Subscribed)
Disturbed ==
  Restart \/ (\E p \in Plans : SetPlan(p)) \/ (\E s \in Subs : SubscriptionChanges(s))

MirrorSettles == <>[]Mirrors \/ []<><<Disturbed>>_billVars

(* The rule get_subscription states for its own failures: a failure of       *)
(* Stripe to answer never takes a paid plan away.                            *)
DowngradesTheGone == NightEnds /\ row' # row => ~Subscribed
FailureNeverDowngrades == [][DowngradesTheGone]_billVars
=============================================================================
