------------------------------- MODULE Sharing -------------------------------
(* Personal sharing on a multi-tenant hub (crates/hub/src/share.rs over the  *)
(* store in db.rs): one owner offers one resource of one machine (the whole  *)
(* machine or one session) to one person, named by an email address.         *)
(*                                                                           *)
(* An offer is a share_invites row; accepting it writes a row of `shares`,   *)
(* which is what the visibility predicate reads. An address with no account  *)
(* gets an email_invites row instead, turned into an offer when an account   *)
(* with that address appears. No statement of the store touches the rows of  *)
(* two (grantee, resource) pairs, so one pair per behaviour loses nothing;   *)
(* `slice` says which kind of resource it is.                                *)
(*                                                                           *)
(* Every store function is a sequence of separate statements on a pool of    *)
(* connections, awaited one by one: a call is a record that remembers what   *)
(* it read, and each statement is a step. Only three statements are guarded  *)
(* by what they overwrite. `overlap` says whether two requests may be in     *)
(* progress together; a hub serves requests concurrently, and the behaviours *)
(* without overlap show what the handlers promise one at a time.             *)
EXTENDS Naturals, FiniteSets

CONSTANTS Slices,      \* the kinds of resource: "agent" and "session"
          Rows,        \* ids of share_invites rows
          GrantIds,    \* ids of shares rows
          Callers,     \* requests in progress at once
          NoRow        \* no invite row

SharingAssumption ==
  /\ Slices \subseteq {"agent", "session"} /\ Slices # {}
  /\ NoRow \notin Rows

VARIABLES slice,       \* which resource: fixed for the behaviour
          overlap,     \* requests may overlap: fixed for the behaviour
          linked,      \* the machine's agents row exists
          account,     \* the grantee's address has an account
          invites,     \* share_invites: row id -> its status
          overdue,     \* pending invites past expires_at
          grants,      \* shares: the ids of the grantee's grants
          email,       \* the email_invites row of the address
          calls,       \* the requests in progress
          answers,     \* history: answers that succeeded on the latest offer
          consented    \* history: the grantee has accepted at least once

sharingVars == <<slice, overlap, linked, account, invites, overdue, grants,
                 email, calls, answers, consented>>

Terminal == {"declined", "revoked", "expired"}
Statuses == {"absent", "pending", "accepted"} \cup Terminal
EmailStates == {"none", "live", "overdue", "converted"}

Idle == [op |-> "idle"]
Call(op, row, saw) == [op |-> op, row |-> row, saw |-> saw]
\* What a call is about to do next.
Steps == {"offerWrite", "mintLink", "mailWrite", "expire", "accept", "decline",
          "grantRead", "grantWrite", "revokeWrite", "strip", "leaveDelete",
          "settle", "attachRead", "attachWrite", "convert"}

TypeOK ==
  /\ slice \in Slices /\ overlap \in BOOLEAN
  /\ linked \in BOOLEAN /\ account \in BOOLEAN /\ consented \in BOOLEAN
  /\ invites \in [Rows -> Statuses]
  /\ overdue \in SUBSET Rows
  /\ grants \in SUBSET GrantIds
  /\ email \in EmailStates
  /\ answers \in [Rows -> 0..2]
  /\ \A c \in Callers :
       calls[c] = Idle \/ calls[c] \in [op : Steps, row : Rows \cup GrantIds \cup {NoRow},
                                        saw : Statuses \cup {"present"}]

Init ==
  /\ slice \in Slices /\ overlap \in BOOLEAN
  /\ linked = TRUE /\ account = FALSE      \* SignUp may come at once
  /\ invites = [r \in Rows |-> "absent"] /\ overdue = {} /\ grants = {}
  /\ email = "none"
  /\ calls = [c \in Callers |-> Idle]
  /\ answers = [r \in Rows |-> 0] /\ consented = FALSE

Present == {r \in Rows : invites[r] # "absent"}
Quiet == \A c \in Callers : calls[c] = Idle
MayStart(c) == calls[c] = Idle /\ (overlap \/ Quiet)
At(c, op) == calls[c].op = op
Goto(c, op, row, saw) == calls' = [calls EXCEPT ![c] = Call(op, row, saw)]
Done(c) == calls' = [calls EXCEPT ![c] = Idle]

-----------------------------------------------------------------------------
(* share_create: assert_owns and the SELECT of an existing row, then the     *)
(* UPDATE or INSERT. An accepted row is left alone; any other is offered     *)
(* again. A second row for the same machine is possible because a NULL       *)
(* session is distinct under the UNIQUE key; a second row for the same       *)
(* session is refused by it.                                                 *)
ReadOffer(c, step) ==
  /\ linked
  /\ \/ \E r \in Present : Goto(c, step, r, invites[r])
     \/ Present = {} /\ Goto(c, step, NoRow, "absent")

Offered(r) ==
  /\ invites' = [invites EXCEPT ![r] = "pending"]
  /\ overdue' = overdue \ {r}
  /\ answers' = [answers EXCEPT ![r] = 0]

WriteOffer(c, after) ==
  LET row == calls[c].row IN
  \/ /\ calls[c].saw = "accepted"
     /\ after
     /\ UNCHANGED <<invites, overdue, answers>>
  \/ /\ row # NoRow /\ calls[c].saw # "accepted"
     /\ after
     /\ IF row \in Present THEN Offered(row)       \* reaped meanwhile: no row
        ELSE UNCHANGED <<invites, overdue, answers>>
  \/ /\ row = NoRow
     /\ IF linked /\ (slice = "agent" \/ Present = {})
        THEN after /\ \E r \in Rows \ Present : Offered(r)
        ELSE Done(c) /\ UNCHANGED <<invites, overdue, answers>>

(* POST /api/shares for an address that has an account: share_create, then   *)
(* email_invite_create(converted = true), which only backs the link. It is   *)
(* an upsert of the row the address already has.                             *)
Create(c) ==
  /\ MayStart(c) /\ account
  /\ ReadOffer(c, "offerWrite")
  /\ UNCHANGED <<slice, overlap, linked, account, invites, overdue, grants, email, answers, consented>>

CreateWrite(c) ==
  /\ At(c, "offerWrite")
  /\ WriteOffer(c, Goto(c, "mintLink", NoRow, "absent"))
  /\ UNCHANGED <<slice, overlap, linked, account, grants, email, consented>>

CreateLink(c) ==
  /\ At(c, "mintLink")
  /\ email' = IF linked THEN "converted" ELSE email
  /\ Done(c)
  /\ UNCHANGED <<slice, overlap, linked, account, invites, overdue, grants, answers, consented>>

(* POST /api/shares for an address without one: email_invite_create. The     *)
(* account lookup and the write are separate, so the account may appear in   *)
(* between and the row then waits for the link to be opened.                 *)
CreateByMail(c) ==
  /\ MayStart(c) /\ ~account /\ linked
  /\ Goto(c, "mailWrite", NoRow, "absent")
  /\ UNCHANGED <<slice, overlap, linked, account, invites, overdue, grants, email, answers, consented>>

CreateByMailWrite(c) ==
  /\ At(c, "mailWrite")
  /\ email' = IF linked THEN "live" ELSE email
  /\ Done(c)
  /\ UNCHANGED <<slice, overlap, linked, account, invites, overdue, grants, answers, consented>>

(* share_respond: read the row; an overdue one is flipped to expired by id;  *)
(* a pending one is answered by an UPDATE guarded by status = 'pending', and *)
(* accepting goes on to write the grant.                                     *)
Respond(c, r) ==
  /\ MayStart(c) /\ account
  /\ invites[r] = "pending"
  /\ \/ r \in overdue /\ Goto(c, "expire", r, "absent")
     \/ r \notin overdue /\ \E answer \in {"accept", "decline"} : Goto(c, answer, r, "absent")
  /\ UNCHANGED <<slice, overlap, linked, account, invites, overdue, grants, email, answers, consented>>

RespondExpire(c) ==
  /\ At(c, "expire")
  /\ LET r == calls[c].row IN
     /\ invites' = IF r \in Present THEN [invites EXCEPT ![r] = "expired"] ELSE invites
     /\ overdue' = overdue \ {r}
  /\ Done(c)
  /\ UNCHANGED <<slice, overlap, linked, account, grants, email, answers, consented>>

\* The guard of the answering UPDATE: WHERE id = ? AND status = 'pending'.
SlipStillPending(r) == invites[r] \in {"pending", "accepted"}
StillPending(r) == invites[r] = "pending"

RespondWrite(c) ==
  /\ calls[c].op \in {"accept", "decline"}
  /\ LET r == calls[c].row
         accept == At(c, "accept") IN
     IF StillPending(r)
     THEN /\ invites' = [invites EXCEPT ![r] = IF accept THEN "accepted" ELSE "declined"]
          /\ overdue' = overdue \ {r}
          /\ answers' = [answers EXCEPT ![r] = IF @ < 2 THEN @ + 1 ELSE @]
          /\ consented' = (consented \/ accept)
          /\ IF accept THEN Goto(c, "grantRead", r, "absent") ELSE Done(c)
     ELSE Done(c) /\ UNCHANGED <<invites, overdue, answers, consented>>
  /\ UNCHANGED <<slice, overlap, linked, account, grants, email>>

(* materialise_grant: share_agent re-checks the ownership, looks for a row   *)
(* and updates or inserts; share_session is one upsert. A failure is only    *)
(* logged: the invite stays accepted.                                        *)
Materialise(c) ==
  /\ At(c, "grantRead")
  /\ IF linked THEN Goto(c, "grantWrite", NoRow, IF slice = "agent" /\ grants # {} THEN "present" ELSE "absent")
     ELSE Done(c)
  /\ UNCHANGED <<slice, overlap, linked, account, invites, overdue, grants, email, answers, consented>>

MaterialiseWrite(c) ==
  /\ At(c, "grantWrite")
  /\ IF calls[c].saw = "present" \/ ~linked \/ (slice = "session" /\ grants # {})
     THEN UNCHANGED grants
     ELSE \E g \in GrantIds \ grants : grants' = grants \cup {g}
  /\ Done(c)
  /\ UNCHANGED <<slice, overlap, linked, account, invites, overdue, email, answers, consented>>

(* share_revoke: read the row, mark it revoked whatever it has become, strip *)
(* the grant by its natural key. A row that grants nothing any more is left. *)
Revoke(c, r) ==
  /\ MayStart(c)
  /\ invites[r] \in {"pending", "accepted"}
  /\ Goto(c, "revokeWrite", r, "absent")
  /\ UNCHANGED <<slice, overlap, linked, account, invites, overdue, grants, email, answers, consented>>

RevokeWrite(c) ==
  /\ At(c, "revokeWrite")
  /\ LET r == calls[c].row IN
     /\ invites' = IF r \in Present THEN [invites EXCEPT ![r] = "revoked"] ELSE invites
     /\ overdue' = overdue \ {r}
     /\ Goto(c, "strip", r, "absent")
  /\ UNCHANGED <<slice, overlap, linked, account, grants, email, answers, consented>>

RevokeStrip(c) ==
  /\ At(c, "strip")
  /\ grants' = {}
  /\ Done(c)
  /\ UNCHANGED <<slice, overlap, linked, account, invites, overdue, email, answers, consented>>

\* The fall-through of share.rs's revoke: an unconverted email invite.
RevokeMail ==
  /\ overlap \/ Quiet
  /\ email \in {"live", "overdue"}
  /\ email' = "none"
  /\ UNCHANGED <<slice, overlap, linked, account, invites, overdue, grants, calls, answers, consented>>

(* leave_grant: read the grant, delete it by id, then settle every invite of *)
(* the pair as declined.                                                     *)
Leave(c, g) ==
  /\ MayStart(c) /\ g \in grants
  /\ Goto(c, "leaveDelete", g, "absent")
  /\ UNCHANGED <<slice, overlap, linked, account, invites, overdue, grants, email, answers, consented>>

LeaveDelete(c) ==
  /\ At(c, "leaveDelete")
  /\ grants' = grants \ {calls[c].row}
  /\ IF calls[c].row \in grants THEN Goto(c, "settle", NoRow, "absent") ELSE Done(c)
  /\ UNCHANGED <<slice, overlap, linked, account, invites, overdue, email, answers, consented>>

LeaveSettle(c) ==
  /\ At(c, "settle")
  /\ invites' = [r \in Rows |-> IF r \in Present THEN "declined" ELSE "absent"]
  /\ overdue' = {}
  /\ Done(c)
  /\ UNCHANGED <<slice, overlap, linked, account, grants, email, answers, consented>>

(* attach_email_invites, run by sign-up and whenever the owner of the        *)
(* address opens the link signed in: the live email invite becomes an offer  *)
(* through share_create and is then marked converted.                        *)
Attach(c) ==
  /\ email = "live"
  /\ Goto(c, "attachRead", NoRow, "absent")

SignUp(c) ==
  /\ MayStart(c) /\ ~account
  /\ account' = TRUE
  /\ IF email = "live" THEN Attach(c) ELSE UNCHANGED calls
  /\ UNCHANGED <<slice, overlap, linked, invites, overdue, grants, email, answers, consented>>

OpenLink(c) ==
  /\ MayStart(c) /\ account
  /\ Attach(c)
  /\ UNCHANGED <<slice, overlap, linked, account, invites, overdue, grants, email, answers, consented>>

AttachRead(c) ==
  /\ At(c, "attachRead")
  /\ \/ ReadOffer(c, "attachWrite")
     \/ ~linked /\ Done(c)
  /\ UNCHANGED <<slice, overlap, linked, account, invites, overdue, grants, email, answers, consented>>

AttachWrite(c) ==
  /\ At(c, "attachWrite")
  /\ WriteOffer(c, Goto(c, "convert", NoRow, "absent"))
  /\ UNCHANGED <<slice, overlap, linked, account, grants, email, consented>>

AttachConvert(c) ==
  /\ At(c, "convert")
  /\ email' = IF email = "none" THEN "none" ELSE "converted"
  /\ Done(c)
  /\ UNCHANGED <<slice, overlap, linked, account, invites, overdue, grants, answers, consented>>

(* Time passes expires_at; the listings and the sweep flip what is overdue,  *)
(* and the sweep deletes what settled long ago.                              *)
FallDue ==
  /\ \/ /\ \E r \in Rows \ overdue : invites[r] = "pending" /\ overdue' = overdue \cup {r}
        /\ UNCHANGED email
     \/ email = "live" /\ email' = "overdue" /\ UNCHANGED overdue
  /\ UNCHANGED <<slice, overlap, linked, account, invites, grants, calls, answers, consented>>

ExpireOverdue ==
  /\ overdue # {} /\ (overlap \/ Quiet)
  /\ invites' = [r \in Rows |-> IF r \in overdue /\ invites[r] = "pending" THEN "expired" ELSE invites[r]]
  /\ overdue' = {}
  /\ UNCHANGED <<slice, overlap, linked, account, grants, email, calls, answers, consented>>

Sweep ==
  /\ overlap \/ Quiet
  /\ \/ /\ \E r \in Rows : invites[r] \in Terminal /\ invites' = [invites EXCEPT ![r] = "absent"]
        /\ UNCHANGED email
     \/ email \in {"overdue", "converted"} /\ email' = "none" /\ UNCHANGED invites
  /\ UNCHANGED <<slice, overlap, linked, account, overdue, grants, calls, answers, consented>>

(* POST /api/agents/unlink deletes the agents row; every row that references *)
(* it goes with it. The same label enrolled again is a new machine.          *)
Unlink ==
  /\ linked /\ (overlap \/ Quiet)
  /\ linked' = FALSE
  /\ invites' = [r \in Rows |-> "absent"] /\ overdue' = {} /\ grants' = {} /\ email' = "none"
  /\ UNCHANGED <<slice, overlap, account, calls, answers, consented>>

Proceed(c) ==
  \/ CreateWrite(c) \/ CreateLink(c) \/ CreateByMailWrite(c)
  \/ RespondExpire(c) \/ RespondWrite(c) \/ Materialise(c) \/ MaterialiseWrite(c)
  \/ RevokeWrite(c) \/ RevokeStrip(c) \/ LeaveDelete(c) \/ LeaveSettle(c)
  \/ AttachRead(c) \/ AttachWrite(c) \/ AttachConvert(c)

Next ==
  \/ \E c \in Callers :
       \/ Create(c) \/ CreateByMail(c) \/ SignUp(c) \/ OpenLink(c) \/ Proceed(c)
       \/ \E r \in Rows : Respond(c, r) \/ Revoke(c, r)
       \/ \E g \in GrantIds : Leave(c, g)
  \/ RevokeMail \/ FallDue \/ ExpireOverdue \/ Sweep \/ Unlink

Spec == Init /\ [][Next]_sharingVars

-----------------------------------------------------------------------------
(* However requests overlap, of the answers to one offer at most one counts: *)
(* an accept and a decline sent from two devices, or the same answer sent    *)
(* twice, cannot both move the row.                                          *)
OneAnswerPerOffer == \A r \in Rows : answers[r] < 2

(* A grant exists only if its grantee once accepted an offer of it: no       *)
(* re-offer, sign-up or opened link grants by itself.                        *)
NeverWithoutConsent == grants # {} => consented

(* Unlinking the machine ends every share of it, also those being accepted   *)
(* or re-offered at that moment.                                             *)
UnlinkedIsUnshared == ~linked => grants = {} /\ Present = {}

(* Taken one at a time the handlers keep the two tables in step: the grantee *)
(* has a grant exactly while an invite of the pair is accepted.              *)
TablesAgree ==
  ~overlap /\ Quiet => (grants # {} <=> \E r \in Rows : invites[r] = "accepted")

(* What sharing promises: a grantee sees what they consented to and no more. *)
GrantsAreConsented ==
  OneAnswerPerOffer /\ NeverWithoutConsent /\ UnlinkedIsUnshared /\ TablesAgree
=============================================================================
