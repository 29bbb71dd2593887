------------------------------- MODULE Summary -------------------------------
(* The one-line summaries of what a session is doing. The agent hashes the   *)
(* redacted material of each session on a tick and asks the hub for a        *)
(* summary of what changed (src/engine.rs, src/uplink.rs); the hub reserves  *)
(* the caller's and then the fleet's budget, calls the model and answers     *)
(* (crates/hub/src/summarizer.rs). Each request is a task of its own, so     *)
(* answers come back in any order; the fleet's budget is a compare-and-swap  *)
(* loop on one counter, the users' budgets are a map under a mutex.          *)
(*                                                                           *)
(* A material is a number; equal numbers are equal hashes. `steady` fixes a  *)
(* behaviour in which no budget is set, no call fails and the uplink holds:  *)
(* the code never asks twice for material whose request was lost, so only    *)
(* such behaviours promise a summary. An agent without a hub runs the same   *)
(* gate and calls the model itself, one call at a time: `alone`.             *)
EXTENDS Naturals, FiniteSetsExt

CONSTANTS Sessions, Users,
          OwnerOf,      \* session -> the user whose machine it runs on
          Materials,    \* what a session can have on its screen, 1..n
          Requests,     \* requests in progress at once
          UserCap,      \* what a user's budget allows, in calls
          FleetCap,     \* what the fleet's budget allows, in calls
          MaxChanges    \* bound: changes of material

SummaryAssumption ==
  /\ OwnerOf \in [Sessions -> Users]
  /\ Materials \subseteq Nat \ {0}
  /\ UserCap \in Nat /\ FleetCap \in Nat /\ MaxChanges \in Nat

VARIABLES steady, alone,  \* fixed for the behaviour
          material,     \* session -> what it shows now, 0 when it is not running
          summarised,   \* session -> summary_hash
          asked,        \* session -> requested_hash
          reqs,         \* request tasks
          spent,        \* the fleet's counter
          charged,      \* user -> per_user_micros
          called,       \* history: user -> calls to the model
          changes

summaryVars == <<steady, alone, material, summarised, asked, reqs, spent, charged, called, changes>>

Free == [at |-> "free"]
Stages == {"user", "load", "swap", "call", "answer", "declined"}
Task == [at : Stages, session : Sessions, hash : Materials, saw : Nat]

TypeOK ==
  /\ steady \in BOOLEAN /\ alone \in BOOLEAN
  /\ material \in [Sessions -> Materials \cup {0}]
  /\ summarised \in [Sessions -> Materials \cup {0}]
  /\ asked \in [Sessions -> Materials \cup {0}]
  /\ \A r \in Requests : reqs[r] = Free \/ reqs[r] \in Task
  /\ spent \in 0..FleetCap /\ charged \in [Users -> 0..UserCap]
  /\ called \in [Users -> Nat] /\ changes \in 0..MaxChanges

Init ==
  /\ steady \in BOOLEAN /\ alone \in BOOLEAN
  /\ material \in [Sessions -> Materials]
  /\ summarised = [s \in Sessions |-> 0] /\ asked = [s \in Sessions |-> 0]
  /\ reqs = [r \in Requests |-> Free]
  /\ spent = 0 /\ charged = [u \in Users |-> 0] /\ called = [u \in Users |-> 0]
  /\ changes = 0

At(r, stage) == reqs[r].at = stage
Move(r, stage) == reqs' = [reqs EXCEPT ![r].at = stage]
Done(r) == reqs' = [reqs EXCEPT ![r] = Free]
UserOf(r) == OwnerOf[reqs[r].session]

-----------------------------------------------------------------------------
(* The terminal goes on: new output or a submission changes the material. A  *)
(* restart or a new session of the name starts with nothing cached.          *)
Work(s) ==
  /\ changes < MaxChanges /\ changes' = changes + 1
  /\ material[s] # 0
  /\ \E m \in Materials \ {material[s]} : material' = [material EXCEPT ![s] = m]
  /\ UNCHANGED <<steady, alone, summarised, asked, reqs, spent, charged, called>>

Exit(s) ==
  /\ changes < MaxChanges /\ material[s] # 0
  /\ material' = [material EXCEPT ![s] = 0]
  /\ UNCHANGED <<steady, alone, summarised, asked, reqs, spent, charged, called, changes>>

Start(s) ==
  /\ changes < MaxChanges /\ changes' = changes + 1
  /\ material[s] = 0
  /\ \E m \in Materials : material' = [material EXCEPT ![s] = m]
  /\ summarised' = [summarised EXCEPT ![s] = 0]
  /\ asked' = [asked EXCEPT ![s] = 0]
  /\ UNCHANGED <<steady, alone, reqs, spent, charged, called>>

\* summary_candidate: changed since the cached summary, not asked for already.
Candidate(s) ==
  /\ material[s] # 0
  /\ material[s] # summarised[s] /\ material[s] # asked[s]

(* request_summary on the tick: extract, gate, mark, send. Alone, the loop   *)
(* awaits each call before it looks at the next session.                     *)
Tick(r, s) ==
  /\ At(r, "free") /\ Candidate(s)
  /\ alone => \A q \in Requests : At(q, "free")
  /\ asked' = [asked EXCEPT ![s] = material[s]]
  /\ reqs' = [reqs EXCEPT ![r] = [at |-> IF alone THEN "call" ELSE "user",
                                  session |-> s, hash |-> material[s], saw |-> 0]]
  /\ UNCHANGED <<steady, alone, material, summarised, spent, charged, called, changes>>

(* try_reserve_user: under the mutex, checked and charged in one section.    *)
ReserveUser(r) ==
  /\ At(r, "user")
  /\ LET u == UserOf(r) IN
     IF steady THEN Move(r, "call") /\ UNCHANGED charged
     ELSE IF charged[u] < UserCap
     THEN Move(r, "load") /\ charged' = [charged EXCEPT ![u] = @ + 1]
     ELSE Move(r, "declined") /\ UNCHANGED charged
  /\ UNCHANGED <<steady, alone, material, summarised, asked, spent, called, changes>>

(* try_reserve: load, then swap in what was loaded plus one call, and start  *)
(* over when another task was faster.                                        *)
ReserveLoad(r) ==
  /\ At(r, "load")
  /\ IF spent + 1 > FleetCap THEN Move(r, "declined")
     ELSE reqs' = [reqs EXCEPT ![r].at = "swap", ![r].saw = spent]
  /\ UNCHANGED <<steady, alone, material, summarised, asked, spent, charged, called, changes>>

ReserveSwap(r) ==
  /\ At(r, "swap")
  /\ IF spent = reqs[r].saw THEN spent' = reqs[r].saw + 1 /\ Move(r, "call")
     ELSE Move(r, "load") /\ UNCHANGED spent
  /\ UNCHANGED <<steady, alone, material, summarised, asked, charged, called, changes>>

CallModel(r) ==
  /\ At(r, "call")
  /\ called' = IF steady \/ alone THEN called ELSE [called EXCEPT ![UserOf(r)] = @ + 1]
  /\ \/ Move(r, "answer")
     \/ ~steady /\ Move(r, "declined")
  /\ UNCHANGED <<steady, alone, material, summarised, asked, spent, charged, changes>>

\* store_summary's gate: the answer is for the latest request.
SlipIsLatest(s, h) == h # summarised[s]
IsLatest(s, h) == h = asked[s]

(* SummaryResult: a declined one leaves the cache; a summary is kept if the  *)
(* session runs and asked for nothing newer.                                 *)
Answer(r) ==
  /\ At(r, "answer")
  /\ LET s == reqs[r].session
         h == reqs[r].hash IN
     summarised' = IF material[s] # 0 /\ IsLatest(s, h) THEN [summarised EXCEPT ![s] = h] ELSE summarised
  /\ Done(r)
  /\ UNCHANGED <<steady, alone, material, asked, spent, charged, called, changes>>

Decline(r) ==
  /\ At(r, "declined")
  /\ Done(r)
  /\ UNCHANGED <<steady, alone, material, summarised, asked, spent, charged, called, changes>>

\* The uplink drops: an answer on its way is lost, the agent lives on.
Lose(r) ==
  /\ ~steady /\ ~alone /\ At(r, "answer")
  /\ Done(r)
  /\ UNCHANGED <<steady, alone, material, summarised, asked, spent, charged, called, changes>>

Serve(r) ==
  \/ ReserveUser(r) \/ ReserveLoad(r) \/ ReserveSwap(r) \/ CallModel(r)
  \/ Answer(r) \/ Decline(r) \/ Lose(r)

Next ==
  \/ \E s \in Sessions : Work(s) \/ Exit(s) \/ Start(s) \/ \E r \in Requests : Tick(r, s)
  \/ \E r \in Requests : Serve(r)

Asking == \E r \in Requests, s \in Sessions : Tick(r, s)

(* The tick comes again and again and each task runs to its end.             *)
Spec ==
  /\ Init /\ [][Next]_summaryVars
  /\ WF_summaryVars(Asking)
  /\ \A r \in Requests : WF_summaryVars(Serve(r))

-----------------------------------------------------------------------------
Waiting(u) == Cardinality({r \in Requests : reqs[r].at \in {"load", "swap"} /\ UserOf(r) = u})
Reserved == {r \in Requests : reqs[r].at = "call"}
Calls == MapThenSumSet(LAMBDA u : called[u], Users)

(* Budgets hold however the tasks race: the fleet's calls, those about to be *)
(* made included, are exactly what its counter says, and no user has more    *)
(* calls than his budget paid.                                               *)
SpendIsCalls ==
  ~alone /\ ~steady =>
    /\ Calls + Cardinality(Reserved) = spent
    /\ spent <= FleetCap
    /\ \A u \in Users : called[u] <= charged[u] /\ charged[u] <= UserCap

(* A user is charged for a call that was refused only when the fleet has     *)
(* nothing left for anybody: being charged first costs no one a call.        *)
ChargedForNothing ==
  \A u \in Users :
    charged[u] > called[u] + Waiting(u) + Cardinality({r \in Reserved : UserOf(r) = u})
      => spent = FleetCap

(* The money: spent as reserved, and refused without cost.                   *)
BudgetsHold == SpendIsCalls /\ ChargedForNothing

(* Where nothing fails, a session that came to rest shows the summary of     *)
(* what it rests on, though answers arrive out of order and the material may *)
(* have come back to what an earlier request was about.                      *)
Current(s) == material[s] = 0 \/ material[s] = summarised[s]
Steady == steady
AllCurrent == \A s \in Sessions : Current(s)
Settles == Steady => <>[]AllCurrent
=============================================================================
