------------------------------ MODULE MCSettles ------------------------------
(* The parts of the system that must come to an end or repair themselves, on *)
(* smaller instances than in MCHub and MCMachine and with the fairness their *)
(* modules state: what was lost, repeated, handed over or applied out of     *)
(* order comes right in the end. Teams is extended, so that its properties   *)
(* are checked under their own names; the others are instances, with s1, s2, *)
(* ... for their variables. A behaviour exercises the one `part` names.      *)
EXTENDS Teams, Sequences, TLC

CONSTANTS c1, c2, u1, u2, u3, o1, o2, none

VARIABLES part,   \* the component this behaviour exercises: fixed
          s1, s2, s3, s4, s5, s6, s7, s8, s9, s10, s11, s12, s13   \* its variables in order, teams' own aside

slots == <<s1, s2, s3, s4, s5, s6, s7, s8, s9, s10, s11, s12, s13>>
suiteVars == <<part, teamVars, slots>>

\* Two teams, one of them not founded yet, and nobody else in a team.
Founders == (o1 :> u1) @@ (o2 :> u3)
Rosters == (o1 :> {u1}) @@ (o2 :> {})
MachineOf == (o1 :> u1)
CommandsOf == ("npm" :> 2) @@ ("grok" :> 1)

\* The slots a part uses.
mailSlots == <<s1, s2, s3, s4, s5, s6, s7>>
billSlots == <<s1, s2, s3, s4, s5, s6, s7, s8>>
summarySlots == <<s1, s2, s3, s4, s5, s6, s7, s8, s9, s10>>
jobSlots == <<s1, s2, s3, s4, s5, s6, s7, s8, s9, s10, s11, s12, s13>>
relaySlots == <<s1, s2, s3, s4, s5, s6, s7, s8, s9, s10>>

Im ==
  INSTANCE InviteMail WITH overlap <- s1, rows <- s2, attempts <- s3,
    minted <- s4, hits <- s5, mailed <- s6, leftFor <- s7,
    Kinds <- {"team", "share"}, Dests <- {u1}, MaxOffers <- 2, LiveCap <- 1,
    DayCap <- 1, DestCap <- 1

Bi ==
  INSTANCE Billing WITH kind <- s1, stripe <- s2, row <- s3, events <- s4,
    recorded <- s5, calls <- s6, night <- s7, applied <- s8,
    Kinds <- {"user", "team"}, MaxSubs <- 1, MaxEvents <- 2, MaxSeats <- 2,
    Callers <- {c1}, ListingFails <- FALSE

Su ==
  INSTANCE Summary WITH steady <- s1, alone <- s2, material <- s3,
    summarised <- s4, asked <- s5, reqs <- s6, spent <- s7, charged <- s8,
    called <- s9, changes <- s10, Sessions <- {o1}, Users <- {u1, u2},
    OwnerOf <- MachineOf, Materials <- {1, 2}, Requests <- {1, 2},
    UserCap <- 2, FleetCap <- 2, MaxChanges <- 2

Up ==
  INSTANCE Updates WITH release <- s1, disk <- s2, agent <- s3, marker <- s4,
    job <- s5, worker <- s6, cli <- s7, prereq <- s8, profile <- s9,
    strays <- s10, jobs <- s11, runs <- s12, spoilt <- s13,
    Tools <- <<"npm", "grok">>, Guarded <- {"grok"}, Needs <- {"npm"},
    Candidates <- CommandsOf, MaxRelease <- 2, MaxJobs <- 1, MaxEdits <- 0,
    Outlives <- FALSE

Re ==
  INSTANCE Relay WITH running <- s1, agent <- s2, line <- s3, toHub <- s4,
    toAgent <- s5, serve <- s6, conn <- s7, entry <- s8, client <- s9,
    ran <- s10, Sessions <- {o1}, Clients <- {c1}, MaxConns <- 2,
    OutCap <- 1, SinkCap <- 1, PromptResolve <- TRUE, None <- none

\* The instances satisfy what the modules assume of their constants.
ASSUME PartsAssumption ==
  /\ TeamsAssumption
  /\ Im!InviteMailAssumption
  /\ Bi!BillingAssumption
  /\ Su!SummaryAssumption
  /\ Up!UpdatesAssumption

\* The slots a component leaves over hold nothing.
Unused(s) == s = "unused"

SuiteInit ==
  /\ Init
  /\ \/ part = "teams"
        /\ Unused(s1) /\ Unused(s2) /\ Unused(s3) /\ Unused(s4) /\ Unused(s5)
        /\ Unused(s6) /\ Unused(s7) /\ Unused(s8) /\ Unused(s9) /\ Unused(s10)
        /\ Unused(s11) /\ Unused(s12) /\ Unused(s13)
     \/ part = "mail" /\ Im!Init
        /\ Unused(s8) /\ Unused(s9) /\ Unused(s10) /\ Unused(s11) /\ Unused(s12)
        /\ Unused(s13)
     \/ part = "billing" /\ Bi!Init
        /\ Unused(s9) /\ Unused(s10) /\ Unused(s11) /\ Unused(s12) /\ Unused(s13)
     \/ part = "summary" /\ Su!Init
        /\ Unused(s11) /\ Unused(s12) /\ Unused(s13)
     \/ part = "jobs" /\ Up!Init
     \/ part = "relay" /\ Re!Init
        /\ Unused(s11) /\ Unused(s12) /\ Unused(s13)

SuiteNext ==
  /\ UNCHANGED part
  /\ \/ part = "teams" /\ Next /\ UNCHANGED slots
     \/ /\ UNCHANGED teamVars
        /\ \/ part = "mail" /\ Im!Next /\ UNCHANGED <<s8, s9, s10, s11, s12, s13>>
           \/ part = "billing" /\ Bi!Next /\ UNCHANGED <<s9, s10, s11, s12, s13>>
           \/ part = "summary" /\ Su!Next /\ UNCHANGED <<s11, s12, s13>>
           \/ part = "jobs" /\ Up!Next
           \/ part = "relay" /\ Re!Next /\ UNCHANGED <<s11, s12, s13>>

SuiteFairness ==
  /\ \A c \in {c1, c2} : WF_teamVars(part = "teams" /\ Proceed(c))
  /\ \A o \in {o1, o2} : WF_teamVars(part = "teams" /\ Reconcile(o))
  /\ \A t \in {1, 2} : WF_mailSlots(part = "mail" /\ Im!Proceed(t))
  /\ \A r \in {"team", "share"} \X {u1} :
       WF_mailSlots(part = "mail" /\ Im!DeliverySweep(r))
  /\ \A c \in {c1} : WF_billSlots(part = "billing" /\ Bi!Apply(c))
  /\ WF_billSlots(part = "billing" /\ Bi!NightBegins)
  /\ WF_billSlots(part = "billing" /\ Bi!NightPage)
  /\ WF_billSlots(part = "billing" /\ Bi!NightCompares)
  /\ WF_billSlots(part = "billing" /\ Bi!NightEnds)
  /\ WF_summarySlots(part = "summary" /\ Su!Asking)
  /\ \A r \in {1, 2} : WF_summarySlots(part = "summary" /\ Su!Serve(r))
  /\ WF_jobSlots(part = "jobs" /\ Up!Work(1))
  /\ WF_jobSlots(part = "jobs" /\ (Up!Boots \/ Up!Resumes))
  /\ SF_relaySlots(part = "relay" /\ Re!AgentPolls)
  /\ SF_relaySlots(part = "relay" /\ Re!AgentReads)
  /\ WF_relaySlots(part = "relay" /\ Re!AgentNotices)
  /\ \A k \in {1, 2} : /\ WF_relaySlots(part = "relay" /\ Re!AgentDials(k))
                      /\ WF_relaySlots(part = "relay" /\ Re!HubStep(k))
  /\ \A i \in Re!Ids : /\ WF_relaySlots(part = "relay" /\ Re!ChannelPaints(i))
                      /\ WF_relaySlots(part = "relay" /\ Re!ChannelEnds(i))
  /\ WF_relaySlots(part = "relay" /\ Re!ClientStep(c1))

SuiteSpec == SuiteInit /\ [][SuiteNext]_suiteVars /\ SuiteFairness

-----------------------------------------------------------------------------
(* Once requests stop, every team sees exactly what its members' machines    *)
(* imply, whatever repair was lost to a restart or ran for a team the user   *)
(* had left; and no mail receipt says `sending` for ever (db.rs).            *)
RepairsSettle ==
  /\ SightSettles
  /\ \A r \in {"team", "share"} \X {u1} :
       part = "mail" /\ Im!Sending(r) ~> part = "mail" /\ ~Im!Sending(r)

(* The billing mirror comes to agree with Stripe for good, unless it is      *)
(* disturbed again and again (billing.rs).                                   *)
MirrorSettles ==
  <>[](part = "billing" => Bi!Mirrors)
    \/ []<><<part = "billing" /\ Bi!Disturbed>>_billSlots

(* Where nothing fails a session at rest shows the summary of what it rests  *)
(* on, in whatever order the answers came (engine.rs).                       *)
SummariesSettle ==
  part = "summary" /\ Su!Steady => <>[](part = "summary" => Su!AllCurrent)

(* A machine's update job that began is done in the end, by the process that *)
(* began it or by the one it handed over to, unless the agent crashed or was *)
(* down until the marker was void (assistants.rs, self_update.rs).           *)
JobsEnd ==
  part = "jobs" /\ Up!Begins ~>
    part = "jobs" /\ Up!Concluded

(* Once the losses stop, the machine is online for good, on the connection   *)
(* the agent is on: an old connection that ends late does not grey it        *)
(* (uplink_server.rs, registry.rs).                                          *)
StaysOnline == <>[](part = "relay" => Re!BackOnline)

(* A session that keeps running gets listed by the hub and stays so.         *)
RunningIsListed ==
  \A s \in {o1} :
    <>[](part = "relay" => Re!Runs(s)) => <>[](part = "relay" => Re!Listed(s))

(* When a bridge has ended, for whatever reason, the agent stops serving its *)
(* channel, so that a browser that left does not hold the size (client_ws.rs)*)
PinReleased ==
  \A k \in {1, 2} : \A i \in Re!Ids :
    part = "relay" /\ Re!Abandoned(k, i) ~> part = "relay" /\ ~Re!Abandoned(k, i)
=============================================================================
