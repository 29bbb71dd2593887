-------------------------------- MODULE MCHub --------------------------------
(* The parts of a multi-tenant hub that share nothing but the database, each *)
(* on a small instance: a behaviour exercises one of them, the one `part`    *)
(* names. Access is extended, so that its promise is checked under its own   *)
(* name; the others are instances, with s1, s2, ... for their variables, and *)
(* their promises are stated in their own modules.                           *)
EXTENDS Access, Sequences, TLC

CONSTANTS c1, c2, u1, u2, o1, o2, d1, d2, l1, l2, none

VARIABLES part,   \* the component this behaviour exercises: fixed
          s1, s2, s3, s4, s5, s6, s7, s8, s9, s10, s11, s12, s13, s14, s15,
          s16   \* its variables in order, access's own aside

slots == <<s1, s2, s3, s4, s5, s6, s7, s8, s9, s10, s11, s12, s13, s14, s15,
          s16>>
suiteVars == <<part, accessVars, slots>>

CallerSymmetry == Permutations({c1, c2})

\* A machine's enrollment and a terminal's, under different labels.
CodeKind == (d1 :> "agent") @@ (d2 :> "client")
CodeLabel == (d1 :> l1) @@ (d2 :> l2)

\* Two sessions of two users' machines.
MachineOf == (o1 :> u1) @@ (o2 :> u2)

\* Two users' machines of one label; the first is shared with the second user
\* in every way, and a session of it with the owner.
AgentOwners == (1 :> u1) @@ (2 :> u2)
AgentLabels == (1 :> "l") @@ (2 :> "l")
Share(to, kind, name, peek) ==
  [agent |-> 1, to |-> to, kind |-> kind, name |-> name, peek |-> peek]
ShareRows ==
  {Share(u2, "agent", none, TRUE), Share(u2, "team", none, FALSE),
   Share(u2, "session", "a", FALSE), Share(u1, "session", "a", FALSE)}

\* Keys and text, a paste, and the two halves of one.
TypedChunks ==
  {<<"a">>, <<"b", "cr">>, <<"bs", "up", " ", "lf">>, <<"newline", "f1", "a">>, <<"esc">>,
   <<"start", "a", "cr", "b", "end", "cr">>, <<"start", "b", "cr">>, <<"cr", "a", "end">>}

Sh ==
  INSTANCE Sharing WITH slice <- s1, overlap <- s2, linked <- s3,
    account <- s4, invites <- s5, overdue <- s6, grants <- s7, email <- s8,
    calls <- s9, answers <- s10, consented <- s11,
    Slices <- {"agent", "session"}, Rows <- {1, 2}, GrantIds <- {11, 12},
    Callers <- {c1, c2}, NoRow <- none

En ==
  INSTANCE Enrollment WITH overlap <- s1, codes <- s2, overdue <- s3,
    recent <- s4, agents <- s5, terminals <- s6, minted <- s7, calls <- s8,
    handed <- s9, overCap <- s10, Users <- {u1, u2}, Codes <- {d1, d2},
    KindOf <- CodeKind, LabelOf <- CodeLabel, Labels <- {l1, l2},
    MaxAgents <- 1, Callers <- {c1, c2}, MaxCodes <- 1, MaxTokens <- 2,
    NoUser <- none

Im ==
  INSTANCE InviteMail WITH overlap <- s1, rows <- s2, attempts <- s3,
    minted <- s4, hits <- s5, mailed <- s6, leftFor <- s7,
    Kinds <- {"team", "share"}, Dests <- {u1, u2}, MaxOffers <- 2,
    LiveCap <- 1, DayCap <- 1, DestCap <- 1

Bi ==
  INSTANCE Billing WITH kind <- s1, stripe <- s2, row <- s3, events <- s4,
    recorded <- s5, calls <- s6, night <- s7, applied <- s8,
    Kinds <- {"user", "team"}, MaxSubs <- 1, MaxEvents <- 2, MaxSeats <- 2,
    Callers <- {c1, c2}, ListingFails <- TRUE

Si ==
  INSTANCE SignIn WITH part <- s1, overlap <- s2, clock <- s3, entry <- s4,
    users <- s5, pending <- s6, calls <- s7, guesses <- s8, since <- s9,
    issued <- s10, Users <- {1, 2}, Mails <- {u1, u2}, Subjects <- {o1, o2},
    Callers <- {c1, c2}, LockAfter <- 2, MaxLock <- 2, MaxClock <- 4,
    MaxGuesses <- 3, None <- none

Su ==
  INSTANCE Summary WITH steady <- s1, alone <- s2, material <- s3,
    summarised <- s4, asked <- s5, reqs <- s6, spent <- s7, charged <- s8,
    called <- s9, changes <- s10, Sessions <- {o1, o2}, Users <- {u1, u2},
    OwnerOf <- MachineOf, Materials <- {1, 2}, Requests <- {1, 2},
    UserCap <- 2, FleetCap <- 2, MaxChanges <- 2

Li ==
  INSTANCE LinkShares WITH clock <- s1, link <- s2, tokens <- s3,
    minting <- s4, machine <- s5, file <- s6, entry <- s7, hits <- s8,
    reader <- s9, asks <- s10, moves <- s11, sends <- s12, Links <- {1},
    Readers <- {c1, c2}, Sources <- {u1}, MaxTokens <- 2, MaxAsks <- 2,
    MaxClock <- 3, MaxMoves <- 1, LockAfter <- 1, MaxLock <- 1,
    ReadsPerWindow <- 1, Window <- 2

Bz ==
  INSTANCE Buzz WITH hub <- s1, clock <- s2, session <- s3, watcher <- s4,
    sends <- s5, subs <- s6, dead <- s7, moves <- s8, announced <- s9,
    unwatched <- s10, Users <- {u1, u2}, Owner <- u1, Devices <- {d1},
    Grace <- 2, MinWork <- 3, Quiet <- 3, Poll <- 1, MaxClock <- 7,
    MaxMoves <- 2, None <- none

Ch ==
  INSTANCE ClientHome WITH overlap <- s1, config <- s2, bad <- s3,
    creds <- s4, tmp <- s5, runs <- s6, home <- s7, live <- s8,
    commands <- s9, edits <- s10, due <- s11, dueServer <- s12,
    dueOwn <- s13, broke <- s14, raced <- s15, failed <- s16,
    Runs <- {c1, c2}, Servers <- {"hub", "hosted"}, Local <- "hub",
    Hosted <- "hosted", Hubs <- {"hub", "hosted"}, Renames <- TRUE,
    MaxCommands <- 3, MaxOverlapping <- 2, MaxTokens <- 2, MaxEdits <- 1,
    Static <- 99, None <- "none"

Cw ==
  INSTANCE ClientHome WITH overlap <- s1, config <- s2, bad <- s3,
    creds <- s4, tmp <- s5, runs <- s6, home <- s7, live <- s8,
    commands <- s9, edits <- s10, due <- s11, dueServer <- s12,
    dueOwn <- s13, broke <- s14, raced <- s15, failed <- s16,
    Runs <- {c1, c2}, Servers <- {"local", "hosted"}, Local <- "local",
    Hosted <- "hosted", Hubs <- {"hosted"}, Renames <- FALSE,
    MaxCommands <- 2, MaxOverlapping <- 2, MaxTokens <- 2, MaxEdits <- 1,
    Static <- 99, None <- "none"

Ty ==
  INSTANCE Typed WITH ring <- s1, inPaste <- s2, turns <- s3, writing <- s4,
    got <- s5, failed <- s6, said <- s7, Clients <- {c1, c2},
    Chunks <- TypedChunks, RingCap <- 9, Keep <- 2, MaxCalls <- 3

\* The instances satisfy what the modules assume of their constants.
ASSUME PartsAssumption ==
  /\ Sh!SharingAssumption
  /\ En!EnrollmentAssumption
  /\ Im!InviteMailAssumption
  /\ Bi!BillingAssumption
  /\ Si!SignInAssumption
  /\ Su!SummaryAssumption
  /\ AccessAssumption
  /\ Li!LinkSharesAssumption
  /\ Bz!BuzzAssumption
  /\ Ch!ClientHomeAssumption
  /\ Cw!ClientHomeAssumption
  /\ Ty!TypedAssumption

\* The slots a component leaves over hold nothing.
Unused(s) == s = "unused"

\* Where another part runs, access stays as one of its beginnings has it.
SuiteInit ==
  /\ Init
  /\ \/ part = "access"
        /\ Unused(s1) /\ Unused(s2) /\ Unused(s3) /\ Unused(s4) /\ Unused(s5)
        /\ Unused(s6) /\ Unused(s7) /\ Unused(s8) /\ Unused(s9) /\ Unused(s10)
        /\ Unused(s11) /\ Unused(s12) /\ Unused(s13) /\ Unused(s14) /\ Unused(s15)
        /\ Unused(s16)
     \/ /\ overlap /\ rows = {}
        /\ \/ part = "sharing" /\ Sh!Init
              /\ Unused(s12) /\ Unused(s13) /\ Unused(s14) /\ Unused(s15) /\ Unused(s16)
           \/ part = "enrollment" /\ En!Init
              /\ Unused(s11) /\ Unused(s12) /\ Unused(s13) /\ Unused(s14) /\ Unused(s15)
              /\ Unused(s16)
           \/ part = "mail" /\ Im!Init
              /\ Unused(s8) /\ Unused(s9) /\ Unused(s10) /\ Unused(s11) /\ Unused(s12)
              /\ Unused(s13) /\ Unused(s14) /\ Unused(s15) /\ Unused(s16)
           \/ part = "billing" /\ Bi!Init
              /\ Unused(s9) /\ Unused(s10) /\ Unused(s11) /\ Unused(s12) /\ Unused(s13)
              /\ Unused(s14) /\ Unused(s15) /\ Unused(s16)
           \/ part = "signin" /\ Si!Init
              /\ Unused(s11) /\ Unused(s12) /\ Unused(s13) /\ Unused(s14) /\ Unused(s15)
              /\ Unused(s16)
           \/ part = "summary" /\ Su!Init
              /\ Unused(s11) /\ Unused(s12) /\ Unused(s13) /\ Unused(s14) /\ Unused(s15)
              /\ Unused(s16)
           \/ part = "links" /\ Li!Init
              /\ Unused(s13) /\ Unused(s14) /\ Unused(s15) /\ Unused(s16)
           \/ part = "buzz" /\ Bz!Init
              /\ Unused(s11) /\ Unused(s12) /\ Unused(s13) /\ Unused(s14) /\ Unused(s15)
              /\ Unused(s16)
           \/ part = "clienthome" /\ Ch!Init
           \/ part = "clienthomewin" /\ Cw!Init
           \/ part = "typed" /\ Ty!Init
              /\ Unused(s8) /\ Unused(s9) /\ Unused(s10) /\ Unused(s11) /\ Unused(s12)
              /\ Unused(s13) /\ Unused(s14) /\ Unused(s15) /\ Unused(s16)

SuiteNext ==
  /\ UNCHANGED part
  /\ \/ part = "access" /\ Next /\ UNCHANGED slots
     \/ /\ UNCHANGED accessVars
        /\ \/ part = "sharing" /\ Sh!Next /\ UNCHANGED <<s12, s13, s14, s15, s16>>
           \/ part = "enrollment" /\ En!Next /\ UNCHANGED <<s11, s12, s13, s14, s15, s16>>
           \/ part = "mail" /\ Im!Next /\ UNCHANGED <<s8, s9, s10, s11, s12, s13, s14, s15, s16>>
           \/ part = "billing" /\ Bi!Next /\ UNCHANGED <<s9, s10, s11, s12, s13, s14, s15, s16>>
           \/ part = "signin" /\ Si!Next /\ UNCHANGED <<s11, s12, s13, s14, s15, s16>>
           \/ part = "summary" /\ Su!Next /\ UNCHANGED <<s11, s12, s13, s14, s15, s16>>
           \/ part = "links" /\ Li!Next /\ UNCHANGED <<s13, s14, s15, s16>>
           \/ part = "buzz" /\ Bz!Next /\ UNCHANGED <<s11, s12, s13, s14, s15, s16>>
           \/ part = "clienthome" /\ Ch!Next
           \/ part = "clienthomewin" /\ Cw!Next
           \/ part = "typed" /\ Ty!Next /\ UNCHANGED <<s8, s9, s10, s11, s12, s13, s14, s15, s16>>

SuiteSpec == SuiteInit /\ [][SuiteNext]_suiteVars

-----------------------------------------------------------------------------
\* Each part's state has its type.
TypesHold ==
  /\ part = "sharing" => Sh!TypeOK
  /\ part = "enrollment" => En!TypeOK
  /\ part = "mail" => Im!TypeOK
  /\ part = "billing" => Bi!TypeOK
  /\ part = "signin" => Si!TypeOK
  /\ part = "summary" => Su!TypeOK
  /\ part = "access" => TypeOK
  /\ part = "links" => Li!TypeOK
  /\ part = "buzz" => Bz!TypeOK
  /\ part = "clienthome" => Ch!TypeOK
  /\ part = "clienthomewin" => Cw!TypeOK
  /\ part = "typed" => Ty!TypeOK

(* However offers, answers, revocations and unlinking overlap, one answer to *)
(* an offer counts, nothing is granted without consent or outlives its       *)
(* machine, and taken one at a time invites and grants agree (db.rs).        *)
GrantsAreConsented == part = "sharing" => Sh!GrantsAreConsented

(* A parked credential is its user's, handed over once when polls do not     *)
(* overlap, and no more machines than the plan allows are enrolled unless by *)
(* rotation (device.rs, db.rs).                                              *)
CredentialsInPlace == part = "enrollment" => En!CredentialsInPlace

(* A receipt is the link's own, and no more mail leaves than the ceilings    *)
(* say, however many offers and mail tasks overlap (share.rs, org.rs).       *)
MailIsAccounted == part = "mail" => Im!MailIsAccounted

(* An event delivered several times at once is applied once, and a lapsed    *)
(* user falls back to the plan the first subscription replaced (billing.rs). *)
PlansFollow == [][part = "billing" => Bi!Lapses /\ Bi!AppliedOnce']_suiteVars

(* Guessing takes the time the lockouts say, and a Google account keeps the  *)
(* account it signed in to (handlers.rs, throttle.rs, oauth.rs, db.rs); a    *)
(* link opens while it lasts and not afterwards (link.rs); a terminal's      *)
(* files keep each server's token, the server last named and what the user   *)
(* wrote, unless two commands or a failure spoil one, and no token strays to *)
(* another server (config.rs).                                               *)
SecretsOpenTheirOwn ==
  /\ part = "signin" => Si!AccountsAreOnesOwn
  /\ part = "links" => Li!LinksHold
  /\ part = "clienthome" => Ch!ClientHomeHolds
  /\ part = "clienthomewin" => Cw!ClientHomeHolds

(* The fleet's counter is exactly the calls made, however its swaps race,    *)
(* and a refusal costs nobody a call (summarizer.rs); a phone is buzzed of   *)
(* its own user's machines, once for a turn, and of every long turn (push);  *)
(* a turn is an Enter that is one, and a summary is asked about what was     *)
(* typed (engine.rs, summary.rs).                                            *)
TurnsAndBudgets ==
  /\ part = "summary" => Su!BudgetsHold
  /\ part = "buzz" => Bz!BuzzHolds
  /\ part = "typed" => Ty!TypedHolds
=============================================================================
