----------------------------- MODULE LinkShares -----------------------------
(* Links to one file of a machine that open without an account (link.rs and  *)
(* the link_shares table of db.rs): the owner makes, renews and revokes      *)
(* them, and whoever holds the token reads through the hub what the machine  *)
(* has under that path now. A token is a number, in the order they are       *)
(* made; 0 is one nobody made.                                               *)
EXTENDS Naturals, FiniteSets, Sequences

CONSTANTS Links, Readers, Sources,
          MaxTokens, MaxAsks, MaxClock,
          MaxMoves,                 \* events of the machine and its owner's page
          LockAfter, MaxLock,       \* throttle.rs: LOCK_AFTER, MAX_LOCK_SECS
          ReadsPerWindow, Window    \* CONTENT_READS_PER_MIN, a minute

LinkSharesAssumption ==
  /\ MaxTokens \in Nat /\ MaxAsks \in Nat /\ MaxClock \in Nat /\ MaxMoves \in Nat
  /\ LockAfter \in Nat \ {0} /\ MaxLock \in Nat
  /\ ReadsPerWindow \in Nat /\ Window \in Nat

VARIABLES clock,
          link,       \* the row of every link: its token, 0 when there is none
          tokens,     \* tokens made so far
          minting,    \* the owner's request that waits for the machine: when to expire
          machine,    \* [linked, online]
          file,       \* what is under the path
          entry,      \* LoginThrottle.sources
          hits,       \* content_rate_limited: the window of every token
          reader,     \* the requests of the readers
          asks, moves,
          sends       \* history: when the machine was asked to read, by token

linkVars == <<clock, link, tokens, minting, machine, file, entry, hits, reader,
              asks, moves, sends>>

Tokens == 1..MaxTokens
Never == 0
NoLink == [token |-> 0, expires |-> Never]
Steps == {"idle", "asked", "passed", "found", "sent", "done"}
Answers == {"none", "notfound", "busy", "offline", "nopreview", "page", "text"}
NoReader(r) == [at |-> "idle", op |-> "meta", token |-> 0, source |-> CHOOSE s \in Sources : TRUE,
                now |-> 0, live |-> FALSE, found |-> FALSE, answer |-> "none"]

TypeOK ==
  /\ clock \in 0..MaxClock /\ tokens \in 0..MaxTokens /\ asks \in 0..MaxAsks /\ moves \in 0..MaxMoves
  /\ \A l \in Links : link[l].token \in 0..MaxTokens /\ link[l].expires \in 0..MaxClock
  /\ minting \subseteq 0..MaxClock
  /\ machine \in [linked : BOOLEAN, online : BOOLEAN]
  /\ file \in {"text", "binary", "missing"}
  /\ \A s \in Sources : entry[s].fails \in 0..MaxAsks /\ entry[s].until \in 0..(MaxClock + MaxLock)
  /\ \A t \in Tokens : Len(hits[t]) <= ReadsPerWindow
  /\ \A r \in Readers : reader[r].at \in Steps /\ reader[r].answer \in Answers

Init ==
  /\ clock = 1 /\ link = [l \in Links |-> NoLink] /\ tokens = 0 /\ minting = {}
  /\ machine = [linked |-> TRUE, online |-> TRUE] /\ file = "text"
  /\ entry = [s \in Sources |-> [fails |-> 0, until |-> 0]]
  /\ hits = [t \in Tokens |-> <<>>] /\ reader = [r \in Readers |-> NoReader(r)]
  /\ asks = 0 /\ moves = 0 /\ sends = [t \in Tokens |-> <<>>]

owner == <<link, tokens, minting>>
world == <<clock, machine, file>>
readers == <<entry, hits, reader, asks, sends>>
Happens == moves < MaxMoves /\ moves' = moves + 1
-----------------------------------------------------------------------------
\* mint: the machine has to read the file first.
Mints(expires) ==
  /\ minting = {} /\ machine.linked /\ machine.online /\ minting' = {expires}
  /\ UNCHANGED <<link, tokens, world, readers, moves>>

StillOwned == machine.linked

Minted(l) ==
  /\ minting # {} /\ link[l] = NoLink /\ tokens < MaxTokens
  /\ file = "text" /\ StillOwned
  /\ \E e \in minting :
       link' = [link EXCEPT ![l] = [token |-> tokens + 1, expires |-> e]]
  /\ tokens' = tokens + 1 /\ minting' = {} /\ UNCHANGED <<world, readers, moves>>

MintFails ==
  /\ minting # {} /\ minting' = {} /\ UNCHANGED <<link, tokens, world, readers, moves>>

Revokes(l) ==
  /\ link[l] # NoLink /\ Happens /\ link' = [link EXCEPT ![l] = NoLink]
  /\ UNCHANGED <<tokens, minting, world, readers>>

\* The same link under a fresh token; an expired one may be renewed, and stays expired.
Regenerates(l) ==
  /\ link[l] # NoLink /\ tokens < MaxTokens /\ Happens
  /\ link' = [link EXCEPT ![l].token = tokens + 1] /\ tokens' = tokens + 1
  /\ UNCHANGED <<minting, world, readers>>

\* Unlinking the machine takes its links along; the uplink may stay up for a while.
Unlinks ==
  /\ machine.linked /\ Happens /\ machine' = [machine EXCEPT !.linked = FALSE]
  /\ link' = [l \in Links |-> NoLink]
  /\ UNCHANGED <<tokens, minting, clock, file, readers>>

Connectivity ==
  /\ Happens /\ machine' = [machine EXCEPT !.online = ~@]
  /\ UNCHANGED <<owner, clock, file, readers>>

FileChanges ==
  /\ Happens /\ file' \in {"text", "binary", "missing"} \ {file}
  /\ UNCHANGED <<owner, clock, machine, readers>>

Tick == clock < MaxClock /\ clock' = clock + 1 /\ UNCHANGED <<owner, machine, file, readers, moves>>
-----------------------------------------------------------------------------
Unexpired(l) == link[l].expires = Never \/ link[l].expires > clock

Live(t) == t # 0 /\ \E l \in Links : link[l].token = t /\ Unexpired(l)

Asks(r, op, t, s) ==
  /\ reader[r].at \in {"idle", "done"} /\ asks < MaxAsks /\ t <= tokens
  /\ asks' = asks + 1
  /\ reader' = [reader EXCEPT ![r] = [NoReader(r) EXCEPT
       !.at = "asked", !.op = op, !.token = t, !.source = s,
       !.live = \E l \in Links : /\ link[l] # NoLink /\ link[l].token = t
                                 /\ link[l].expires \notin 1..clock]]
  /\ UNCHANGED <<owner, world, moves, entry, hits, sends>>

Answered(r, a) == [reader EXCEPT ![r].at = "done", ![r].answer = a]

\* A locked source is refused whatever it asks for.
Throttled(r) ==
  /\ reader[r].at = "asked"
  /\ reader' = IF entry[reader[r].source].until > clock THEN Answered(r, "notfound")
               ELSE [reader EXCEPT ![r].at = "passed", ![r].now = clock]
  /\ UNCHANGED <<owner, world, moves, entry, hits, asks, sends>>

Backoff(fails) ==
  IF fails < LockAfter THEN 0
  ELSE LET lock == 2 ^ (fails - LockAfter) IN IF lock < MaxLock THEN lock ELSE MaxLock

\* Nothing clears the failures of a source: a link that opens is no login.
LooksUp(r) ==
  LET s == reader[r].source  fails == entry[s].fails + 1 IN
  /\ reader[r].at = "passed"
  /\ IF Live(reader[r].token)
     THEN /\ reader' = IF reader[r].op = "meta" THEN Answered(r, "page")
                       ELSE [reader EXCEPT ![r].at = "found"]
          /\ UNCHANGED entry
     ELSE /\ reader' = Answered(r, "notfound")
          /\ entry' = [entry EXCEPT ![s] =
               [fails |-> fails,
                until |-> IF Backoff(fails) = 0 THEN 0 ELSE reader[r].now + Backoff(fails)]]
  /\ UNCHANGED <<owner, world, moves, hits, asks, sends>>

Full(recent) == Len(recent) >= ReadsPerWindow

Recent(t) == SelectSeq(hits[t], LAMBDA at : at + Window > clock)

Reads(r) ==
  LET t == reader[r].token IN
  /\ reader[r].at = "found"
  /\ IF Full(Recent(t))
     THEN /\ hits' = [hits EXCEPT ![t] = Recent(t)] /\ reader' = Answered(r, "busy")
          /\ UNCHANGED sends
     ELSE /\ hits' = [hits EXCEPT ![t] = Append(Recent(t), clock)]
          /\ IF machine.online
             THEN /\ reader' = [reader EXCEPT ![r].at = "sent", ![r].found = TRUE]
                  /\ sends' = [sends EXCEPT ![t] = Append(@, clock)]
             ELSE reader' = Answered(r, "offline") /\ UNCHANGED sends
  /\ UNCHANGED <<owner, world, moves, entry, asks>>

\* The machine's answer, whatever became of the link meanwhile; or none.
MachineAnswers(r) ==
  /\ reader[r].at = "sent"
  /\ reader' \in
       {Answered(r, CASE file = "text" -> "text" [] file = "binary" -> "nopreview"
                      [] file = "missing" -> "notfound"),
        Answered(r, "offline")}
  /\ UNCHANGED <<owner, world, moves, entry, hits, asks, sends>>

Serve(r) == Throttled(r) \/ LooksUp(r) \/ Reads(r) \/ MachineAnswers(r)

Next ==
  \/ \E e \in {Never} \cup (1..MaxClock) : Mints(e)
  \/ MintFails \/ \E l \in Links : Minted(l) \/ Revokes(l) \/ Regenerates(l)
  \/ Unlinks \/ Connectivity \/ FileChanges \/ Tick
  \/ \E r \in Readers, op \in {"meta", "content"}, t \in 0..MaxTokens, s \in Sources :
       Asks(r, op, t, s)
  \/ \E r \in Readers : Serve(r)

Spec == Init /\ [][Next]_linkVars
-----------------------------------------------------------------------------
(* A token that was revoked, renewed, expired or unlinked when a reader came *)
(* gets the answer of one nobody made, and cannot find out whether the       *)
(* machine is up (resolve, content).                                         *)
DeadIsUnknown ==
  \A r \in Readers : reader[r].at = "done" /\ ~reader[r].live => reader[r].answer = "notfound"

(* However many read at once, a link's token costs the machine no more reads *)
(* in a window than the limit (content_rate_limited).                        *)
MachineIsSpared ==
  \A t \in Tokens : \A i \in 1..Len(sends[t]) :
    Cardinality({k \in i..Len(sends[t]) : sends[t][k] < sends[t][i] + Window}) <= ReadsPerWindow

(* No link outlives its machine, a mint under way included                   *)
(* (link_share_create).                                                      *)
LinksHaveMachines == \A l \in Links : link[l] # NoLink => machine.linked

Refused(r) ==
  reader[r].at = "done" /\ reader[r].answer = "notfound" /\ ~reader[r].found
    /\ Live(reader[r].token)

(* A link that lives opens for every source that was never locked out.  The  *)
(* comment in resolve claims more, "it never refuses a grant that resolves": *)
(* a locked source is refused before its token is looked up.                 *)
LiveLinksOpen ==
  \A r \in Readers : Refused(r) => entry[reader[r].source].fails >= LockAfter

LinksHold == DeadIsUnknown /\ MachineIsSpared /\ LinksHaveMachines /\ LiveLinksOpen
=============================================================================
