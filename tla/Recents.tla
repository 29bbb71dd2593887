------------------------------- MODULE Recents -------------------------------
(* The sessions a terminal client was in last (crates/tui/src/config.rs and  *)
(* app.rs): each client keeps the list of its server in memory and in one    *)
(* state file that all clients of the user share. An attach, or a second of  *)
(* focus, moves a session to the head; only an explicit kill drops one. A    *)
(* change reads the file again, edits one server's list and replaces the     *)
(* file: by a rename on unix, truncated and rewritten on Windows. Nothing    *)
(* locks it.                                                                 *)
(*                                                                           *)
(* A session is <<machine, name>>; two clients of one user may be pointed at *)
(* one server or at two.                                                     *)
EXTENDS Naturals, Sequences, SequencesExt, FiniteSets

CONSTANTS Clients, Sessions,
          ScopeOf,      \* the server a client talks to: the key of its list
          MaxRecents,   \* entries kept
          Renames,      \* unix: the file is replaced by a rename
          MaxSteps,     \* updates of the file, and starts: a bound
          None

RecentsAssumption ==
  /\ MaxRecents \in Nat \ {0} /\ MaxSteps \in Nat
  /\ Renames \in BOOLEAN /\ None \notin Sessions
  /\ DOMAIN ScopeOf = Clients

Scopes == {ScopeOf[c] : c \in Clients}
NoDwell == [of |-> None, done |-> FALSE]

VARIABLES file,         \* server -> its list, as the file says
          torn,         \* the file is cut short: it parses as no file at all
          boxes,        \* the sessions a client has in its boxes
          focus,        \* the one in the focused box, or None
          recents,      \* the list in a client's memory
          dwell,        \* what had the focus at the last tick, and if it counted
          writing,      \* what a client is about to write, and whether it began
          steps         \* updates and starts so far

\* What the invariants compare with: the history of the accesses themselves.
VARIABLES mru,          \* server -> its list, were each update one step
          own,          \* the list of what this client did alone
          stale,        \* clients whose reading another has written over since
          raced,        \* such a reading was written
          failed        \* clients one of whose writes was lost

history == <<mru, own, stale, raced, failed>>
recentsVars == <<file, torn, boxes, focus, recents, dwell, writing, steps,
                 mru, own, stale, raced, failed>>

Lists == UNION {[1..n -> Sessions] : n \in 0..MaxRecents}
Idle == [stage |-> "idle", state |-> [h \in Scopes |-> <<>>], op |-> <<"none", None>>]

TypeOK ==
  /\ file \in [Scopes -> Lists] /\ mru \in [Scopes -> Lists]
  /\ torn \in BOOLEAN /\ (Renames => ~torn)
  /\ \A c \in Clients :
       /\ focus[c] \in boxes[c] \cup {None} /\ boxes[c] \subseteq Sessions
       /\ recents[c] \in Lists /\ own[c] \in Lists
       /\ dwell[c] \in [of : Sessions \cup {None}, done : BOOLEAN]
       /\ writing[c].stage \in {"idle", "read", "begun"}
       /\ writing[c].state \in [Scopes -> Lists]
  /\ stale \subseteq Clients /\ failed \subseteq Clients
  /\ raced \in BOOLEAN /\ steps \in 0..MaxSteps

Init ==
  /\ file = [h \in Scopes |-> <<>>] /\ torn = FALSE
  /\ boxes = [c \in Clients |-> {}] /\ focus = [c \in Clients |-> None]
  /\ recents = [c \in Clients |-> <<>>]
  /\ dwell = [c \in Clients |-> NoDwell]
  /\ writing = [c \in Clients |-> Idle] /\ steps = 0
  /\ mru = file /\ own = recents
  /\ stale = {} /\ raced = FALSE /\ failed = {}

-----------------------------------------------------------------------------
(* promote_recent and forget_recent on one list, and the closure of either   *)
(* on the list of one server.                                                *)
Leads(list, s) == list # <<>> /\ Head(list) = s
Dropped(list, s) == SelectSeq(list, LAMBDA r : r # s)
Promoted(list, s) ==
  IF Leads(list, s) THEN list
  ELSE SubSeq(<<s>> \o Dropped(list, s), 1,
              IF Len(Dropped(list, s)) < MaxRecents THEN Len(Dropped(list, s)) + 1
              ELSE MaxRecents)

Applied(op, list) ==
  CASE op[1] = "promote" -> Promoted(list, op[2])
    [] op[1] = "forget"  -> Dropped(list, op[2])
    [] OTHER             -> list

(* load_state: a file that is missing or does not parse is an empty one, and *)
(* nobody is told.                                                           *)
Loaded == IF torn THEN [h \in Scopes |-> <<>>] ELSE file

(* update_recents: what the file says now, changed; what was read is the new *)
(* list in memory, and a list that did not change is not written. The client *)
(* does nothing else until write_state returns.                              *)
Reread(c) == Loaded

Update(c, op) ==
  LET state == Reread(c)
      list  == Applied(op, state[ScopeOf[c]])
  IN /\ steps < MaxSteps /\ steps' = steps + 1
     /\ recents' = [recents EXCEPT ![c] = list]
     /\ writing' = [writing EXCEPT ![c] =
          IF list = state[ScopeOf[c]] THEN Idle
          ELSE [stage |-> "read", op |-> op,
                state |-> [state EXCEPT ![ScopeOf[c]] = list]]]
     /\ stale' = IF torn THEN stale \cup {c} ELSE stale \ {c}

(* App::promote_recent: what leads the list in memory is not promoted again, *)
(* whatever the file says by now; App::forget_recent always reads.           *)
Promote(c, s) ==
  /\ own' = [own EXCEPT ![c] = Promoted(@, s)]
  /\ IF Leads(recents[c], s) THEN UNCHANGED <<recents, writing, steps, stale>>
     ELSE Update(c, <<"promote", s>>)

Forget(c, s) ==
  /\ own' = [own EXCEPT ![c] = Dropped(@, s)]
  /\ Update(c, <<"forget", s>>)

Free(c) == writing[c].stage = "idle"

-----------------------------------------------------------------------------
(* remember, of fill_box: an attach promotes at once and counts as dwelt on. *)
Attach(c, s) ==
  /\ Free(c)
  /\ boxes' = [boxes EXCEPT ![c] = @ \cup {s}]
  /\ focus' = [focus EXCEPT ![c] = s]
  /\ dwell' = [dwell EXCEPT ![c] = [of |-> s, done |-> TRUE]]
  /\ Promote(c, s)
  /\ UNCHANGED <<file, torn, mru, raced, failed>>

\* The focus moves to another box, a filled one or an empty one.
Focus(c, s) ==
  /\ Free(c) /\ s \in boxes[c] \cup {None} /\ focus[c] # s
  /\ focus' = [focus EXCEPT ![c] = s]
  /\ UNCHANGED <<file, torn, boxes, recents, dwell, writing, steps, history>>

(* tick_focus_dwell: the session that has the focus at this tick and had it  *)
(* at an earlier one, a second ago or more (`long`), is promoted, once.      *)
Tick(c) ==
  /\ Free(c)
  /\ \E long \in BOOLEAN :
       LET s       == focus[c]
           settled == s # None /\ dwell[c].of = s /\ ~dwell[c].done /\ long
       IN /\ dwell' = [dwell EXCEPT ![c] =
               IF s = None THEN NoDwell
               ELSE IF dwell[c].of = s THEN [@ EXCEPT !.done = @ \/ settled]
               ELSE [of |-> s, done |-> FALSE]]
          /\ IF settled THEN Promote(c, s)
             ELSE UNCHANGED <<recents, writing, steps, stale, own>>
  /\ UNCHANGED <<file, torn, boxes, focus, mru, raced, failed>>

(* kill_focused: the session is forgotten whatever the kill will answer, and *)
(* its box emptied. A box whose session ended by itself is only emptied.     *)
KillFocused(c) ==
  /\ Free(c) /\ focus[c] # None
  /\ boxes' = [boxes EXCEPT ![c] = @ \ {focus[c]}]
  /\ focus' = [focus EXCEPT ![c] = None]
  /\ Forget(c, focus[c])
  /\ UNCHANGED <<file, torn, dwell, mru, raced, failed>>

Ended(c, s) ==
  /\ Free(c) /\ s \in boxes[c]
  /\ boxes' = [boxes EXCEPT ![c] = @ \ {s}]
  /\ focus' = [focus EXCEPT ![c] = IF @ = s THEN None ELSE @]
  /\ UNCHANGED <<file, torn, recents, dwell, writing, steps, history>>

(* key_confirm: the overlay holds the name alone; forgotten is the first of  *)
(* that name in the poll of now, on whichever machine, or nobody.            *)
KillListed(c, s) ==
  /\ Free(c)
  /\ Forget(c, s)
  /\ UNCHANGED <<file, torn, boxes, focus, dwell, mru, raced, failed>>

-----------------------------------------------------------------------------
(* write_state. On unix the text goes to a file of this process's own and is *)
(* renamed over; elsewhere the file is first cut to nothing. A write that    *)
(* fails leaves the list in memory, and nobody is told.                      *)
Overtaken(c) == stale \cup {d \in Clients \ {c} : writing[d].stage # "idle"}

Done(c) ==
  /\ file' = writing[c].state /\ torn' = FALSE
  /\ writing' = [writing EXCEPT ![c] = Idle]
  /\ mru' = [mru EXCEPT ![ScopeOf[c]] = Applied(writing[c].op, @)]
  /\ raced' = (raced \/ c \in stale)
  /\ stale' = Overtaken(c) \ {c}

Rename(c) ==
  /\ Renames /\ writing[c].stage = "read"
  /\ Done(c)
  /\ UNCHANGED <<boxes, focus, recents, dwell, steps, own, failed>>

Truncate(c) ==
  /\ ~Renames /\ writing[c].stage = "read"
  /\ torn' = TRUE
  /\ writing' = [writing EXCEPT ![c].stage = "begun"]
  /\ stale' = Overtaken(c)
  /\ UNCHANGED <<file, boxes, focus, recents, dwell, steps, mru, own, raced, failed>>

WriteAll(c) ==
  /\ writing[c].stage = "begun"
  /\ Done(c)
  /\ UNCHANGED <<boxes, focus, recents, dwell, steps, own, failed>>

WriteFails(c) ==
  /\ writing[c].stage # "idle"
  /\ writing' = [writing EXCEPT ![c] = Idle]
  /\ failed' = failed \cup {c}
  /\ UNCHANGED <<file, torn, boxes, focus, recents, dwell, steps, mru, own, stale, raced>>

(* The client dies, between two steps of a write or not, and is started      *)
(* again: App::new reads its list. What a cut file held is gone for all.     *)
Start(c) ==
  /\ steps < MaxSteps /\ steps' = steps + 1
  /\ writing' = [writing EXCEPT ![c] = Idle]
  /\ boxes' = [boxes EXCEPT ![c] = {}]
  /\ focus' = [focus EXCEPT ![c] = None]
  /\ dwell' = [dwell EXCEPT ![c] = NoDwell]
  /\ recents' = [recents EXCEPT ![c] = Loaded[ScopeOf[c]]]
  /\ own' = [own EXCEPT ![c] = Loaded[ScopeOf[c]]]
  /\ stale' = stale \ {c}
  /\ failed' = IF Free(c) /\ ~torn THEN failed ELSE failed \cup {c}
  /\ UNCHANGED <<file, torn, mru, raced>>

Next ==
  \E c \in Clients :
    \/ \E s \in Sessions : Attach(c, s) \/ Ended(c, s) \/ KillListed(c, s)
    \/ \E s \in Sessions \cup {None} : Focus(c, s)
    \/ Tick(c)
    \/ KillFocused(c)
    \/ Rename(c) \/ Truncate(c) \/ WriteAll(c) \/ WriteFails(c)
    \/ Start(c)

Spec == Init /\ [][Next]_recentsVars

-----------------------------------------------------------------------------
(* While no reading is written after another's write, the file holds what    *)
(* the updates come to one after the other, of every server: nobody's list   *)
(* is put over another's (update_recents).                                   *)
OneHistory == ~raced => file = mru

(* A client that is alone with its server and lost no write has in memory,   *)
(* and in the file, what it was in last, latest first, less what it killed;  *)
(* the row its menu offers first is the one it comes from.                   *)
Alone(c) == \A d \in Clients \ {c} : ScopeOf[d] # ScopeOf[c]
BackWhereOneWas ==
  \A c \in Clients :
    Alone(c) /\ ~raced /\ c \notin stale \cup failed => recents[c] = own[c]

\* Nobody is listed twice, whatever was lost.
NobodyTwice ==
  /\ \A h \in Scopes : IsInjective(file[h])
  /\ \A c \in Clients : IsInjective(recents[c])

RecentsHold == OneHistory /\ BackWhereOneWas /\ NobodyTwice
=============================================================================
