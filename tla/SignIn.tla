------------------------------- MODULE SignIn -------------------------------
(* Signing in to a multi-tenant hub: passwords and the throttle on them      *)
(* (crates/hub/src/handlers.rs, account.rs, crates/auth/src/throttle.rs) and *)
(* Google accounts (oauth.rs), over the users table of db.rs.                *)
(*                                                                           *)
(* A login checks the throttle, verifies the password on a worker thread and *)
(* records the outcome with the time it had read at its start. A Google      *)
(* callback proves its state by the browser's cookie or, failing that, by    *)
(* the pending state the hub kept, and then finds, links or creates the      *)
(* account in statements of their own. One source of attempts: entries of    *)
(* the throttle are independent but for the eviction of a full table. The    *)
(* signed cookie itself is stateless and stands for the user id it names.    *)
EXTENDS Integers, FiniteSets

CONSTANTS Users,       \* ids of users rows
          Mails,       \* addresses
          Subjects,    \* Google accounts
          Callers,     \* requests in progress
          LockAfter, MaxLock,   \* LOCK_AFTER, MAX_LOCK_SECS
          MaxClock, MaxGuesses, \* bounds on time and on failed logins
          None

SignInAssumption ==
  /\ LockAfter \in Nat \ {0} /\ MaxLock \in Nat /\ MaxClock \in Nat /\ MaxGuesses \in Nat
  /\ None \notin Users \cup Mails \cup Subjects

VARIABLES part,        \* what the behaviour exercises, fixed: "password" or "google"
          overlap,     \* requests may overlap: fixed
          clock,       \* seconds
          entry,       \* the throttle's entry of the source
          users,       \* the users table
          pending,     \* pending OAuth states, by the source that asked
          calls,       \* requests in progress
          guesses,     \* history: failures since the entry was last reset
          since,       \* history: when that was
          issued       \* history: <<user id, subject>> of the cookies issued to callbacks

signVars == <<part, overlap, clock, entry, users, pending, calls, guesses, since, issued>>

Idle == [op |-> "idle"]
NoEntry == [fails |-> 0, until |-> 0]
Row == [mail : Mails, password : BOOLEAN, sub : Subjects \cup {None}]
Sources == {"here", "elsewhere"}

TypeOK ==
  /\ part \in {"password", "google"} /\ overlap \in BOOLEAN /\ clock \in 0..MaxClock
  /\ entry \in [fails : 0..MaxGuesses, until : 0..(MaxClock + MaxLock)]
  /\ users \in [Users -> Row \cup {None}]
  /\ pending \in [Subjects -> Sources \cup {None}]
  /\ \A c \in Callers : calls[c] = Idle \/ calls[c].op \in {"verify", "signup", "find", "link", "insert"}
  /\ guesses \in 0..MaxGuesses /\ since \in 0..MaxClock
  /\ issued \subseteq Users \X Subjects

Init ==
  /\ part \in {"password", "google"} /\ overlap \in BOOLEAN
  /\ clock = 0 /\ entry = NoEntry
  /\ users \in {[u \in Users |-> IF u = known THEN [mail |-> m, password |-> TRUE, sub |-> None]
                                ELSE None] : known \in Users \cup {None}, m \in Mails}
  /\ pending = [g \in Subjects |-> None]
  /\ calls = [c \in Callers |-> Idle]
  /\ guesses = 0 /\ since = 0 /\ issued = {}

Rows == {u \in Users : users[u] # None}
MayStart(c) == calls[c] = Idle /\ (overlap \/ \A d \in Callers : calls[d] = Idle)
Done(c) == calls' = [calls EXCEPT ![c] = Idle]

-----------------------------------------------------------------------------
(* LoginThrottle. The time recorded is the one read when the request began.  *)
SlipLocked == entry.until > clock + 1
Locked == entry.until > clock
Backoff(fails) ==
  IF fails < LockAfter THEN 0
  ELSE LET lock == 2 ^ (fails - LockAfter) IN IF lock < MaxLock THEN lock ELSE MaxLock

RecordFailure(now) ==
  /\ guesses < MaxGuesses
  /\ LET n == IF entry.fails < MaxGuesses THEN entry.fails + 1 ELSE MaxGuesses IN
     entry' = [fails |-> n, until |-> IF Backoff(n) = 0 THEN 0 ELSE now + Backoff(n)]
  /\ guesses' = guesses + 1
  /\ since' = since

RecordSuccess == entry' = NoEntry /\ guesses' = 0 /\ since' = clock

(* A table that has reached its limit drops every entry not locked now, so   *)
(* the failures of a source still under the limit are forgotten.             *)
Evict ==
  /\ part = "password" /\ ~Locked /\ entry # NoEntry
  /\ entry' = NoEntry /\ guesses' = 0 /\ since' = clock
  /\ UNCHANGED <<part, overlap, clock, users, pending, calls, issued>>

Tick ==
  /\ part = "password" /\ clock < MaxClock
  /\ clock' = clock + 1
  /\ UNCHANGED <<part, overlap, entry, users, pending, calls, guesses, since, issued>>

(* login and signup: refused while locked; otherwise the password is         *)
(* verified, or the account inserted, and the outcome recorded.              *)
Attempt(c, op, m) ==
  /\ part = "password" /\ MayStart(c)
  /\ ~Locked
  /\ calls' = [calls EXCEPT ![c] = [op |-> op, mail |-> m, now |-> clock]]
  /\ UNCHANGED <<part, overlap, clock, entry, users, pending, guesses, since, issued>>

Verify(c) ==
  /\ calls[c].op = "verify" /\ Done(c)
  /\ \/ /\ \E u \in Rows : users[u].mail = calls[c].mail /\ users[u].password
        /\ RecordSuccess
     \/ RecordFailure(calls[c].now)
  /\ UNCHANGED <<part, overlap, clock, users, pending, issued>>

Signup(c) ==
  LET m == calls[c].mail IN
  /\ calls[c].op = "signup" /\ Done(c)
  /\ IF \E u \in Rows : users[u].mail = m
     THEN RecordFailure(calls[c].now) /\ UNCHANGED users
     ELSE /\ \E u \in Users \ Rows :
               users' = [users EXCEPT ![u] = [mail |-> m, password |-> TRUE, sub |-> None]]
          /\ RecordSuccess
  /\ UNCHANGED <<part, overlap, clock, pending, issued>>

-----------------------------------------------------------------------------
(* google_start parks a state for its source, besides the browser's cookie;  *)
(* the oldest goes when the map is full, all go when the hub restarts.       *)
GoogleStart(g, s) ==
  /\ part = "google" /\ pending[g] = None
  /\ pending' = [pending EXCEPT ![g] = s]
  /\ UNCHANGED <<part, overlap, clock, entry, users, calls, guesses, since, issued>>

PendingLost(g) ==
  /\ pending[g] # None
  /\ pending' = [pending EXCEPT ![g] = None]
  /\ UNCHANGED <<part, overlap, clock, entry, users, calls, guesses, since, issued>>

(* google_callback: with the cookie the state is consumed and not needed;    *)
(* without it the state must be there and come from this source, and is      *)
(* consumed either way.                                                      *)
Admits(g, s, cookie) == cookie \/ pending[g] = s

GoogleCallback(c, g, m, s, cookie) ==
  /\ part = "google" /\ MayStart(c)
  /\ pending' = [pending EXCEPT ![g] = None]
  /\ IF Admits(g, s, cookie)
     THEN calls' = [calls EXCEPT ![c] = [op |-> "find", sub |-> g, mail |-> m, row |-> None]]
     ELSE UNCHANGED calls
  /\ <<pending, calls>>' # <<pending, calls>>
  /\ UNCHANGED <<part, overlap, clock, entry, users, guesses, since, issued>>

(* upsert_google_user: by subject; else an unbound row of the address, which *)
(* is then bound by id; else a new row, refused by the unique keys.          *)
SignedIn(c, u) == Done(c) /\ issued' = issued \cup {<<u, calls[c].sub>>}

Find(c) ==
  LET k == calls[c]
      bound == {u \in Rows : users[u].sub = k.sub}
      free == {u \in Rows : users[u].mail = k.mail /\ users[u].sub = None} IN
  /\ k.op = "find"
  /\ \/ \E u \in bound : SignedIn(c, u)
     \/ /\ bound = {} /\ UNCHANGED issued
        /\ \/ \E u \in free : calls' = [calls EXCEPT ![c] = [k EXCEPT !.op = "link", !.row = u]]
           \/ free = {} /\ calls' = [calls EXCEPT ![c] = [k EXCEPT !.op = "insert"]]
  /\ UNCHANGED <<part, overlap, clock, entry, users, pending, guesses, since>>

\* UPDATE users SET google_sub = ? WHERE id = ?; google_sub is unique.
Link(c) ==
  LET k == calls[c] IN
  /\ k.op = "link"
  /\ IF k.row \in Rows /\ \A u \in Rows \ {k.row} : users[u].sub # k.sub
     THEN users' = [users EXCEPT ![k.row].sub = k.sub] /\ SignedIn(c, k.row)
     ELSE Done(c) /\ UNCHANGED <<users, issued>>
  /\ UNCHANGED <<part, overlap, clock, entry, pending, guesses, since>>

Insert(c) ==
  LET k == calls[c] IN
  /\ k.op = "insert"
  /\ IF \E u \in Rows : users[u].mail = k.mail \/ users[u].sub = k.sub
     THEN Done(c) /\ UNCHANGED <<users, issued>>
     ELSE \E u \in Users \ Rows :
            /\ users' = [users EXCEPT ![u] = [mail |-> k.mail, password |-> FALSE, sub |-> k.sub]]
            /\ SignedIn(c, u)
  /\ UNCHANGED <<part, overlap, clock, entry, pending, guesses, since>>

Next ==
  \/ Tick \/ Evict
  \/ \E c \in Callers :
       \/ \E m \in Mails, op \in {"verify", "signup"} : Attempt(c, op, m)
       \/ Verify(c) \/ Signup(c) \/ Find(c) \/ Link(c) \/ Insert(c)
       \/ \E g \in Subjects, m \in Mails, s \in Sources, cookie \in BOOLEAN :
            GoogleCallback(c, g, m, s, cookie)
  \/ \E g \in Subjects : PendingLost(g) \/ \E s \in Sources : GoogleStart(g, s)

Spec == Init /\ [][Next]_signVars

-----------------------------------------------------------------------------
(* Guessing takes time: taken one at a time, the failures of a source since  *)
(* its last success have been followed, all but the last, by the lock their  *)
(* number earns, so n of them need the sum of the first n - 1 locks.         *)
LockSum[n \in 0..MaxGuesses] == IF n = 0 THEN 0 ELSE LockSum[n - 1] + Backoff(n)

GuessesTakeTime ==
  part = "password" /\ ~overlap /\ guesses > 0 => clock - since >= LockSum[guesses - 1]

(* Whoever signs in with Google is, for good, the person their account names *)
(* as long as callbacks do not overlap: no subject takes over another's row. *)
SubjectKeepsAccount ==
  ~overlap => \A i \in issued : users[i[1]].sub = i[2]

(* However callbacks overlap, a subject has one account, and so has a mail.  *)
OneAccountEach ==
  \A u, v \in Rows : u # v =>
    users[u].mail # users[v].mail /\ (users[u].sub # users[v].sub \/ users[u].sub = None)

(* An account is reached by its owner and by guessing only slowly.           *)
AccountsAreOnesOwn == GuessesTakeTime /\ SubjectKeepsAccount /\ OneAccountEach
=============================================================================
