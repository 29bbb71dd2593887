------------------------------- MODULE Browse -------------------------------
(* Looking at files and taking them away: the listings of folders and the    *)
(* download of a file or of a range of it (src/files.rs and their relayed    *)
(* twins in src/fileops.rs). Nothing holds the directory or the file still:  *)
(* sessions create, replace, rewrite, rename and remove while a listing      *)
(* walks and while a download is between asking for the size, opening and    *)
(* reading.                                                                  *)
(*                                                                           *)
(* One directory and one request. A byte is named by the version it is of    *)
(* and its place in it; a replacement, as a save makes, is a new inode, and  *)
(* what is open keeps the old one.                                           *)
EXTENDS Integers, Sequences, FiniteSets, FiniteSetsExt

CONSTANTS Names,       \* names in the directory
          Kinds,       \* name -> "file" or "dir"
          MaxSize,
          MaxMoves     \* changes by the sessions: a bound

BrowseAssumption ==
  /\ Kinds \in [Names -> {"file", "dir"}]
  /\ MaxSize \in Nat \ {0} /\ MaxMoves \in Nat

VARIABLES inodes,      \* inode -> its content and mtime
          disk,        \* name -> its inode, 0 if there is none
          moves,
          at,          \* where the request is
          op,          \* "download", "dirs" or "files"
          name, asked, \* the file and the range asked for
          total, range,
          fd, body,    \* the inode being read and what was sent of it
          left, listed \* names the walk has yet to reach, entries listed

\* What the invariants compare with.
VARIABLES touched,     \* names changed since the request began
          rewritten,   \* inodes written in place
          away         \* the client left

sessions == <<inodes, disk, moves, touched, rewritten>>
request == <<at, op, name, asked, total, range, fd, body, left, listed, away>>
browseVars == <<inodes, disk, moves, at, op, name, asked, total, range, fd, body,
                left, listed, touched, rewritten, away>>

Inode(content, mtime) == [content |-> content, mtime |-> mtime]
Content(ver, size) == [i \in 1..size |-> <<ver, i>>]

\* A range header: first-last, either of them Blank; or none that can be read.
Blank == -1
Header(first, last) == [first |-> first, last |-> last]
NoRange == Header(Blank, Blank)
Ranges == [first : Blank..MaxSize, last : Blank..(MaxSize + 1)]
Entire == [from |-> 0, upto |-> Blank]

TypeOK ==
  /\ disk \in [Names -> 0..Len(inodes)] /\ Len(inodes) <= MaxMoves + 1
  /\ \A i \in DOMAIN inodes : Len(inodes[i].content) <= MaxSize
  /\ at \in {"idle", "stat", "open", "send", "complete", "short", "walk", "listed", "refused"}
  /\ asked \in Ranges /\ total \in 0..MaxSize /\ fd \in 0..Len(inodes)
  /\ left \subseteq Names /\ touched \subseteq Names

Init ==
  /\ \E size \in {0, MaxSize} : inodes = <<Inode(Content(1, size), 1)>>
  /\ disk \in [Names -> {0, 1}] /\ Cardinality({n \in Names : disk[n] = 1}) <= 2
  /\ moves = 0 /\ at = "idle" /\ op = "files" /\ asked = NoRange
  /\ name = CHOOSE n \in Names : TRUE
  /\ total = 0 /\ range = Entire /\ fd = 0 /\ body = <<>>
  /\ left = {} /\ listed = {} /\ touched = {} /\ rewritten = {} /\ away = FALSE

-----------------------------------------------------------------------------
(* parse_range: clamped to the file; what cannot be satisfied, is of several *)
(* ranges or is not a range at all is as if none was asked.                  *)
ParseRange(spec, size) ==
  LET suffix == spec.first = Blank
      from   == IF ~suffix THEN spec.first ELSE Max({0, size - spec.last})
      upto   == IF suffix \/ spec.last = Blank THEN size - 1 ELSE Min({spec.last, size - 1})
  IN IF \/ size = 0
        \/ suffix /\ spec.last \in {Blank, 0}
        \/ from > upto \/ from >= size
     THEN Entire ELSE [from |-> from, upto |-> upto]

Announced == IF range = Entire THEN total ELSE range.upto - range.from + 1

Download(n, header) ==
  /\ at = "idle" /\ at' = "stat" /\ op' = "download"
  /\ name' = n /\ asked' = header
  /\ UNCHANGED <<sessions, total, range, fd, body, left, listed, away>>

\* download: 403, 404 or 400 unless it is a regular file under the home.
Stat ==
  /\ at = "stat"
  /\ IF disk[name] = 0 \/ Kinds[name] # "file"
     THEN at' = "refused" /\ UNCHANGED <<total, range>>
     ELSE LET size == Len(inodes[disk[name]].content) IN
          /\ at' = "open" /\ total' = size /\ range' = ParseRange(asked, size)
  /\ UNCHANGED <<sessions, op, name, asked, fd, body, left, listed, away>>

\* The file is opened by its name again, and a range is sought.
Open ==
  /\ at = "open"
  /\ at' = IF disk[name] = 0 THEN "refused" ELSE "send"
  /\ fd' = disk[name]
  /\ UNCHANGED <<sessions, op, name, asked, total, range, body, left, listed, away>>

(* One byte more, of those announced: the server sends no more than that and *)
(* a body that ends before breaks the connection.                            *)
Send ==
  /\ at = "send"
  /\ LET next == range.from + Len(body) + 1 IN
     IF Len(body) < Announced /\ next <= Len(inodes[fd].content)
     THEN body' = Append(body, inodes[fd].content[next]) /\ at' = at
     ELSE body' = body /\ at' = IF Len(body) = Announced THEN "complete" ELSE "short"
  /\ UNCHANGED <<sessions, op, name, asked, total, range, fd, left, listed, away>>

ClientLeaves ==
  /\ at = "send" /\ at' = "short" /\ away' = TRUE
  /\ UNCHANGED <<sessions, op, name, asked, total, range, fd, body, left, listed>>

-----------------------------------------------------------------------------
(* dirs and files: the path asked for; for files, else the folder of the     *)
(* session, which must be known, else the share folder. It must be in the    *)
(* home. What is created while it is read may be seen or not.                *)
Refused(which, path, session) ==
  \/ path \in {"outside", "gone", "file"}
  \/ which = "files" /\ path = "" /\ session \in {"unknown", "outside", "gone"}

List(which, path, session) ==
  /\ at = "idle" /\ op' = which
  /\ IF Refused(which, path, session) THEN at' = "refused" /\ left' = {}
     ELSE /\ at' = "walk"
          /\ \E more \in SUBSET {n \in Names : disk[n] = 0} :
               left' = {n \in Names : disk[n] # 0} \cup more
  /\ UNCHANGED <<sessions, name, asked, total, range, fd, body, listed, away>>

Entry(n) ==
  [name |-> n, kind |-> Kinds[n], size |-> Len(inodes[disk[n]].content),
   mtime |-> inodes[disk[n]].mtime]

\* What is gone by the time it is looked at is left out.
ListEntry(n) ==
  /\ at = "walk" /\ n \in left /\ left' = left \ {n}
  /\ listed' = IF disk[n] # 0 /\ (op = "files" \/ Kinds[n] = "dir")
               THEN listed \cup {Entry(n)} ELSE listed
  /\ UNCHANGED <<sessions, at, op, name, asked, total, range, fd, body, away>>

Listed ==
  /\ at = "walk" /\ left = {} /\ at' = "listed"
  /\ UNCHANGED <<sessions, op, name, asked, total, range, fd, body, left, listed, away>>

-----------------------------------------------------------------------------
\* The sessions' programs.
Change(ns) ==
  /\ at \notin {"complete", "short", "listed", "refused"}
  /\ moves < MaxMoves /\ moves' = moves + 1
  /\ touched' = IF at = "idle" THEN {} ELSE touched \cup ns

Replace(n, size) ==
  /\ Change({n})
  /\ inodes' = Append(inodes, Inode(Content(moves + 2, size), moves + 2))
  /\ disk' = [disk EXCEPT ![n] = Len(inodes')]
  /\ UNCHANGED rewritten

Rewrite(n, size) ==
  /\ disk[n] # 0 /\ Change({m \in Names : disk[m] = disk[n]})
  /\ inodes' = [inodes EXCEPT ![disk[n]] = Inode(Content(moves + 2, size), moves + 2)]
  /\ rewritten' = rewritten \cup {disk[n]}
  /\ UNCHANGED disk

Remove(n) ==
  /\ disk[n] # 0 /\ Change({n})
  /\ disk' = [disk EXCEPT ![n] = 0]
  /\ UNCHANGED <<inodes, rewritten>>

Rename(n, m) ==
  /\ disk[n] # 0 /\ n # m /\ Kinds[n] = Kinds[m] /\ Change({n, m})
  /\ disk' = [disk EXCEPT ![m] = disk[n], ![n] = 0]
  /\ UNCHANGED <<inodes, rewritten>>

Sessions ==
  /\ \E n \in Names :
       \/ \E size \in 0..MaxSize : Replace(n, size) \/ Rewrite(n, size)
       \/ Remove(n)
       \/ \E m \in Names : Rename(n, m)
  /\ UNCHANGED request

Next ==
  \/ \E n \in Names, header \in Ranges : Download(n, header)
  \/ Stat \/ Open \/ Send \/ ClientLeaves
  \/ \E which \in {"dirs", "files"}, path \in {"", "inside", "outside", "gone", "file"},
        session \in {"", "inside", "outside", "gone", "unknown"} : List(which, path, session)
  \/ \E n \in Names : ListEntry(n)
  \/ Listed
  \/ Sessions

Spec == Init /\ [][Next]_browseVars

-----------------------------------------------------------------------------
\* The bytes a range header means, of a file of this size (RFC 9110).
Meant(spec, size) ==
  {i \in 0..(size - 1) :
     IF spec.first = Blank THEN spec.last # Blank /\ i >= size - spec.last
     ELSE i >= spec.first /\ (spec.last = Blank \/ i <= spec.last)}

(* What is announced is what was asked for, within the file as it was when   *)
(* it was asked: or all of it (parse_range).                                 *)
AnnouncesTheRange ==
  at \in {"open", "send", "complete"} =>
    LET meant == Meant(asked, total)
        all   == 0..(total - 1)
    IN /\ (IF meant = {} THEN all ELSE meant) = range.from..(range.from + Announced - 1)
       /\ range # Entire => meant = range.from..range.upto

(* However the file is replaced, renamed or removed meanwhile, what is sent  *)
(* is a piece of one version, from where it was asked, and a body that is    *)
(* short is not taken for all; a file nobody touches is sent whole and as it *)
(* is, unless the client leaves (download).                                  *)
SendsOneVersion ==
  /\ fd # 0 /\ fd \notin rewritten =>
       \A i \in DOMAIN body : /\ range.from + i <= Len(inodes[fd].content)
                              /\ body[i] = inodes[fd].content[range.from + i]
  /\ at = "complete" => Len(body) = Announced
  /\ at = "short" => away \/ touched # {}
  /\ at = "refused" /\ op = "download" =>
       disk[name] = 0 \/ Kinds[name] # "file" \/ name \in touched

(* A folder's listing has what stayed where it was, once and as it is, and   *)
(* nothing twice under one name (dirs, files).                               *)
ListsWhatStayed ==
  at = "listed" =>
    /\ \A x, y \in listed : x.name = y.name => x = y
    /\ \A n \in Names \ touched :
         (\E x \in listed : x.name = n)
           <=> disk[n] # 0 /\ (op = "files" \/ Kinds[n] = "dir")
    /\ \A x \in listed : x.name \notin touched => x = Entry(x.name)

BrowseHolds == AnnouncesTheRange /\ SendsOneVersion /\ ListsWhatStayed
=============================================================================
