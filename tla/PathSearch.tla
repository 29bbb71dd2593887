----------------------------- MODULE PathSearch -----------------------------
(* The search for folders and files below a directory of the user's home     *)
(* (src/dirsearch.rs, and its two routes in files.rs and fileops.rs): a walk *)
(* breadth first that follows links, so that it must not go round in circles *)
(* nor leave the home; what it finds is scored by the name, by the path, by  *)
(* depth, age and use, and cut to the best. The walk itself is cut when it   *)
(* has taken too long or has seen too many entries.                          *)
(*                                                                           *)
(* A directory is a set of entries, each a name and the node it leads to,    *)
(* through a link or not; nodes are what canonicalize tells apart. A name is *)
(* a sequence of characters. What read_dir yields first is anybody's guess.  *)
EXTENDS Integers, Sequences, SequencesExt, FiniteSetsExt, TLC

CONSTANTS Trees,         \* file systems to search
          Queries,       \* what may be typed, in lower case
          Pruned,        \* PRUNE: names never entered
          Letters,       \* the characters, in their order
          MaxDepth, MaxVisited, MaxResults,
          DirNameBonus, FileNameBonus

\* A tree: the nodes, the home, where each root and session is, 0 if outside.
PathSearchAssumption ==
  /\ \A t \in Trees :
       /\ t.home \in DOMAIN t.nodes
       /\ \A n \in DOMAIN t.nodes : t.nodes[n].kind \in {"dir", "file", "other"}
       /\ \A p \in DOMAIN t.places : t.places[p] \in DOMAIN t.nodes \cup {0}
  /\ MaxDepth \in Nat \ {0} /\ MaxVisited \in Nat /\ MaxResults \in Nat

VARIABLES tree, kind,    \* the file system; "dirs" or "files": fixed
          query,
          root,          \* the node searched, 0 before the request
          queue,         \* directories to read: node, path from the root
          here, todo,    \* the directory being read, its entries not seen yet
          visited, count,
          hits,          \* what was found
          stage          \* "asked", "walk", "cut", "done" or "refused"

walkVars == <<tree, kind, query, root, queue, here, todo, visited, count, hits, stage>>

Dir(n, path) == [node |-> n, path |-> path]
Nowhere == Dir(0, <<>>)

TypeOK ==
  /\ tree \in Trees /\ kind \in {"dirs", "files"} /\ query \in Queries
  /\ root \in DOMAIN tree.nodes \cup {0}
  /\ visited \subseteq DOMAIN tree.nodes /\ count \in 0..MaxVisited
  /\ \A h \in hits : h.node \in visited /\ h.score \in Nat
  /\ stage \in {"asked", "walk", "cut", "done", "refused"}

Init ==
  /\ tree \in Trees /\ kind \in {"dirs", "files"} /\ query \in Queries
  /\ root = 0 /\ queue = <<>> /\ here = Nowhere /\ todo = {}
  /\ visited = {} /\ count = 0 /\ hits = {} /\ stage = "asked"

-----------------------------------------------------------------------------
(* fuzzy: every character of the query in its leftmost place after the one   *)
(* before; the start of the text, of a word and of a run count more.         *)
NoMatch == -1
Separators == {"/", "-", "_", ".", " "}

Take(st, c, text) ==
  LET found == {i \in (st.at + 1)..Len(text) : text[i] = c}
      pos   == Min(found)
      run   == IF st.at # 0 /\ pos = st.at + 1 THEN st.run + 1 ELSE 0
      starts == pos = 1 \/ text[pos - 1] \in Separators
  IN IF found = {} THEN [st EXCEPT !.at = Len(text), !.score = NoMatch]
     ELSE IF st.score = NoMatch THEN st
     ELSE [at |-> pos, run |-> run,
           score |-> st.score + 2 + (IF pos = 1 THEN 6 ELSE 0)
                       + (IF starts THEN 12 ELSE 0) + 4 * run]

Fuzzy(text) ==
  FoldLeft(LAMBDA st, c : Take(st, c, text), [at |-> 0, run |-> 0, score |-> 0], query).score

\* rel_home: the path as it is shown and searched, from ~.
RelHome(path) == FoldLeft(LAMBDA text, name : text \o <<"/">> \o name, <<"~">>, tree.rel[root] \o path)

\* The name first; the path only if the name does not match.
NameBonus == IF kind = "dirs" THEN DirNameBonus ELSE FileNameBonus
MatchScore(path) ==
  LET base == Fuzzy(Last(path))
  IN IF base # NoMatch THEN base + NameBonus ELSE Fuzzy(RelHome(path))

\* Days since it was changed, and whether a session is in it, by its path.
AgeBonus(days) == CASE days <= 2 -> 12 [] days <= 14 -> 6 [] days <= 90 -> 2 [] OTHER -> 0
Recent(path) == tree.rel[root] \o path \in tree.sessions

Score(n, path) ==
  MatchScore(path) + 3 * (MaxDepth - Len(path)) + AgeBonus(tree.nodes[n].days)
    + (IF Recent(path) THEN 40 ELSE 0)

Hit(n, path) ==
  [node |-> n, path |-> path, score |-> Score(n, path), named |-> Fuzzy(Last(path)) # NoMatch]

-----------------------------------------------------------------------------
(* dirs_search and files_search: the root asked for; for files, the place of *)
(* the session named if there is one; else the home. Outside it, 403. An     *)
(* empty query finds nothing.                                                *)
RootOf(asked, session) ==
  IF asked # "" THEN tree.places[asked]
  ELSE IF kind = "files" /\ session \in DOMAIN tree.places THEN tree.places[session]
  ELSE tree.home

Search(asked, session) ==
  LET r == RootOf(asked, session) IN
  /\ stage = "asked"
  /\ root' = r
  /\ stage' = IF r = 0 THEN "refused" ELSE IF query = <<>> THEN "done" ELSE "walk"
  /\ queue' = IF stage' = "walk" THEN <<Dir(r, <<>>)>> ELSE <<>>
  /\ visited' = IF stage' = "walk" THEN {r} ELSE {}
  /\ UNCHANGED <<tree, kind, query, here, todo, count, hits>>

\* The next directory, if there is one and time is left; one may be unreadable.
ReadDir ==
  /\ stage = "walk" /\ todo = {} /\ queue # <<>>
  /\ queue' = Tail(queue) /\ here' = Head(queue)
  /\ todo' = tree.nodes[Head(queue).node].entries
  /\ UNCHANGED <<tree, kind, query, root, visited, count, hits, stage>>

OutOfTime ==
  /\ stage = "walk" /\ todo = {} /\ queue # <<>>
  /\ stage' = "cut"
  /\ UNCHANGED <<tree, kind, query, root, queue, here, todo, visited, count, hits>>

Exhausted ==
  /\ stage = "walk" /\ todo = {} /\ queue = <<>>
  /\ stage' = "done"
  /\ UNCHANGED <<tree, kind, query, root, queue, here, todo, visited, count, hits>>

(* One entry: skipped if it is hidden, pruned, neither a directory nor (for  *)
(* files) a file, outside the home, or leads where the walk has been.        *)
Skipped(name) == name[1] = "." \/ name \in Pruned
Is(n, k) == tree.nodes[n].kind = k
Kept(e) ==
  /\ ~Skipped(e.name)
  /\ Is(e.to, "dir") \/ (kind = "files" /\ Is(e.to, "file"))
  /\ tree.nodes[e.to].inside
Harvested(n) == Is(n, IF kind = "dirs" THEN "dir" ELSE "file")

Entry(e) ==
  LET path == Append(here.path, e.name)
      new  == Kept(e) /\ e.to \notin visited
  IN
  /\ stage = "walk" /\ e \in todo
  /\ IF count >= MaxVisited
     THEN stage' = "cut" /\ UNCHANGED <<todo, count, visited, hits, queue>>
     ELSE /\ stage' = stage /\ todo' = todo \ {e} /\ count' = count + 1
          /\ visited' = visited \cup (IF new THEN {e.to} ELSE {})
          /\ hits' = hits \cup (IF new /\ Harvested(e.to) /\ MatchScore(path) # NoMatch
                                THEN {Hit(e.to, path)} ELSE {})
          /\ queue' = IF new /\ Is(e.to, "dir") /\ Len(path) < MaxDepth
                      THEN Append(queue, Dir(e.to, path)) ELSE queue
  /\ UNCHANGED <<tree, kind, query, root, here>>

Next ==
  \/ \E asked \in DOMAIN tree.places \cup {""}, session \in DOMAIN tree.places \cup {"none"} :
       Search(asked, session)
  \/ ReadDir \/ OutOfTime \/ Exhausted
  \/ \E e \in todo : Entry(e)

Spec == Init /\ [][Next]_walkVars

\* What is sent: by score, the newer, then by path; the best of them.
Place(c) == CHOOSE i \in DOMAIN Letters : Letters[i] = c
Earlier(a, b) ==
  \/ Len(a) < Len(b) /\ IsPrefix(a, b)
  \/ \E i \in DOMAIN a \cap DOMAIN b :
       /\ SubSeq(a, 1, i - 1) = SubSeq(b, 1, i - 1)
       /\ Place(a[i]) < Place(b[i])
Before(g, h) ==
  \/ g.score > h.score
  \/ g.score = h.score /\ tree.nodes[g.node].days < tree.nodes[h.node].days
  \/ /\ g.score = h.score /\ tree.nodes[g.node].days = tree.nodes[h.node].days
     /\ Earlier(RelHome(g.path), RelHome(h.path))
Results ==
  LET sorted == SortSeq(SetToSeq(hits), Before)
  IN SubSeq(sorted, 1, Min({Len(sorted), MaxResults}))

-----------------------------------------------------------------------------
\* The ways from the root, of each length, that skip nothing and never leave home.
Ways[k \in 0..MaxDepth] ==
  IF k = 0 THEN {Dir(root, <<>>)}
  ELSE UNION {{Dir(e.to, Append(w.path, e.name)) :
                 e \in {f \in tree.nodes[w.node].entries : Kept(f)}} : w \in Ways[k - 1]}

\* A node at the shortest distance it can be reached, and the ways that long.
Distance(n) == {k \in 0..MaxDepth : \E w \in Ways[k] : w.node = n}
Shortest(n) ==
  IF Distance(n) = {} THEN {} ELSE {w.path : w \in {v \in Ways[Min(Distance(n))] : v.node = n}}

(* A walk that was not cut surfaces every folder or file it should, however  *)
(* links lead to it and in whatever order directories list: by one of the    *)
(* shortest ways, so once; and it goes nowhere it should not, cut or not.    *)
FindsAllOnce ==
  /\ \A g, h \in hits : g.node = h.node => g = h
  /\ \A h \in hits : /\ h.path \in Shortest(h.node) /\ h.path # <<>>
                     /\ Harvested(h.node) /\ MatchScore(h.path) # NoMatch
  /\ stage = "done" /\ root # 0 /\ query # <<>> =>
       \A n \in DOMAIN tree.nodes \ {root} :
         Harvested(n) /\ Shortest(n) # {}
           /\ (\A p \in Shortest(n) : MatchScore(p) # NoMatch)
             => \E h \in hits : h.node = n

(* A file found by its name comes before any found by its folders only, on   *)
(* the list or off its end; and of two folders as near, as new and as well   *)
(* matched the one in use comes first (dirsearch.rs).                        *)
Listed(h, j) == \E i \in 1..j : Results[i] = h
RanksNamesFirst ==
  stage \in {"cut", "done"} =>
    /\ Len(Results) = Min({MaxResults, Cardinality(hits)})
    /\ \A j \in DOMAIN Results, h \in hits :
         LET g == Results[j] IN
         \/ Listed(h, j)
         \/ /\ kind = "files" /\ h.named => g.named
            /\ Recent(h.path) /\ ~Recent(g.path) =>
                 \/ g.named /\ ~h.named
                 \/ Len(g.path) < Len(h.path)
                 \/ tree.nodes[g.node].days < tree.nodes[h.node].days
                 \/ MatchScore(g.path) > MatchScore(h.path)

PathSearchHolds == FindsAllOnce /\ RanksNamesFirst
=============================================================================
