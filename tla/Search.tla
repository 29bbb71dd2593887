------------------------------- MODULE Search --------------------------------
(* Type-to-search in the terminal client (crates/tui/src/app.rs): the score  *)
(* of a query against a text, the fields of a session and their tiers, the   *)
(* ranking of the switcher's rows and of the menu's, and which session the   *)
(* argument of `ccs <session>` names. A text is a sequence of characters; the*)
(* user types and erases one at a time.                                      *)
EXTENDS Integers, Sequences, SequencesExt, FiniteSets, FiniteSetsExt

CONSTANTS Chars,        \* what is typed
          MaxQuery,     \* characters typed: a bound
          Dirs,         \* names in the directory a form completes in
          Terms,        \* the words the menu's actions are found by
          Listings      \* the session lists, in name order

SearchAssumption == MaxQuery \in Nat

NameTier == 100000
PathTier == 10000
MetaTier == 0

VARIABLES query, sessions

searchVars == <<query, sessions>>

Texts == Seq(Chars)
TypeOK ==
  /\ query \in Texts /\ Len(query) <= MaxQuery
  /\ sessions \in Listings

-----------------------------------------------------------------------------
(* fuzzy_score_web: each character at its leftmost place after the one       *)
(* before; 2 a character, 6 more at the head, 12 more at the start of a word,*)
(* and 4, 8, 12... for a second, third, fourth in a row. No match is None,   *)
(* written -1.                                                               *)
NoMatch == -1
Separators == {"/", "-", "_", ".", " "}

Found(text, c, from) == {i \in from..Len(text) : text[i] = c}

Taken(text, so, c) ==
  LET at    == Found(text, c, so.at + 1)
      pos   == Min(at)
      run   == IF pos = so.at + 1 /\ so.at # 0 THEN so.run + 1 ELSE 0
      bonus == 2 + (IF pos = 1 THEN 6 ELSE 0)
                 + (IF pos = 1 \/ text[pos - 1] \in Separators THEN 12 ELSE 0)
                 + 4 * run
  IN IF so.score = NoMatch \/ at = {} THEN [so EXCEPT !.score = NoMatch]
     ELSE [at |-> pos, run |-> run, score |-> so.score + bonus]

FuzzyScoreWeb(q, text) ==
  FoldLeft(LAMBDA so, c : Taken(text, so, c), [at |-> 0, run |-> 0, score |-> 0], q).score

\* fuzzy_subseq.
Subsequence(text, q) == FuzzyScoreWeb(q, text) # NoMatch

(* score_session: the best of its fields, each in its tier: its name and the *)
(* label it was given, its directory and the last part of that, then the rest*)
(* (one text here), and its machine if it has one.                           *)
Best(scores) == Max(scores \cup {NoMatch})

Leaf(path) ==
  LET end   == Max({0} \cup {i \in DOMAIN path : path[i] # "/"})
      slash == Max({0} \cup {i \in 1..end : path[i] = "/"})
  IN SubSeq(path, slash + 1, end)

Fields(s) ==
  {<<NameTier, s.name>>, <<NameTier, s.label>>, <<PathTier, Leaf(s.cwd)>>,
   <<PathTier, s.cwd>>, <<MetaTier, s.meta>>, <<MetaTier, s.machine>>}

Tiered(f, score) == f[1] + score
ScoreSession(s, q) ==
  Best({Tiered(f, FuzzyScoreWeb(q, f[2])) :
          f \in {g \in Fields(s) : FuzzyScoreWeb(q, g[2]) # NoMatch}})

\* action_terms: the menu's actions have no tier.
ActionScore(a, q) == Best({FuzzyScoreWeb(q, t) : t \in Terms[a]})

(* visible_sessions and menu_rows while filtering: what matches, by score,   *)
(* equal scores in the resting order.                                        *)
After(x, y) == x.score < y.score

Ranked(items) ==
  FoldLeft(LAMBDA done, x :
             LET before == Cardinality({i \in DOMAIN done : ~After(done[i], x)})
             IN SubSeq(done, 1, before) \o <<x>> \o SubSeq(done, before + 1, Len(done)),
           <<>>, SelectSeq(items, LAMBDA x : x.score # NoMatch))

Sessions == [i \in DOMAIN sessions |->
               [row |-> "session", of |-> i, score |-> ScoreSession(sessions[i], query)]]
Action(a) == [row |-> a, of |-> 0, score |-> ActionScore(a, query)]

Visible == Ranked(Sessions)
MenuVisible ==
  Ranked(<<Action("layout"), Action("new")>> \o Sessions
           \o <<Action("rename"), Action("clear"), Action("quit")>>)

(* fuzzy_score, for the new-session form: what starts with the query, then   *)
(* what contains it, then what has its characters; shorter names first.      *)
Contained(text, q) == {i \in 1..(Len(text) - Len(q) + 1) : SubSeq(text, i, i + Len(q) - 1) = q}

Start == 1000
FuzzyScore(text, q) ==
  IF q = <<>> THEN -Len(text)
  ELSE IF IsPrefix(q, text) THEN Start - Len(text)
  ELSE IF Contained(text, q) # {} THEN 500 - (Min(Contained(text, q)) - 1) - Len(text)
  ELSE 100 - Len(text)

(* refilter_dirs: hidden ones only if one is asked for; equals by name, the  *)
(* order Dirs is in. Scores are raised so that NoMatch stays the least.      *)
Hidden(text) == text # <<>> /\ Head(text) = "."
Candidates(q) ==
  Ranked([i \in DOMAIN Dirs |->
            [row |-> "dir", of |-> i,
             score |-> IF Subsequence(Dirs[i], q) /\ (Hidden(Dirs[i]) => Hidden(q))
                       THEN 1000 + FuzzyScore(Dirs[i], q) ELSE NoMatch]])

(* resolve_attach: the first of four ways in which any session matches, if   *)
(* exactly one does. A name with a slash is looked up as machine/name first. *)
Full(s) == s.machine \o <<"/">> \o s.name

Exact(s, q) == s.name = q

Ways(q) ==
  <<{i \in DOMAIN sessions : Full(sessions[i]) = q},
    {i \in DOMAIN sessions : Exact(sessions[i], q)},
    {i \in DOMAIN sessions : IsPrefix(q, sessions[i].name)},
    {i \in DOMAIN sessions : Subsequence(sessions[i].name, q)}>>

ResolveAttach(q) ==
  LET won == {k \in 1..4 : Ways(q)[k] # {}}
  IN IF won = {} THEN {} ELSE Ways(q)[Min(won)]

-----------------------------------------------------------------------------
Init == query = <<>> /\ sessions \in Listings

Type(c) ==
  /\ Len(query) < MaxQuery
  /\ query' = Append(query, c) /\ UNCHANGED sessions

Backspace ==
  /\ query # <<>>
  /\ query' = Front(query) /\ UNCHANGED sessions

Next == (\E c \in Chars : Type(c)) \/ Backspace

Spec == Init /\ [][Next]_searchVars

-----------------------------------------------------------------------------
\* A query occurs in a text if its characters do, in their order.
Occurs(q, text) ==
  \E at \in [DOMAIN q -> DOMAIN text] :
    /\ \A i, j \in DOMAIN q : i < j => at[i] < at[j]
    /\ \A i \in DOMAIN q : text[at[i]] = q[i]

(* The leftmost place is as good as any: what contains the query is found,   *)
(* and nothing else; a longer query never finds more.                        *)
FindsWhatOccurs ==
  \A i \in DOMAIN sessions : \A f \in Fields(sessions[i]) :
    /\ (FuzzyScoreWeb(query, f[2]) # NoMatch) = Occurs(query, f[2])
    /\ query # <<>> /\ FuzzyScoreWeb(query, f[2]) # NoMatch
         => FuzzyScoreWeb(Front(query), f[2]) # NoMatch

(* Whatever its score, a session found by its name is listed before one found*)
(* by its directory only, and that before one found by anything else; in a   *)
(* tier the better score, and of equals the one that came first.             *)
TierOf(i) == Best({f[1] : f \in {g \in Fields(sessions[i]) : Occurs(query, g[2])}})

RanksByTier ==
  /\ {Visible[k].of : k \in DOMAIN Visible} = {i \in DOMAIN sessions : TierOf(i) # NoMatch}
  /\ \A j, k \in DOMAIN Visible : j < k =>
       LET x == Visible[j]
           y == Visible[k]
       IN /\ TierOf(x.of) >= TierOf(y.of)
          /\ x.score > y.score \/ (x.score = y.score /\ x.of < y.of)

(* In the menu the sessions come in the same order, and an action never      *)
(* before one that was found by its name or its directory.                   *)
MenuAgrees ==
  LET plain == SelectSeq(MenuVisible, LAMBDA r : r.row = "session")
  IN /\ plain = Visible
     /\ \A j, k \in DOMAIN MenuVisible :
          MenuVisible[j].row # "session" /\ j < k /\ MenuVisible[k].row = "session"
            => TierOf(MenuVisible[k].of) = MetaTier

(* `ccs machine/name` attaches to that session whatever others are called,   *)
(* and a name nobody else has is enough (resolve_attach).                    *)
EachIsNamed ==
  \A i \in DOMAIN sessions :
    /\ ResolveAttach(Full(sessions[i])) = {i}
    /\ (\A j \in DOMAIN sessions \ {i} : sessions[j].name # sessions[i].name)
         => ResolveAttach(sessions[i].name) = {i}

\* What is typed names at most what it could mean: a single match is attached to.
OnlyWhatMatches ==
  \A i \in ResolveAttach(query) :
    Occurs(query, sessions[i].name) \/ query = Full(sessions[i])

(* A directory that starts with what was typed is offered before one that    *)
(* contains it, and that before one that has its characters; nothing hidden  *)
(* is offered unasked.                                                       *)
KindOf(text) ==
  CASE IsPrefix(query, text) -> 3 [] Contained(text, query) # {} -> 2 [] OTHER -> 1

DirsByKind ==
  LET shown == Candidates(query)
      kind(k) == KindOf(Dirs[shown[k].of])
  IN \A j, k \in DOMAIN shown :
       /\ Occurs(query, Dirs[shown[j].of])
       /\ Hidden(Dirs[shown[j].of]) => Hidden(query)
       /\ j < k => kind(j) >= kind(k)

SearchHolds == FindsWhatOccurs /\ RanksByTier /\ MenuAgrees /\ EachIsNamed
               /\ OnlyWhatMatches /\ DirsByKind
=============================================================================
