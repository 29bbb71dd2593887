-------------------------------- MODULE Repaint --------------------------------
(* The terminal an agent keeps for a session (src/render.rs) and the one a   *)
(* client keeps (crates/tui/src/pane.rs): output reaches both, and a client  *)
(* that attaches, lags or clears the history is sent a repaint to begin from.*)
(*                                                                           *)
(* The stream is a sequence of lines of text, switches of a mode, the        *)
(* program's own reset, and the sequences that enter and leave the alternate *)
(* screen; a read may end in the middle of one that enters. How a row is     *)
(* written, and where the cursor is, is left out.                            *)
EXTENDS Naturals, Sequences, FiniteSets
LOCAL INSTANCE SequencesExt

CONSTANTS Lines,        \* what a line of text says
          Modes,        \* modes that are off after a reset
          Restored,     \* those a repaint sets again
          Height,       \* rows of the screen
          MaxLines      \* bound on what a screen and its history hold

RepaintAssumption == Restored \subseteq Modes /\ {Height, MaxLines} \subseteq Nat

VARIABLES term,         \* Emulator.term
          half,         \* its parser is inside `?1049h`
          cache,        \* Emulator.alt_primary, or <<>> for none
          client,       \* Pane.term, and its parser's state
          exact,        \* history: the cache is of the primary screen
          clean         \* history: the last repaint could be exact

repaintVars == <<term, half, cache, client, exact, clean>>

Blank == [alt |-> FALSE, primary |-> <<>>, screen |-> <<>>, modes |-> {}]
Texts == UNION {[1..n -> Lines] : n \in 0..MaxLines}
Terms == [alt : BOOLEAN, primary : Texts, screen : Texts, modes : SUBSET Modes]
Gone == [on |-> FALSE, term |-> Blank, half |-> FALSE]

TypeOK ==
  /\ term \in Terms /\ half \in BOOLEAN /\ cache \in {<<>>} \cup {<<t>> : t \in Texts}
  /\ client \in [on : BOOLEAN, term : Terms, half : BOOLEAN]
  /\ exact \in BOOLEAN /\ clean \in BOOLEAN

Init ==
  /\ term = Blank /\ half = FALSE /\ cache = <<>> /\ client = Gone
  /\ exact = TRUE /\ clean = TRUE

Text(n) == <<"text", n>>
On(m) == <<"on", m>>
Off(m) == <<"off", m>>
Enter == <<"enter", "whole">>
EnterOther == <<"enter", "other">>      \* with a second mode in one sequence
Begins == <<"enter", "begins">>
Ends == <<"enter", "ends">>
Leave == <<"leave", "">>
Reset == <<"reset", "">>

-----------------------------------------------------------------------------
(* What a terminal does with one of them (alacritty's Term).                 *)
Printed(t, n) ==
  IF t.alt THEN [t EXCEPT !.screen = Append(@, n)] ELSE [t EXCEPT !.primary = Append(@, n)]
Entered(t) == IF t.alt THEN t ELSE [t EXCEPT !.alt = TRUE, !.screen = <<>>]
Feed(t, x) ==
  CASE x[1] = "text"  -> Printed(t, x[2])
    [] x[1] = "on"    -> [t EXCEPT !.modes = @ \cup {x[2]}]
    [] x[1] = "off"   -> [t EXCEPT !.modes = @ \ {x[2]}]
    [] x[1] = "enter" -> IF x = Begins THEN t ELSE Entered(t)
    [] x[1] = "leave" -> [t EXCEPT !.alt = FALSE, !.screen = <<>>]
    [] x[1] = "reset" -> Blank
FeedAll(t, xs) == FoldLeft(Feed, t, xs)

\* find_alt_enter sees the sequence whole, or its end when its beginning was
\* the tail of the bytes before.
Seen(x) == x \in {Enter, Ends}
EntersAt(xs) == {i \in DOMAIN xs : Seen(xs[i])}

(* Emulator::process: the primary screen is written down just before the     *)
(* first sequence it looks for takes effect (had another one entered before, *)
(* the alternate screen is); what comes after it is fed in one go, and the   *)
(* copy is dropped only if that ends on the primary screen.                  *)
Processed(xs) ==
  LET after == FeedAll(term, xs)
      first == CHOOSE i \in EntersAt(xs) : \A j \in EntersAt(xs) : i <= j
      before == FeedAll(term, SubSeq(xs, 1, first - 1))
      caches == ~term.alt /\ EntersAt(xs) # {}
  IN /\ term' = after
     /\ half' = (xs # <<>> /\ xs[Len(xs)] = Begins)
     /\ cache' = IF ~after.alt THEN <<>> ELSE IF caches THEN <<IF before.alt THEN before.screen ELSE before.primary>>
                 ELSE cache
     /\ exact' = (after.alt => cache' = <<after.primary>>)

(* snapshot: a reset; over a full-screen program the primary screen's copy   *)
(* and the switch; the modes; the rows of the screen shown.                  *)
Rows(t) == [i \in DOMAIN t |-> Text(t[i])]
Prefix == (IF cache = <<>> THEN <<>> ELSE Rows(cache[1])) \o <<Enter>>
SetModes == SetToSeq({On(m) : m \in term.modes \cap Restored})
Snapshot ==
  <<Reset>> \o (IF term.alt THEN Prefix \o SetModes \o Rows(term.screen)
                ELSE SetModes \o Rows(term.primary))

\* Pane::process: what begins with a reset starts from a new terminal.
Shows(xs) == [client EXCEPT !.term = FeedAll(IF xs # <<>> /\ xs[1] = Reset THEN Blank ELSE @, xs)]
Fits == Len(term.primary) + Len(term.screen) < MaxLines

-----------------------------------------------------------------------------
\* The rest of a sequence that was cut reads as text to a client that has not
\* seen its beginning.
AsSeen(xs) ==
  IF xs # <<>> /\ xs[1] = Ends /\ ~client.half
  THEN <<Text(CHOOSE n \in Lines : TRUE)>> \o Tail(xs) ELSE xs

\* pump: one read of output.
Whole == {Enter, EnterOther, Leave, Reset} \cup {Text(n) : n \in Lines}
           \cup {On(m) : m \in Modes} \cup {Off(m) : m \in Modes}
Chunks ==
  LET first == IF half THEN {<<Ends>>} ELSE {<<>>}
      middle == {<<>>} \cup {<<x>> : x \in Whole} \cup {<<x, y>> : x \in Whole, y \in Whole}
      last == {<<>>, <<Begins>>}
  IN {f \o m \o l : f \in first, m \in middle, l \in last} \ {<<>>}

Output ==
  /\ Fits /\ \E xs \in Chunks :
       /\ Processed(xs)
       /\ client' = IF client.on
                    THEN [Shows(AsSeen(xs)) EXCEPT !.half = xs[Len(xs)] = Begins] ELSE client
  /\ Len(term'.primary) <= MaxLines /\ Len(term'.screen) <= MaxLines
  /\ Len(client'.term.primary) <= MaxLines /\ Len(client'.term.screen) <= MaxLines
  /\ UNCHANGED clean

\* Session::attach, and every repaint after a lag or a first size.
Repaints == client' = [Shows(Snapshot) EXCEPT !.on = TRUE, !.half = FALSE]

Attaches ==
  /\ Repaints /\ clean' = (exact /\ ~half)
  /\ UNCHANGED <<term, half, cache, exact>>

(* clear_history: the sequence goes through the parser like output, and a    *)
(* repaint to everybody. Over a full-screen program it clears nothing.       *)
Recent(t) == IF Len(t) <= Height THEN t ELSE SubSeq(t, Len(t) - Height + 1, Len(t))
ClearsHistory ==
  /\ ~half
  /\ term' = IF term.alt THEN term ELSE [term EXCEPT !.primary = Recent(@)]
  /\ client' = IF client.on
               THEN [client EXCEPT !.term = FeedAll(Blank, IF term.alt THEN Snapshot
                       ELSE <<Reset>> \o SetModes \o Rows(Recent(term.primary))), !.half = FALSE]
               ELSE client
  /\ clean' = exact
  /\ UNCHANGED <<half, cache, exact>>

Leaves == client.on /\ client' = Gone /\ UNCHANGED <<term, half, cache, exact, clean>>

Next == Output \/ Attaches \/ ClearsHistory \/ Leaves

Spec == Init /\ [][Next]_repaintVars

-----------------------------------------------------------------------------
(* A client that began from a repaint has the agent's terminal from then on: *)
(* the screen, what the full-screen program hides and will give back, and    *)
(* the modes a repaint sets; if no sequence was cut just there and the       *)
(* primary screen's copy was up to date.                                     *)
SameTerminal ==
  client.on /\ clean =>
    /\ client.term.alt = term.alt
    /\ client.term.primary = term.primary /\ client.term.screen = term.screen
    /\ client.term.modes \cap Restored = term.modes \cap Restored

(* There is a copy of the primary screen only under a full-screen program,   *)
(* and one read at a time it is of that screen, if the sequence that entered *)
(* is the one looked for.                                                    *)
CacheFollows == ~term.alt => cache = <<>>

RepaintHolds == SameTerminal /\ CacheFollows
=============================================================================
