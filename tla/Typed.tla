------------------------------- MODULE Typed -------------------------------
(* What is typed into a session (src/engine.rs write_input_checked) and what *)
(* is made of it: whether it was a submit, which starts a turn, and the last *)
(* submissions, which a summary is asked about (src/summary.rs). Keys and    *)
(* pastes come from attached clients and from requests, each call appending  *)
(* its bytes to a bounded ring under one lock and writing them to the        *)
(* terminal under another; a client may send one paste in two calls.         *)
(*                                                                           *)
(* A byte is a token. A unit is what a client means to send: a key or one    *)
(* end of a bracketed paste, of one byte or of several.                      *)
EXTENDS Naturals, Sequences, SequencesExt, FiniteSetsExt

CONSTANTS Clients,
          Chunks,       \* what a call may bring: sequences of units
          RingCap,      \* INPUT_RING_CAP, in bytes
          Keep,         \* KEEP_SUBMISSIONS
          MaxCalls      \* bound

PasteStart == <<"esc", "[", "0", "~">>
PasteEnd   == <<"esc", "[", "1", "~">>

\* key_bytes and wrap_bracketed_paste; any other unit is the byte it is.
Bytes(unit) ==
  CASE unit = "start"   -> PasteStart
    [] unit = "end"     -> PasteEnd
    [] unit = "up"      -> <<"esc", "[", "A">>
    [] unit = "f1"      -> <<"esc", "O", "A">>
    [] unit = "newline" -> <<"esc", "cr">>
    [] OTHER            -> <<unit>>

BytesOf(units) == FlattenSeq([i \in DOMAIN units |-> Bytes(units[i])])

TypedAssumption ==
  /\ \A chunk \in Chunks : chunk # <<>>
  /\ RingCap \in Nat \ {0} /\ Keep \in Nat \ {0} /\ MaxCalls \in Nat

VARIABLES ring,       \* input_ring
          inPaste,    \* in_bracketed_paste
          turns,      \* times the busy window was opened
          writing,    \* client -> what its call has yet to write, or <<>>
          got,        \* what the terminal got: calls, in order
          failed      \* a write failed or was cut short

\* What was recorded: the calls, in the order of the ring.
VARIABLES said

typedVars == <<ring, inPaste, turns, writing, got, failed, said>>

Call(c, units) == [by |-> c, units |-> units]

TypeOK ==
  /\ Len(ring) <= RingCap /\ inPaste \in BOOLEAN /\ failed \in BOOLEAN
  /\ turns \in 0..Len(said)
  /\ writing \in [Clients -> Chunks \cup {<<>>}]
  /\ \A i \in DOMAIN said : said[i].by \in Clients /\ said[i].units \in Chunks

Init ==
  /\ ring = <<>> /\ inPaste = FALSE /\ turns = 0
  /\ writing = [c \in Clients |-> <<>>]
  /\ got = <<>> /\ failed = FALSE /\ said = <<>>

-----------------------------------------------------------------------------
StartsWith(data, i, marker) ==
  i + Len(marker) - 1 <= Len(data) /\ SubSeq(data, i, i + Len(marker) - 1) = marker

(* scan_for_submit: a carriage return outside a paste and not after ESC; the *)
(* paste may have begun in an earlier call.                                  *)
Scan(data, paste) ==
  LET step(st, i) ==
        IF i < st.next THEN st
        ELSE IF StartsWith(data, i, PasteStart)
             THEN [st EXCEPT !.paste = TRUE, !.next = i + Len(PasteStart)]
        ELSE IF StartsWith(data, i, PasteEnd)
             THEN [st EXCEPT !.paste = FALSE, !.next = i + Len(PasteEnd)]
        ELSE [st EXCEPT !.next = i + 1,
                        !.submit = @ \/ (~st.paste /\ data[i] = "cr"
                                           /\ ~(i > 1 /\ data[i - 1] = "esc"))]
  IN FoldLeft(step, [paste |-> paste, submit |-> FALSE, next |-> 1], [i \in DOMAIN data |-> i])

LastOf(seq, n) == SubSeq(seq, IF Len(seq) > n THEN Len(seq) - n + 1 ELSE 1, Len(seq))

(* write_input_checked, under the state lock: the busy window, then the ring,*)
(* whose oldest bytes go.                                                    *)
Record(c, units) ==
  LET data == BytesOf(units)
      scan == Scan(data, inPaste)
  IN
  /\ writing[c] = <<>> /\ Len(said) < MaxCalls
  /\ inPaste' = scan.paste
  /\ turns' = IF scan.submit THEN turns + 1 ELSE turns
  /\ ring' = LastOf(ring \o data, RingCap)
  /\ writing' = [writing EXCEPT ![c] = units]
  /\ said' = Append(said, Call(c, units))
  /\ UNCHANGED <<got, failed>>

\* Under the writer's lock, to the last byte; or an error, which callers ignore.
Write(c) ==
  /\ writing[c] # <<>>
  /\ \/ got' = Append(got, Call(c, writing[c])) /\ failed' = failed
     \/ failed' = TRUE /\ got' = got
  /\ writing' = [writing EXCEPT ![c] = <<>>]
  /\ UNCHANGED <<ring, inPaste, turns, said>>

Next == \E c \in Clients : Write(c) \/ \E units \in Chunks : Record(c, units)

Spec == Init /\ [][Next]_typedVars

-----------------------------------------------------------------------------
(* normalize_input: lines end with Enter; a backspace takes a character; an  *)
(* escape sequence or a control byte is dropped; a paste is kept as it is,   *)
(* to its end marker or the end of the ring.                                 *)
Blank == {" ", "cr", "lf", "tab"}
Trim(line) ==
  LET solid == {i \in DOMAIN line : line[i] \notin Blank}
  IN IF solid = {} THEN <<>> ELSE SubSeq(line, Min(solid), Max(solid))

Flush(st) ==
  [st EXCEPT !.out = IF Trim(st.cur) = <<>> THEN @ ELSE Append(@, Trim(st.cur)), !.cur = <<>>]

\* A mutant: every sequence is taken for one of two bytes.
SlipAfterEscape(raw, i) == i + 2

\* Where the bytes after an escape sequence begin.
FinalBytes == {"a", "b", "A", "O", "~", "["}
AfterEscape(raw, i) ==
  LET n == Len(raw)
      finals == {j \in (i + 2)..n : raw[j] \in FinalBytes}
  IN CASE i = n                         -> n + 1
       [] i < n /\ raw[i + 1] = "["     -> IF finals = {} THEN n + 1 ELSE Min(finals) + 1
       [] i < n /\ raw[i + 1] = "O"     -> i + 3
       [] OTHER                         -> i + 2

AfterPaste(raw, i) ==
  LET ends == {j \in i..Len(raw) : StartsWith(raw, j, PasteEnd)}
  IN IF ends = {} THEN Len(raw) + 1 ELSE Min(ends)

Take(raw, st, i) ==
  LET text == i + Len(PasteStart)
      stop == AfterPaste(raw, text)
  IN CASE StartsWith(raw, i, PasteStart) ->
            [st EXCEPT !.cur = @ \o SubSeq(raw, text, stop - 1), !.next = stop + Len(PasteEnd)]
       [] ~StartsWith(raw, i, PasteStart) /\ raw[i] = "esc" ->
            [st EXCEPT !.next = AfterEscape(raw, i)]
       [] raw[i] \in {"cr", "lf"} -> [Flush(st) EXCEPT !.next = i + 1]
       [] raw[i] = "bs" ->
            [st EXCEPT !.cur = IF @ = <<>> THEN @ ELSE Front(@), !.next = i + 1]
       [] raw[i] \in {"tab", "c-c"} -> [st EXCEPT !.next = i + 1]
       [] OTHER -> [st EXCEPT !.cur = Append(@, raw[i]), !.next = i + 1]

NormalizeInput(raw) ==
  LET step(st, i) == IF i < st.next THEN st ELSE Take(raw, st, i)
  IN LastOf(Flush(FoldLeft(step, [cur |-> <<>>, out |-> <<>>, next |-> 1],
                           [i \in DOMAIN raw |-> i])).out, Keep)

-----------------------------------------------------------------------------
(* What was meant, unit by unit: between the ends of a paste all is text,    *)
(* outside them a key is a key. `submits` counts Enter.                      *)
Meaning(units) ==
  LET step(st, u) ==
        CASE st.open /\ u # "end" -> [st EXCEPT !.cur = @ \o Bytes(u)]
          [] u = "start" /\ ~st.open -> [st EXCEPT !.open = TRUE]
          [] u = "end" -> [st EXCEPT !.open = FALSE]
          [] u = "cr" /\ ~st.open -> [Flush(st) EXCEPT !.submits = @ + 1]
          [] u = "lf" /\ ~st.open -> Flush(st)
          [] u = "bs" /\ ~st.open -> [st EXCEPT !.cur = IF @ = <<>> THEN @ ELSE Front(@)]
          [] u \in {"up", "f1", "newline", "esc", "tab", "c-c"} /\ ~st.open -> st
          [] OTHER -> [st EXCEPT !.cur = Append(@, u)]
  IN FoldLeft(step, [cur |-> <<>>, out |-> <<>>, open |-> FALSE, submits |-> 0], units)

UnitsOf(calls) == FlattenSeq([i \in DOMAIN calls |-> calls[i].units])
Said == UnitsOf(said)

\* The ends of lines in the ring after which nothing is cut off, and no key
\* follows an Escape that a sequence may begin with.
LineEnds ==
  {k \in DOMAIN Said :
     /\ Said[k] \in {"cr", "lf"} /\ ~Meaning(SubSeq(Said, 1, k - 1)).open
     /\ Len(BytesOf(SubSeq(Said, k, Len(Said)))) <= RingCap}
Whole == Len(BytesOf(Said)) <= RingCap
From(k) == SubSeq(Said, k + 1, Len(Said))
Since(k) == LastOf(Flush(Meaning(From(k))).out, Keep)

(* A summary is asked about what was typed: all of it while the ring holds   *)
(* all of it, and from the first line end it still holds on otherwise,       *)
(* whatever the cut left of a key or a paste before that; an Escape may only *)
(* cost what follows it to the next line end (normalize_input).              *)
RemembersWhatWasTyped ==
  LET escapes == {j \in DOMAIN Said : Said[j] = "esc"}
      clear   == {k \in LineEnds : \A j \in escapes : j + 1 < k}
                   \cup (IF Whole /\ escapes = {} THEN {0} ELSE {})
  IN /\ clear # {} => IsSuffix(Since(Min(clear)), NormalizeInput(ring))
     /\ 0 \in clear => NormalizeInput(ring) = Since(0)

(* A call opens a turn when it brings an Enter the session takes as one: not *)
(* in a paste, wherever the paste began, and not as a newline                *)
(* (scan_for_submit).                                                        *)
TurnsAreSubmits ==
  turns = Cardinality({i \in DOMAIN said :
            Meaning(UnitsOf(SubSeq(said, 1, i))).submits
              # Meaning(UnitsOf(SubSeq(said, 1, i - 1))).submits})

(* Each client's calls reach the terminal whole and in the order it made     *)
(* them, though calls of two may pass one another after the ring.            *)
By(c, calls) == SelectSeq(calls, LAMBDA call : call.by = c)
InOrder ==
  ~failed => \A c \in Clients :
    By(c, said) = By(c, got) \o (IF writing[c] = <<>> THEN <<>> ELSE <<Call(c, writing[c])>>)

TypedHolds == RemembersWhatWasTyped /\ TurnsAreSubmits /\ InOrder
=============================================================================
