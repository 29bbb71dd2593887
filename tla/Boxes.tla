-------------------------------- MODULE Boxes --------------------------------
(* The terminal client's screen (crates/tui/src/app.rs): a full-screen       *)
(* switcher or a grid of boxes, each attached to one session, with a modal   *)
(* over either. One loop handles keys, the one-second poll and the answers   *)
(* of requests it spawned; an answer arrives whenever it arrives, whatever   *)
(* the user has opened meanwhile.                                            *)
(*                                                                           *)
(* A session is <<machine, name>>. A layout is the number of its boxes: two  *)
(* layouts of the same count differ only in where the boxes are. Which row   *)
(* the cursor is on is left to Switcher; here the user picks any listed      *)
(* session.                                                                  *)
EXTENDS Naturals, FiniteSets, Sequences

CONSTANTS Sessions,     \* <<machine, name>> pairs
          Layouts,      \* box counts of the layouts
          Requests,     \* requests in progress: a bound
          None

BoxesAssumption ==
  /\ Layouts \subseteq Nat \ {0} /\ 1 \in Layouts
  /\ None \notin Sessions

VARIABLES running,      \* sessions alive on the machines
          listed,       \* sessions of the last poll
          mode,         \* "switcher" or "grid"
          overlay,      \* the modal over the switcher
          gridOverlay,  \* the modal over the grid
          panes,        \* box -> its session and what its emulator saw, or None
          active,       \* the focused box
          fill,         \* fill_target: the box the switcher fills, 0 for none
          scroll,       \* keyboard-scroll mode
          requests,     \* spawned requests
          owed          \* pending_refresh: poll before the next message

boxesVars == <<running, listed, mode, overlay, gridOverlay, panes,
               active, fill, scroll, requests, owed>>

Boxed == {i \in DOMAIN panes : panes[i] # None}
Mounted == {panes[i].of : i \in Boxed}

Modal(kind, of, target) == [kind |-> kind, of |-> of, target |-> target]
NoModal == Modal("none", None, 0)
Confirm(s) == Modal("confirm", s, 0)
Rename(s) == Modal("rename", s, 0)
NewForm(target) == Modal("form", None, target)
Menu(target) == Modal("menu", None, target)
Palette == Modal("palette", None, 0)
Picker == Modal("restore", None, 0)

Request(op, stage, of) == [op |-> op, stage |-> stage, of |-> of]
NoRequest == Request("none", "sent", None)

BoxNumbers == 0..4
Kinds == {"none", "confirm", "rename", "form", "menu", "palette", "restore"}
Modals == [kind : Kinds, of : Sessions \cup {None}, target : BoxNumbers]

TypeOK ==
  /\ running \subseteq Sessions /\ listed \subseteq Sessions
  /\ mode \in {"switcher", "grid"} /\ scroll \in BOOLEAN
  /\ overlay \in Modals /\ gridOverlay \in Modals
  /\ Len(panes) \in Layouts
  /\ \A i \in Boxed : panes[i] \in [of : Sessions, alt : BOOLEAN]
  /\ active \in DOMAIN panes /\ fill \in BoxNumbers
  /\ \A q \in Requests : requests[q] \in
       [op : {"none", "create", "delete", "label", "restorable"}, stage : {"sent", "ok", "error"},
        of : Sessions \cup {None}]
  /\ owed \in BOOLEAN

\* start_in_menu: attached to a session if there is one, the menu open.
Init ==
  /\ running \in SUBSET Sessions
  /\ listed = running
  /\ mode = "grid" /\ overlay = NoModal /\ gridOverlay = Menu(1)
  /\ \/ listed = {} /\ panes = <<None>>
     \/ \E s \in listed : panes = <<[of |-> s, alt |-> FALSE]>>
  /\ active = 1 /\ fill = 0 /\ scroll = FALSE
  /\ requests = [q \in Requests |-> NoRequest]
  /\ owed = FALSE

screen == <<mode, overlay, gridOverlay, panes, active, fill, scroll>>

\* A box number that outlived its layout is clamped, as min(panes.len() - 1) does.
Clamp(i) == IF i > Len(panes) THEN Len(panes) ELSE i
Empty(n) == [i \in 1..n |-> None]

-----------------------------------------------------------------------------
(* fill_box: take the session out of any other box, attach it here, go live. *)
(* A box the layout no longer has is ignored.                                *)
SlipInOtherBox(i, s, j) == j # i /\ j = active /\ panes[j] # None /\ panes[j].of = s
InOtherBox(i, s, j) == j # i /\ panes[j] # None /\ panes[j].of = s

FillBox(i, s) ==
  IF i \notin DOMAIN panes THEN UNCHANGED <<panes, active, mode, scroll>>
  ELSE /\ panes' = [j \in DOMAIN panes |->
                      IF j = i THEN [of |-> s, alt |-> FALSE]
                      ELSE IF InOtherBox(i, s, j) THEN None ELSE panes[j]]
       /\ active' = i /\ mode' = "grid" /\ scroll' = FALSE

(* set_layout: the focused box becomes the first; the rest is cut or padded. *)
Swapped == [panes EXCEPT ![1] = panes[active], ![active] = panes[1]]
SetLayout(n) ==
  /\ panes' = [i \in 1..n |-> IF i <= Len(panes) THEN Swapped[i] ELSE None]
  /\ active' = 1

(* after_box_removed, given the boxes that remain: with none filled, back to *)
(* the switcher with one box and no modal over the grid.                     *)
Remaining(boxes, modal) ==
  IF \A i \in DOMAIN boxes : boxes[i] = None
  THEN /\ mode' = "switcher" /\ gridOverlay' = NoModal
       /\ panes' = Empty(1) /\ active' = 1 /\ owed' = TRUE
  ELSE /\ panes' = boxes
       /\ gridOverlay' = modal
       /\ UNCHANGED <<mode, active, owed>>

ClearBox(i) == Remaining([panes EXCEPT ![i] = None], NoModal)

\* tokio::spawn of one request.
Spawn(op, of) ==
  \E q \in Requests :
    /\ requests[q] = NoRequest
    /\ requests' = [requests EXCEPT ![q] = Request(op, "sent", of)]

-----------------------------------------------------------------------------
(* Keys of the grid: no modal is open.                                       *)
InGrid == mode = "grid" /\ gridOverlay = NoModal
Keys == InGrid /\ ~scroll

OpenMenu(i) == gridOverlay' = Menu(Clamp(i)) /\ scroll' = FALSE

KeyMenu ==
  /\ Keys /\ OpenMenu(active)
  /\ UNCHANGED <<running, listed, mode, overlay, panes, active, fill, requests, owed>>

\* ^A s: the switcher, to fill the focused box.
KeySwitcher ==
  /\ Keys
  /\ fill' = active /\ mode' = "switcher" /\ owed' = TRUE
  /\ UNCHANGED <<running, listed, overlay, gridOverlay, panes, active, scroll, requests>>

\* ^A [ is refused when the program has the alternate screen.
KeyScroll ==
  /\ Keys /\ active \in Boxed /\ ~panes[active].alt
  /\ scroll' = TRUE
  /\ UNCHANGED <<running, listed, mode, overlay, gridOverlay, panes, active, fill, requests, owed>>

KeyLive ==
  /\ InGrid /\ scroll
  /\ scroll' = FALSE
  /\ UNCHANGED <<running, listed, mode, overlay, gridOverlay, panes, active, fill, requests, owed>>

\* ^A x: kill the focused session by its name and empty the box.
KeyKill ==
  /\ Keys /\ active \in Boxed
  /\ Spawn("delete", panes[active].of)
  /\ ClearBox(active)
  /\ UNCHANGED <<running, listed, overlay, fill, scroll>>

\* ^A g or a click on the toast: one session is mounted in the focused box,
\* several open the switcher.
JumpReady ==
  /\ InGrid
  /\ \/ \E s \in listed \ Mounted : FillBox(active, s)
     \/ mode' = "switcher" /\ UNCHANGED <<panes, active, scroll>>
  /\ UNCHANGED <<running, listed, overlay, gridOverlay, fill, requests, owed>>

KeyFocus ==
  /\ Keys
  /\ \E i \in DOMAIN panes \ {active} : active' = i
  /\ UNCHANGED <<running, listed, mode, overlay, gridOverlay, panes, fill, scroll, requests, owed>>

\* A click focuses a box, also in scroll mode; an empty one opens the menu.
Click ==
  /\ InGrid
  /\ \E i \in DOMAIN panes :
       /\ active' = i
       /\ IF i \in Boxed THEN UNCHANGED <<gridOverlay, scroll>> ELSE OpenMenu(i)
  /\ UNCHANGED <<running, listed, mode, overlay, panes, fill, requests, owed>>

\* ^A digit applies a layout; ^A l opens the palette.
KeyLayout ==
  /\ Keys
  /\ \/ \E n \in Layouts : SetLayout(n) /\ UNCHANGED gridOverlay
     \/ gridOverlay' = Palette /\ UNCHANGED <<panes, active>>
  /\ UNCHANGED <<running, listed, mode, overlay, fill, scroll, requests, owed>>

-----------------------------------------------------------------------------
(* Keys of the grid's modals.                                                *)
InModal(kind) == mode = "grid" /\ gridOverlay.kind = kind

PaletteKey ==
  /\ InModal("palette")
  /\ gridOverlay' = NoModal
  /\ \/ \E n \in Layouts : SetLayout(n)
     \/ UNCHANGED <<panes, active>>
  /\ UNCHANGED <<running, listed, mode, overlay, fill, scroll, requests, owed>>

MenuAttach ==
  /\ InModal("menu")
  /\ \E s \in listed : FillBox(gridOverlay.target, s)
  /\ gridOverlay' = NoModal
  /\ UNCHANGED <<running, listed, overlay, fill, requests, owed>>

MenuClear ==
  /\ InModal("menu")
  /\ ClearBox(gridOverlay.target)
  /\ UNCHANGED <<running, listed, overlay, fill, scroll, requests>>

\* The actions that hand over to another modal.
MenuOpen ==
  /\ InModal("menu")
  /\ LET t == gridOverlay.target IN
     \/ gridOverlay' \in {Palette, NewForm(t)}
     \/ t \in Boxed /\ gridOverlay' = Rename(panes[t].of)
  /\ UNCHANGED <<running, listed, mode, overlay, panes, active, fill, scroll, requests, owed>>

EscGridModal ==
  /\ mode = "grid" /\ gridOverlay # NoModal
  /\ gridOverlay' = NoModal
  /\ UNCHANGED <<running, listed, mode, overlay, panes, active, fill, scroll, requests, owed>>

\* The form stays open until its answer.
SubmitGridForm ==
  /\ InModal("form")
  /\ fill' = gridOverlay.target
  /\ \E s \in Sessions : Spawn("create", s)
  /\ UNCHANGED <<running, listed, mode, overlay, gridOverlay, panes, active, scroll, owed>>

SubmitGridRename ==
  /\ InModal("rename")
  /\ Spawn("label", gridOverlay.of)
  /\ UNCHANGED <<running, listed, screen, owed>>

-----------------------------------------------------------------------------
(* Keys of the switcher and of its modals.                                   *)
InList == mode = "switcher" /\ overlay = NoModal
InOverlay(kind) == mode = "switcher" /\ overlay.kind = kind

\* attach: the box the switcher was opened for, else the first.
Attach ==
  /\ InList
  /\ \E s \in listed : FillBox(Clamp(IF fill = 0 THEN 1 ELSE fill), s)
  /\ fill' = 0
  /\ UNCHANGED <<running, listed, overlay, gridOverlay, requests, owed>>

\* Esc goes back to the grid if a box was to be filled; else it quits.
EscSwitcher ==
  /\ InList /\ fill # 0
  /\ fill' = 0 /\ mode' = "grid"
  /\ UNCHANGED <<running, listed, overlay, gridOverlay, panes, active, scroll, requests, owed>>

ListOpen ==
  /\ InList
  /\ \/ \E s \in listed : overlay' \in {Confirm(s), Rename(s)}
     \/ overlay' = NewForm(0)
  /\ UNCHANGED <<running, listed, mode, gridOverlay, panes, active, fill, scroll, requests, owed>>

ListRestorable ==
  /\ InList
  /\ Spawn("restorable", None)
  /\ UNCHANGED <<running, listed, screen, owed>>

EscOverlay ==
  /\ mode = "switcher" /\ overlay # NoModal
  /\ overlay' = NoModal
  /\ UNCHANGED <<running, listed, mode, gridOverlay, panes, active, fill, scroll, requests, owed>>

ConfirmYes ==
  /\ InOverlay("confirm")
  /\ Spawn("delete", overlay.of)
  /\ overlay' = NoModal /\ owed' = TRUE
  /\ UNCHANGED <<running, listed, mode, gridOverlay, panes, active, fill, scroll>>

SubmitForm ==
  /\ InOverlay("form")
  /\ \E s \in Sessions : Spawn("create", s)
  /\ UNCHANGED <<running, listed, screen, owed>>

SubmitRename ==
  /\ InOverlay("rename")
  /\ Spawn("label", overlay.of)
  /\ UNCHANGED <<running, listed, screen, owed>>

\* Enter restores everything on the machine and closes the picker.
PickerEnter ==
  /\ InOverlay("restore")
  /\ overlay' = NoModal
  /\ \E s \in Sessions : running' = running \cup {s}
  /\ UNCHANGED <<listed, mode, gridOverlay, panes, active, fill, scroll, requests, owed>>

-----------------------------------------------------------------------------
(* The machines and the requests. A delete names the session without its     *)
(* machine; the hub takes the one machine that has a session of that name.   *)
Named(s) == {t \in running : t[2] = s[2]}

Serve(q) ==
  /\ requests[q] # NoRequest /\ requests[q].stage = "sent"
  /\ LET s == requests[q].of
         answer(stage) == requests' = [requests EXCEPT ![q].stage = stage] IN
     CASE requests[q].op = "create" ->
            \/ s \notin running /\ running' = running \cup {s} /\ answer("ok")
            \/ answer("error") /\ UNCHANGED running
       [] requests[q].op = "delete" ->
            /\ running' = IF Cardinality(Named(s)) = 1 THEN running \ Named(s) ELSE running
            /\ requests' = [requests EXCEPT ![q] = NoRequest]
       [] OTHER -> \E stage \in {"ok", "error"} : answer(stage) /\ UNCHANGED running
  /\ UNCHANGED <<listed, screen, owed>>

SessionEnds ==
  /\ \E s \in running : running' = running \ {s}
  /\ UNCHANGED <<listed, screen, requests, owed>>

(* Bytes of an attached session reach its emulator, which may enter or leave *)
(* the alternate screen; entering it in the focused box ends scroll mode.    *)
PaneBytes(i) ==
  /\ i \in Boxed
  /\ \E alt \in BOOLEAN :
     /\ panes' = [panes EXCEPT ![i].alt = alt]
     /\ scroll' = (scroll /\ ~(i = active /\ alt))
  /\ UNCHANGED <<running, listed, mode, overlay, gridOverlay, active, fill, requests, owed>>

\* refresh: the poll's list, or nothing when the poll fails; a box whose session is gone is emptied.
Gone(i) == i \in Boxed /\ panes[i].of \notin running
Refresh ==
  /\ listed' = running
  /\ IF \E i \in Boxed : Gone(i)
     THEN Remaining([i \in DOMAIN panes |-> IF Gone(i) THEN None ELSE panes[i]], gridOverlay)
     ELSE UNCHANGED <<mode, gridOverlay, panes, active>> /\ owed' = FALSE
  /\ UNCHANGED <<running, overlay, fill, scroll, requests>>

RefreshFails ==
  /\ owed /\ owed' = FALSE
  /\ UNCHANGED <<running, listed, screen, requests>>

Answered(q, op, stage) ==
  /\ requests[q].op = op /\ requests[q].stage = stage
  /\ requests' = [requests EXCEPT ![q] = NoRequest]

\* Close a modal of this kind, whichever one it is.
Close(modal, kind) == IF modal.kind = kind THEN NoModal ELSE modal

(* handle_created: close the form that is open, and fill the box fill_target *)
(* names by now. An error is shown in the form and leaves fill_target.       *)
Created(q) ==
  /\ \/ /\ Answered(q, "create", "ok")
        /\ overlay' = Close(overlay, "form")
        /\ gridOverlay' = Close(gridOverlay, "form")
        /\ IF fill # 0 THEN FillBox(fill, requests[q].of) ELSE UNCHANGED <<panes, active, mode, scroll>>
        /\ fill' = 0 /\ owed' = TRUE
     \/ /\ Answered(q, "create", "error")
        /\ UNCHANGED <<screen, owed>>
  /\ UNCHANGED <<running, listed>>

Labeled(q) ==
  /\ \/ /\ Answered(q, "label", "ok")
        /\ overlay' = Close(overlay, "rename")
        /\ gridOverlay' = Close(gridOverlay, "rename")
        /\ owed' = TRUE
     \/ Answered(q, "label", "error") /\ UNCHANGED <<overlay, gridOverlay, owed>>
  /\ UNCHANGED <<running, listed, mode, panes, active, fill, scroll>>

\* handle_restorable: the picker, over whatever is open.
Restorable(q) ==
  /\ \/ Answered(q, "restorable", "ok") /\ overlay' = Picker
     \/ Answered(q, "restorable", "error") /\ UNCHANGED overlay
  /\ UNCHANGED <<running, listed, mode, gridOverlay, panes, active, fill, scroll, owed>>

Reply == \E q \in Requests : Created(q) \/ Labeled(q) \/ Restorable(q)

User ==
  \/ KeyMenu \/ KeySwitcher \/ KeyScroll \/ KeyLive \/ KeyKill \/ JumpReady
  \/ KeyFocus \/ Click \/ KeyLayout
  \/ PaletteKey \/ MenuAttach \/ MenuClear \/ MenuOpen \/ EscGridModal
  \/ SubmitGridForm \/ SubmitGridRename
  \/ Attach \/ EscSwitcher \/ ListOpen \/ ListRestorable \/ EscOverlay
  \/ ConfirmYes \/ SubmitForm \/ SubmitRename \/ PickerEnter

Next ==
  \/ ~owed /\ (User \/ Reply \/ \E i \in DOMAIN panes : PaneBytes(i))
  \/ Refresh \/ RefreshFails
  \/ \E q \in Requests : Serve(q)
  \/ SessionEnds

Spec == Init /\ [][Next]_boxesVars

-----------------------------------------------------------------------------
(* A session is in at most one box, whatever mixture of keys, answers and    *)
(* layout changes put it there: two boxes would fight over the width of its  *)
(* one terminal.                                                             *)
OneBoxPerSession ==
  \A i, j \in Boxed : panes[i].of = panes[j].of => i = j

(* A modal of the grid is about a box that exists, and is gone when the      *)
(* switcher takes over: it cannot come back later with a stale target.       *)
ModalHasItsBox ==
  /\ gridOverlay.target \in {0} \cup DOMAIN panes
  /\ mode = "switcher" => gridOverlay = NoModal

(* The screen a user sees.                                                   *)
ScreenHolds == OneBoxPerSession /\ ModalHasItsBox

(* What is killed is the session the user confirmed.                         *)
KillsTheConfirmed ==
  [][\A q \in Requests :
       requests[q].op = "delete" /\ requests[q].stage = "sent" /\ requests'[q] = NoRequest
         => running \ running' \subseteq {requests[q].of}]_boxesVars

=============================================================================
