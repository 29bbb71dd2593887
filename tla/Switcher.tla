------------------------------ MODULE Switcher -------------------------------
(* What the lists of the terminal client show and where their cursors are    *)
(* (crates/tui/src/app.rs, ready.rs): the full-screen switcher and the action*)
(* menu of the grid, both led by the sessions one was in last, and the toast *)
(* of sessions that became ready. A cursor is a row number; a poll, an attach*)
(* or a key changes the rows under it.                                       *)
(*                                                                           *)
(* A session is <<machine, name>>. What a query matches, in the order of its *)
(* scores, is given; Search says how it comes about. Boxes has the other     *)
(* modals, and Recents the file the list of recent sessions is kept in.      *)
EXTENDS Naturals, Sequences, SequencesExt, FiniteSets, TLC

CONSTANTS Sessions,     \* in name order, as refresh sorts every poll
          MachineLists, \* what /api/machines may answer; <<>> on an agent
          Layouts,      \* box counts
          Statuses,     \* what a poll may say of a session
          Queries,      \* what is typed, other than nothing
          Hits,         \* query -> rows it matches, best first
          MaxRecents,
          Render,       \* rows of the recent section
          MaxSteps,     \* polls, keys and ticks: a bound
          None

SwitcherAssumption ==
  /\ 1 \in Layouts /\ Render \in Nat \ {0} /\ MaxRecents \in Nat \ {0}
  /\ MaxSteps \in Nat
  /\ Statuses \subseteq {"gone", "busy", "idle", "ready"} /\ "gone" \in Statuses
  /\ None \notin Range(Sessions)

VARIABLES snap,         \* the last poll: session -> its status
          machines,     \* the last machine list
          mode, panes, active, fill,
          recents,      \* sessions one was in, latest first
          query, selected,
          menu,         \* <<>> or <<target, selected, query>>
          toast,        \* ready sessions announced, earliest first
          focused       \* the terminal itself has the focus

\* What the invariants compare with: the session one left last, and the
\* sessions in a box at the last poll.
VARIABLES left, mountedThen, steps

switcherVars == <<snap, machines, mode, panes, active, fill, recents, query,
                  selected, menu, toast, focused, left, mountedThen, steps>>

All == Range(Sessions)
NoQuery == "none"
NoMenu == <<>>

Boxed(boxes) == {boxes[i] : i \in DOMAIN boxes} \ {None}
Mounted == Boxed(panes)
Listed(poll) == SelectSeq(Sessions, LAMBDA s : poll[s] # "gone")
List == Listed(snap)

TypeOK ==
  /\ snap \in [All -> Statuses] /\ machines \in MachineLists
  /\ mode \in {"switcher", "grid"} /\ Len(panes) \in Layouts
  /\ Mounted \subseteq All /\ active \in DOMAIN panes /\ fill \in 0..4
  /\ recents \in Seq(All) /\ toast \in Seq(All)
  /\ query \in Queries \cup {NoQuery} /\ selected \in Nat /\ focused \in BOOLEAN
  /\ menu = NoMenu \/ (menu[1] \in 1..4 /\ menu[3] \in Queries \cup {NoQuery})
  /\ left \in All \cup {None} /\ mountedThen \subseteq All
  /\ steps \in 0..MaxSteps

-----------------------------------------------------------------------------
(* The rows. multi_machine: a hub with more than one machine groups sessions *)
(* by machine, in the hub's order; a session whose machine came after the    *)
(* machines were asked for is appended.                                      *)
MultiMachine == Len(machines) > 1

Place(list, s) ==
  CHOOSE n \in 1..(Len(machines) + Len(list)) :
    IF Contains(machines, s[1])
    THEN n <= Len(machines) /\ machines[n] = s[1] /\ \A k \in 1..(n - 1) : machines[k] # s[1]
    ELSE /\ n > Len(machines) /\ list[n - Len(machines)][1] = s[1]
         /\ \A k \in 1..(n - Len(machines) - 1) : list[k][1] # s[1]
Rank(s) == CHOOSE n \in DOMAIN Sessions : Sessions[n] = s

Grouped(list) ==
  IF ~MultiMachine THEN list
  ELSE SortSeq(list, LAMBDA s, r : \/ Place(list, s) < Place(list, r)
                                   \/ s[1] = r[1] /\ Rank(s) < Rank(r))

(* recent_split: of the recent sessions those listed and not on screen, the  *)
(* first Render of them; none at all if they would be the whole list.        *)
Eligible(s, boxes) == Contains(List, s) /\ s \notin Boxed(boxes)

RecentSplit ==
  LET grouped == Grouped(List)
      all     == SelectSeq(recents, LAMBDA s : Eligible(s, panes))
      section == SubSeq(all, 1, IF Len(all) < Render THEN Len(all) ELSE Render)
      rest    == SelectSeq(grouped, LAMBDA s : ~Contains(section, s))
  IN IF section = <<>> \/ rest = <<>>
     THEN [section |-> <<>>, rest |-> grouped]
     ELSE [section |-> section, rest |-> rest]

\* visible_sessions: what `selected` counts.
Visible ==
  IF query = NoQuery THEN LET split == RecentSplit IN split.section \o split.rest
  ELSE SelectSeq(Hits[query], LAMBDA r : r \in All /\ Contains(List, r))

\* A row, and the header drawn over it if there is one: no key reaches a header.
Row(kind, of, header) == [kind |-> kind, of |-> of, header |-> header]
Action(a) == Row("action", <<a>>, "")
Recent == "Recent"

Section(section) ==
  [i \in DOMAIN section |-> Row("session", section[i], IF i = 1 THEN Recent ELSE "")]

\* On a hub of several machines, a header wherever the machine changes.
Ruled(list) ==
  [i \in DOMAIN list |->
     Row("session", list[i],
         IF MultiMachine /\ (i = 1 \/ list[i - 1][1] # list[i][1]) THEN list[i][1] ELSE "")]

Plains(list) == [i \in DOMAIN list |-> Row("session", list[i], "")]

\* switcher_rows: what is drawn.
SwitcherRows ==
  IF query # NoQuery THEN Plains(Visible)
  ELSE LET split == RecentSplit IN Section(split.section) \o Ruled(split.rest)

(* menu_rows. With a query, actions and sessions in one ranking; Rename is   *)
(* there for a filled box only.                                              *)
LastRows(renames) ==
  (IF renames THEN <<Action("rename")>> ELSE <<>>) \o <<Action("clear"), Action("quit")>>

MenuRows(renames, q) ==
  IF q = NoQuery
  THEN LET split == RecentSplit
       IN <<Action("layout"), Action("new")>> \o Section(split.section)
            \o Ruled(split.rest) \o LastRows(renames)
  ELSE LET hits == SelectSeq(Hits[q], LAMBDA r :
                     \/ r \in All /\ Contains(List, r)
                     \/ r \notin All /\ (r # <<"rename">> \/ renames))
       IN [i \in DOMAIN hits |-> Row(IF hits[i] \in All THEN "session" ELSE "action", hits[i], "")]

HasSession(i) == i \in DOMAIN panes /\ panes[i] # None
MenuOf(i, q) == MenuRows(HasSession(i), q)

(* menu_initial, counted from 1: the first recent session, else the one in   *)
(* the box, else the first, else New session.                                *)
FirstOf(places) == IF places = {} THEN 0 ELSE CHOOSE i \in places : \A j \in places : i <= j

MenuInitial(rows, current) ==
  LET listed == {i \in DOMAIN rows : rows[i].kind = "session"}
      recent == FirstOf({i \in listed : rows[i].header = Recent})
      here   == FirstOf({i \in listed : rows[i].of = current})
  IN IF recent # 0 THEN recent
     ELSE IF here # 0 THEN here
     ELSE IF listed # {} THEN FirstOf(listed) ELSE 2
MenuAtFirst == MenuInitial(MenuRows(FALSE, NoQuery), panes[active])

-----------------------------------------------------------------------------
Init ==
  /\ snap \in [All -> Statuses] /\ machines \in MachineLists
  /\ mode = "switcher" /\ panes = <<None>> /\ active = 1 /\ fill = 0
  /\ recents = <<>> /\ query = NoQuery /\ selected = 0
  /\ menu = NoMenu /\ toast = <<>> /\ focused = TRUE
  /\ left = None /\ mountedThen = {} /\ steps = 0

lists == <<snap, machines, recents, toast, focused, mountedThen>>

\* remember: promote_recent, in memory.
Promoted(s) ==
  LET rest == SelectSeq(recents, LAMBDA r : r # s)
  IN SubSeq(<<s>> \o rest, 1, IF Len(rest) < MaxRecents THEN Len(rest) + 1 ELSE MaxRecents)
Forgotten(s) == SelectSeq(recents, LAMBDA r : r # s)

\* The session one was in, which one leaves: if it had the focus for a second.
Was(s) == IF recents # <<>> /\ Head(recents) = s THEN s ELSE None

\* fill_box. One leaves what was in the box.
FillBox(i, s) ==
  IF i \notin DOMAIN panes THEN UNCHANGED <<panes, active, mode, recents, left>>
  ELSE /\ panes' = [j \in DOMAIN panes |->
                      IF j = i THEN s ELSE IF panes[j] = s THEN None ELSE panes[j]]
       /\ active' = i /\ mode' = "grid"
       /\ recents' = Promoted(s)
       /\ left' = IF panes[i] \in {None, s} THEN left ELSE Was(panes[i])

Clamp(i) == IF i > Len(panes) THEN Len(panes) ELSE i

\* after_box_removed: nothing on screen any more, so the switcher, unfiltered.
Removed(boxes, overlay) ==
  IF Boxed(boxes) = {}
  THEN /\ mode' = "switcher" /\ panes' = <<None>> /\ active' = 1
       /\ menu' = NoMenu /\ query' = NoQuery /\ selected' = 0
  ELSE panes' = boxes /\ menu' = overlay /\ UNCHANGED <<mode, active, query, selected>>

-----------------------------------------------------------------------------
(* detect_ready_edges: busy at the last poll, waiting now after more than a  *)
(* minute of work and a minute without input ("ready"), and on no screen.    *)
Edges(poll) ==
  SelectSeq(Listed(poll), LAMBDA s : snap[s] = "busy" /\ poll[s] = "ready" /\ s \notin Mounted)

(* note_ready_edges: the announcement may have expired; what no longer waits *)
(* or is on screen is dropped; new edges are added if one is looking, and    *)
(* rung for (leaving no trace here) if not.                                  *)
StillReady(s, poll) == poll[s] \in {"idle", "ready"} /\ s \notin Mounted

Noted(poll, expired) ==
  LET kept  == SelectSeq(IF expired THEN <<>> ELSE toast, LAMBDA s : StillReady(s, poll))
      edges == Edges(poll)
  IN IF ~focused THEN kept
     ELSE SelectSeq(kept, LAMBDA s : ~Contains(edges, s)) \o edges

\* The machines are asked for first, then the sessions. A poll that fails changes nothing.
Polled(poll) ==
  /\ machines' \in MachineLists
  /\ snap' = poll
  /\ \E expired \in {FALSE, toast # <<>>} : toast' = Noted(poll, expired)
  /\ mountedThen' = Mounted

(* refresh: the cursor is clamped to the rows there are with the boxes as    *)
(* they were, ended sessions leave their boxes, and an open menu's cursor is *)
(* clamped to the rows that are left.                                        *)
SessionRows(poll, q) == IF q = NoQuery THEN Listed(poll)
                      ELSE SelectSeq(Hits[q], LAMBDA r : r \in Range(Listed(poll)))
ActionRows(renames, q) ==
  SelectSeq(IF q = NoQuery THEN <<<<"layout">>, <<"new">>, <<"rename">>, <<"clear">>, <<"quit">>>>
            ELSE Hits[q],
            LAMBDA r : r \notin All /\ (r = <<"rename">> => renames))

Capped(at, count) == IF at < count THEN at ELSE IF count = 0 THEN 0 ELSE count - 1

MenuCapped(poll, boxes) ==
  IF menu = NoMenu THEN NoMenu
  ELSE LET filled == menu[1] \in DOMAIN boxes /\ boxes[menu[1]] # None
       IN [menu EXCEPT ![2] = Capped(@, Len(SessionRows(poll, menu[3]))
                                          + Len(ActionRows(filled, menu[3])))]

Refresh ==
  /\ \E poll \in [All -> Statuses] :
       LET ended == [i \in DOMAIN panes |->
                       IF panes[i] # None /\ poll[panes[i]] = "gone" THEN None ELSE panes[i]]
           gone  == {i \in DOMAIN panes : panes[i] # ended[i]}
       IN /\ Polled(poll)
          /\ IF gone # {} /\ Boxed(ended) = {} THEN Removed(ended, NoMenu)
             ELSE /\ panes' = ended
                  /\ selected' = Capped(selected, Len(SessionRows(poll, query)))
                  /\ menu' = MenuCapped(poll, ended)
                  /\ UNCHANGED <<mode, active, query>>
          /\ left' = IF gone = {} THEN left ELSE Was(panes[active])
  /\ UNCHANGED <<fill, recents, focused>>

FocusChanges ==
  /\ focused' = ~focused
  /\ UNCHANGED <<snap, machines, mode, panes, active, fill, recents, query, selected,
                 menu, toast, left, mountedThen>>

-----------------------------------------------------------------------------
(* Keys of the switcher. The rows are counted from 0.                        *)
InSwitcher == mode = "switcher"

KeyMove(down) ==
  /\ InSwitcher
  /\ LET n == Len(Visible)
     IN n > 0 /\ selected' = (selected + (IF down THEN 1 ELSE n - 1)) % n
  /\ UNCHANGED <<lists, mode, panes, active, fill, query, menu, left>>

\* Type, Backspace, ^U: another query, and the best row.
KeyQuery(q) ==
  /\ InSwitcher /\ q # query
  /\ query' = q /\ selected' = 0
  /\ UNCHANGED <<lists, mode, panes, active, fill, menu, left>>

\* attach: nothing if the cursor is on no row.
KeyAttach ==
  /\ InSwitcher
  /\ LET rows == Visible
     IN /\ selected + 1 \in DOMAIN rows
        /\ FillBox(Clamp(IF fill = 0 THEN 1 ELSE fill), rows[selected + 1])
  /\ fill' = 0
  /\ UNCHANGED <<snap, machines, toast, focused, mountedThen, query, selected, menu>>

\* Esc on an empty query: back to the box that was to be filled.
KeyBack ==
  /\ InSwitcher /\ query = NoQuery /\ fill # 0
  /\ fill' = 0 /\ mode' = "grid"
  /\ UNCHANGED <<lists, panes, active, query, selected, menu, left>>

\* ^X y: what the cursor is on is killed, and forgotten by name: the first of that name.
KeyKill ==
  /\ InSwitcher
  /\ LET rows == Visible
         name == rows[selected + 1][2]
         s    == List[FirstOf({i \in DOMAIN List : List[i][2] = name})]
     IN /\ selected + 1 \in DOMAIN rows
        /\ recents' = Forgotten(s)
        /\ left' = IF left # None /\ left[2] = name THEN None ELSE left
  /\ UNCHANGED <<snap, machines, toast, focused, mountedThen, mode, panes, active, fill,
                 query, selected, menu>>

-----------------------------------------------------------------------------
(* Keys of the grid.                                                         *)
InGrid == mode = "grid" /\ menu = NoMenu
InMenu == mode = "grid" /\ menu # NoMenu

OpenSwitcher ==
  /\ InGrid
  /\ fill' = active /\ mode' = "switcher" /\ query' = NoQuery /\ selected' = 0
  /\ UNCHANGED <<lists, panes, active, menu, left>>

OpenMenu ==
  /\ InGrid
  /\ menu' = <<active, MenuAtFirst - 1, NoQuery>>
  /\ UNCHANGED <<lists, mode, panes, active, fill, query, selected, left>>

KeyFocus(i) ==
  /\ InGrid /\ i \in DOMAIN panes \ {active}
  /\ active' = i
  /\ UNCHANGED <<lists, mode, panes, fill, query, selected, menu, left>>

\* tick_focus_dwell: the focused session, after a second.
Dwell ==
  /\ mode = "grid" /\ panes[active] # None
  /\ recents' = Promoted(panes[active])
  /\ UNCHANGED <<snap, machines, toast, focused, mountedThen, mode, panes, active, fill,
                 query, selected, menu, left>>

\* set_layout: the focused box first, the rest cut or padded.
SetLayout(n) ==
  /\ InGrid
  /\ LET swapped == [panes EXCEPT ![1] = panes[active], ![active] = panes[1]]
     IN panes' = [i \in 1..n |-> IF i <= Len(panes) THEN swapped[i] ELSE None]
  /\ active' = 1
  /\ UNCHANGED <<lists, mode, fill, query, selected, menu, left>>

\* ^A x.
KillFocused ==
  /\ InGrid /\ panes[active] # None
  /\ recents' = Forgotten(panes[active])
  /\ Removed([panes EXCEPT ![active] = None], NoMenu)
  /\ left' = IF left = panes[active] THEN None ELSE left
  /\ UNCHANGED <<snap, machines, toast, focused, mountedThen, fill>>

(* jump_ready: one ready session is mounted here; several open the switcher, *)
(* unfiltered, on the first row that is one of them.                         *)
JumpRow == LET rows == Visible IN FirstOf({i \in DOMAIN rows : Contains(toast, rows[i])})
Jump ==
  /\ InGrid /\ toast # <<>> /\ toast' = <<>>
  /\ IF Len(toast) = 1
     THEN FillBox(active, toast[1]) /\ UNCHANGED <<query, selected>>
     ELSE /\ query' = NoQuery
          /\ selected' = LET at == JumpRow IN IF at = 0 THEN 0 ELSE at - 1
          /\ mode' = "switcher" /\ UNCHANGED <<panes, active, recents, left>>
  /\ UNCHANGED <<snap, machines, fill, menu, focused, mountedThen>>

-----------------------------------------------------------------------------
(* Keys of the menu.                                                         *)
MenuNow == MenuOf(menu[1], menu[3])

MenuMove(down) ==
  /\ InMenu
  /\ LET n == Len(MenuNow)
     IN n > 0 /\ menu' = [menu EXCEPT ![2] = (@ + (IF down THEN 1 ELSE n - 1)) % n]
  /\ UNCHANGED <<lists, mode, panes, active, fill, query, selected, left>>

MenuQuery(q) ==
  /\ InMenu /\ menu[3] # q
  /\ menu' = <<menu[1], 0, q>>
  /\ UNCHANGED <<lists, mode, panes, active, fill, query, selected, left>>

MenuClose ==
  /\ InMenu /\ menu[3] = NoQuery
  /\ menu' = NoMenu
  /\ UNCHANGED <<lists, mode, panes, active, fill, query, selected, left>>

(* Enter: attach the session the cursor is on, or empty the box; the other   *)
(* actions hand over to a modal of their own.                                *)
MenuEnter ==
  /\ InMenu
  /\ LET rows == MenuNow
         row  == rows[menu[2] + 1]
     IN /\ menu[2] + 1 \in DOMAIN rows
        /\ \/ /\ row.kind = "session"
              /\ FillBox(menu[1], row.of) /\ menu' = NoMenu
              /\ UNCHANGED <<query, selected>>
           \/ /\ row = Action("clear")
              /\ Removed([panes EXCEPT ![menu[1]] = None], NoMenu)
              /\ left' = Was(panes[menu[1]])
              /\ UNCHANGED recents
           \/ /\ row.kind = "action" /\ row # Action("clear")
              /\ menu' = NoMenu
              /\ UNCHANGED <<mode, panes, active, recents, query, selected, left>>
  /\ UNCHANGED <<snap, machines, toast, focused, mountedThen, fill>>

Step ==
  \/ Refresh \/ FocusChanges
  \/ \E down \in BOOLEAN : KeyMove(down) \/ MenuMove(down)
  \/ \E q \in Queries \cup {NoQuery} : KeyQuery(q) \/ MenuQuery(q)
  \/ KeyAttach \/ KeyBack \/ KeyKill
  \/ OpenSwitcher \/ OpenMenu \/ Dwell \/ KillFocused \/ Jump
  \/ \E i \in DOMAIN panes : KeyFocus(i)
  \/ \E n \in Layouts : SetLayout(n)
  \/ MenuClose \/ MenuEnter

Next == steps < MaxSteps /\ steps' = steps + 1 /\ Step

Spec == Init /\ [][Next]_switcherVars

-----------------------------------------------------------------------------
(* A cursor is on a row whenever there are rows, whatever ended, filtered or *)
(* moved them: a key never falls into the void.                              *)
On(row, count) == count = 0 \/ row < count
CursorsOnRows ==
  /\ mode = "switcher" => On(selected, Len(Visible))
  /\ menu # NoMenu => On(menu[2], Len(MenuNow))

(* At rest every session of the poll is on one row of either list, the recent*)
(* ones first and never one on screen; what is drawn is what the cursor      *)
(* counts (visible_sessions, switcher_rows, menu_rows).                      *)
OfRows(rows) ==
  LET plain == SelectSeq(rows, LAMBDA r : r.kind = "session")
  IN [i \in DOMAIN plain |-> plain[i].of]

EachOnce ==
  LET split == RecentSplit
      rows  == Visible
  IN /\ OfRows(SwitcherRows) = rows
     /\ query = NoQuery => IsInjective(rows) /\ Range(rows) = Range(List)
     /\ OfRows(MenuRows(FALSE, NoQuery)) = split.section \o split.rest
     /\ Range(split.section) \cap Mounted = {}
     /\ split.rest = <<>> => List = <<>>

(* With one box, the menu opens on the session one left last, so Enter goes  *)
(* back to it: if it is still listed and was not killed by its name.         *)
BackInTwoKeys ==
  /\ mode = "grid" /\ Len(panes) = 1
  /\ panes[1] # None /\ Contains(List, panes[1])
  /\ left \notin {None, panes[1]} /\ Contains(List, left) /\ Contains(recents, left)
  => MenuRows(FALSE, NoQuery)[MenuAtFirst].of = left

(* A session announced as ready is listed and waits, was on no screen when   *)
(* it was polled, and is announced once (note_ready_edges).                  *)
ToastIsReady ==
  /\ IsInjective(toast)
  /\ \A s \in Range(toast) : snap[s] \in {"idle", "ready"} /\ s \notin mountedThen

ListsHold == CursorsOnRows /\ EachOnce /\ BackInTwoKeys /\ ToastIsReady
=============================================================================
