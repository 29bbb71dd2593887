---------------------------- MODULE TerminalView ----------------------------
(***************************************************************************)
(* What attaching to a session promises a client, with no rings, queues or *)
(* snapshots in sight: the terminal goes through a succession of versions, *)
(* and a client that is attached shows nothing yet, or one of the versions *)
(* the terminal has been through, and never an older one than before.      *)
(***************************************************************************)
EXTENDS Naturals, Sequences

CONSTANTS
  Clients

VARIABLES
  version,   \* how many times the terminal has changed
  shown      \* what each client shows: <<>> for nothing, <<v>> for version v

Init ==
  /\ version = 0
  /\ shown = [c \in Clients |-> <<>>]

Advance ==
  /\ version' = version + 1
  /\ UNCHANGED shown

Look(c) ==
  /\ \E v \in 0..version : /\ shown[c] # <<>> => v > shown[c][1]
                           /\ shown' = [shown EXCEPT ![c] = <<v>>]
  /\ UNCHANGED version

Leave(c) ==
  /\ shown' = [shown EXCEPT ![c] = <<>>]
  /\ UNCHANGED version

Next == Advance \/ \E c \in Clients : Look(c) \/ Leave(c)

Spec == Init /\ [][Next]_<<version, shown>>
=============================================================================
