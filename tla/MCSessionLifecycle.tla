------------------------- MODULE MCSessionLifecycle -------------------------
(* The session lifecycle on small instances.                               *)
EXTENDS SessionLifecycle, TLC

PidSymmetry == Permutations(Pids)
ClientSymmetry == Permutations(Clients)
BothSymmetry == PidSymmetry \cup ClientSymmetry
=============================================================================
