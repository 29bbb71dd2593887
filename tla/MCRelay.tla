------------------------------- MODULE MCRelay -------------------------------
(* Instances of Relay for TLC.                                             *)
EXTENDS Relay, TLC

ClientSymmetry == Permutations(Clients)
=============================================================================
