------------------------------- MODULE MCBoxes -------------------------------
(* An instance of Boxes for TLC: one session name on two machines.           *)
EXTENDS Boxes

OneName == {<<"m1", "a">>, <<"m2", "a">>}
=============================================================================
