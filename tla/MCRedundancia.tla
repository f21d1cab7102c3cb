---------------------------- MODULE MCRedundancia ----------------------------
(* Two computers for TLC.                                                   *)
EXTENDS Redundancia

CONSTANTS a, b

Dois == {a, b}
=============================================================================
