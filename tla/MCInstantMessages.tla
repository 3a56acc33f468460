-------------------------- MODULE MCInstantMessages --------------------------
(***************************************************************************)
(* A small instance of InstantMessages for TLC.                            *)
(***************************************************************************)
EXTENDS InstantMessages

CONSTANTS p1, p2

OneWay == {<<p1, p2>>}
=============================================================================
