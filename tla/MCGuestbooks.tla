---------------------------- MODULE MCGuestbooks ----------------------------
(***************************************************************************)
(* Guestbooks for TLC: a clan's book, which is that of both players, and   *)
(* another clan's.                                                         *)
(***************************************************************************)
EXTENDS Guestbooks, TLC

OneClan == (1 :> 1) @@ (2 :> 1)
=============================================================================
