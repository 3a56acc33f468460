--------------------------- MODULE MCClientManager ---------------------------
(***************************************************************************)
(* Small instances of ClientManager for TLC.  The clock has five values    *)
(* and the timeouts are 1 and 2, with at most one tick between two scans,  *)
(* so the clock wraps around under clients that are idle, active and       *)
(* overdue.                                                                *)
(***************************************************************************)
EXTENDS ClientManager, TLC

Symmetry == Permutations(Sockets) \cup Permutations(Addresses)
=============================================================================
