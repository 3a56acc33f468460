----------------------------- MODULE MCSessions -----------------------------
(***************************************************************************)
(* Small instances of Sessions for TLC: two clients contend for accounts    *)
(* and for the profiles of one account.                                    *)
(***************************************************************************)
EXTENDS Sessions, TLC

Symmetry == Permutations(Clients) \cup Permutations(Accounts)
=============================================================================
