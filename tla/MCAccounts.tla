----------------------------- MODULE MCAccounts -----------------------------
(***************************************************************************)
(* Small instances of Accounts for TLC.                                    *)
(***************************************************************************)
EXTENDS Accounts, TLC

CONSTANTS e1, e2, e3

\* Two keys were given out by email, one of them confirmed; the third is a
\* purchased one.
TwoPrivate == (1 :> [email |-> e1, validated |-> TRUE]) @@ (2 :> [email |-> e2, validated |-> FALSE])

OneHandmade == <<e3>>
=============================================================================
