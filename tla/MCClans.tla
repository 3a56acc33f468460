------------------------------- MODULE MCClans -------------------------------
(***************************************************************************)
(* Small instances of Clans for TLC.                                       *)
(***************************************************************************)
EXTENDS Clans, TLC

Symmetry == Permutations(Profiles)

\* Once a failed query or a late request has upset a clan, TLC goes on only
\* while one profile takes no part at all.
TakesPart(p) ==
    \/ p \in online
    \/ row[p] # Clanless
    \/ \E c \in ClanIds : week[c] = p
    \/ Of(p, messages) # {}

TroubleBound ==
    Upset # {} => \E p \in Profiles : ~TakesPart(p)
=============================================================================
