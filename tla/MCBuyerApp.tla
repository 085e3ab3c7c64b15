------------------------------ MODULE MCBuyerApp ------------------------------
(* Instances of BuyerApp for TLC. *)
EXTENDS BuyerApp, TLC

CONSTANTS s1, s2, o1, o2

\* Only a lost call can be late.
AllCases == {h \in SUBSET {"lost", "late", "impatient"} : "late" \in h => "lost" \in h}

Symmetry == Permutations({s1, s2}) \cup Permutations({o1, o2})
=============================================================================
