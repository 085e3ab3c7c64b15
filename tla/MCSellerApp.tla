----------------------------- MODULE MCSellerApp -----------------------------
(* Instances of SellerApp for TLC. *)
EXTENDS SellerApp, TLC

CONSTANTS tomato, okra, p1, p2

\* A picture of each produce.
ShowsProduce == (p1 :> tomato) @@ (p2 :> okra)

\* No hazard, each alone, and those whose effects could add up.
SomeCases == {{}, {"lost"}, {"impatient"}, {"rethinks"}, {"lost", "late"},
              {"lost", "rethinks"}, {"impatient", "rethinks"}}
=============================================================================
