-------------------------- MODULE MCBatchFulfilment --------------------------
(* Instances of BatchFulfilment for TLC. *)
EXTENDS BatchFulfilment, TLC

CONSTANTS b1, s1, d1, d2, l1, o1, o2, k1, k2

\* One farmer who sells by the crate of 20 kg, and one crate an order.
CrateSellerOf == l1 :> s1
CrateUnitOf   == l1 :> "crate"
CrateMoq      == l1 :> 1
CrateStock    == l1 :> 2
CrateCarts    == {l1 :> 1}

\* A truck that takes the batch of two; a smaller one would change nothing here.
LargeTruck == {50}

\* Each cause alone, none, and all three.
AllCases == {{}, {"direct"}, {"cancel"}, {"race"}, {"direct", "cancel", "race"}}

CancelledOnly == {{"cancel"}}

BatchSymmetry == Permutations({d1, d2}) \cup Permutations({o1, o2})
                   \cup Permutations({k1, k2})
=============================================================================
