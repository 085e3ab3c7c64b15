-------------------------- MODULE MCOrderLifecycle --------------------------
(* Instances of OrderLifecycle for TLC. *)
EXTENDS OrderLifecycle, TLC

CONSTANTS b1, b2, s1, s2, d1, d2, l1, l2, o1, o2

\* Two farmers: one sells by the kilogram, the other by the crate of 20 kg.
TwoSellerOf == (l1 :> s1) @@ (l2 :> s2)
TwoUnitOf   == (l1 :> "kg") @@ (l2 :> "crate")
TwoMoq      == (l1 :> 2) @@ (l2 :> 1)
TwoStock    == (l1 :> 3) @@ (l2 :> 2)

\* A cart below the MOQ, one that sells a listing out, one of two sellers.
\* Two orders of the second or third cart compete for the same stock.
TwoCarts == {(l1 :> 1) @@ (l2 :> 0), (l1 :> 3) @@ (l2 :> 0), (l1 :> 2) @@ (l2 :> 1)}

\* 10 kg does not fit the two-seller cart (22 kg), 30 kg fits every cart.
TwoCapacities == {10, 30}

Symmetry == Permutations({b1, b2}) \cup Permutations({d1, d2}) \cup Permutations({o1, o2})
=============================================================================
