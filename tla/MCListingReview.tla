--------------------------- MODULE MCListingReview ---------------------------
(* Instances of ListingReview for TLC. *)
EXTENDS ListingReview, TLC

CONSTANTS l1, l2, l3, b1, b2, r1, r2

\* The first payout ends in half a paisa, the second is rounded down; the last
\* request asks for a MOQ above its quantity.
ThreePayout == (l1 :> 1005) @@ (l2 :> 2004) @@ (l3 :> 1000)
ThreeMoq    == (l1 :> 1) @@ (l2 :> 2) @@ (l3 :> 2)
ThreeStock  == (l1 :> 2) @@ (l2 :> 2) @@ (l3 :> 1)

Symmetry == Permutations(Buyers) \cup Permutations(Reviews)
=============================================================================
