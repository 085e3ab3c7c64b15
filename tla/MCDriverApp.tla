------------------------------ MODULE MCDriverApp ------------------------------
(* Instances of DriverApp for TLC. *)
EXTENDS DriverApp, TLC

CONSTANTS x1, x2, sh1, sh2

\* Of "lost" alone every behaviour is among those of "lost" and "late".
Cases == {{}, {"lost", "late"}, {"impatient"}}

Symmetry == Permutations({x1, x2}) \cup Permutations({sh1, sh2})
=============================================================================
