--------------------------- MODULE MCProfileForms ---------------------------
(* Instances of ProfileForms for TLC. *)
EXTENDS ProfileForms

CONSTANTS blank, v1, v2

\* No hazard, each alone; only a lost call can be late.
EachCase == {{}, {"lost", "late"}, {"early"}, {"hurries"}, {"elsewhere"}}
=============================================================================
