------------------------- MODULE MCSettlementAmounts -------------------------
(* Instances of SettlementAmounts for TLC: farms and shops along one road. *)
EXTENDS SettlementAmounts, TLC

\* The position of a place on the road is its name; a step is 1.01 km.
Farm == [s1 |-> 0, s2 |-> 4, s3 |-> 2, s4 |-> 4]
Shop == [s1 |-> 5, s2 |-> 3, s3 |-> 9, s4 |-> 1]

Gap(a, b) == IF a < b THEN b - a ELSE a - b
Road == 0 .. 9
RoadDistance == [p \in Road |-> [q \in Road |-> 101 * Gap(p, q)]]

\* Two whole quantities, one halfway between hundredths and one just below the next.
Wanted == [s1 |-> 1005, s2 |-> 2000, s3 |-> 1996, s4 |-> 3000]
Load   == [s1 |-> 101, s2 |-> 200, s3 |-> 200, s4 |-> 300]

\* Every list of up to four shipments without repetition.
Lists == {c \in UNION {[1 .. n -> DOMAIN Load] : n \in 0 .. 4} :
             \A i, j \in DOMAIN c : c[i] = c[j] => i = j}
=============================================================================
