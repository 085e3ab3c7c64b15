------------------------- MODULE MCOrderTransactions -------------------------
(* Instances of OrderTransactions for TLC. *)
EXTENDS OrderTransactions

CONSTANTS c1, c2, c3, d1
=============================================================================
