---------------------------- MODULE EscrowContract ----------------------------
(***************************************************************************)
(* What the marketplace promises about one order, without saying how: the  *)
(* buyer's money waits in escrow while the goods are fulfilled, everybody  *)
(* who is owed is paid in the step that completes the delivery and never   *)
(* again, and goods and money go back together or not at all (PRD 7.6,     *)
(* payment-provider.ts:5).                                                 *)
(***************************************************************************)
EXTENDS Integers

CONSTANTS Orders, Payees

VARIABLES
    goods,    \* where the produce of an order is
    money,    \* who has the buyer's money
    issued    \* payouts issued for the order, per payee

vars == <<goods, money, issued>>

Init ==
    /\ goods = [o \in Orders |-> "shelf"]
    /\ money = [o \in Orders |-> "buyer"]
    /\ issued = [o \in Orders |-> [p \in Payees |-> 0]]

Reserve(o) ==
    /\ goods[o] = "shelf"
    /\ goods' = [goods EXCEPT ![o] = "reserved"]
    /\ UNCHANGED <<money, issued>>

Hold(o) ==
    /\ goods[o] = "reserved"
    /\ money[o] = "buyer"
    /\ money' = [money EXCEPT ![o] = "escrow"]
    /\ UNCHANGED <<goods, issued>>

\* Cancellation: only before the goods leave the farm.
Release(o) ==
    /\ goods[o] = "reserved"
    /\ goods' = [goods EXCEPT ![o] = "returned"]
    /\ money' = [money EXCEPT ![o] = "buyer"]
    /\ UNCHANGED issued

\* Nothing leaves the farm that is not paid into escrow.
Depart(o) ==
    /\ goods[o] = "reserved"
    /\ money[o] = "escrow"
    /\ goods' = [goods EXCEPT ![o] = "moving"]
    /\ UNCHANGED <<money, issued>>

\* Delivery captures the escrow and pays everyone it owes, once.
Deliver(o) ==
    /\ goods[o] = "moving"
    /\ money[o] = "escrow"
    /\ goods' = [goods EXCEPT ![o] = "delivered"]
    /\ money' = [money EXCEPT ![o] = "platform"]
    /\ \E owed \in SUBSET Payees :
          /\ owed # {}
          /\ issued' = [issued EXCEPT ![o] =
                          [p \in Payees |-> @[p] + IF p \in owed THEN 1 ELSE 0]]

\* A dispute won after delivery: the platform pays the buyer back.
Compensate(o) ==
    /\ goods[o] = "delivered"
    /\ money[o] = "platform"
    /\ money' = [money EXCEPT ![o] = "buyer"]
    /\ UNCHANGED <<goods, issued>>

Next == \E o \in Orders : Reserve(o) \/ Hold(o) \/ Release(o) \/ Depart(o)
                            \/ Deliver(o) \/ Compensate(o)

Spec == Init /\ [][Next]_vars
=============================================================================
