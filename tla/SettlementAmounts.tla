--------------------------- MODULE SettlementAmounts ---------------------------
(***************************************************************************)
(* The amounts of orders and of their settlement: what createOrder takes   *)
(* from a listing and charges, what a delivery pays the seller and the     *)
(* driver, alone or with the batch whose route RoutePlan computes, and     *)
(* what the ledger then says.                                              *)
(*                                                                         *)
(* Money is in paise, distances in hundredths of a kilometre, stored       *)
(* quantities in hundredths of a unit: numeric(12,2) and its kin.  The     *)
(* quantity of a request is in thousandths, because its DTO lets any       *)
(* decimal through: createOrder computes with it as it is, and the columns *)
(* round it each for itself.  Products are taken to be exact before they   *)
(* are rounded, as SQL has them and JavaScript but for the last bits.      *)
(*                                                                         *)
(* One listing, sold by the kg, and one order of it for each shipment.  An *)
(* order is delivered alone or with the batch; who may interfere with a    *)
(* batch is BatchFulfilment's matter.                                      *)
(***************************************************************************)
EXTENDS RoutePlan

CONSTANTS
    Asked,                      \* qty of an order's request, in thousandths
    Stock, Moq,                 \* qty and moq of the listing
    PayoutPrice, BuyerPrice     \* its prices, of which the first may be the higher

\* Half up, as Math.round and, above 0, numeric do.
Rounded(x, unit) == (x + unit \div 2) \div unit

\* order_items.qty, and with it the weight_kg of the shipment.
QtyOf == [o \in Shipments |-> Rounded(Asked[o], 10)]

ASSUME AmountsAssumption ==
    /\ IsFiniteSet(Shipments)
    /\ Stock \in Nat \ {0} /\ Moq \in Nat \ {0}
    /\ PayoutPrice \in Nat \ {0} /\ BuyerPrice \in Nat
    /\ Asked \in [Shipments -> Nat]
    /\ \A o \in Shipments : Weight[o] = QtyOf[o]

Orders == Shipments

VARIABLES
    listing,        \* listings: status and qty_remaining
    orders,         \* orders.status; "paid" also stands for the stages up to
                    \* delivery, "refunded" for a delivered order paid back
    settlements,    \* settlements, with no parts while there is no row
    paidOut         \* the sums of payouts.amount by payee_type

amounts  == <<listing, orders, settlements, paidOut>>
allVars  == <<vars, amounts>>

NoSplit == [gross |-> 0, farmer |-> 0, driver |-> 0, margin |-> 0, status |-> "none"]

AmountsTypeOK ==
    /\ TypeOK
    /\ listing \in [status : {"live", "sold"}, remaining : Nat]
    /\ orders \in [Orders -> {"none", "created", "paid", "cancelled", "delivered", "refunded"}]
    /\ settlements \in [Orders -> [gross : Nat, farmer : Nat, driver : Nat, margin : Int,
                                   status : {"none", "settled", "refunded"}]]
    /\ paidOut \in [seller : Nat, driver : Nat]

AmountsInit ==
    /\ Init
    /\ listing = [status |-> "live", remaining |-> Stock]
    /\ orders = [o \in Orders |-> "none"]
    /\ settlements = [o \in Orders |-> NoSplit]
    /\ paidOut = [seller |-> 0, driver |-> 0]

-----------------------------------------------------------------------------
(* Orders *)

Orderable(o) ==
    /\ listing.status = "live"
    /\ Asked[o] >= 10 * Moq
    /\ Asked[o] <= 10 * listing.remaining

\* The sold-out test sees the difference before the column rounds it.
CreateOrder(o) ==
    LET left == 10 * listing.remaining - Asked[o] IN
    /\ orders[o] = "none"
    /\ Orderable(o)
    /\ orders' = [orders EXCEPT ![o] = "created"]
    /\ listing' = [status |-> IF left <= 0 THEN "sold" ELSE listing.status,
                   remaining |-> Rounded(left, 10)]
    /\ UNCHANGED <<settlements, paidOut>>

\* orders.total, and the amount of its payment.
Total == [o \in Orders |-> Rounded(Asked[o] * BuyerPrice, 1000)]

PayOrder(o) ==
    /\ orders[o] = "created"
    /\ orders' = [orders EXCEPT ![o] = "paid"]
    /\ UNCHANGED <<listing, settlements, paidOut>>

InBatch(o) == phase # "start" /\ o \in Chosen

\* What comes back is the stored quantity.
CancelOrder(o) ==
    /\ orders[o] \in {"created", "paid"}
    /\ ~InBatch(o)
    /\ orders' = [orders EXCEPT ![o] = "cancelled"]
    /\ listing' = [status |-> "live", remaining |-> listing.remaining + QtyOf[o]]
    /\ UNCHANGED <<settlements, paidOut>>

-----------------------------------------------------------------------------
(* Settlement *)

\* TARIFF: 40 rupees a trip, 12 a kilometre, 15 a stop and 10 more in a batch.
directEarnings(km) == 4000 + 12 * km + 2 * 1500
estEarnings ==
    IF route = <<>> THEN 0 ELSE 4000 + 12 * totalKm + (1500 + 1000) * totalStops

FarmerPayout == [o \in Orders |-> Rounded(QtyOf[o] * PayoutPrice, 100)]

\* recordSettlement for an order and the driver's part of it.
Split(o, driver) ==
    [gross  |-> Total[o], farmer |-> FarmerPayout[o], driver |-> driver,
     margin |-> Total[o] - FarmerPayout[o] - driver, status |-> "settled"]

MarkDelivered(o) ==
    LET earning == directEarnings(Distance[PickupAt[o]][DropAt[o]]) IN
    /\ orders[o] = "paid"
    /\ ~InBatch(o)
    /\ orders' = [orders EXCEPT ![o] = "delivered"]
    /\ settlements' = [settlements EXCEPT ![o] = Split(o, earning)]
    /\ paidOut' = [seller |-> paidOut.seller + FarmerPayout[o],
                   driver |-> paidOut.driver + earning]
    /\ UNCHANGED listing

\* Mutant: every order carries the earnings of the whole batch.
ShareWhole(earning, n) == earning

\* driverSharePerOrder
Share(earning, n) == Rounded(2 * earning, 2 * n)

\* The last batchDeliver.  A plan over the capacity is run like any other.
BatchSettle ==
    /\ phase = "done"
    /\ Len(candidates) >= 2
    /\ \A o \in Chosen : orders[o] = "paid"
    /\ orders' = [o \in Orders |-> IF o \in Chosen THEN "delivered" ELSE orders[o]]
    /\ settlements' = [o \in Orders |->
          IF o \in Chosen THEN Split(o, Share(estEarnings, Len(candidates)))
          ELSE settlements[o]]
    /\ paidOut' = [seller |-> paidOut.seller + SumFunctionOnSet(FarmerPayout, Chosen),
                   driver |-> paidOut.driver + estEarnings]
    /\ UNCHANGED listing

\* refundOrder of a delivered order; the payouts stay made.
RefundOrder(o) ==
    /\ orders[o] = "delivered"
    /\ orders' = [orders EXCEPT ![o] = "refunded"]
    /\ settlements' = [settlements EXCEPT ![o].status = "refunded"]
    /\ UNCHANGED <<listing, paidOut>>

\* planBatch is called with shipments that wait for a driver.
Plan == Next /\ \A o \in Chosen : orders[o] = "paid"

AmountsNext ==
    \/ Plan /\ UNCHANGED amounts
    \/ /\ \/ \E o \in Orders : \/ CreateOrder(o) \/ PayOrder(o) \/ CancelOrder(o)
                               \/ MarkDelivered(o) \/ RefundOrder(o)
          \/ BatchSettle
       /\ UNCHANGED vars

AmountsSpec == AmountsInit /\ [][AmountsNext]_allVars /\ WF_allVars(Plan /\ UNCHANGED amounts)

-----------------------------------------------------------------------------
(* Properties *)

\* Orders asked for in more than the two decimals the columns keep.
Fine == {o \in Orders : Asked[o] % 10 # 0 /\ orders[o] # "none"}

\* Units drift by no more than one hundredth for each such order that was ever
\* made, cancelled or not, and upwards; without them, none is lost or made, and
\* sold out means that nothing is left.
StockDrift ==
    LET taken == SumFunctionOnSet(QtyOf, {o \in Orders : orders[o] \notin {"none", "cancelled"}})
        drift == listing.remaining + taken - Stock
    IN  /\ drift \in 0 .. Cardinality(Fine)
        /\ Fine = {} => (listing.status = "sold" <=> listing.remaining = 0)

\* What admin.service.ts:53 shows of the ledger is what became of the money: the
\* parts of the settled orders make up the payments that are captured; the sellers
\* have what the ledger says and the drivers to half a paisa an order, of which a
\* refund leaves the ledger, though not the payees, without; and an order covers
\* what its farmer is paid, unless the quantity was rounded up for the farmer alone
\* or the price does not cover the payout to begin with (see ListingReview).
BooksBalance ==
    LET settled == {o \in Orders : settlements[o].status = "settled"}
        told(part) == SumFunctionOnSet([o \in settled |-> settlements[o][part]], settled)
        captured == SumFunctionOnSet(Total, {o \in Orders : orders[o] = "delivered"})
        doubled == 2 * (paidOut.driver - told("driver"))
        orderCount == Cardinality(Chosen)
    IN  /\ captured = told("farmer") + told("driver") + told("margin")
        /\ paidOut.seller >= told("farmer") /\ doubled >= -orderCount
        /\ (\A o \in Orders : orders[o] # "refunded") =>
              paidOut.seller = told("farmer") /\ doubled <= orderCount
        /\ BuyerPrice >= PayoutPrice =>
              \A o \in settled \ Fine : settlements[o].gross >= settlements[o].farmer

\* Goods and money add up.
AmountsAddUp == StockDrift /\ BooksBalance
=============================================================================
