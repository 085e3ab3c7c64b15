--------------------------- MODULE OrderLifecycle ---------------------------
(***************************************************************************)
(* The life of an order delivered directly: stock, escrow, shipment,       *)
(* payouts, settlement and notices, from checkout to delivery,             *)
(* cancellation or refund.                                                 *)
(*                                                                         *)
(* The state is the database of services/api. Every handler runs its       *)
(* writes in one DbService.tx and holds the row locks its guards rely on   *)
(* until COMMIT, so a committed transaction is one action here, and a      *)
(* transaction that throws is a step that changes nothing. The one check   *)
(* the code makes before the transaction, requireVerifiedDriver, is a      *)
(* step of its own. An order has at most one payment and one shipment      *)
(* row, both inserted by payOrder, so both tables are indexed by the       *)
(* order.                                                                  *)
(***************************************************************************)
EXTENDS Integers, FiniteSets, Functions

CONSTANTS
    Buyers, Sellers, Drivers,   \* the users of each role
    NoUser,                     \* the SQL NULL in a user column
    Listings,                   \* approved listings, live at the start
    SellerOf, UnitOf, Moq, Stock,
                                \* seller_id, unit, moq and qty of a listing
    Orders,                     \* order ids that can be handed out (bound)
    Carts,                      \* the carts buyers may check out (bound)
    Capacities,                 \* capacity_kg values drivers may declare (bound)
    GatewayOutcomes             \* statuses the payment provider may give a payout

Units == {"kg", "quintal", "crate", "dozen"}

ASSUME PartiesAssumption ==
    /\ Buyers \cap Sellers = {}
    /\ Buyers \cap Drivers = {}
    /\ Sellers \cap Drivers = {}
    /\ NoUser \notin Buyers \cup Sellers \cup Drivers

\* The CHECKs of the listings and order_items tables and the @Min of the DTOs.
\* A cart gives the quantity of every listing, 0 for one that is not in it.
ASSUME GoodsAssumption ==
    /\ SellerOf \in [Listings -> Sellers]
    /\ UnitOf \in [Listings -> Units]
    /\ Moq \in [Listings -> Nat \ {0}]
    /\ Stock \in [Listings -> Nat \ {0}]
    /\ Capacities \subseteq Nat \ {0}
    /\ Carts \subseteq [Listings -> Nat]
    /\ \A c \in Carts : \E l \in Listings : c[l] > 0

\* A bound of the model, and true of any table.
ASSUME OrdersAssumption == IsFiniteSet(Orders)

ASSUME GatewayAssumption ==
    /\ GatewayOutcomes # {}
    /\ GatewayOutcomes \subseteq {"paid", "failed"}

VARIABLES
    listings,     \* listings: status and qty_remaining
    orders,       \* orders and order_items: status, buyer_id, items
    payments,     \* payments.status, or "none" when there is no row
    shipments,    \* shipments: status ("none" when there is no row), driver_id
    payouts,      \* number of payouts rows per order, payee and status
    settlements,  \* settlements.status, or "none"
    notices,      \* who was notified of what about an order
    profiles,     \* driver_profiles: verify_status, capacity_kg
    accepting     \* accept requests between their pre-check and their transaction

vars == <<listings, orders, payments, shipments, payouts, settlements,
          notices, profiles, accepting>>

-----------------------------------------------------------------------------

Payees == Sellers \cup Drivers
Users  == Buyers \cup Payees

PayoutStatus == {"paid", "failed"}
NoticeType == {"order_paid", "new_pickup", "pickup_assigned", "picked_up",
               "delivered", "payout_released", "driver_earning",
               "order_cancelled", "refund_issued"}

ListingRow  == [status : {"live", "sold"}, remaining : Nat]
OrderRow    == [status : {"none", "created", "paid", "pickup_assigned",
                          "in_transit", "delivered", "cancelled"},
                buyer  : Buyers \cup {NoUser},
                items  : [Listings -> Nat]]
ShipmentRow == [status : {"none", "unassigned", "assigned", "picked_up",
                          "delivered", "cancelled"},
                driver : Drivers \cup {NoUser}]
ProfileRow  == [verify : {"none", "pending", "verified", "rejected"},
                capacity : Nat]
AcceptRequest == [driver : Drivers, order : Orders, capacity : Nat]

\* One type invariant: every table holds rows its CHECK constraints allow; in
\* particular qty_remaining never goes below zero, whatever carts compete.
TypeOK ==
    /\ listings \in [Listings -> ListingRow]
    /\ orders \in [Orders -> OrderRow]
    /\ payments \in [Orders -> {"none", "held", "captured", "refunded"}]
    /\ shipments \in [Orders -> ShipmentRow]
    /\ payouts \in [Orders -> [Payees -> [PayoutStatus -> Nat]]]
    /\ settlements \in [Orders -> {"none", "settled", "refunded"}]
    /\ notices \in [Orders -> SUBSET (Users \X NoticeType)]
    /\ profiles \in [Drivers -> ProfileRow]
    /\ accepting \subseteq AcceptRequest

EmptyCart == [l \in Listings |-> 0]
NoRows    == [s \in PayoutStatus |-> 0]

Init ==
    /\ listings = [l \in Listings |-> [status |-> "live", remaining |-> Stock[l]]]
    /\ orders = [o \in Orders |->
                   [status |-> "none", buyer |-> NoUser, items |-> EmptyCart]]
    /\ payments = [o \in Orders |-> "none"]
    /\ shipments = [o \in Orders |-> [status |-> "none", driver |-> NoUser]]
    /\ payouts = [o \in Orders |-> [p \in Payees |-> NoRows]]
    /\ settlements = [o \in Orders |-> "none"]
    /\ notices = [o \in Orders |-> {}]
    /\ profiles = [d \in Drivers |-> [verify |-> "none", capacity |-> 0]]
    /\ accepting = {}

-----------------------------------------------------------------------------
(* What several handlers share *)

SellersIn(cart) == {SellerOf[l] : l \in {x \in Listings : cart[x] > 0}}

\* toKg: the coarse kilograms of a quantity in the listing's unit.
ToKg(qty, unit) ==
    qty * (CASE unit = "kg" -> 1 [] unit = "quintal" -> 100
             [] unit = "crate" -> 20 [] unit = "dozen" -> 2)

\* shipments.weight_kg: computed when the order is paid from items that never
\* change afterwards, so it needs no column of its own.
WeightKg(o) ==
    SumFunctionOnSet([l \in Listings |-> ToKg(orders[o].items[l], UnitOf[l])], Listings)

\* UPDATE ... SET status, the other columns kept.
OrderAt(row, status)    == [status |-> status, buyer |-> row.buyer, items |-> row.items]
ShipmentAt(row, status) == [status |-> status, driver |-> row.driver]

Notify(o, messages) == notices' = [notices EXCEPT ![o] = @ \cup messages]

\* Mutant: a payout the gateway failed leaves no row.
RunPayoutsPaidOnly(rows, outcome) ==
    [p \in Payees |->
        IF p \in DOMAIN outcome
        THEN [rows[p] EXCEPT !["paid"] = @ + IF outcome[p] = "paid" THEN 1 ELSE 0]
        ELSE rows[p]]

\* runPayout for each payee: one more row, with the status the gateway gave.
RunPayouts(rows, outcome) ==
    [p \in Payees |->
        IF p \in DOMAIN outcome
        THEN [rows[p] EXCEPT ![outcome[p]] = @ + 1]
        ELSE rows[p]]

\* recordSettlement: INSERT ... ON CONFLICT DO NOTHING.
RecordSettlement(status) == IF status = "none" THEN "settled" ELSE status

-----------------------------------------------------------------------------
(* Buyer: checkout, payment, cancellation *)

\* Mutant: the quantity is not compared with the stock.
OrderableUnchecked(l, qty) ==
    /\ listings[l].status = "live"
    /\ qty >= Moq[l]

Orderable(l, qty) ==
    /\ listings[l].status = "live"
    /\ qty >= Moq[l]
    /\ qty <= listings[l].remaining

\* UPDATE listings: what is sold out leaves the market.
Sell(row, qty) ==
    [status    |-> IF row.remaining - qty <= 0 THEN "sold" ELSE row.status,
     remaining |-> row.remaining - qty]

\* Repeated lines of a listing are merged in the cart: the first loop checks
\* each line against the stock before any decrement, and the CHECK on
\* qty_remaining rolls the transaction back when their sum does not fit.
CreateOrder(b, o, cart) ==
    /\ orders[o].status = "none"
    /\ \A l \in Listings : cart[l] > 0 => Orderable(l, cart[l])
    /\ orders' = [orders EXCEPT ![o] =
                    [status |-> "created", buyer |-> b, items |-> cart]]
    /\ listings' = [l \in Listings |->
          IF cart[l] = 0 THEN listings[l] ELSE Sell(listings[l], cart[l])]
    /\ UNCHANGED <<payments, shipments, payouts, settlements, notices,
                   profiles, accepting>>

\* The join that reads the items has no ORDER BY: any seller of the order may
\* come first and be the one told to prepare the pickup.
PayOrder(b, o) ==
    /\ orders[o].buyer = b
    /\ orders[o].status = "created"
    /\ payments[o] = "none"
    /\ payments' = [payments EXCEPT ![o] = "held"]
    /\ orders' = [orders EXCEPT ![o] = OrderAt(@, "paid")]
    /\ shipments' = [shipments EXCEPT ![o] =
                       [status |-> "unassigned", driver |-> NoUser]]
    /\ \E first \in SellersIn(orders[o].items) :
          Notify(o, {<<b, "order_paid">>, <<first, "new_pickup">>})
    /\ UNCHANGED <<listings, payouts, settlements, profiles, accepting>>

\* Mutant: an order can still be cancelled on the road.
CancellableInTransit == {"created", "paid", "pickup_assigned", "in_transit"}

Cancellable == {"created", "paid", "pickup_assigned"}

\* Mutant: a sold-out listing is not put back on the market.
RestockHidden(row, qty) == [status |-> row.status, remaining |-> row.remaining + qty]

\* UPDATE listings: a sold-out listing becomes live again.
Restock(row, qty) ==
    [status    |-> IF row.status = "sold" THEN "live" ELSE row.status,
     remaining |-> row.remaining + qty]

CancelOrderTx(o) ==
    /\ orders[o].status \in Cancellable
    /\ listings' = [l \in Listings |->
          IF orders[o].items[l] = 0 THEN listings[l]
          ELSE Restock(listings[l], orders[o].items[l])]
    /\ payments' = [payments EXCEPT ![o] = IF @ = "held" THEN "refunded" ELSE @]
    /\ shipments' = [shipments EXCEPT ![o] =
          IF @.status \in {"none", "delivered"} THEN @ ELSE ShipmentAt(@, "cancelled")]
    /\ orders' = [orders EXCEPT ![o] = OrderAt(@, "cancelled")]
    /\ Notify(o, {<<orders[o].buyer, "order_cancelled">>}
                 \cup (IF payments[o] = "held"
                       THEN {<<orders[o].buyer, "refund_issued">>} ELSE {})
                 \cup {<<s, "order_cancelled">> : s \in SellersIn(orders[o].items)})
    /\ UNCHANGED <<payouts, settlements, profiles, accepting>>

BuyerCancel(b, o) ==
    /\ orders[o].buyer = b
    /\ CancelOrderTx(o)

-----------------------------------------------------------------------------
(* Admin: cancellation or refund, driver verification *)

\* refundOrder on a delivered order.
RefundDelivered(o) ==
    /\ orders[o].status = "delivered"
    /\ payments[o] = "captured"
    /\ payments' = [payments EXCEPT ![o] = "refunded"]
    /\ settlements' = [settlements EXCEPT ![o] = IF @ = "none" THEN @ ELSE "refunded"]
    /\ Notify(o, {<<orders[o].buyer, "refund_issued">>})
    /\ UNCHANGED <<listings, orders, shipments, payouts, profiles, accepting>>

AdminRefund(o) ==
    \/ RefundDelivered(o)
    \/ orders[o].status # "delivered" /\ CancelOrderTx(o)

VerifyDriver(d, approve) ==
    /\ profiles[d].verify # "none"
    /\ profiles' = [profiles EXCEPT ![d] =
          [verify |-> IF approve THEN "verified" ELSE "rejected",
           capacity |-> @.capacity]]
    /\ UNCHANGED <<listings, orders, payments, shipments, payouts, settlements,
                   notices, accepting>>

-----------------------------------------------------------------------------
(* Driver: onboarding, accepting, pickup and delivery *)

\* The upsert does not touch verify_status of a profile that exists.
UpsertProfile(d, kg) ==
    /\ profiles' = [profiles EXCEPT ![d] =
          [verify |-> IF @.verify = "none" THEN "pending" ELSE @.verify,
           capacity |-> kg]]
    /\ UNCHANGED <<listings, orders, payments, shipments, payouts, settlements,
                   notices, accepting>>

\* acceptJob before its transaction: requireVerifiedDriver reads the profile,
\* and the capacity it read is what the transaction will use.  Bound: one
\* accept request of a driver in flight at a time.
AcceptCheck(d, o) ==
    /\ \A r \in accepting : r.driver # d
    /\ profiles[d].verify = "verified"
    /\ shipments[o].status # "none"
    /\ accepting' = accepting \cup
          {[driver |-> d, order |-> o, capacity |-> profiles[d].capacity]}
    /\ UNCHANGED <<listings, orders, payments, shipments, payouts, settlements,
                   notices, profiles>>

\* Mutant: a job that is taken, or cancelled, can be accepted.
AcceptableUnchecked(r) == WeightKg(r.order) <= r.capacity

Acceptable(r) ==
    /\ shipments[r.order].status = "unassigned"
    /\ WeightKg(r.order) <= r.capacity

\* acceptJob's transaction.  It writes the order's status without reading it.
AcceptJob(r) ==
    /\ Acceptable(r)
    /\ shipments' = [shipments EXCEPT ![r.order] =
                       [status |-> "assigned", driver |-> r.driver]]
    /\ orders' = [orders EXCEPT ![r.order] = OrderAt(@, "pickup_assigned")]
    /\ Notify(r.order, {<<orders[r.order].buyer, "pickup_assigned">>})
    /\ accepting' = accepting \ {r}
    /\ UNCHANGED <<listings, payments, payouts, settlements, profiles>>

\* acceptJob's transaction throws: 'Job already taken' or too heavy a load.
RejectAccept(r) ==
    /\ ~Acceptable(r)
    /\ accepting' = accepting \ {r}
    /\ UNCHANGED <<listings, orders, payments, shipments, payouts, settlements,
                   notices, profiles>>

\* Mutant: the order keeps its status, as in batchPickup.
MarkPickedUpOnly(d, o) ==
    /\ shipments[o].driver = d
    /\ shipments[o].status = "assigned"
    /\ shipments' = [shipments EXCEPT ![o] = ShipmentAt(@, "picked_up")]
    /\ Notify(o, {<<orders[o].buyer, "picked_up">>})
    /\ UNCHANGED <<listings, orders, payments, payouts, settlements, profiles,
                   accepting>>

\* A wrong pickup code or drop OTP makes the transaction throw: no step.
MarkPickedUp(d, o) ==
    /\ shipments[o].driver = d
    /\ shipments[o].status = "assigned"
    /\ shipments' = [shipments EXCEPT ![o] = ShipmentAt(@, "picked_up")]
    /\ orders' = [orders EXCEPT ![o] = OrderAt(@, "in_transit")]
    /\ Notify(o, {<<orders[o].buyer, "picked_up">>})
    /\ UNCHANGED <<listings, payments, payouts, settlements, profiles, accepting>>

\* markDelivered with its settlement: capture, one payout per seller of the
\* order and one for the driver, the settlement row, the notices.  Sellers are
\* told their payout is released whatever the gateway answered.
MarkDelivered(d, o) ==
    /\ shipments[o].driver = d
    /\ shipments[o].status = "picked_up"
    /\ shipments' = [shipments EXCEPT ![o] = ShipmentAt(@, "delivered")]
    /\ orders' = [orders EXCEPT ![o] = OrderAt(@, "delivered")]
    /\ payments' = [payments EXCEPT ![o] = IF @ = "none" THEN @ ELSE "captured"]
    /\ \E outcome \in [SellersIn(orders[o].items) \cup {d} -> GatewayOutcomes] :
          payouts' = [payouts EXCEPT ![o] = RunPayouts(@, outcome)]
    /\ settlements' = [settlements EXCEPT ![o] = RecordSettlement(@)]
    /\ Notify(o, {<<orders[o].buyer, "delivered">>, <<d, "driver_earning">>}
                 \cup {<<s, "payout_released">> : s \in SellersIn(orders[o].items)})
    /\ UNCHANGED <<listings, profiles, accepting>>

-----------------------------------------------------------------------------

BuyerNext ==
    \E b \in Buyers, o \in Orders :
        \/ \E cart \in Carts : CreateOrder(b, o, cart)
        \/ PayOrder(b, o)
        \/ BuyerCancel(b, o)

AdminNext ==
    \/ \E o \in Orders : AdminRefund(o)
    \/ \E d \in Drivers, approve \in BOOLEAN : VerifyDriver(d, approve)

DriverNext ==
    \/ \E d \in Drivers, kg \in Capacities : UpsertProfile(d, kg)
    \/ \E d \in Drivers, o \in Orders :
          \/ AcceptCheck(d, o)
          \/ MarkPickedUp(d, o)
          \/ MarkDelivered(d, o)
    \/ \E r \in accepting : AcceptJob(r) \/ RejectAccept(r)

Next == BuyerNext \/ AdminNext \/ DriverNext

Spec == Init /\ [][Next]_vars

-----------------------------------------------------------------------------
(* Properties *)

RowCount(row) == row["paid"] + row["failed"]
Rows(o, p)    == RowCount(payouts[o][p])

\* The escrow follows the order: money is held exactly while a paid order is
\* being fulfilled, captured only once it is delivered, and returned only when
\* the order was cancelled or refunded.  Payment and order are written by five
\* handlers that lock different rows first (payOrder, cancelOrderTx,
\* refundOrder, acceptJob, markDelivered).
EscrowMatchesOrder ==
    \A o \in Orders :
        /\ payments[o] = "none" =>
              orders[o].status \in {"none", "created", "cancelled"}
        /\ payments[o] = "held" <=>
              orders[o].status \in {"paid", "pickup_assigned", "in_transit"}
        /\ payments[o] = "captured" => orders[o].status = "delivered"
        /\ payments[o] = "refunded" => orders[o].status \in {"delivered", "cancelled"}

\* The driver app and the buyer app never disagree: the shipment is at the
\* stage the order says, and it has a driver exactly from acceptance on.
\* acceptJob and markPickedUp overwrite the order's status without reading it.
ShipmentMatchesOrder ==
    \A o \in Orders :
        /\ shipments[o].status = "unassigned" <=> orders[o].status = "paid"
        /\ shipments[o].status = "assigned"   <=> orders[o].status = "pickup_assigned"
        /\ shipments[o].status = "picked_up"  <=> orders[o].status = "in_transit"
        /\ shipments[o].status = "delivered"  <=> orders[o].status = "delivered"
        /\ shipments[o].status = "cancelled"   => orders[o].status = "cancelled"
        /\ shipments[o].status \in {"none", "unassigned"} =>
              shipments[o].driver = NoUser
        /\ shipments[o].status \in {"assigned", "picked_up", "delivered"} =>
              shipments[o].driver # NoUser

\* Each seller of a delivered order, and the driver who carried it, has
\* exactly one payout row for it; before delivery, and for anyone else, none.
\* No unique constraint on the payouts table says so.
PayoutsFollowDelivery ==
    \A o \in Orders, p \in Payees :
        Rows(o, p) =
            IF /\ orders[o].status = "delivered"
               /\ p \in SellersIn(orders[o].items) \cup {shipments[o].driver}
            THEN 1 ELSE 0

\* The settlement row says where the buyer's money is: settled while it is
\* captured, refunded once a delivered order was refunded, absent otherwise.
LedgerMatchesMoney ==
    \A o \in Orders :
        settlements[o] = IF orders[o].status # "delivered" THEN "none"
                         ELSE IF payments[o] = "captured" THEN "settled"
                         ELSE "refunded"

\* A listing is off the market exactly when nothing is left of it: checkout
\* and cancellation, in any order, neither strand stock nor sell what is gone.
SoldMeansEmpty ==
    \A l \in Listings : listings[l].status = "sold" <=> listings[l].remaining = 0

\* What each order took from a listing and did not give back.
Taken(l) ==
    [o \in Orders |-> IF orders[o].status = "cancelled" THEN 0 ELSE orders[o].items[l]]

\* No stock appears or vanishes: what remains of a listing plus what orders
\* that were not cancelled took from it is what the farmer listed.
StockConserved ==
    \A l \in Listings :
        listings[l].remaining + SumFunctionOnSet(Taken(l), Orders) = Stock[l]

\* Units are neither lost, made, stranded nor sold twice.
StockAddsUp == StockConserved /\ SoldMeansEmpty

\* What people are told about money is what happened to it: the buyer hears of
\* a refund exactly when the payment was refunded, and a payee hears of a
\* payout exactly when a payout row for them exists.
MoneyNoticesAreTrue ==
    \A o \in Orders :
        /\ <<orders[o].buyer, "refund_issued">> \in notices[o] <=>
              payments[o] = "refunded"
        /\ \A p \in Payees :
              Rows(o, p) > 0 <=>
                  \/ <<p, "payout_released">> \in notices[o]
                  \/ <<p, "driver_earning">> \in notices[o]

\* Payouts are made as delivery promises them, and nobody is told otherwise.
MoneyIsAccounted == PayoutsFollowDelivery /\ MoneyNoticesAreTrue

\* Produce is only ever handed to a driver an admin has reviewed: the check
\* runs before the transaction, on a profile that may change meanwhile.
CarriersWereReviewed ==
    \A o \in Orders : shipments[o].driver # NoUser =>
        profiles[shipments[o].driver].verify \in {"verified", "rejected"}

\* The rows of an order tell one story: its shipment, its payment and its
\* settlement are where its status says, and its driver is one who may drive.
RowsAgree ==
    /\ ShipmentMatchesOrder /\ EscrowMatchesOrder /\ LedgerMatchesMoney
    /\ CarriersWereReviewed

\* A shipment keeps its first driver for good: of two drivers whose accept
\* requests both passed the pre-check, the second is turned away.
CustodyStable ==
    [][\A o \in Orders : shipments[o].driver # NoUser =>
          shipments'[o].driver = shipments[o].driver]_vars

\* A delivered or cancelled order stays what it is, whatever driver, buyer or
\* admin requests are still under way for it.
OrdersEndOnce ==
    [][\A o \in Orders : orders[o].status \in {"delivered", "cancelled"} =>
          orders'[o] = orders[o]]_vars

-----------------------------------------------------------------------------
(* Refinement: the database seen as the contract of EscrowContract *)

GoodsAt(status) ==
    CASE status = "none" -> "shelf"
      [] status \in {"created", "paid", "pickup_assigned"} -> "reserved"
      [] status = "in_transit" -> "moving"
      [] status = "delivered" -> "delivered"
      [] status = "cancelled" -> "returned"

MoneyAt(status) ==
    CASE status \in {"none", "refunded"} -> "buyer"
      [] status = "held" -> "escrow"
      [] status = "captured" -> "platform"

Goods  == [o \in Orders |-> GoodsAt(orders[o].status)]
Money  == [o \in Orders |-> MoneyAt(payments[o])]
Issued == [o \in Orders |-> [p \in Payees |-> Rows(o, p)]]

Contract == INSTANCE EscrowContract
                WITH goods <- Goods, money <- Money, issued <- Issued

\* Every transaction of the order handlers is one step of the contract, or none
\* that it can see: money, goods and payouts of an order never move apart.
ImplementsContract == Contract!Spec
=============================================================================
