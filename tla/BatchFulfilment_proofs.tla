------------------------ MODULE BatchFulfilment_proofs ------------------------
(* Theorems about the life of an order (OrderLifecycle, the first part) and  *)
(* about the batch runs that extend it (BatchFulfilment, the second part),   *)
(* for every value of the constants. Those of the first part are about Spec, *)
(* those of the second about the batch runs, whatever interferes unless a    *)
(* theorem says otherwise.                                                   *)
EXTENDS BatchFulfilment, Sums, FiniteSetTheorems, TLAPS

-----------------------------------------------------------------------------
(* Part 1. The life of an order: helpers of the model *)

\* The sellers of a cart are sellers.
LEMMA SellersInAreSellers ==
    ASSUME NEW cart \in [Listings -> Nat]
    PROVE  SellersIn(cart) \subseteq Sellers
BY GoodsAssumption DEF SellersIn

\* Running the payouts of a set of payees adds one row to each of them and
\* touches nobody else.
LEMMA RunPayoutsCounts ==
    ASSUME NEW rows \in [Payees -> [PayoutStatus -> Nat]],
           NEW owed \in SUBSET Payees,
           NEW outcome \in [owed -> GatewayOutcomes]
    PROVE  /\ RunPayouts(rows, outcome) \in [Payees -> [PayoutStatus -> Nat]]
           /\ \A p \in owed : RowCount(RunPayouts(rows, outcome)[p]) = RowCount(rows[p]) + 1
           /\ \A p \in Payees \ owed : RunPayouts(rows, outcome)[p] = rows[p]
<1>1. ASSUME NEW p \in owed
      PROVE  /\ RunPayouts(rows, outcome)[p] \in [PayoutStatus -> Nat]
             /\ RowCount(RunPayouts(rows, outcome)[p]) = RowCount(rows[p]) + 1
  <2>1. RunPayouts(rows, outcome)[p] = [rows[p] EXCEPT ![outcome[p]] = @ + 1]
    BY DEF RunPayouts
  <2>2. rows[p] \in [PayoutStatus -> Nat]
    OBVIOUS
  <2>3. rows[p]["paid"] \in Nat /\ rows[p]["failed"] \in Nat
    BY <2>2 DEF PayoutStatus
  <2>4. outcome[p] \in {"paid", "failed"}
    BY GatewayAssumption
  <2> QED
    BY <2>1, <2>2, <2>3, <2>4 DEF PayoutStatus, RowCount
<1>2. \A p \in Payees \ owed : RunPayouts(rows, outcome)[p] = rows[p]
  BY DEF RunPayouts
<1>3. RunPayouts(rows, outcome) = [p \in Payees |-> RunPayouts(rows, outcome)[p]]
  BY DEF RunPayouts
<1>4. \A p \in Payees : RunPayouts(rows, outcome)[p] \in [PayoutStatus -> Nat]
  BY <1>1, <1>2
<1> QED
  BY <1>1, <1>2, <1>3, <1>4

-----------------------------------------------------------------------------
(* Types, and the three tables that move together *)

\* An order that exists has a buyer and a cart that was checked out; one that
\* does not has touched nobody.
OrdersFilled ==
    \A o \in Orders :
        IF orders[o].status = "none"
        THEN orders[o].buyer = NoUser /\ notices[o] = {} /\ shipments[o].status = "none"
        ELSE orders[o].buyer \in Buyers /\ orders[o].items \in Carts

\* TypeOK alone is not inductive: that a notice goes to a user needs the order
\* to have a buyer, and acceptJob knows that only through the shipment's stage.
Core == TypeOK /\ OrdersFilled /\ ShipmentMatchesOrder /\ EscrowMatchesOrder

\* An empty shop satisfies the inductive invariant.
LEMMA InitCore == Init => Core
<1> SUFFICES ASSUME Init PROVE Core
  OBVIOUS
<1>1. TypeOK
  BY PartiesAssumption, GoodsAssumption
  DEF Init, TypeOK, ListingRow, OrderRow, ShipmentRow, ProfileRow, AcceptRequest,
      EmptyCart, NoRows, PayoutStatus
<1>2. OrdersFilled /\ ShipmentMatchesOrder /\ EscrowMatchesOrder
  BY DEF Init, OrdersFilled, ShipmentMatchesOrder, EscrowMatchesOrder
<1> QED
  BY <1>1, <1>2 DEF Core

\* createOrder fills an order that nothing else knows of yet, with a cart in stock.
LEMMA CreateOrderCore ==
    ASSUME Core, NEW b \in Buyers, NEW o \in Orders, NEW cart \in Carts,
           CreateOrder(b, o, cart)
    PROVE  Core'
<1> USE DEF Core, TypeOK, OrderRow, ListingRow, ShipmentRow
<1>1. cart \in [Listings -> Nat]
  BY GoodsAssumption
<1>2. listings' \in [Listings -> ListingRow] /\ orders' \in [Orders -> OrderRow]
  BY <1>1 DEF CreateOrder, Orderable, Sell
<1>3. TypeOK'
  BY <1>2 DEF CreateOrder
<1>4. OrdersFilled'
  BY DEF CreateOrder, OrdersFilled
<1>5. ShipmentMatchesOrder'
  BY DEF CreateOrder, OrdersFilled, ShipmentMatchesOrder
<1>6. EscrowMatchesOrder'
  BY DEF CreateOrder, EscrowMatchesOrder
<1> QED
  BY <1>3, <1>4, <1>5, <1>6

\* payOrder writes the order, its payment and its shipment in one step.
LEMMA PayOrderCore ==
    ASSUME Core, NEW b \in Buyers, NEW o \in Orders, PayOrder(b, o)
    PROVE  Core'
<1> USE DEF Core, TypeOK, OrderRow, ShipmentRow, OrderAt
<1>1. PICK first \in SellersIn(orders[o].items) :
          Notify(o, {<<b, "order_paid">>, <<first, "new_pickup">>})
  BY DEF PayOrder
<1>2. first \in Sellers
  BY SellersInAreSellers
<1>3. notices' \in [Orders -> SUBSET (Users \X NoticeType)]
  BY <1>1, <1>2 DEF Notify, Users, Payees, NoticeType
<1>4. orders' \in [Orders -> OrderRow] /\ shipments' \in [Orders -> ShipmentRow]
  BY DEF PayOrder
<1>5. TypeOK'
  BY <1>3, <1>4 DEF PayOrder
<1>6. OrdersFilled'
  BY <1>1 DEF PayOrder, OrdersFilled, Notify
<1>7. ShipmentMatchesOrder'
  BY DEF PayOrder, ShipmentMatchesOrder
<1>8. EscrowMatchesOrder'
  BY DEF PayOrder, EscrowMatchesOrder
<1> QED
  BY <1>5, <1>6, <1>7, <1>8

\* cancelOrderTx ends order and shipment together and refunds what was held.
LEMMA CancelOrderCore ==
    ASSUME Core, NEW o \in Orders, CancelOrderTx(o)
    PROVE  Core'
<1> USE DEF Core, TypeOK, ListingRow, OrderRow, ShipmentRow, OrderAt, ShipmentAt
<1>1. orders[o].buyer \in Buyers /\ orders[o].items \in [Listings -> Nat]
  BY DEF CancelOrderTx, Cancellable, OrdersFilled
<1>2. SellersIn(orders[o].items) \subseteq Sellers
  BY <1>1, SellersInAreSellers
<1>3. notices' \in [Orders -> SUBSET (Users \X NoticeType)]
  BY <1>1, <1>2 DEF CancelOrderTx, Notify, Users, Payees, NoticeType
<1>4. listings' \in [Listings -> ListingRow]
  BY <1>1 DEF CancelOrderTx, Restock
<1>5. orders' \in [Orders -> OrderRow] /\ shipments' \in [Orders -> ShipmentRow]
  BY DEF CancelOrderTx
<1>6. TypeOK'
  BY <1>3, <1>4, <1>5 DEF CancelOrderTx
<1>7. OrdersFilled'
  BY DEF CancelOrderTx, Cancellable, OrdersFilled, Notify
<1>8. ShipmentMatchesOrder'
  BY DEF CancelOrderTx, Cancellable, ShipmentMatchesOrder
<1>9. EscrowMatchesOrder'
  BY DEF CancelOrderTx, Cancellable, EscrowMatchesOrder
<1> QED
  BY <1>6, <1>7, <1>8, <1>9

\* A refund after delivery turns captured money into refunded money, nothing else.
LEMMA RefundDeliveredCore ==
    ASSUME Core, NEW o \in Orders, RefundDelivered(o)
    PROVE  Core'
<1> USE DEF Core, TypeOK
<1>1. orders[o].buyer \in Buyers
  BY DEF RefundDelivered, OrdersFilled
<1>2. TypeOK'
  <2>1. notices' \in [Orders -> SUBSET (Users \X NoticeType)]
    BY <1>1 DEF RefundDelivered, Notify, Users, NoticeType
  <2> QED
    BY <2>1 DEF RefundDelivered
<1>3. OrdersFilled'
  BY DEF RefundDelivered, OrdersFilled, Notify
<1>4. ShipmentMatchesOrder'
  BY DEF RefundDelivered, ShipmentMatchesOrder
<1>5. EscrowMatchesOrder'
  BY DEF RefundDelivered, EscrowMatchesOrder
<1> QED
  BY <1>2, <1>3, <1>4, <1>5

\* acceptJob finds a paid order behind an unassigned shipment, whatever happened
\* since the driver was checked, and moves both.
LEMMA AcceptJobCore ==
    ASSUME Core, NEW r \in accepting, AcceptJob(r)
    PROVE  Core'
<1> USE DEF Core, TypeOK, OrderRow, ShipmentRow, OrderAt
<1>1. r.driver \in Drivers /\ r.driver # NoUser /\ r.order \in Orders
  BY PartiesAssumption DEF AcceptRequest
<1>2. orders[r.order].status = "paid" /\ orders[r.order].buyer \in Buyers
  BY <1>1 DEF AcceptJob, Acceptable, ShipmentMatchesOrder, OrdersFilled
<1>3. notices' \in [Orders -> SUBSET (Users \X NoticeType)]
  BY <1>1, <1>2 DEF AcceptJob, Notify, Users, NoticeType
<1>4. orders' \in [Orders -> OrderRow] /\ shipments' \in [Orders -> ShipmentRow]
  BY <1>1 DEF AcceptJob
<1>5. TypeOK'
  BY <1>3, <1>4 DEF AcceptJob
<1>6. OrdersFilled'
  BY <1>1, <1>2 DEF AcceptJob, OrdersFilled, Notify
<1>7. ShipmentMatchesOrder'
  BY <1>1, <1>2 DEF AcceptJob, ShipmentMatchesOrder
<1>8. EscrowMatchesOrder'
  BY <1>1, <1>2 DEF AcceptJob, EscrowMatchesOrder
<1> QED
  BY <1>5, <1>6, <1>7, <1>8

\* markPickedUp moves the shipment and the order of an assigned driver.
LEMMA MarkPickedUpCore ==
    ASSUME Core, NEW d \in Drivers, NEW o \in Orders, MarkPickedUp(d, o)
    PROVE  Core'
<1> USE DEF Core, TypeOK, OrderRow, ShipmentRow, OrderAt, ShipmentAt
<1>1. orders[o].status = "pickup_assigned" /\ orders[o].buyer \in Buyers
  BY DEF MarkPickedUp, ShipmentMatchesOrder, OrdersFilled
<1>2. notices' \in [Orders -> SUBSET (Users \X NoticeType)]
  BY <1>1 DEF MarkPickedUp, Notify, Users, NoticeType
<1>3. orders' \in [Orders -> OrderRow] /\ shipments' \in [Orders -> ShipmentRow]
  BY DEF MarkPickedUp
<1>4. TypeOK'
  BY <1>2, <1>3 DEF MarkPickedUp
<1>5. OrdersFilled'
  BY <1>1 DEF MarkPickedUp, OrdersFilled, Notify
<1>6. ShipmentMatchesOrder'
  BY <1>1 DEF MarkPickedUp, ShipmentMatchesOrder
<1>7. EscrowMatchesOrder'
  BY <1>1 DEF MarkPickedUp, EscrowMatchesOrder
<1> QED
  BY <1>4, <1>5, <1>6, <1>7

\* markDelivered ends order and shipment together and captures what was held.
LEMMA MarkDeliveredCore ==
    ASSUME Core, NEW d \in Drivers, NEW o \in Orders, MarkDelivered(d, o)
    PROVE  Core'
<1> USE DEF Core, TypeOK, OrderRow, ShipmentRow, OrderAt, ShipmentAt
<1>1. /\ orders[o].status = "in_transit" /\ orders[o].buyer \in Buyers
      /\ orders[o].items \in [Listings -> Nat]
      /\ payments[o] = "held"
  BY DEF MarkDelivered, ShipmentMatchesOrder, EscrowMatchesOrder, OrdersFilled
<1>2. SellersIn(orders[o].items) \subseteq Sellers
  BY <1>1, SellersInAreSellers
<1>3. payouts' \in [Orders -> [Payees -> [PayoutStatus -> Nat]]]
  <2>1. PICK outcome \in [SellersIn(orders[o].items) \cup {d} -> GatewayOutcomes] :
          payouts' = [payouts EXCEPT ![o] = RunPayouts(@, outcome)]
    BY DEF MarkDelivered
  <2>2. RunPayouts(payouts[o], outcome) \in [Payees -> [PayoutStatus -> Nat]]
    <3>1. payouts[o] \in [Payees -> [PayoutStatus -> Nat]]
      OBVIOUS
    <3>2. SellersIn(orders[o].items) \cup {d} \in SUBSET Payees
      BY <1>2 DEF Payees
    <3> QED
      BY <3>1, <3>2, RunPayoutsCounts
  <2> QED
    BY <2>1, <2>2
<1>4. notices' \in [Orders -> SUBSET (Users \X NoticeType)]
  BY <1>1, <1>2 DEF MarkDelivered, Notify, Users, Payees, NoticeType
<1>5. orders' \in [Orders -> OrderRow] /\ shipments' \in [Orders -> ShipmentRow]
  BY DEF MarkDelivered
<1>6. TypeOK'
  BY <1>3, <1>4, <1>5 DEF MarkDelivered, RecordSettlement
<1>7. OrdersFilled'
  BY <1>1 DEF MarkDelivered, OrdersFilled, Notify
<1>8. ShipmentMatchesOrder'
  BY <1>1 DEF MarkDelivered, ShipmentMatchesOrder
<1>9. EscrowMatchesOrder'
  BY <1>1 DEF MarkDelivered, EscrowMatchesOrder
<1> QED
  BY <1>6, <1>7, <1>8, <1>9

\* The actions on drivers and their requests leave every order alone.
LEMMA DriverAccountCore ==
    ASSUME Core,
           \/ \E d \in Drivers, kg \in Capacities : UpsertProfile(d, kg)
           \/ \E d \in Drivers, approve \in BOOLEAN : VerifyDriver(d, approve)
           \/ \E d \in Drivers, o \in Orders : AcceptCheck(d, o)
           \/ \E r \in accepting : RejectAccept(r)
    PROVE  Core'
<1> USE DEF Core, TypeOK, ProfileRow
<1>1. UNCHANGED <<listings, orders, payments, shipments, payouts, settlements, notices>>
  BY DEF UpsertProfile, VerifyDriver, AcceptCheck, RejectAccept
<1>2. profiles' \in [Drivers -> ProfileRow]
  BY GoodsAssumption DEF UpsertProfile, VerifyDriver, AcceptCheck, RejectAccept
<1>3. accepting' \subseteq AcceptRequest
  BY DEF UpsertProfile, VerifyDriver, AcceptCheck, RejectAccept, AcceptRequest
<1> QED
  BY <1>1, <1>2, <1>3 DEF OrdersFilled, ShipmentMatchesOrder, EscrowMatchesOrder

\* Every request preserves the inductive invariant.
LEMMA StepCore == Core /\ [Next]_vars => Core'
<1> SUFFICES ASSUME Core, [Next]_vars PROVE Core'
  OBVIOUS
<1>1. CASE BuyerNext
  BY <1>1, CreateOrderCore, PayOrderCore, CancelOrderCore DEF BuyerNext, BuyerCancel
<1>2. CASE AdminNext
  BY <1>2, RefundDeliveredCore, CancelOrderCore, DriverAccountCore
  DEF AdminNext, AdminRefund
<1>3. CASE DriverNext
  BY <1>3, AcceptJobCore, MarkPickedUpCore, MarkDeliveredCore, DriverAccountCore
  DEF DriverNext
<1>4. CASE UNCHANGED vars
  BY <1>4 DEF vars, Core, TypeOK, OrdersFilled, ShipmentMatchesOrder, EscrowMatchesOrder
<1> QED
  BY <1>1, <1>2, <1>3, <1>4 DEF Next

\* Types, the carts of existing orders, and the agreement of orders, shipments and
\* payments hold in every reachable state.
THEOREM CoreInvariant == Spec => []Core
<1>1. Init => Core
  BY InitCore
<1>2. Core /\ [Next]_vars => Core'
  BY StepCore
<1> QED
  BY <1>1, <1>2, PTL DEF Spec

\* Every row of every table keeps its type; stock never goes below zero.
THEOREM TypeCorrect == Spec => []TypeOK
BY CoreInvariant, PTL DEF Core

\* Money is in escrow exactly while a paid order is being fulfilled.
THEOREM EscrowFollowsOrder == Spec => []EscrowMatchesOrder
BY CoreInvariant, PTL DEF Core

\* The shipment is always at the stage its order says.
THEOREM ShipmentFollowsOrder == Spec => []ShipmentMatchesOrder
BY CoreInvariant, PTL DEF Core

-----------------------------------------------------------------------------
(* What no step may do *)

\* No step touches the order or the shipment of an order that has ended, and
\* none passes a shipment from one driver to another.
LEMMA StepKeepsEnds ==
    ASSUME Core, [Next]_vars, NEW o \in Orders
    PROVE  /\ orders[o].status \in {"delivered", "cancelled"} =>
                 orders'[o] = orders[o] /\ shipments'[o] = shipments[o]
           /\ shipments[o].driver # NoUser => shipments'[o].driver = shipments[o].driver
<1> DEFINE Kept == /\ orders[o].status \in {"delivered", "cancelled"} =>
                         orders'[o] = orders[o] /\ shipments'[o] = shipments[o]
                   /\ shipments[o].driver # NoUser =>
                         shipments'[o].driver = shipments[o].driver
<1> USE DEF Core, TypeOK, OrderRow, ShipmentRow, OrderAt, ShipmentAt, ShipmentMatchesOrder
<1>1. ASSUME NEW b \in Buyers, NEW x \in Orders, NEW cart \in Carts, CreateOrder(b, x, cart)
      PROVE  Kept
  BY <1>1 DEF CreateOrder
<1>2. ASSUME NEW b \in Buyers, NEW x \in Orders, PayOrder(b, x)
      PROVE  Kept
  BY <1>2 DEF PayOrder, EscrowMatchesOrder
<1>3. ASSUME NEW x \in Orders, CancelOrderTx(x)
      PROVE  Kept
  BY <1>3 DEF CancelOrderTx, Cancellable
<1>4. ASSUME NEW x \in Orders, RefundDelivered(x)
      PROVE  Kept
  BY <1>4 DEF RefundDelivered
<1>5. ASSUME NEW r \in accepting, AcceptJob(r)
      PROVE  Kept
  BY <1>5 DEF AcceptJob, Acceptable, AcceptRequest
<1>6. ASSUME NEW d \in Drivers, NEW x \in Orders, MarkPickedUp(d, x) \/ MarkDelivered(d, x)
      PROVE  Kept
  <2>1. CASE MarkPickedUp(d, x)
    BY <2>1 DEF MarkPickedUp
  <2>2. CASE MarkDelivered(d, x)
    BY <2>2 DEF MarkDelivered
  <2> QED
    BY <1>6, <2>1, <2>2
<1>7. CASE UNCHANGED <<orders, shipments>>
  BY <1>7
<1>8. CASE BuyerNext
  BY <1>1, <1>2, <1>3, <1>8 DEF BuyerNext, BuyerCancel
<1>9. CASE AdminNext
  BY <1>3, <1>4, <1>7, <1>9 DEF AdminNext, AdminRefund, VerifyDriver
<1>10. CASE DriverNext
  BY <1>5, <1>6, <1>7, <1>10 DEF DriverNext, UpsertProfile, AcceptCheck, RejectAccept
<1> QED
  BY <1>7, <1>8, <1>9, <1>10 DEF Next, vars

\* Delivered and cancelled orders never change again.
THEOREM EndsAreFinal == Spec => OrdersEndOnce
<1>1. Core /\ [Next]_vars =>
        [\A o \in Orders : orders[o].status \in {"delivered", "cancelled"} =>
            orders'[o] = orders[o]]_vars
  BY StepKeepsEnds
<1> QED
  BY <1>1, CoreInvariant, PTL DEF Spec, OrdersEndOnce

\* The first driver whose accept commits keeps the shipment.
THEOREM CustodyIsStable == Spec => CustodyStable
<1>1. Core /\ [Next]_vars =>
        [\A o \in Orders : shipments[o].driver # NoUser =>
            shipments'[o].driver = shipments[o].driver]_vars
  BY StepKeepsEnds
<1> QED
  BY <1>1, CoreInvariant, PTL DEF Spec, CustodyStable

-----------------------------------------------------------------------------
(* Payouts and settlement *)

\* The steps of the specification, told apart by what they do to the ledger.
LEMMA LedgerSteps ==
    ASSUME Core, [Next]_vars
    PROVE  \/ \E d \in Drivers, o \in Orders : MarkDelivered(d, o)
           \/ \E o \in Orders : RefundDelivered(o)
           \/ /\ UNCHANGED <<payouts, settlements>>
              /\ \A o \in Orders :
                    /\ orders'[o].status = "delivered" => orders[o].status = "delivered"
                    /\ orders[o].status = "delivered" => payments'[o] = payments[o]
<1> DEFINE Quiet == /\ UNCHANGED <<payouts, settlements>>
                    /\ \A o \in Orders :
                          /\ orders'[o].status = "delivered" => orders[o].status = "delivered"
                          /\ orders[o].status = "delivered" => payments'[o] = payments[o]
<1> USE DEF Core, TypeOK, OrderRow, OrderAt
<1>1. ASSUME NEW b \in Buyers, NEW x \in Orders, NEW cart \in Carts, CreateOrder(b, x, cart)
      PROVE  Quiet
  BY <1>1 DEF CreateOrder
<1>2. ASSUME NEW b \in Buyers, NEW x \in Orders, PayOrder(b, x)
      PROVE  Quiet
  BY <1>2 DEF PayOrder
<1>3. ASSUME NEW x \in Orders, CancelOrderTx(x)
      PROVE  Quiet
  BY <1>3 DEF CancelOrderTx, Cancellable
<1>4. ASSUME NEW r \in accepting, AcceptJob(r)
      PROVE  Quiet
  BY <1>4 DEF AcceptJob
<1>5. ASSUME NEW d \in Drivers, NEW x \in Orders, MarkPickedUp(d, x)
      PROVE  Quiet
  BY <1>5 DEF MarkPickedUp
<1>6. CASE UNCHANGED <<orders, payments, payouts, settlements>>
  BY <1>6
<1>7. CASE BuyerNext
  BY <1>1, <1>2, <1>3, <1>7 DEF BuyerNext, BuyerCancel
<1>8. CASE AdminNext
  BY <1>3, <1>6, <1>8 DEF AdminNext, AdminRefund, VerifyDriver
<1>9. CASE DriverNext
  BY <1>4, <1>5, <1>6, <1>9 DEF DriverNext, UpsertProfile, AcceptCheck, RejectAccept
<1> QED
  BY <1>6, <1>7, <1>8, <1>9 DEF Next, vars

\* An order whose payouts are run has one row more for each payee who is owed.
LEMMA PayoutRows ==
    ASSUME TypeOK, NEW o \in Orders, NEW owed \in SUBSET Payees,
           NEW outcome \in [owed -> GatewayOutcomes],
           payouts'[o] = RunPayouts(payouts[o], outcome)
    PROVE  \A p \in Payees : /\ p \in owed => Rows(o, p)' = Rows(o, p) + 1
                             /\ p \notin owed => Rows(o, p)' = Rows(o, p)
<1>1. payouts[o] \in [Payees -> [PayoutStatus -> Nat]]
  BY DEF TypeOK
<1>2. /\ \A p \in owed : RowCount(RunPayouts(payouts[o], outcome)[p]) = RowCount(payouts[o][p]) + 1
      /\ \A p \in Payees \ owed : RunPayouts(payouts[o], outcome)[p] = payouts[o][p]
  BY <1>1, RunPayoutsCounts
<1> QED
  BY <1>2 DEF Rows

\* The settlement in markDelivered gives each seller of the order and the driver
\* their one row: none of them had one before.
LEMMA DeliveryPaysOnce ==
    ASSUME Core, PayoutsFollowDelivery,
           NEW d \in Drivers, NEW o \in Orders, MarkDelivered(d, o)
    PROVE  PayoutsFollowDelivery'
<1> USE DEF Core, TypeOK
<1> DEFINE Owed == SellersIn(orders[o].items) \cup {d}
<1>1. /\ orders[o].status # "delivered" /\ orders[o].items \in [Listings -> Nat]
      /\ shipments[o].driver = d
  BY DEF MarkDelivered, ShipmentMatchesOrder, OrderRow
<1>2. Owed \in SUBSET Payees
  BY <1>1, SellersInAreSellers DEF Payees
<1>3. PICK outcome \in [Owed -> GatewayOutcomes] :
          payouts' = [payouts EXCEPT ![o] = RunPayouts(@, outcome)]
  BY DEF MarkDelivered
<1>4. /\ orders'[o].status = "delivered" /\ orders'[o].items = orders[o].items
      /\ shipments'[o].driver = d
      /\ \A x \in Orders \ {o} : orders'[x] = orders[x] /\ shipments'[x] = shipments[x]
  BY <1>1 DEF MarkDelivered, OrderAt, ShipmentAt, OrderRow, ShipmentRow
<1>5. \A p \in Payees : Rows(o, p) = 0
  BY <1>1 DEF PayoutsFollowDelivery
<1>6. /\ payouts'[o] = RunPayouts(payouts[o], outcome)
      /\ payouts[o] \in [Payees -> [PayoutStatus -> Nat]]
  BY <1>3
<1>7. \A x \in Orders \ {o}, p \in Payees : Rows(x, p)' = Rows(x, p)
  BY <1>3 DEF Rows
<1>8. ASSUME NEW p \in Payees
      PROVE  Rows(o, p)' = IF p \in Owed THEN 1 ELSE 0
  <2> DEFINE rows == payouts[o]
  <2>1. rows \in [Payees -> [PayoutStatus -> Nat]]
    BY <1>6
  <2>2. outcome \in [Owed -> GatewayOutcomes]
    BY <1>3
  <2>3. /\ \A q \in Owed : RowCount(RunPayouts(rows, outcome)[q]) = RowCount(rows[q]) + 1
        /\ \A q \in Payees \ Owed : RunPayouts(rows, outcome)[q] = rows[q]
    <3> HIDE DEF Owed, rows
    <3> QED
      BY <1>2, <2>1, <2>2, RunPayoutsCounts
  <2> QED
    BY <1>5, <1>6, <2>3 DEF Rows
<1>9. ASSUME NEW x \in Orders \ {o}, NEW p \in Payees
      PROVE  Rows(x, p)' =
               IF orders'[x].status = "delivered"
                  /\ p \in SellersIn(orders'[x].items) \cup {shipments'[x].driver}
               THEN 1 ELSE 0
  BY <1>4, <1>7 DEF PayoutsFollowDelivery
<1>10. ASSUME NEW p \in Payees
       PROVE  Rows(o, p)' =
                IF orders'[o].status = "delivered"
                   /\ p \in SellersIn(orders'[o].items) \cup {shipments'[o].driver}
                THEN 1 ELSE 0
  BY <1>4, <1>8
<1> QED
  BY <1>9, <1>10 DEF PayoutsFollowDelivery

\* No request pays anybody twice, or for an order that is not delivered.
LEMMA StepPayouts == Core /\ PayoutsFollowDelivery /\ [Next]_vars => PayoutsFollowDelivery'
<1> SUFFICES ASSUME Core, PayoutsFollowDelivery, [Next]_vars PROVE PayoutsFollowDelivery'
  OBVIOUS
<1>1. CASE \E d \in Drivers, o \in Orders : MarkDelivered(d, o)
  BY <1>1, DeliveryPaysOnce
<1>2. CASE /\ UNCHANGED payouts
           /\ \A o \in Orders :
                 orders'[o].status = "delivered" => orders[o].status = "delivered"
  <2>1. ASSUME NEW o \in Orders, NEW p \in Payees
        PROVE  Rows(o, p)' =
                 IF orders'[o].status = "delivered"
                    /\ p \in SellersIn(orders'[o].items) \cup {shipments'[o].driver}
                 THEN 1 ELSE 0
    <3>1. Rows(o, p)' = Rows(o, p)
      BY <1>2 DEF Rows
    <3>2. orders[o].status = "delivered" =>
            orders'[o] = orders[o] /\ shipments'[o] = shipments[o]
      BY StepKeepsEnds
    <3> QED
      BY <1>2, <3>1, <3>2 DEF PayoutsFollowDelivery
  <2> QED
    BY <2>1 DEF PayoutsFollowDelivery
<1>3. CASE \E o \in Orders : RefundDelivered(o)
  <2>1. UNCHANGED <<orders, payouts>>
    BY <1>3 DEF RefundDelivered
  <2> QED
    BY <1>2, <2>1
<1> QED
  BY <1>1, <1>2, <1>3, LedgerSteps

\* Each seller of a delivered order and its driver have one payout row, nobody
\* else has any.
THEOREM PayoutsOnce == Spec => []PayoutsFollowDelivery
<1>1. Init => PayoutsFollowDelivery
  BY DEF Init, PayoutsFollowDelivery, Rows, RowCount, NoRows, PayoutStatus
<1> QED
  BY <1>1, StepPayouts, CoreInvariant, PTL DEF Spec

\* The settlement row of an order and its money change together.
LEMMA StepLedger == Core /\ LedgerMatchesMoney /\ [Next]_vars => LedgerMatchesMoney'
<1> SUFFICES ASSUME Core, LedgerMatchesMoney, [Next]_vars PROVE LedgerMatchesMoney'
  OBVIOUS
<1> USE DEF Core, TypeOK, LedgerMatchesMoney
<1>1. ASSUME NEW d \in Drivers, NEW o \in Orders, MarkDelivered(d, o)
      PROVE  LedgerMatchesMoney'
  BY <1>1 DEF MarkDelivered, RecordSettlement, OrderAt, OrderRow, EscrowMatchesOrder,
              ShipmentMatchesOrder
<1>2. ASSUME NEW o \in Orders, RefundDelivered(o)
      PROVE  LedgerMatchesMoney'
  BY <1>2 DEF RefundDelivered
<1>3. CASE /\ UNCHANGED settlements
           /\ \A o \in Orders :
                 /\ orders'[o].status = "delivered" => orders[o].status = "delivered"
                 /\ orders[o].status = "delivered" => payments'[o] = payments[o]
  BY <1>3, StepKeepsEnds
<1> QED
  BY <1>1, <1>2, <1>3, LedgerSteps

\* The settlement row of an order always says where its money is.
THEOREM LedgerIsTrue == Spec => []LedgerMatchesMoney
<1>1. Init => LedgerMatchesMoney
  BY DEF Init, LedgerMatchesMoney
<1> QED
  BY <1>1, StepLedger, CoreInvariant, PTL DEF Spec

-----------------------------------------------------------------------------
(* Refinement: every transaction is a step of the contract, or none *)

\* An empty shop is an initial state of the escrow contract.
LEMMA InitRefines == Init => Contract!Init
BY DEF Init, Contract!Init, Goods, Money, Issued, GoodsAt, MoneyAt, Rows, RowCount,
       NoRows, PayoutStatus

\* createOrder is the contract's Reserve: goods leave the shelf, no money moves.
LEMMA ReserveRefines ==
    ASSUME Core, NEW b \in Buyers, NEW o \in Orders, NEW cart \in Carts,
           CreateOrder(b, o, cart)
    PROVE  Contract!Reserve(o)
<1> USE DEF Core, TypeOK, CreateOrder
<1>1. Goods[o] = "shelf" /\ Goods' = [Goods EXCEPT ![o] = "reserved"]
  <2>1. orders[o].status = "none" /\ orders'[o].status = "created"
    OBVIOUS
  <2>2. \A x \in Orders \ {o} : orders'[x] = orders[x]
    OBVIOUS
  <2>3. GoodsAt("none") = "shelf" /\ GoodsAt("created") = "reserved"
    BY DEF GoodsAt
  <2> HIDE DEF Core, TypeOK, CreateOrder
  <2> QED
    BY <2>1, <2>2, <2>3 DEF Goods
<1>2. UNCHANGED <<Money, Issued>>
  BY DEF Money, Issued, Rows
<1> QED
  BY <1>1, <1>2 DEF Contract!Reserve

\* payOrder is the contract's Hold: the buyer's money goes into escrow.
LEMMA HoldRefines ==
    ASSUME Core, NEW b \in Buyers, NEW o \in Orders, PayOrder(b, o)
    PROVE  Contract!Hold(o)
BY DEF Core, TypeOK, PayOrder, OrderAt, OrderRow,
       Contract!Hold, Goods, Money, Issued, GoodsAt, MoneyAt, Rows

\* A cancellation is the contract's Release: goods and money go back.
LEMMA ReleaseRefines ==
    ASSUME Core, NEW o \in Orders, CancelOrderTx(o)
    PROVE  Contract!Release(o)
<1> USE DEF Core, TypeOK, CancelOrderTx, Cancellable, OrderAt, OrderRow
<1>1. Goods[o] = "reserved" /\ Goods' = [Goods EXCEPT ![o] = "returned"]
  BY DEF Goods, GoodsAt
<1>2. Money' = [Money EXCEPT ![o] = "buyer"]
  BY DEF Money, MoneyAt, EscrowMatchesOrder
<1>3. UNCHANGED Issued
  BY DEF Issued, Rows
<1> QED
  BY <1>1, <1>2, <1>3 DEF Contract!Release

\* markPickedUp is the contract's Depart, with the money in escrow.
LEMMA DepartRefines ==
    ASSUME Core, NEW d \in Drivers, NEW o \in Orders, MarkPickedUp(d, o)
    PROVE  Contract!Depart(o)
<1> USE DEF Core, TypeOK, MarkPickedUp, OrderAt, OrderRow
<1>1. orders[o].status = "pickup_assigned" /\ payments[o] = "held"
  BY DEF ShipmentMatchesOrder, EscrowMatchesOrder
<1>2. Goods[o] = "reserved" /\ Goods' = [Goods EXCEPT ![o] = "moving"]
  BY <1>1 DEF Goods, GoodsAt
<1>3. Money[o] = "escrow" /\ UNCHANGED <<Money, Issued>>
  BY <1>1 DEF Money, MoneyAt, Issued, Rows
<1> QED
  BY <1>2, <1>3 DEF Contract!Depart

\* markDelivered is the contract's Deliver: the goods arrive, the platform has the
\* money, and payouts are issued for the first time.
LEMMA DeliverRefines ==
    ASSUME Core, NEW d \in Drivers, NEW o \in Orders, MarkDelivered(d, o)
    PROVE  Contract!Deliver(o)
<1> USE DEF Core, TypeOK
<1> DEFINE Owed == SellersIn(orders[o].items) \cup {d}
<1>1. /\ orders[o].status = "in_transit" /\ payments[o] = "held"
      /\ orders[o].items \in [Listings -> Nat]
  BY DEF MarkDelivered, ShipmentMatchesOrder, EscrowMatchesOrder, OrderRow
<1>2. Owed \in SUBSET Payees /\ Owed # {}
  BY <1>1, SellersInAreSellers DEF Payees
<1>3. Goods[o] = "moving" /\ Goods' = [Goods EXCEPT ![o] = "delivered"]
  BY <1>1 DEF Goods, GoodsAt, MarkDelivered, OrderAt, OrderRow
<1>4. Money[o] = "escrow" /\ Money' = [Money EXCEPT ![o] = "platform"]
  BY <1>1 DEF Money, MoneyAt, MarkDelivered
<1>5. PICK outcome \in [Owed -> GatewayOutcomes] :
          payouts' = [payouts EXCEPT ![o] = RunPayouts(@, outcome)]
  BY DEF MarkDelivered
<1>6. ASSUME NEW p \in Payees
      PROVE  Rows(o, p)' = Rows(o, p) + (IF p \in Owed THEN 1 ELSE 0)
  <2> DEFINE rows == payouts[o]
  <2>1. rows \in [Payees -> [PayoutStatus -> Nat]]
    OBVIOUS
  <2>2. outcome \in [Owed -> GatewayOutcomes]
    BY <1>5
  <2>3. /\ \A q \in Owed : RowCount(RunPayouts(rows, outcome)[q]) = RowCount(rows[q]) + 1
        /\ \A q \in Payees \ Owed : RunPayouts(rows, outcome)[q] = rows[q]
    <3> HIDE DEF Owed, rows
    <3> QED
      BY <1>2, <2>1, <2>2, RunPayoutsCounts
  <2>4. payouts'[o] = RunPayouts(rows, outcome) /\ RowCount(rows[p]) \in Nat
    <3>1. rows[p]["paid"] \in Nat /\ rows[p]["failed"] \in Nat
      BY <2>1 DEF PayoutStatus
    <3> QED
      BY <1>5, <3>1 DEF RowCount
  <2> QED
    BY <2>3, <2>4 DEF Rows
<1>7. Issued' = [Issued EXCEPT ![o] =
                   [p \in Payees |-> @[p] + IF p \in Owed THEN 1 ELSE 0]]
  <2>1. \A x \in Orders \ {o}, p \in Payees : Rows(x, p)' = Rows(x, p)
    BY <1>5 DEF Rows
  <2> HIDE DEF Owed
  <2> QED
    BY <1>6, <2>1 DEF Issued
<1> QED
  BY <1>2, <1>3, <1>4, <1>7 DEF Contract!Deliver

\* A refund after delivery is the contract's Compensate.
LEMMA CompensateRefines ==
    ASSUME Core, NEW o \in Orders, RefundDelivered(o)
    PROVE  Contract!Compensate(o)
<1> USE DEF Core, TypeOK, RefundDelivered
<1>1. Money[o] = "platform" /\ Money' = [Money EXCEPT ![o] = "buyer"]
  BY DEF Money, MoneyAt
<1>2. Goods[o] = "delivered" /\ UNCHANGED <<Goods, Issued>>
  BY DEF Goods, GoodsAt, Issued, Rows
<1> QED
  BY <1>1, <1>2 DEF Contract!Compensate

\* Whose job it is does not concern the contract.
LEMMA AcceptRefines ==
    ASSUME Core, NEW r \in accepting, AcceptJob(r)
    PROVE  UNCHANGED <<Goods, Money, Issued>>
<1> USE DEF Core, TypeOK
<1>1. r.order \in Orders /\ orders[r.order].status = "paid"
  BY DEF AcceptJob, Acceptable, AcceptRequest, ShipmentMatchesOrder
<1>2. UNCHANGED Goods
  BY <1>1 DEF Goods, GoodsAt, AcceptJob, OrderAt, OrderRow
<1> QED
  BY <1>2 DEF Money, Issued, Rows, AcceptJob

\* Every request is a step of the contract or a stutter.
LEMMA StepRefines == Core /\ [Next]_vars => [Contract!Next]_(Contract!vars)
<1> SUFFICES ASSUME Core, [Next]_vars PROVE [Contract!Next]_(Contract!vars)
  OBVIOUS
<1>1. CASE UNCHANGED <<orders, payments, payouts>>
  BY <1>1 DEF Contract!vars, Goods, Money, Issued, Rows
<1>2. CASE BuyerNext
  BY <1>2, ReserveRefines, HoldRefines, ReleaseRefines
  DEF BuyerNext, BuyerCancel, Contract!Next
<1>3. CASE AdminNext
  <2>1. CASE \E o \in Orders : AdminRefund(o)
    BY <2>1, CompensateRefines, ReleaseRefines DEF AdminRefund, Contract!Next
  <2>2. CASE \E d \in Drivers, approve \in BOOLEAN : VerifyDriver(d, approve)
    BY <1>1, <2>2 DEF VerifyDriver
  <2> QED
    BY <1>3, <2>1, <2>2 DEF AdminNext
<1>4. CASE DriverNext
  <2>1. CASE \E r \in accepting : AcceptJob(r)
    BY <2>1, AcceptRefines DEF Contract!vars
  <2>2. CASE \E d \in Drivers, o \in Orders : MarkPickedUp(d, o) \/ MarkDelivered(d, o)
    BY <2>2, DepartRefines, DeliverRefines DEF Contract!Next
  <2> QED
    BY <1>1, <1>4, <2>1, <2>2 DEF DriverNext, UpsertProfile, AcceptCheck, RejectAccept
<1> QED
  BY <1>1, <1>2, <1>3, <1>4 DEF Next, vars

\* The handlers, run in any order by any users, implement the escrow contract.
THEOREM Refinement == Spec => ImplementsContract
<1>1. Init => Contract!Init
  BY InitRefines
<1>2. Core /\ [Next]_vars => [Contract!Next]_(Contract!vars)
  BY StepRefines
<1> QED
  BY <1>1, <1>2, CoreInvariant, PTL DEF Spec, ImplementsContract, Contract!Spec

-----------------------------------------------------------------------------
(* Stock on the market, drivers who carry *)

\* A listing becomes sold with its last unit and live with its first one back.
LEMMA StepSold == Core /\ SoldMeansEmpty /\ [Next]_vars => SoldMeansEmpty'
<1> SUFFICES ASSUME Core, SoldMeansEmpty, [Next]_vars PROVE SoldMeansEmpty'
  OBVIOUS
<1> USE DEF Core, TypeOK, ListingRow, SoldMeansEmpty
<1>1. ASSUME NEW b \in Buyers, NEW o \in Orders, NEW cart \in Carts, CreateOrder(b, o, cart)
      PROVE  SoldMeansEmpty'
  <2>1. cart \in [Listings -> Nat]
    BY GoodsAssumption
  <2> QED
    BY <1>1, <2>1 DEF CreateOrder, Orderable, Sell
<1>2. ASSUME NEW o \in Orders, CancelOrderTx(o)
      PROVE  SoldMeansEmpty'
  <2>1. orders[o].items \in [Listings -> Nat]
    BY DEF OrderRow
  <2> QED
    BY <1>2, <2>1 DEF CancelOrderTx, Restock
<1>3. CASE UNCHANGED listings
  BY <1>3
<1>4. CASE BuyerNext
  BY <1>1, <1>2, <1>3, <1>4 DEF BuyerNext, BuyerCancel, PayOrder
<1>5. CASE AdminNext
  BY <1>2, <1>3, <1>5 DEF AdminNext, AdminRefund, RefundDelivered, VerifyDriver
<1>6. CASE DriverNext
  BY <1>3, <1>6 DEF DriverNext, UpsertProfile, AcceptCheck, AcceptJob, RejectAccept,
                    MarkPickedUp, MarkDelivered
<1> QED
  BY <1>3, <1>4, <1>5, <1>6 DEF Next, vars

\* A listing is marked sold exactly while nothing of it is left.
THEOREM SoldIsEmpty == Spec => []SoldMeansEmpty
<1>1. Init => SoldMeansEmpty
  BY GoodsAssumption DEF Init, SoldMeansEmpty
<1> QED
  BY <1>1, StepSold, CoreInvariant, PTL DEF Spec

\* An id that was not handed out has an empty cart; without that createOrder
\* could take back what the order had taken.
StockInv ==
    /\ \A o \in Orders : orders[o].status = "none" => orders[o].items = EmptyCart
    /\ StockConserved

\* A step that changes what one order has taken of a listing keeps the balance if
\* the listing's stock changes by as much.
LEMMA OneOrderMoves ==
    ASSUME TypeOK, TypeOK', StockConserved, NEW l \in Listings, NEW o \in Orders,
           \A x \in Orders \ {o} : orders'[x] = orders[x],
           listings'[l].remaining + Taken(l)'[o] = listings[l].remaining + Taken(l)[o]
    PROVE  listings'[l].remaining + SumFunctionOnSet(Taken(l)', Orders) = Stock[l]
<1> DEFINE f == Taken(l)
           g == Taken(l)'
<1>1. \A x \in Orders : f[x] \in Int /\ g[x] \in Int
  BY DEF TypeOK, OrderRow, Taken
<1>2. \A x \in Orders \ {o} : g[x] = f[x]
  BY DEF Taken
<1>3. listings[l].remaining \in Int /\ listings'[l].remaining \in Int
  BY DEF TypeOK, ListingRow
<1>4. listings[l].remaining + SumFunctionOnSet(f, Orders) = Stock[l]
  BY DEF StockConserved
<1>5. listings'[l].remaining + g[o] = listings[l].remaining + f[o]
  OBVIOUS
<1> HIDE DEF f, g
<1>6. SumFunctionOnSet(g, Orders) = SumFunctionOnSet(f, Orders) - f[o] + g[o]
  BY <1>1, <1>2, SumChange, OrdersAssumption
<1>7. SumFunctionOnSet(f, Orders) \in Int /\ f[o] \in Int /\ g[o] \in Int
  BY <1>1, SumType, OrdersAssumption
<1>8. listings'[l].remaining + SumFunctionOnSet(g, Orders) = Stock[l]
  <2> DEFINE F == SumFunctionOnSet(f, Orders)
             G == SumFunctionOnSet(g, Orders)
  <2>1. G = F - f[o] + g[o] /\ F \in Int /\ listings[l].remaining + F = Stock[l]
    BY <1>4, <1>6, <1>7
  <2> HIDE DEF F, G
  <2>2. listings'[l].remaining + G = Stock[l]
    BY <1>3, <1>5, <1>7, <2>1
  <2> QED
    BY <2>2 DEF G
<1> QED
  BY <1>8 DEF g

\* No listing and no cart is touched, and no order comes from or goes to the two
\* ends of its life: the balance stays what it is.
LEMMA NothingMoves ==
    ASSUME TypeOK, StockConserved, UNCHANGED listings,
           \A x \in Orders : /\ orders'[x].items = orders[x].items
                             /\ orders'[x].status = "cancelled" <=> orders[x].status = "cancelled"
    PROVE  StockConserved'
<1>1. ASSUME NEW l \in Listings
      PROVE  listings'[l].remaining + SumFunctionOnSet(Taken(l)', Orders) = Stock[l]
  <2>1. Taken(l)' = Taken(l)
    BY DEF Taken
  <2> QED
    BY <2>1 DEF StockConserved
<1> QED
  BY <1>1 DEF StockConserved

\* Only checkout and cancellation move stock, and each moves as much as the cart.
LEMMA StepStock == Core /\ StockInv /\ [Next]_vars => StockInv'
<1> SUFFICES ASSUME Core, StockInv, [Next]_vars PROVE StockInv'
  OBVIOUS
<1>1. Core'
  BY StepCore
<1>2. TypeOK /\ TypeOK' /\ StockConserved
  BY <1>1 DEF Core, StockInv
<1>3. ASSUME NEW b \in Buyers, NEW o \in Orders, NEW cart \in Carts, CreateOrder(b, o, cart)
      PROVE  StockInv'
  <2>1. cart \in [Listings -> Nat]
    BY GoodsAssumption
  <2>2. \A x \in Orders \ {o} : orders'[x] = orders[x]
    BY <1>2, <1>3 DEF CreateOrder, TypeOK
  <2>3. ASSUME NEW l \in Listings
        PROVE  listings'[l].remaining + Taken(l)'[o] = listings[l].remaining + Taken(l)[o]
    <3>1. Taken(l)[o] = 0
      BY <1>3 DEF CreateOrder, StockInv, Taken, EmptyCart
    <3>2. Taken(l)'[o] = cart[l]
      BY <1>2, <1>3 DEF CreateOrder, Taken, TypeOK
    <3>3. listings'[l].remaining = listings[l].remaining - cart[l]
      BY <1>2, <1>3, <2>1 DEF CreateOrder, Sell, TypeOK, ListingRow
    <3> QED
      BY <1>2, <2>1, <3>1, <3>2, <3>3 DEF TypeOK, ListingRow
  <2>4. StockConserved'
    BY <1>2, <2>2, <2>3, OneOrderMoves DEF StockConserved
  <2> QED
    BY <1>2, <1>3, <2>2, <2>4 DEF StockInv, CreateOrder, TypeOK
<1>4. ASSUME NEW o \in Orders, CancelOrderTx(o)
      PROVE  StockInv'
  <2> DEFINE items == orders[o].items
  <2>1. items \in [Listings -> Nat]
    BY <1>2 DEF TypeOK, OrderRow
  <2>2. \A x \in Orders \ {o} : orders'[x] = orders[x]
    BY <1>2, <1>4 DEF CancelOrderTx, TypeOK
  <2>3. ASSUME NEW l \in Listings
        PROVE  listings'[l].remaining + Taken(l)'[o] = listings[l].remaining + Taken(l)[o]
    <3>1. Taken(l)[o] = items[l]
      BY <1>4 DEF CancelOrderTx, Cancellable, Taken
    <3>2. Taken(l)'[o] = 0
      BY <1>2, <1>4 DEF CancelOrderTx, Taken, TypeOK, OrderAt
    <3>3. listings'[l].remaining = listings[l].remaining + items[l]
      BY <1>2, <1>4, <2>1 DEF CancelOrderTx, Restock, TypeOK, ListingRow
    <3> QED
      BY <1>2, <2>1, <3>1, <3>2, <3>3 DEF TypeOK, ListingRow
  <2>4. StockConserved'
    BY <1>2, <2>2, <2>3, OneOrderMoves DEF StockConserved
  <2> QED
    BY <1>2, <1>4, <2>2, <2>4 DEF StockInv, CancelOrderTx, Cancellable, TypeOK, OrderAt
<1>5. ASSUME UNCHANGED listings,
             \A x \in Orders :
                 /\ orders'[x].items = orders[x].items
                 /\ orders'[x].status = orders[x].status
                       \/ {orders[x].status, orders'[x].status} \cap {"none", "cancelled"} = {}
      PROVE  StockInv'
  <2>1. StockConserved'
    BY <1>2, <1>5, NothingMoves
  <2> QED
    BY <1>5, <2>1 DEF StockInv
<1>6. CASE BuyerNext
  <2>1. ASSUME NEW b \in Buyers, NEW o \in Orders, PayOrder(b, o)
        PROVE  StockInv'
    BY <1>2, <1>5, <2>1 DEF PayOrder, OrderAt, TypeOK
  <2> QED
    BY <1>3, <1>4, <1>6, <2>1 DEF BuyerNext, BuyerCancel
<1>7. CASE AdminNext
  BY <1>2, <1>4, <1>5, <1>7 DEF AdminNext, AdminRefund, RefundDelivered, VerifyDriver
<1>8. CASE DriverNext
  <2>1. ASSUME NEW r \in accepting, AcceptJob(r)
        PROVE  StockInv'
    <3>1. r.order \in Orders /\ orders[r.order].status = "paid"
      BY <2>1 DEF Core, TypeOK, AcceptRequest, AcceptJob, Acceptable, ShipmentMatchesOrder
    <3> QED
      BY <1>2, <1>5, <2>1, <3>1 DEF AcceptJob, OrderAt, TypeOK
  <2>2. ASSUME NEW d \in Drivers, NEW o \in Orders, MarkPickedUp(d, o)
        PROVE  StockInv'
    <3>1. orders[o].status = "pickup_assigned"
      BY <2>2 DEF Core, MarkPickedUp, ShipmentMatchesOrder
    <3> QED
      BY <1>2, <1>5, <2>2, <3>1 DEF MarkPickedUp, OrderAt, TypeOK
  <2>3. ASSUME NEW d \in Drivers, NEW o \in Orders, MarkDelivered(d, o)
        PROVE  StockInv'
    <3>1. orders[o].status = "in_transit"
      BY <2>3 DEF Core, MarkDelivered, ShipmentMatchesOrder
    <3> QED
      BY <1>2, <1>5, <2>3, <3>1 DEF MarkDelivered, OrderAt, TypeOK
  <2> QED
    BY <1>5, <1>8, <2>1, <2>2, <2>3
    DEF DriverNext, UpsertProfile, AcceptCheck, RejectAccept
<1> QED
  BY <1>5, <1>6, <1>7, <1>8 DEF Next, vars

\* No order has taken anything of a listing that is still full.
LEMMA InitStock == Init => StockInv
<1> SUFFICES ASSUME Init PROVE StockInv
  OBVIOUS
<1>1. ASSUME NEW l \in Listings
      PROVE  listings[l].remaining + SumFunctionOnSet(Taken(l), Orders) = Stock[l]
  <2>1. \A o \in Orders : Taken(l)[o] = 0
    BY DEF Init, Taken, EmptyCart
  <2>2. SumFunctionOnSet(Taken(l), Orders) = 0
    BY <2>1, SumZero, OrdersAssumption
  <2> QED
    BY <2>2, GoodsAssumption DEF Init
<1> QED
  BY <1>1 DEF Init, StockInv, StockConserved

\* What is left of a listing and what its orders hold is what the farmer listed,
\* and it is off the market exactly when nothing is left.
THEOREM StockIsConserved == Spec => []StockAddsUp
<1>1. StockInv => StockConserved
  BY DEF StockInv
<1>2. Spec => []StockConserved
  BY <1>1, InitStock, StepStock, CoreInvariant, PTL DEF Spec
<1> QED
  BY <1>2, SoldIsEmpty, PTL DEF StockAddsUp

Reviewed(d) == profiles[d].verify \in {"verified", "rejected"}

\* The drivers whose requests are in flight were reviewed too; without that the
\* invariant is not inductive, for the transaction does not look again.
CarryInv == /\ CarriersWereReviewed
            /\ \A r \in accepting : Reviewed(r.driver)

\* No request lets a driver whose documents nobody looked at hold a job.
LEMMA StepCarry == Core /\ CarryInv /\ [Next]_vars => CarryInv'
<1> SUFFICES ASSUME Core, CarryInv, [Next]_vars PROVE CarryInv'
  OBVIOUS
<1> USE DEF Core, TypeOK, ShipmentRow, ProfileRow, CarryInv, CarriersWereReviewed, Reviewed
<1>1. ASSUME NEW d \in Drivers, NEW kg \in Capacities, UpsertProfile(d, kg)
      PROVE  CarryInv'
  BY <1>1 DEF UpsertProfile, AcceptRequest
<1>2. ASSUME NEW d \in Drivers, NEW approve \in BOOLEAN, VerifyDriver(d, approve)
      PROVE  CarryInv'
  BY <1>2 DEF VerifyDriver, AcceptRequest
<1>3. ASSUME NEW d \in Drivers, NEW o \in Orders, AcceptCheck(d, o)
      PROVE  CarryInv'
  BY <1>3 DEF AcceptCheck
<1>4. ASSUME NEW r \in accepting, AcceptJob(r)
      PROVE  CarryInv'
  BY <1>4 DEF AcceptJob, AcceptRequest
<1>5. ASSUME NEW r \in accepting, RejectAccept(r)
      PROVE  CarryInv'
  BY <1>5 DEF RejectAccept
<1>6. CASE /\ UNCHANGED <<profiles, accepting>>
           /\ \A o \in Orders : \/ shipments'[o].driver = shipments[o].driver
                                \/ shipments'[o].driver = NoUser
  BY <1>6
<1>7. CASE BuyerNext
  BY <1>6, <1>7 DEF BuyerNext, CreateOrder, PayOrder, BuyerCancel, CancelOrderTx, ShipmentAt
<1>8. CASE AdminNext
  <2>1. ASSUME NEW o \in Orders, CancelOrderTx(o)
        PROVE  CarryInv'
    BY <1>6, <2>1 DEF CancelOrderTx, ShipmentAt
  <2>2. ASSUME NEW o \in Orders, RefundDelivered(o)
        PROVE  CarryInv'
    BY <1>6, <2>2 DEF RefundDelivered
  <2> QED
    BY <1>2, <1>8, <2>1, <2>2 DEF AdminNext, AdminRefund
<1>9. CASE DriverNext
  <2>1. CASE \E d \in Drivers, o \in Orders : MarkPickedUp(d, o) \/ MarkDelivered(d, o)
    BY <1>6, <2>1 DEF MarkPickedUp, MarkDelivered, ShipmentAt
  <2> QED
    BY <1>1, <1>3, <1>4, <1>5, <1>9, <2>1 DEF DriverNext
<1>10. CASE UNCHANGED vars
  BY <1>10 DEF vars
<1> QED
  BY <1>7, <1>8, <1>9, <1>10 DEF Next

\* No shipment is with a driver no admin has ever reviewed.
THEOREM CarriersReviewed == Spec => []CarriersWereReviewed
<1>1. Init => CarryInv
  BY DEF Init, CarryInv, CarriersWereReviewed
<1>2. CarryInv => CarriersWereReviewed
  BY DEF CarryInv
<1> QED
  BY <1>1, <1>2, StepCarry, CoreInvariant, PTL DEF Spec

\* Shipment, payment and settlement are always where the order's status says, and
\* who carries it has been reviewed.
THEOREM RowsAlwaysAgree == Spec => []RowsAgree
<1>1. Core /\ LedgerMatchesMoney /\ CarriersWereReviewed => RowsAgree
  BY DEF Core, RowsAgree
<1> QED
  BY <1>1, CoreInvariant, LedgerIsTrue, CarriersReviewed, PTL

-----------------------------------------------------------------------------
(* What people are told about money *)

\* What the notices of an order say of its money stays true with every request.
LEMMA StepMoneyNotices ==
    Core /\ PayoutsFollowDelivery /\ MoneyNoticesAreTrue /\ [Next]_vars => MoneyNoticesAreTrue'
<1> SUFFICES ASSUME Core, PayoutsFollowDelivery, MoneyNoticesAreTrue, [Next]_vars
             PROVE  MoneyNoticesAreTrue'
  OBVIOUS
<1> DEFINE RefundTold(o) == <<orders[o].buyer, "refund_issued">> \in notices[o] <=>
                               payments[o] = "refunded"
           PayoutTold(o) == \A p \in Payees :
                               Rows(o, p) > 0 <=> \/ <<p, "payout_released">> \in notices[o]
                                                  \/ <<p, "driver_earning">> \in notices[o]
<1>0. \A o \in Orders : RefundTold(o) /\ PayoutTold(o)
  BY DEF MoneyNoticesAreTrue
<1> USE DEF Core, TypeOK, OrderAt
<1>1. ASSUME NEW b \in Buyers, NEW x \in Orders, NEW cart \in Carts, CreateOrder(b, x, cart)
      PROVE  \A o \in Orders : (RefundTold(o) /\ PayoutTold(o))'
  <2>1. notices[x] = {} /\ payments[x] = "none"
    BY <1>1 DEF CreateOrder, OrdersFilled, EscrowMatchesOrder
  <2>2. \A o \in Orders : PayoutTold(o)'
    BY <1>0, <1>1 DEF CreateOrder, Rows
  <2>3. \A o \in Orders : RefundTold(o)'
    BY <1>0, <1>1, <2>1 DEF CreateOrder
  <2> QED
    BY <2>2, <2>3
<1>2. ASSUME NEW b \in Buyers, NEW x \in Orders, PayOrder(b, x)
      PROVE  \A o \in Orders : (RefundTold(o) /\ PayoutTold(o))'
  <2>1. PICK first \in SellersIn(orders[x].items) :
          Notify(x, {<<b, "order_paid">>, <<first, "new_pickup">>})
    BY <1>2 DEF PayOrder
  <2>2. \A o \in Orders : PayoutTold(o)'
    BY <1>0, <1>2, <2>1 DEF PayOrder, Notify, Rows
  <2>3. \A o \in Orders : RefundTold(o)'
    BY <1>0, <1>2, <2>1 DEF PayOrder, Notify
  <2> QED
    BY <2>2, <2>3
<1>3. ASSUME NEW x \in Orders, CancelOrderTx(x)
      PROVE  \A o \in Orders : (RefundTold(o) /\ PayoutTold(o))'
  <2>1. payments[x] \in {"none", "held"} /\ \A o \in Orders : orders'[o].buyer = orders[o].buyer
    BY <1>3 DEF CancelOrderTx, Cancellable, EscrowMatchesOrder
  <2>2. \A o \in Orders : PayoutTold(o)'
    BY <1>0, <1>3 DEF CancelOrderTx, Notify, Rows
  <2>3. \A o \in Orders : RefundTold(o)'
    BY <1>0, <1>3, <2>1 DEF CancelOrderTx, Notify
  <2> QED
    BY <2>2, <2>3
<1>4. ASSUME NEW x \in Orders, RefundDelivered(x)
      PROVE  \A o \in Orders : (RefundTold(o) /\ PayoutTold(o))'
  <2>1. \A o \in Orders : PayoutTold(o)'
    BY <1>0, <1>4 DEF RefundDelivered, Notify, Rows
  <2>2. \A o \in Orders : RefundTold(o)'
    BY <1>0, <1>4 DEF RefundDelivered, Notify
  <2> QED
    BY <2>1, <2>2
<1>5. ASSUME NEW r \in accepting, AcceptJob(r)
      PROVE  \A o \in Orders : (RefundTold(o) /\ PayoutTold(o))'
  <2>1. r.order \in Orders /\ \A o \in Orders : orders'[o].buyer = orders[o].buyer
    BY <1>5 DEF AcceptJob, AcceptRequest
  <2>2. \A o \in Orders : PayoutTold(o)'
    BY <1>0, <1>5, <2>1 DEF AcceptJob, Notify, Rows
  <2>3. \A o \in Orders : RefundTold(o)'
    BY <1>0, <1>5, <2>1 DEF AcceptJob, Notify
  <2> QED
    BY <2>2, <2>3
<1>6. ASSUME NEW d \in Drivers, NEW x \in Orders, MarkPickedUp(d, x)
      PROVE  \A o \in Orders : (RefundTold(o) /\ PayoutTold(o))'
  <2>1. \A o \in Orders : orders'[o].buyer = orders[o].buyer
    BY <1>6 DEF MarkPickedUp
  <2>2. \A o \in Orders : PayoutTold(o)'
    BY <1>0, <1>6 DEF MarkPickedUp, Notify, Rows
  <2>3. \A o \in Orders : RefundTold(o)'
    BY <1>0, <1>6, <2>1 DEF MarkPickedUp, Notify
  <2> QED
    BY <2>2, <2>3
<1>7. ASSUME NEW d \in Drivers, NEW x \in Orders, MarkDelivered(d, x)
      PROVE  \A o \in Orders : (RefundTold(o) /\ PayoutTold(o))'
  <2> DEFINE Owed == SellersIn(orders[x].items) \cup {d}
  <2>1. /\ \A o \in Orders : orders'[o].buyer = orders[o].buyer
        /\ payments[x] = "held" /\ orders[x].status # "delivered"
        /\ orders[x].items \in [Listings -> Nat]
    BY <1>7 DEF MarkDelivered, EscrowMatchesOrder, ShipmentMatchesOrder, OrderRow
  <2>2. \A o \in Orders : RefundTold(o)'
    BY <1>0, <1>7, <2>1 DEF MarkDelivered, Notify
  <2>3. \A p \in Payees : Rows(x, p)' = IF p \in Owed THEN 1 ELSE 0
    <3>1. PayoutsFollowDelivery'
      BY <1>7, DeliveryPaysOnce
    <3>2. /\ orders'[x].status = "delivered" /\ orders'[x].items = orders[x].items
          /\ shipments'[x].driver = d
      BY <1>7 DEF MarkDelivered, ShipmentAt, ShipmentRow
    <3> QED
      BY <3>1, <3>2 DEF PayoutsFollowDelivery
  <2>4. \A p \in Payees : <<p, "payout_released">> \notin notices[x]
                          /\ <<p, "driver_earning">> \notin notices[x]
    <3>1. \A p \in Payees : ~(Rows(x, p) > 0)
      BY <2>1 DEF PayoutsFollowDelivery
    <3>2. PayoutTold(x)
      BY <1>0
    <3> QED
      BY <3>1, <3>2, Zenon
  <2>5. Owed \subseteq Payees /\ d \notin SellersIn(orders[x].items)
    BY <2>1, SellersInAreSellers, PartiesAssumption DEF Payees
  <2>6. PayoutTold(x)'
    <3>1. notices'[x] = notices[x]
             \cup ({<<orders[x].buyer, "delivered">>, <<d, "driver_earning">>}
                   \cup {<<s, "payout_released">> : s \in SellersIn(orders[x].items)})
      BY <1>7 DEF MarkDelivered, Notify
    <3>2. ASSUME NEW p \in Payees
          PROVE  (\/ <<p, "payout_released">> \in notices'[x]
                  \/ <<p, "driver_earning">> \in notices'[x]) <=> p \in Owed
      BY <2>4, <3>1
    <3>3. ASSUME NEW p \in Payees
          PROVE  Rows(x, p)' > 0 <=> p \in Owed
      BY <2>3
    <3> QED
      BY <3>2, <3>3
  <2>7. ASSUME NEW o \in Orders \ {x}
        PROVE  PayoutTold(o)'
    BY <1>0, <1>7 DEF MarkDelivered, Notify, Rows
  <2> QED
    BY <2>2, <2>6, <2>7
<1>8. ASSUME UNCHANGED <<orders, payments, payouts, notices>>
      PROVE  \A o \in Orders : (RefundTold(o) /\ PayoutTold(o))'
  BY <1>0, <1>8 DEF Rows
<1> HIDE DEF RefundTold, PayoutTold, Core, TypeOK, OrderAt
<1>9. ASSUME BuyerNext
      PROVE  \A o \in Orders : (RefundTold(o) /\ PayoutTold(o))'
  BY <1>1, <1>2, <1>3, <1>9 DEF BuyerNext, BuyerCancel
<1>10. ASSUME AdminNext
       PROVE  \A o \in Orders : (RefundTold(o) /\ PayoutTold(o))'
  BY <1>3, <1>4, <1>8, <1>10 DEF AdminNext, AdminRefund, VerifyDriver
<1>11. ASSUME DriverNext
       PROVE  \A o \in Orders : (RefundTold(o) /\ PayoutTold(o))'
  BY <1>5, <1>6, <1>7, <1>8, <1>11 DEF DriverNext, UpsertProfile, AcceptCheck, RejectAccept
<1>12. \A o \in Orders : (RefundTold(o) /\ PayoutTold(o))'
  BY <1>8, <1>9, <1>10, <1>11 DEF Next, vars
<1> QED
  BY <1>12 DEF MoneyNoticesAreTrue, RefundTold, PayoutTold

\* Buyers hear of refunds, and payees of payouts, exactly when they exist.
THEOREM MoneyNoticesTrue == Spec => []MoneyNoticesAreTrue
<1>1. Init => MoneyNoticesAreTrue
  BY PartiesAssumption DEF Init, MoneyNoticesAreTrue, Rows, RowCount, NoRows, PayoutStatus
<1> QED
  BY <1>1, StepMoneyNotices, CoreInvariant, PayoutsOnce, PTL DEF Spec

\* Payouts and what people are told about money follow the deliveries.
THEOREM MoneyAccounted == Spec => []MoneyIsAccounted
<1>1. PayoutsFollowDelivery /\ MoneyNoticesAreTrue => MoneyIsAccounted
  BY DEF MoneyIsAccounted
<1> QED
  BY <1>1, PayoutsOnce, MoneyNoticesTrue, PTL

-----------------------------------------------------------------------------
(* Part 2. Batch runs: types, and which rows exist *)

\* An order that exists has a buyer and a cart; one with a shipment was paid
\* for; one in a batch has a shipment; a delivery is of a shipment in its batch.
\* Only rows that nothing deletes count here, because the stages of order and
\* shipment part under interference.
OrdersExist ==
    /\ \A o \in Orders :
          /\ orders[o].status # "none" =>
                orders[o].buyer \in Buyers /\ orders[o].items \in Carts
          /\ shipments[o].status # "none" =>
                orders[o].status \notin {"none", "created"} /\ payments[o] # "none"
          /\ batchOf[o] # NoBatch => shipments[o].status # "none"
    /\ \A t \in delivering : batchOf[t.order] = t.batch

Base == BatchTypeOK /\ OrdersExist

\* An empty shop without batches satisfies it.
LEMMA InitBase == BatchInit => Base
<1> SUFFICES ASSUME BatchInit PROVE Base
  OBVIOUS
<1>1. TypeOK
  BY InitCore DEF BatchInit, Core
<1>2. BatchTypeOK
  BY <1>1 DEF BatchInit, BatchTypeOK, BatchRow, PlanRequest, Delivery
<1>3. OrdersExist
  BY DEF BatchInit, Init, OrdersExist
<1> QED
  BY <1>2, <1>3 DEF Base

\* An order with a shipment has a buyer and sellers, who can be told of it.
LEMMA ShippedOrdersFilled ==
    ASSUME Base, NEW o \in Orders, orders[o].status # "none"
    PROVE  /\ orders[o].buyer \in Buyers /\ orders[o].items \in [Listings -> Nat]
           /\ SellersIn(orders[o].items) \in SUBSET Sellers
<1>1. orders[o].buyer \in Buyers /\ orders[o].items \in [Listings -> Nat]
  BY GoodsAssumption DEF Base, OrdersExist
<1> QED
  BY <1>1, SellersInAreSellers

\* The handlers of the direct life of an order keep every row's type, and rows
\* exist in the order in which they are made.
LEMMA CreateOrderBase ==
    ASSUME Base, NEW b \in Buyers, NEW o \in Orders, NEW cart \in Carts,
           CreateOrder(b, o, cart), UNCHANGED batchVars
    PROVE  Base'
<1> USE DEF Base, BatchTypeOK, TypeOK, OrderRow, ListingRow, batchVars
<1>1. cart \in [Listings -> Nat]
  BY GoodsAssumption
<1>2. listings' \in [Listings -> ListingRow] /\ orders' \in [Orders -> OrderRow]
  BY <1>1 DEF CreateOrder, Orderable, Sell
<1>3. BatchTypeOK'
  BY <1>2 DEF CreateOrder
<1>4. OrdersExist'
  BY DEF CreateOrder, OrdersExist
<1> QED
  BY <1>3, <1>4

\* payOrder makes the payment and the shipment of an order that exists.
LEMMA PayOrderBase ==
    ASSUME Base, NEW b \in Buyers, NEW o \in Orders, PayOrder(b, o), UNCHANGED batchVars
    PROVE  Base'
<1> USE DEF Base, BatchTypeOK, TypeOK, OrderRow, ShipmentRow, OrderAt, batchVars
<1>1. PICK first \in SellersIn(orders[o].items) :
          Notify(o, {<<b, "order_paid">>, <<first, "new_pickup">>})
  BY DEF PayOrder
<1>2. first \in Sellers
  BY ShippedOrdersFilled DEF PayOrder
<1>3. notices' \in [Orders -> SUBSET (Users \X NoticeType)]
  BY <1>1, <1>2 DEF Notify, Users, Payees, NoticeType
<1>4. orders' \in [Orders -> OrderRow] /\ shipments' \in [Orders -> ShipmentRow]
  BY DEF PayOrder
<1>5. BatchTypeOK'
  BY <1>3, <1>4 DEF PayOrder
<1>6. OrdersExist'
  BY DEF PayOrder, OrdersExist
<1> QED
  BY <1>5, <1>6

\* cancelOrderTx makes and deletes no row.
LEMMA CancelOrderBase ==
    ASSUME Base, NEW o \in Orders, CancelOrderTx(o), UNCHANGED batchVars
    PROVE  Base'
<1> USE DEF Base, BatchTypeOK, TypeOK, ListingRow, OrderRow, ShipmentRow, OrderAt,
            ShipmentAt, batchVars
<1>1. /\ orders[o].buyer \in Buyers /\ orders[o].items \in [Listings -> Nat]
      /\ SellersIn(orders[o].items) \in SUBSET Sellers
  BY ShippedOrdersFilled DEF CancelOrderTx, Cancellable
<1>2. notices' \in [Orders -> SUBSET (Users \X NoticeType)]
  BY <1>1 DEF CancelOrderTx, Notify, Users, Payees, NoticeType
<1>3. listings' \in [Listings -> ListingRow]
  BY <1>1 DEF CancelOrderTx, Restock
<1>4. orders' \in [Orders -> OrderRow] /\ shipments' \in [Orders -> ShipmentRow]
  BY DEF CancelOrderTx
<1>5. BatchTypeOK'
  BY <1>2, <1>3, <1>4 DEF CancelOrderTx
<1>6. OrdersExist'
  BY DEF CancelOrderTx, Cancellable, OrdersExist
<1> QED
  BY <1>5, <1>6

\* Nor do the handlers that move an order with its shipment, or refund it.
LEMMA MoveOrderBase ==
    ASSUME Base, UNCHANGED batchVars,
           \/ \E o \in Orders : RefundDelivered(o)
           \/ \E r \in accepting : AcceptJob(r)
           \/ \E d \in Drivers, o \in Orders : MarkPickedUp(d, o)
    PROVE  Base'
<1> USE DEF Base, BatchTypeOK, TypeOK, OrderRow, ShipmentRow, OrderAt, ShipmentAt, batchVars
<1>1. ASSUME NEW o \in Orders, RefundDelivered(o)
      PROVE  Base'
  <2>1. orders[o].buyer \in Buyers
    BY <1>1, ShippedOrdersFilled DEF RefundDelivered
  <2>2. notices' \in [Orders -> SUBSET (Users \X NoticeType)]
    BY <1>1, <2>1 DEF RefundDelivered, Notify, Users, NoticeType
  <2>3. BatchTypeOK'
    BY <1>1, <2>2 DEF RefundDelivered
  <2>4. OrdersExist'
    BY <1>1 DEF RefundDelivered, OrdersExist
  <2> QED
    BY <2>3, <2>4
<1>2. ASSUME NEW r \in accepting, AcceptJob(r)
      PROVE  Base'
  <2>1. r.driver \in Drivers /\ r.order \in Orders
    BY DEF AcceptRequest
  <2>2. orders[r.order].status \notin {"none", "created"} /\ orders[r.order].buyer \in Buyers
    BY <1>2, <2>1 DEF AcceptJob, Acceptable, OrdersExist
  <2>3. notices' \in [Orders -> SUBSET (Users \X NoticeType)]
    BY <1>2, <2>1, <2>2 DEF AcceptJob, Notify, Users, NoticeType
  <2>4. orders' \in [Orders -> OrderRow] /\ shipments' \in [Orders -> ShipmentRow]
    BY <1>2, <2>1 DEF AcceptJob
  <2>5. BatchTypeOK'
    BY <1>2, <2>3, <2>4 DEF AcceptJob
  <2>6. OrdersExist'
    BY <1>2, <2>1, <2>2 DEF AcceptJob, Acceptable, OrdersExist
  <2> QED
    BY <2>5, <2>6
<1>3. ASSUME NEW d \in Drivers, NEW o \in Orders, MarkPickedUp(d, o)
      PROVE  Base'
  <2>1. orders[o].status \notin {"none", "created"} /\ orders[o].buyer \in Buyers
    BY <1>3 DEF MarkPickedUp, OrdersExist
  <2>2. notices' \in [Orders -> SUBSET (Users \X NoticeType)]
    BY <1>3, <2>1 DEF MarkPickedUp, Notify, Users, NoticeType
  <2>3. orders' \in [Orders -> OrderRow] /\ shipments' \in [Orders -> ShipmentRow]
    BY <1>3 DEF MarkPickedUp
  <2>4. BatchTypeOK'
    BY <1>3, <2>2, <2>3 DEF MarkPickedUp
  <2>5. OrdersExist'
    BY <1>3, <2>1 DEF MarkPickedUp, OrdersExist
  <2> QED
    BY <2>4, <2>5
<1> QED
  BY <1>1, <1>2, <1>3

\* markDelivered pays the sellers of an order that exists, and its driver.
LEMMA MarkDeliveredBase ==
    ASSUME Base, NEW d \in Drivers, NEW o \in Orders, MarkDelivered(d, o), UNCHANGED batchVars
    PROVE  Base'
<1> USE DEF Base, BatchTypeOK, TypeOK, OrderRow, ShipmentRow, OrderAt, ShipmentAt, batchVars
<1>1. orders[o].status \notin {"none", "created"}
  BY DEF MarkDelivered, OrdersExist
<1>2. orders[o].buyer \in Buyers /\ SellersIn(orders[o].items) \in SUBSET Sellers
  BY <1>1, ShippedOrdersFilled
<1>3. payouts' \in [Orders -> [Payees -> [PayoutStatus -> Nat]]]
  <2>1. PICK outcome \in [SellersIn(orders[o].items) \cup {d} -> GatewayOutcomes] :
          payouts' = [payouts EXCEPT ![o] = RunPayouts(@, outcome)]
    BY DEF MarkDelivered
  <2>2. RunPayouts(payouts[o], outcome) \in [Payees -> [PayoutStatus -> Nat]]
    <3>1. payouts[o] \in [Payees -> [PayoutStatus -> Nat]]
      OBVIOUS
    <3>2. SellersIn(orders[o].items) \cup {d} \in SUBSET Payees
      BY <1>2 DEF Payees
    <3> QED
      BY <3>1, <3>2, RunPayoutsCounts
  <2> QED
    BY <2>1, <2>2
<1>4. notices' \in [Orders -> SUBSET (Users \X NoticeType)]
  BY <1>2 DEF MarkDelivered, Notify, Users, Payees, NoticeType
<1>5. orders' \in [Orders -> OrderRow] /\ shipments' \in [Orders -> ShipmentRow]
  BY DEF MarkDelivered
<1>6. BatchTypeOK'
  BY <1>3, <1>4, <1>5 DEF MarkDelivered, RecordSettlement
<1>7. OrdersExist'
  BY <1>1 DEF MarkDelivered, OrdersExist
<1> QED
  BY <1>6, <1>7

\* Drivers' profiles and requests touch no order.
LEMMA DriverAccountBase ==
    ASSUME Base, UNCHANGED batchVars,
           \/ \E d \in Drivers, kg \in Capacities : UpsertProfile(d, kg)
           \/ \E d \in Drivers, approve \in BOOLEAN : VerifyDriver(d, approve)
           \/ \E d \in Drivers, o \in Orders : AcceptCheck(d, o)
           \/ \E r \in accepting : RejectAccept(r)
    PROVE  Base'
<1> USE DEF Base, BatchTypeOK, TypeOK, ProfileRow, batchVars
<1>1. UNCHANGED <<listings, orders, payments, shipments, payouts, settlements, notices>>
  BY DEF UpsertProfile, VerifyDriver, AcceptCheck, RejectAccept
<1>2. profiles' \in [Drivers -> ProfileRow]
  BY GoodsAssumption DEF UpsertProfile, VerifyDriver, AcceptCheck, RejectAccept
<1>3. accepting' \subseteq AcceptRequest
  BY DEF UpsertProfile, VerifyDriver, AcceptCheck, RejectAccept, AcceptRequest
<1>4. BatchTypeOK'
  BY <1>1, <1>2, <1>3
<1> QED
  BY <1>1, <1>4 DEF OrdersExist

\* All of them together.
LEMMA DirectBase == Base /\ DirectNext => Base'
BY CreateOrderBase, PayOrderBase, CancelOrderBase, MoveOrderBase, MarkDeliveredBase,
   DriverAccountBase DEF DirectNext, BuyerCancel

\* A plan and its rejection, and a count, write no order.  A batch is of
\* shipments that wait for a driver.
LEMMA PlanningBase ==
    ASSUME Base, UNCHANGED interference,
           \/ \E d \in Drivers, members \in SUBSET Orders : PlanBatch(d, members)
           \/ \E r \in planning : CreateBatch(r) \/ RejectPlan(r)
           \/ \E d \in Drivers, k \in Batches, o \in Orders : BatchDeliverCount(d, k, o)
    PROVE  Base'
<1> USE DEF Base, BatchTypeOK, PlanRequest
<1>1. UNCHANGED vars
  BY DEF PlanBatch, CreateBatch, RejectPlan, BatchDeliverCount
<1>2. TypeOK'
  BY <1>1 DEF vars, TypeOK
<1>3. ASSUME NEW d \in Drivers, NEW members \in SUBSET Orders, PlanBatch(d, members)
      PROVE  Base'
  BY <1>1, <1>2, <1>3 DEF PlanBatch, OrdersExist, vars
<1>4. ASSUME NEW r \in planning, CreateBatch(r)
      PROVE  Base'
  <2>1. r.driver \in Drivers /\ r.members \in SUBSET Orders
    OBVIOUS
  <2>2. batches' \in [Batches -> BatchRow] /\ batchOf' \in [Orders -> Batches \cup {NoBatch}]
    BY <1>4, <2>1 DEF CreateBatch, BatchRow
  <2>3. OrdersExist'
    BY <1>1, <1>4, <2>1, BatchAssumption DEF CreateBatch, Batchable, OrdersExist, Delivery, vars
  <2> QED
    BY <1>2, <1>4, <2>2, <2>3 DEF CreateBatch
<1>5. ASSUME NEW r \in planning, RejectPlan(r)
      PROVE  Base'
  BY <1>1, <1>2, <1>5 DEF RejectPlan, OrdersExist, vars
<1>6. ASSUME NEW d \in Drivers, NEW k \in Batches, NEW o \in Orders,
             BatchDeliverCount(d, k, o)
      PROVE  Base'
  <2>1. AllServed(k, o) \in BOOLEAN
    BY DEF AllServed
  <2>2. delivering' \subseteq Delivery
    BY <1>6, <2>1 DEF BatchDeliverCount, Delivery
  <2> QED
    BY <1>1, <1>2, <1>6, <2>2 DEF BatchDeliverCount, OrdersExist, vars
<1> QED
  BY <1>3, <1>4, <1>5, <1>6

\* A run writes rows that exist; startBatch finds a payment for each order.
LEMMA RunBase ==
    ASSUME Base, UNCHANGED interference,
           \/ \E d \in Drivers, k \in Batches : StartBatch(d, k)
           \/ \E d \in Drivers, k \in Batches, o \in Orders : BatchPickup(d, k, o)
           \/ \E t \in delivering : BatchDeliverStop(t)
    PROVE  Base'
<1> USE DEF Base, BatchTypeOK, TypeOK, OrderRow, ShipmentRow, BatchRow, Delivery, OrderAt,
            ShipmentAt
<1>1. ASSUME NEW d \in Drivers, NEW k \in Batches, StartBatch(d, k)
      PROVE  Base'
  <2>1. /\ batches' \in [Batches -> BatchRow] /\ shipments' \in [Orders -> ShipmentRow]
        /\ orders' \in [Orders -> OrderRow]
    BY <1>1 DEF StartBatch
  <2>2. BatchTypeOK'
    BY <1>1, <2>1 DEF StartBatch
  <2>3. ASSUME NEW o \in Members(k)
        PROVE  o \in Orders /\ shipments[o].status # "none"
    BY <1>1, BatchAssumption DEF Members, OrdersExist
  <2>4. OrdersExist'
    BY <1>1, <2>3 DEF StartBatch, OrdersExist
  <2> QED
    BY <2>2, <2>4
<1>2. ASSUME NEW d \in Drivers, NEW k \in Batches, NEW o \in Orders, BatchPickup(d, k, o)
      PROVE  Base'
  BY <1>2 DEF BatchPickup, OrdersExist
<1>3. ASSUME NEW t \in delivering, BatchDeliverStop(t)
      PROVE  Base'
  <2>1. t.order \in Orders /\ shipments[t.order].status # "none"
    BY BatchAssumption DEF OrdersExist
  <2>2. BatchTypeOK'
    BY <1>3 DEF BatchDeliverStop
  <2>3. OrdersExist'
    BY <1>3, <2>1 DEF BatchDeliverStop, OrdersExist
  <2> QED
    BY <2>2, <2>3
<1> QED
  BY <1>1, <1>2, <1>3

\* The delivery that completes a batch pays the sellers of each of its orders,
\* and the driver.
LEMMA BatchDeliverLastBase ==
    ASSUME Base, UNCHANGED interference, NEW t \in delivering, BatchDeliverLast(t)
    PROVE  Base'
<1> USE DEF Base, BatchTypeOK, TypeOK, OrderRow, ShipmentRow, OrderAt, ShipmentAt
<1> DEFINE members == Members(t.batch)
           sellers(o) == SellersIn(orders[o].items)
           owed(first, o) == sellers(o) \cup (IF o = first THEN {t.driver} ELSE {})
<1>1. /\ t.order \in Orders /\ t.driver \in Drivers /\ t.batch \in Batches
      /\ t.batch # NoBatch /\ batchOf[t.order] = t.batch
  BY BatchAssumption DEF Delivery, OrdersExist
<1>2. ASSUME NEW o \in members
      PROVE  /\ o \in Orders /\ shipments[o].status # "none"
             /\ orders[o].status \notin {"none", "created"} /\ payments[o] # "none"
             /\ orders[o].buyer \in Buyers /\ sellers(o) \in SUBSET Sellers
  <2>1. o \in Orders /\ batchOf[o] # NoBatch
    BY <1>1 DEF Members
  <2>2. shipments[o].status # "none" /\ orders[o].status \notin {"none", "created"}
        /\ payments[o] # "none"
    BY <2>1 DEF OrdersExist
  <2> QED
    BY <2>1, <2>2, ShippedOrdersFilled
<1>3. PICK first \in members, status \in [members \X Payees -> GatewayOutcomes] :
        /\ payouts' = [o \in Orders |->
              IF o \in members
              THEN RunPayouts(payouts[o], [p \in owed(first, o) |-> status[<<o, p>>]])
              ELSE payouts[o]]
        /\ notices' = [o \in Orders |->
              IF o \in members
              THEN notices[o]
                     \cup {<<orders[o].buyer, "delivered">>}
                     \cup {<<s, "payout_released">> : s \in sellers(o)}
                     \cup (IF o = first THEN {<<t.driver, "driver_earning">>} ELSE {})
              ELSE notices[o]]
  BY DEF BatchDeliverLast
<1>4. payouts' \in [Orders -> [Payees -> [PayoutStatus -> Nat]]]
  <2>1. ASSUME NEW o \in members
        PROVE  RunPayouts(payouts[o], [p \in owed(first, o) |-> status[<<o, p>>]])
                 \in [Payees -> [PayoutStatus -> Nat]]
    <3>1. owed(first, o) \in SUBSET Payees
      BY <1>1, <1>2 DEF Payees
    <3>2. [p \in owed(first, o) |-> status[<<o, p>>]] \in [owed(first, o) -> GatewayOutcomes]
      BY <3>1
    <3>3. payouts[o] \in [Payees -> [PayoutStatus -> Nat]]
      BY <1>2
    <3> HIDE DEF owed
    <3> QED
      BY <3>1, <3>2, <3>3, RunPayoutsCounts
  <2> QED
    BY <1>3, <2>1
<1>5. notices' \in [Orders -> SUBSET (Users \X NoticeType)]
  <2>1. ASSUME NEW o \in members
        PROVE  notices'[o] \in SUBSET (Users \X NoticeType)
    <3>1. /\ <<orders[o].buyer, "delivered">> \in Users \X NoticeType
          /\ <<t.driver, "driver_earning">> \in Users \X NoticeType
          /\ \A s \in sellers(o) : <<s, "payout_released">> \in Users \X NoticeType
      BY <1>1, <1>2 DEF Users, Payees, NoticeType
    <3>2. notices'[o] = notices[o]
                     \cup {<<orders[o].buyer, "delivered">>}
                     \cup {<<s, "payout_released">> : s \in sellers(o)}
                     \cup (IF o = first THEN {<<t.driver, "driver_earning">>} ELSE {})
      BY <1>2, <1>3
    <3>3. notices[o] \in SUBSET (Users \X NoticeType)
      BY <1>2
    <3> HIDE DEF sellers
    <3> QED
      BY <3>1, <3>2, <3>3
  <2> QED
    BY <1>3, <2>1
<1>6. BatchTypeOK'
  <2>1. /\ orders' \in [Orders -> OrderRow] /\ shipments' \in [Orders -> ShipmentRow]
        /\ payments' \in [Orders -> {"none", "held", "captured", "refunded"}]
    BY DEF BatchDeliverLast
  <2>2. /\ settlements' \in [Orders -> {"none", "settled", "refunded"}]
        /\ batches' \in [Batches -> BatchRow]
    BY DEF BatchDeliverLast, RecordSettlement, BatchRow
  <2> QED
    BY <1>4, <1>5, <2>1, <2>2 DEF BatchDeliverLast
<1>7. OrdersExist'
  BY <1>1, <1>2 DEF BatchDeliverLast, OrdersExist
<1> QED
  BY <1>6, <1>7

\* Every request, of batches or not, preserves types and existence.
LEMMA StepBase == Base /\ [FulfilmentNext]_allVars => Base'
<1> SUFFICES ASSUME Base, [FulfilmentNext]_allVars PROVE Base'
  OBVIOUS
<1>1. CASE DirectNext
  BY <1>1, DirectBase
<1>2. CASE BatchNext /\ UNCHANGED interference
  BY <1>2, PlanningBase, RunBase, BatchDeliverLastBase DEF BatchNext
<1>3. CASE UNCHANGED allVars
  BY <1>3 DEF allVars, vars, batchVars, Base, BatchTypeOK, TypeOK, OrdersExist
<1> QED
  BY <1>1, <1>2, <1>3 DEF FulfilmentNext

\* Types, and the order in which rows are made, hold in every reachable state.
THEOREM BaseInvariant == FulfilmentSpec => []Base
<1> QED
  BY InitBase, StepBase, PTL DEF FulfilmentSpec

\* Every row of every table keeps its type, in batches too; stock never goes
\* below zero, whatever revives a cancelled order.
THEOREM BatchTypeCorrect == FulfilmentSpec => []BatchTypeOK
BY BaseInvariant, PTL DEF Base

-----------------------------------------------------------------------------
(* Membership *)

\* Two shipments at least are planned together, and a batch that exists has them.
BatchesFormed ==
    /\ \A r \in planning : Cardinality(r.members) >= 2
    /\ \A k \in Batches : IF batches[k].status = "none" THEN Members(k) = {}
                          ELSE Cardinality(Members(k)) >= 2

\* Only createBatch puts shipments in a batch: in a new one, and those of its plan,
\* none of which was in another.
LEMMA BatchOfSteps ==
    ASSUME Base, BatchesFormed, [FulfilmentNext]_allVars, NEW k \in Batches
    PROVE  /\ \A o \in Orders : batchOf[o] # NoBatch => batchOf'[o] = batchOf[o]
           /\ IF batches[k].status = "none" /\ batches'[k].status # "none"
              THEN \E r \in planning : Members(k)' = r.members
              ELSE Members(k)' = Members(k)
           /\ batches[k].status # "none" => batches'[k].status # "none"
<1> DEFINE Same == UNCHANGED <<batches, batchOf>>
           Goal == /\ \A o \in Orders : batchOf[o] # NoBatch => batchOf'[o] = batchOf[o]
                   /\ IF batches[k].status = "none" /\ batches'[k].status # "none"
                      THEN \E r \in planning : Members(k)' = r.members
                      ELSE Members(k)' = Members(k)
                   /\ batches[k].status # "none" => batches'[k].status # "none"
<1> USE DEF Base, BatchTypeOK, BatchRow
<1>1. ASSUME NEW r \in planning, CreateBatch(r)
      PROVE  Goal
  <2>1. PICK j \in Batches :
          /\ batches[j].status = "none"
          /\ batches' = [batches EXCEPT ![j] = [status |-> "planning", driver |-> r.driver]]
          /\ batchOf' = [o \in Orders |-> IF o \in r.members THEN j ELSE batchOf[o]]
    BY <1>1 DEF CreateBatch
  <2>2. r.members \in SUBSET Orders /\ \A o \in r.members : batchOf[o] = NoBatch
    BY <1>1 DEF CreateBatch, Batchable, PlanRequest
  <2>3. CASE k = j
    <3>1. Members(k) = {}
      BY <2>1, <2>3 DEF BatchesFormed
    <3>2. Members(k)' = r.members
      BY <2>1, <2>2, <2>3, <3>1 DEF Members
    <3> QED
      BY <2>1, <2>2, <2>3, <3>2
  <2>4. CASE k # j
    <3>1. Members(k)' = Members(k)
      BY <2>1, <2>2, <2>4, BatchAssumption DEF Members
    <3> QED
      BY <2>1, <2>2, <2>4, <3>1
  <2> QED
    BY <2>3, <2>4
<1>2. ASSUME UNCHANGED batchOf, batches[k].status = "none" <=> batches'[k].status = "none"
      PROVE  Goal
  BY <1>2 DEF Members
<1>3. ASSUME NEW d \in Drivers, NEW j \in Batches, StartBatch(d, j)
      PROVE  Goal
  BY <1>2, <1>3 DEF StartBatch
<1>4. ASSUME NEW t \in delivering, BatchDeliverLast(t)
      PROVE  Goal
  <2>1. t.batch \in Batches /\ batches[t.batch].status # "none"
    <3>1. t.batch \in Batches /\ t.order \in Members(t.batch)
      BY DEF Delivery, OrdersExist, Members
    <3> QED
      BY <3>1 DEF BatchesFormed
  <2> QED
    BY <1>2, <1>4, <2>1 DEF BatchDeliverLast
<1>5. CASE Same
  BY <1>2, <1>5
<1>6. CASE DirectNext
  BY <1>5, <1>6 DEF DirectNext, batchVars
<1>7. CASE BatchNext
  BY <1>1, <1>3, <1>4, <1>5, <1>7
  DEF BatchNext, PlanBatch, RejectPlan, BatchPickup, BatchDeliverCount, BatchDeliverStop
<1>8. CASE UNCHANGED allVars
  BY <1>5, <1>8 DEF allVars, batchVars
<1> QED
  BY <1>6, <1>7, <1>8 DEF FulfilmentNext

\* Plans keep their members until they become a batch.
LEMMA StepFormed ==
    Base /\ BatchesFormed /\ [FulfilmentNext]_allVars => BatchesFormed'
<1> SUFFICES ASSUME Base, BatchesFormed, [FulfilmentNext]_allVars PROVE BatchesFormed'
  OBVIOUS
<1>1. \A r \in planning' : Cardinality(r.members) >= 2
  <2>1. CASE planning' \subseteq planning
    BY <2>1 DEF BatchesFormed
  <2>2. CASE \E d \in Drivers, members \in SUBSET Orders : PlanBatch(d, members)
    BY <2>2 DEF PlanBatch, BatchesFormed
  <2>3. CASE DirectNext
    BY <2>1, <2>3 DEF DirectNext, batchVars
  <2>4. CASE BatchNext
    BY <2>1, <2>2, <2>4
    DEF BatchNext, CreateBatch, RejectPlan, StartBatch, BatchPickup, BatchDeliverCount,
        BatchDeliverStop, BatchDeliverLast
  <2>5. CASE UNCHANGED allVars
    BY <2>1, <2>5 DEF allVars, batchVars
  <2> QED
    BY <2>3, <2>4, <2>5 DEF FulfilmentNext
<1>2. ASSUME NEW k \in Batches
      PROVE  IF batches'[k].status = "none" THEN Members(k)' = {}
             ELSE Cardinality(Members(k)') >= 2
  BY BatchOfSteps DEF BatchesFormed
<1> QED
  BY <1>1, <1>2 DEF BatchesFormed

\* No batch exists at first.
LEMMA InitFormed == BatchInit => BatchesFormed
BY BatchAssumption DEF BatchInit, BatchesFormed, Members

\* A batch that exists has two shipments at least.
THEOREM FormedInvariant == FulfilmentSpec => []BatchesFormed
<1> QED
  BY InitFormed, StepFormed, BaseInvariant, PTL DEF FulfilmentSpec

\* Of two plans that share a shipment one becomes a batch, and a batch keeps its
\* shipments for good, at least two of them.
THEOREM BatchesKeepMembers == FulfilmentSpec => MembershipIsFinal
<1>1. Base /\ BatchesFormed /\ [FulfilmentNext]_allVars =>
        [/\ \A o \in Orders : batchOf[o] # NoBatch => batchOf'[o] = batchOf[o]
         /\ \A k \in Batches : batches[k].status # "none" =>
               /\ Cardinality(Members(k)) >= 2
               /\ Members(k)' = Members(k)]_allVars
  <2> SUFFICES ASSUME Base, BatchesFormed, [FulfilmentNext]_allVars
               PROVE  /\ \A o \in Orders : batchOf[o] # NoBatch => batchOf'[o] = batchOf[o]
                      /\ \A k \in Batches : batches[k].status # "none" =>
                            /\ Cardinality(Members(k)) >= 2
                            /\ Members(k)' = Members(k)
    OBVIOUS
  <2>1. ASSUME NEW k \in Batches, batches[k].status # "none"
        PROVE  Cardinality(Members(k)) >= 2 /\ Members(k)' = Members(k)
    BY <2>1, BatchOfSteps DEF BatchesFormed
  <2>2. ASSUME NEW o \in Orders, batchOf[o] # NoBatch
        PROVE  batchOf'[o] = batchOf[o]
    <3>1. batchOf[o] \in Batches
      BY <2>2 DEF Base, BatchTypeOK
    <3> QED
      BY <2>2, <3>1, BatchOfSteps
  <2> QED
    BY <2>1, <2>2
<1> QED
  BY <1>1, BaseInvariant, FormedInvariant, PTL DEF FulfilmentSpec, MembershipIsFinal

-----------------------------------------------------------------------------
(* What any step may do to a shipment, its order and its money *)

\* The steps of the direct handlers, told apart by what they do to orders.
LEMMA DirectSteps ==
    ASSUME DirectNext
    PROVE  \/ \E b \in Buyers, o \in Orders, cart \in Carts : CreateOrder(b, o, cart)
           \/ \E b \in Buyers, o \in Orders : PayOrder(b, o)
           \/ \E o \in Orders : MayCancel(o) /\ CancelOrderTx(o)
           \/ \E o \in Orders : RefundDelivered(o)
           \/ \E r \in accepting : AcceptJob(r)
           \/ \E d \in Drivers, o \in Orders : MayCarryDirectly(o) /\ MarkPickedUp(d, o)
           \/ \E d \in Drivers, o \in Orders : MayCarryDirectly(o) /\ MarkDelivered(d, o)
           \/ UNCHANGED <<orders, payments, shipments, settlements>>
BY DEF DirectNext, BuyerCancel, VerifyDriver, UpsertProfile, AcceptCheck, RejectAccept

\* The direct handlers and cancellation: a driver once assigned stays, what is
\* delivered stays delivered, and what a delivery in flight has locked stays as it is.
LEMMA DirectKeeps ==
    ASSUME Base, DirectNext, NEW o \in Orders, shipments[o].status # "none"
    PROVE  /\ shipments[o].status # "unassigned" =>
                 /\ shipments'[o].status \notin {"none", "unassigned"}
                 /\ shipments'[o].driver = shipments[o].driver
           /\ shipments[o].status = "delivered" => shipments'[o] = shipments[o]
           /\ shipments[o].status = "picked_up" /\ Locked(o) => shipments'[o] = shipments[o]
           /\ shipments[o].status = "delivered" /\ orders[o].status = "delivered" =>
                 /\ orders'[o] = orders[o]
                 /\ payments[o] \in {"captured", "refunded"} =>
                       payments'[o] \in {"captured", "refunded"}
           /\ settlements[o] # "none" => settlements'[o] # "none"
<1> DEFINE Kept ==
      /\ shipments[o].status # "unassigned" =>
            /\ shipments'[o].status \notin {"none", "unassigned"}
            /\ shipments'[o].driver = shipments[o].driver
      /\ shipments[o].status = "delivered" => shipments'[o] = shipments[o]
      /\ shipments[o].status = "picked_up" /\ Locked(o) => shipments'[o] = shipments[o]
      /\ shipments[o].status = "delivered" /\ orders[o].status = "delivered" =>
            /\ orders'[o] = orders[o]
            /\ payments[o] \in {"captured", "refunded"} =>
                  payments'[o] \in {"captured", "refunded"}
      /\ settlements[o] # "none" => settlements'[o] # "none"
<1> USE DEF Base, BatchTypeOK, TypeOK, OrderRow, ShipmentRow, OrderAt, ShipmentAt
<1>1. orders[o].status \notin {"none", "created"} /\ payments[o] # "none"
  BY DEF OrdersExist
<1>2. ASSUME NEW b \in Buyers, NEW x \in Orders, NEW cart \in Carts, CreateOrder(b, x, cart)
      PROVE  Kept
  BY <1>1, <1>2 DEF CreateOrder
<1>3. ASSUME NEW b \in Buyers, NEW x \in Orders, PayOrder(b, x)
      PROVE  Kept
  BY <1>1, <1>3 DEF PayOrder
<1>4. ASSUME NEW x \in Orders, MayCancel(x), CancelOrderTx(x)
      PROVE  Kept
  BY <1>4 DEF MayCancel, CancelOrderTx, Cancellable
<1>5. ASSUME NEW x \in Orders, RefundDelivered(x)
      PROVE  Kept
  BY <1>5 DEF RefundDelivered
<1>6. ASSUME NEW r \in accepting, AcceptJob(r)
      PROVE  Kept
  BY <1>6 DEF AcceptJob, Acceptable, AcceptRequest
<1>7. ASSUME NEW d \in Drivers, NEW x \in Orders, MayCarryDirectly(x), MarkPickedUp(d, x)
      PROVE  Kept
  BY <1>7 DEF MarkPickedUp
<1>8. ASSUME NEW d \in Drivers, NEW x \in Orders, MayCarryDirectly(x), MarkDelivered(d, x)
      PROVE  Kept
  BY <1>8 DEF MayCarryDirectly, MarkDelivered, RecordSettlement
<1>9. ASSUME UNCHANGED <<orders, payments, shipments, settlements>>
      PROVE  Kept
  BY <1>9
<1> HIDE DEF Kept
<1>10. Kept
  BY <1>2, <1>3, <1>4, <1>5, <1>6, <1>7, <1>8, <1>9, DirectSteps
<1> QED
  BY <1>10 DEF Kept

-----------------------------------------------------------------------------
(* The driver of a run *)

\* The shipments of a running batch have been assigned.
RunAssigned ==
    \A k \in Batches : batches[k].status = "in_progress" =>
        \A o \in Members(k) : shipments[o].status \notin {"none", "unassigned"}

RunInv == RunKeepsItsDriver /\ RunAssigned

\* Nothing takes a shipment of a running batch from its driver: acceptJob finds it
\* assigned, and startBatch writes the shipments of its own batch.
LEMMA StepRun ==
    Base /\ BatchesFormed /\ RunInv /\ [FulfilmentNext]_allVars => RunInv'
<1> SUFFICES ASSUME Base, BatchesFormed, RunInv, [FulfilmentNext]_allVars,
                    NEW k \in Batches, batches'[k].status = "in_progress",
                    NEW o \in Members(k)'
             PROVE  /\ shipments'[o].driver = batches'[k].driver
                    /\ shipments'[o].status \notin {"none", "unassigned"}
  BY DEF RunInv, RunKeepsItsDriver, RunAssigned
<1> USE DEF Base, BatchTypeOK, TypeOK, ShipmentRow, BatchRow, ShipmentAt
<1>1. ASSUME NEW d \in Drivers, NEW j \in Batches, StartBatch(d, j)
      PROVE  /\ shipments'[o].driver = batches'[k].driver
             /\ shipments'[o].status \notin {"none", "unassigned"}
  <2>1. o \in Orders /\ batchOf[o] = k /\ Members(k)' = Members(k)
    BY <1>1 DEF StartBatch, Members
  <2>2. CASE k = j
    BY <1>1, <2>1, <2>2 DEF StartBatch, Members
  <2>3. CASE k # j
    <3>1. o \notin Members(j) /\ batches'[k] = batches[k]
      BY <1>1, <2>1, <2>3 DEF StartBatch, Members
    <3> QED
      BY <1>1, <2>1, <3>1 DEF StartBatch, RunInv, RunKeepsItsDriver, RunAssigned
  <2> QED
    BY <2>2, <2>3
<1>2. ASSUME UNCHANGED batchOf, batches'[k] = batches[k],
             shipments'[o].driver = shipments[o].driver,
             shipments[o].status \notin {"none", "unassigned"} =>
                shipments'[o].status \notin {"none", "unassigned"}
      PROVE  /\ shipments'[o].driver = batches'[k].driver
             /\ shipments'[o].status \notin {"none", "unassigned"}
  BY <1>2 DEF Members, RunInv, RunKeepsItsDriver, RunAssigned
<1>3. CASE DirectNext
  <2>1. UNCHANGED <<batches, batchOf>>
    BY <1>3 DEF DirectNext, batchVars
  <2>2. o \in Orders /\ shipments[o].status \notin {"none", "unassigned"}
    BY <2>1 DEF Members, RunInv, RunAssigned
  <2> QED
    BY <1>2, <1>3, <2>1, <2>2, DirectKeeps
<1>4. ASSUME NEW r \in planning, CreateBatch(r)
      PROVE  /\ shipments'[o].driver = batches'[k].driver
             /\ shipments'[o].status \notin {"none", "unassigned"}
  <2>1. batches'[k] = batches[k] /\ shipments' = shipments
    BY <1>4 DEF CreateBatch, vars
  <2>2. Members(k)' = Members(k)
    BY <2>1, BatchOfSteps
  <2> QED
    BY <2>1, <2>2 DEF RunInv, RunKeepsItsDriver, RunAssigned
<1>5. ASSUME NEW d \in Drivers, NEW j \in Batches, NEW x \in Orders, BatchPickup(d, j, x)
      PROVE  /\ shipments'[o].driver = batches'[k].driver
             /\ shipments'[o].status \notin {"none", "unassigned"}
  BY <1>2, <1>5 DEF BatchPickup, Members
<1>6. ASSUME NEW t \in delivering, BatchDeliverStop(t) \/ BatchDeliverLast(t)
      PROVE  /\ shipments'[o].driver = batches'[k].driver
             /\ shipments'[o].status \notin {"none", "unassigned"}
  <2>1. t.order \in Orders /\ t.batch \in Batches
    BY DEF Delivery
  <2>2. shipments' = [shipments EXCEPT ![t.order] = ShipmentAt(@, "delivered")]
        /\ batchOf' = batchOf
    BY <1>6 DEF BatchDeliverStop, BatchDeliverLast
  <2>3. batches'[k] = batches[k]
    BY <1>6, <2>1 DEF BatchDeliverStop, BatchDeliverLast
  <2> QED
    BY <1>2, <2>1, <2>2, <2>3 DEF Members
<1>7. CASE UNCHANGED <<shipments, batches, batchOf>>
  BY <1>2, <1>7
<1>8. CASE BatchNext
  BY <1>1, <1>4, <1>5, <1>6, <1>7, <1>8
  DEF BatchNext, PlanBatch, RejectPlan, BatchDeliverCount, vars
<1> QED
  BY <1>3, <1>7, <1>8 DEF FulfilmentNext, allVars, vars, batchVars

\* While a batch runs, every shipment of it is its driver's.
THEOREM RunsKeepDriver == FulfilmentSpec => []RunKeepsItsDriver
<1>1. BatchInit => RunInv
  BY DEF BatchInit, RunInv, RunKeepsItsDriver, RunAssigned
<1> QED
  BY <1>1, StepRun, BaseInvariant, FormedInvariant, PTL DEF FulfilmentSpec, RunInv

-----------------------------------------------------------------------------
(* Completion *)

\* What a delivery has read stays true until it commits: its shipment, which it has
\* locked, is on the truck, and if it counted the rest as delivered, they are.
DeliveriesHold ==
    /\ \A t \in delivering :
          /\ shipments[t.order].status = "picked_up"
          /\ t.last => \A o \in Members(t.batch) \ {t.order} :
                          shipments[o].status = "delivered"
    /\ \A t, u \in delivering : t.order = u.order => t = u

DeliveryInv == DeliveriesHold /\ CompletedMeansDelivered

\* The orders that a delivery has counted, or that were settled with their batch.
Settling(o) ==
    \E k \in Batches : /\ o \in Members(k)
                       /\ \/ batches[k].status = "completed"
                          \/ \E t \in delivering : t.batch = k

\* A delivery in flight is of a batch that exists, whose shipments it locks out of
\* startBatch.
LEMMA DeliveringBatch ==
    ASSUME Base, BatchesFormed, NEW t \in delivering
    PROVE  /\ t.order \in Orders /\ t.batch \in Batches /\ t.driver \in Drivers
           /\ t.order \in Members(t.batch) /\ Locked(t.order)
           /\ batches[t.batch].status # "none"
<1>1. t.order \in Orders /\ t.batch \in Batches /\ t.driver \in Drivers /\ Locked(t.order)
  BY DEF Base, BatchTypeOK, Delivery, Locked
<1>2. t.order \in Members(t.batch)
  BY <1>1 DEF Base, OrdersExist, Members
<1> QED
  BY <1>1, <1>2 DEF BatchesFormed

\* A step that takes no delivery, and undoes nothing of the orders that count, keeps
\* what deliveries have read.
LEMMA QuietDelivery ==
    ASSUME Base, BatchesFormed, DeliveryInv,
           delivering' \subseteq delivering,
           \A k \in Batches : /\ batches[k].status # "none" => Members(k)' = Members(k)
                              /\ batches'[k].status = "completed" =>
                                    batches[k].status = "completed",
           \A t \in delivering' : shipments'[t.order].status = "picked_up",
           \A o \in Orders : Settling(o) /\ shipments[o].status = "delivered" =>
              /\ shipments'[o].status = "delivered"
              /\ orders[o].status = "delivered" =>
                    /\ orders'[o].status = "delivered"
                    /\ payments[o] \in {"captured", "refunded"} =>
                          payments'[o] \in {"captured", "refunded"}
              /\ settlements[o] # "none" => settlements'[o] # "none"
    PROVE  DeliveryInv'
<1>1. ASSUME NEW t \in delivering', t.last, NEW o \in Members(t.batch)' \ {t.order}
      PROVE  shipments'[o].status = "delivered"
  <2>1. t \in delivering /\ t.batch \in Batches /\ Members(t.batch)' = Members(t.batch)
    BY DeliveringBatch
  <2>2. o \in Orders /\ shipments[o].status = "delivered" /\ Settling(o)
    BY <1>1, <2>1 DEF DeliveryInv, DeliveriesHold, Members, Settling
  <2> QED
    BY <2>2
<1>2. DeliveriesHold'
  BY <1>1 DEF DeliveryInv, DeliveriesHold
<1>3. ASSUME NEW k \in Batches, batches'[k].status = "completed", NEW o \in Members(k)'
      PROVE  /\ shipments'[o].status = "delivered" /\ orders'[o].status = "delivered"
             /\ payments'[o] \in {"captured", "refunded"} /\ settlements'[o] # "none"
  <2>1. o \in Orders /\ o \in Members(k) /\ batches[k].status = "completed" /\ Settling(o)
    BY <1>3 DEF Members, Settling
  <2>2. /\ shipments[o].status = "delivered" /\ orders[o].status = "delivered"
        /\ payments[o] \in {"captured", "refunded"} /\ settlements[o] # "none"
    BY <2>1 DEF DeliveryInv, CompletedMeansDelivered
  <2> QED
    BY <2>1, <2>2
<1>4. CompletedMeansDelivered'
  BY <1>3 DEF CompletedMeansDelivered
<1> QED
  BY <1>2, <1>4 DEF DeliveryInv

\* The direct handlers respect the lock, and touch nothing that is delivered.
LEMMA DirectDelivery ==
    ASSUME Base, BatchesFormed, DeliveryInv, DirectNext
    PROVE  DeliveryInv'
<1>1. UNCHANGED <<batches, batchOf, delivering>>
  BY DEF DirectNext, batchVars
<1>2. \A k \in Batches : Members(k)' = Members(k)
  BY <1>1 DEF Members
<1>3. ASSUME NEW t \in delivering
      PROVE  shipments'[t.order].status = "picked_up"
  <2>1. /\ t.order \in Orders /\ Locked(t.order) /\ shipments[t.order].status = "picked_up"
    BY DeliveringBatch DEF DeliveryInv, DeliveriesHold
  <2> QED
    BY <2>1, DirectKeeps
<1>4. ASSUME NEW o \in Orders, shipments[o].status = "delivered"
      PROVE  /\ shipments'[o].status = "delivered"
             /\ orders[o].status = "delivered" =>
                   /\ orders'[o].status = "delivered"
                   /\ payments[o] \in {"captured", "refunded"} =>
                         payments'[o] \in {"captured", "refunded"}
             /\ settlements[o] # "none" => settlements'[o] # "none"
  BY <1>4, DirectKeeps
<1> QED
  BY <1>1, <1>2, <1>3, <1>4, QuietDelivery

\* startBatch is locked out of a batch with a delivery in flight, and writes no
\* shipment of another.
LEMMA StartDelivery ==
    ASSUME Base, BatchesFormed, DeliveryInv, [FulfilmentNext]_allVars,
           NEW d \in Drivers, NEW k \in Batches, StartBatch(d, k)
    PROVE  DeliveryInv'
<1>1. \A j \in Batches : batches[j].status # "none" => Members(j)' = Members(j)
  BY BatchOfSteps
<1>2. \A j \in Batches : batches'[j].status = "completed" => batches[j].status = "completed"
  BY DEF StartBatch, Base, BatchTypeOK, BatchRow
<1>3. ASSUME NEW o \in Orders, Settling(o)
      PROVE  shipments'[o] = shipments[o] /\ orders'[o] = orders[o]
  <2>1. PICK j \in Batches : /\ o \in Members(j)
                             /\ \/ batches[j].status = "completed"
                                \/ \E t \in delivering : t.batch = j
    BY <1>3 DEF Settling
  <2>2. j # k
    BY <2>1, DeliveringBatch DEF StartBatch
  <2> QED
    BY <2>1, <2>2 DEF StartBatch, Members
<1>4. ASSUME NEW t \in delivering
      PROVE  shipments'[t.order].status = "picked_up"
  <2>1. t.order \in Orders /\ Settling(t.order)
    BY DeliveringBatch DEF Settling
  <2> QED
    BY <1>3, <2>1 DEF DeliveryInv, DeliveriesHold
<1>5. UNCHANGED <<payments, settlements, delivering>>
  BY DEF StartBatch
<1> QED
  BY <1>1, <1>2, <1>3, <1>4, <1>5, QuietDelivery

\* A new batch, a pickup and a stop undo nothing; a stop commits its own shipment,
\* which no other delivery has.
LEMMA StopDelivery ==
    ASSUME Base, BatchesFormed, DeliveryInv, [FulfilmentNext]_allVars,
           \/ \E r \in planning : CreateBatch(r)
           \/ \E d \in Drivers, k \in Batches, o \in Orders : BatchPickup(d, k, o)
           \/ \E t \in delivering : BatchDeliverStop(t)
    PROVE  DeliveryInv'
<1>1. \A k \in Batches : batches[k].status # "none" => Members(k)' = Members(k)
  BY BatchOfSteps
<1>2. \A k \in Batches : batches'[k].status = "completed" => batches[k].status = "completed"
  BY DEF CreateBatch, BatchPickup, BatchDeliverStop, Base, BatchTypeOK, BatchRow
<1>3. UNCHANGED <<orders, payments, settlements>> /\ delivering' \subseteq delivering
  BY DEF CreateBatch, BatchPickup, BatchDeliverStop, vars
<1>4. ASSUME NEW o \in Orders, shipments[o].status = "delivered"
      PROVE  shipments'[o].status = "delivered"
  BY <1>4 DEF CreateBatch, BatchPickup, BatchDeliverStop, vars, Base, BatchTypeOK, TypeOK,
              ShipmentRow, ShipmentAt
<1>5. ASSUME NEW t \in delivering'
      PROVE  shipments'[t.order].status = "picked_up"
  <2>1. /\ t \in delivering /\ t.order \in Orders
        /\ shipments[t.order].status = "picked_up"
    BY <1>3, DeliveringBatch DEF DeliveryInv, DeliveriesHold
  <2>2. ASSUME NEW u \in delivering, BatchDeliverStop(u)
        PROVE  shipments'[t.order].status = "picked_up"
    <3>1. t.order # u.order
      BY <2>1, <2>2 DEF BatchDeliverStop, DeliveryInv, DeliveriesHold
    <3> QED
      BY <2>1, <2>2, <3>1 DEF BatchDeliverStop, Base, BatchTypeOK, TypeOK
  <2>3. CASE \E r \in planning : CreateBatch(r)
    BY <2>1, <2>3 DEF CreateBatch, vars
  <2>4. CASE \E d \in Drivers, k \in Batches, o \in Orders : BatchPickup(d, k, o)
    BY <2>1, <2>4 DEF BatchPickup, Base, BatchTypeOK, TypeOK, ShipmentRow
  <2> QED
    BY <2>2, <2>3, <2>4
<1> QED
  BY <1>1, <1>2, <1>3, <1>4, <1>5, QuietDelivery

\* A count adds a delivery of a shipment that no other has.
LEMMA CountDelivery ==
    ASSUME Base, BatchesFormed, DeliveryInv,
           NEW d \in Drivers, NEW k \in Batches, NEW o \in Orders, BatchDeliverCount(d, k, o)
    PROVE  DeliveryInv'
<1> DEFINE new == [driver |-> d, batch |-> k, order |-> o, last |-> AllServed(k, o)]
<1>1. /\ UNCHANGED <<orders, payments, shipments, settlements, batches, batchOf>>
      /\ delivering' = delivering \cup {new}
      /\ shipments[o].status = "picked_up" /\ \A t \in delivering : t.order # o
  BY DEF BatchDeliverCount, vars, Locked
<1>2. \A j \in Batches : Members(j)' = Members(j)
  BY <1>1 DEF Members
<1>3. CompletedMeansDelivered'
  BY <1>1, <1>2 DEF DeliveryInv, CompletedMeansDelivered
<1>4. ASSUME NEW t \in delivering'
      PROVE  /\ shipments'[t.order].status = "picked_up"
             /\ t.last => \A x \in Members(t.batch)' \ {t.order} :
                             shipments'[x].status = "delivered"
  <2>1. CASE t \in delivering
    <3>1. Members(t.batch)' = Members(t.batch)
      BY <1>2, <2>1, DeliveringBatch
    <3> QED
      BY <1>1, <2>1, <3>1 DEF DeliveryInv, DeliveriesHold
  <2>2. CASE t = new
    BY <1>1, <1>2, <2>2 DEF AllServed
  <2> QED
    BY <1>1, <2>1, <2>2
<1>5. \A t, u \in delivering' : t.order = u.order => t = u
  BY <1>1 DEF DeliveryInv, DeliveriesHold
<1> QED
  BY <1>3, <1>4, <1>5 DEF DeliveryInv, DeliveriesHold

\* The delivery that completes its batch is the only one of it, delivers and
\* settles its orders, and touches those of no other.
LEMMA LastDelivery ==
    ASSUME Base, BatchesFormed, DeliveryInv, NEW t \in delivering, BatchDeliverLast(t)
    PROVE  DeliveryInv'
<1> USE DEF Base, BatchTypeOK, TypeOK, OrderRow, ShipmentRow, BatchRow, OrderAt, ShipmentAt
<1>1. /\ t.order \in Orders /\ t.batch \in Batches /\ t.order \in Members(t.batch)
      /\ batchOf' = batchOf /\ delivering' = delivering \ {t} /\ t.last
  BY DeliveringBatch DEF BatchDeliverLast
<1>2. \A k \in Batches : Members(k)' = Members(k)
  BY <1>1 DEF Members
<1>3. \A o \in Members(t.batch) \ {t.order} : shipments[o].status = "delivered"
  BY <1>1 DEF DeliveryInv, DeliveriesHold
<1>4. ASSUME NEW u \in delivering'
      PROVE  /\ u \in delivering /\ u.order \in Orders /\ u.batch \in Batches
             /\ u.batch # t.batch /\ u.order # t.order
             /\ u.order \in Members(u.batch)
  <2>1. /\ u \in delivering /\ u # t /\ u.order \in Orders /\ u.batch \in Batches
        /\ u.order \in Members(u.batch)
    BY <1>1, DeliveringBatch
  <2>2. u.order # t.order /\ shipments[u.order].status = "picked_up"
    BY <2>1 DEF DeliveryInv, DeliveriesHold
  <2> QED
    BY <1>3, <2>1, <2>2
<1>5. ASSUME NEW o \in Members(t.batch)
      PROVE  /\ shipments'[o].status = "delivered" /\ orders'[o].status = "delivered"
             /\ payments'[o] \in {"captured", "refunded"} /\ settlements'[o] # "none"
  <2>1. o \in Orders /\ payments[o] # "none"
    BY <1>1, BatchAssumption DEF Members, OrdersExist
  <2>2. shipments'[o].status = "delivered"
    BY <1>3, <2>1 DEF BatchDeliverLast
  <2> QED
    BY <2>1, <2>2 DEF BatchDeliverLast, RecordSettlement
<1>6. ASSUME NEW o \in Orders, o \notin Members(t.batch)
      PROVE  /\ shipments'[o] = shipments[o] /\ orders'[o] = orders[o]
             /\ payments'[o] = payments[o] /\ settlements'[o] = settlements[o]
  BY <1>1, <1>6 DEF BatchDeliverLast
<1>7. DeliveriesHold'
  <2>1. ASSUME NEW u \in delivering'
        PROVE  /\ shipments'[u.order].status = "picked_up"
               /\ u.last => \A o \in Members(u.batch)' \ {u.order} :
                               shipments'[o].status = "delivered"
    <3>1. \A o \in Members(u.batch) : o \in Orders /\ shipments'[o] = shipments[o]
      BY <1>4, <1>6 DEF Members
    <3>2. Members(u.batch)' = Members(u.batch)
      BY <1>2, <1>4
    <3> QED
      BY <1>4, <3>1, <3>2 DEF DeliveryInv, DeliveriesHold
  <2> QED
    BY <1>4, <2>1 DEF DeliveryInv, DeliveriesHold
<1>8. ASSUME NEW k \in Batches, batches'[k].status = "completed", NEW o \in Members(k)'
      PROVE  /\ shipments'[o].status = "delivered" /\ orders'[o].status = "delivered"
             /\ payments'[o] \in {"captured", "refunded"} /\ settlements'[o] # "none"
  <2>1. CASE k = t.batch
    BY <1>2, <1>5, <1>8, <2>1
  <2>2. CASE k # t.batch
    <3>1. /\ o \in Orders /\ o \in Members(k) /\ o \notin Members(t.batch)
          /\ batches[k].status = "completed"
      BY <1>1, <1>2, <1>8, <2>2 DEF Members, BatchDeliverLast
    <3> QED
      BY <1>6, <3>1 DEF DeliveryInv, CompletedMeansDelivered
  <2> QED
    BY <2>1, <2>2
<1>9. CompletedMeansDelivered'
  BY <1>8 DEF CompletedMeansDelivered
<1> QED
  BY <1>7, <1>9 DEF DeliveryInv

\* No request makes untrue what a delivery has counted.
LEMMA StepDelivery ==
    Base /\ BatchesFormed /\ DeliveryInv /\ [FulfilmentNext]_allVars => DeliveryInv'
<1> SUFFICES ASSUME Base, BatchesFormed, DeliveryInv, [FulfilmentNext]_allVars
             PROVE  DeliveryInv'
  OBVIOUS
<1>1. CASE UNCHANGED <<orders, payments, shipments, settlements, batches, batchOf, delivering>>
  <2>1. \A k \in Batches : Members(k)' = Members(k)
    BY <1>1 DEF Members
  <2>2. \A t \in delivering : shipments[t.order].status = "picked_up"
    BY DEF DeliveryInv, DeliveriesHold
  <2> QED
    BY <1>1, <2>1, <2>2, QuietDelivery
<1>2. CASE DirectNext
  BY <1>2, DirectDelivery
<1>3. CASE BatchNext
  BY <1>1, <1>3, StartDelivery, StopDelivery, CountDelivery, LastDelivery
  DEF BatchNext, PlanBatch, RejectPlan, vars
<1>4. CASE UNCHANGED allVars
  BY <1>1, <1>4 DEF allVars, vars, batchVars
<1> QED
  BY <1>2, <1>3, <1>4 DEF FulfilmentNext

\* Nothing is under way at first, and nothing completed.
LEMMA InitDelivery == BatchInit => DeliveryInv
BY DEF BatchInit, DeliveryInv, DeliveriesHold, CompletedMeansDelivered

\* Of the deliveries in flight only one can have counted all others of its batch
\* as delivered, and of a completed batch none is left.
LEMMA OneLast == Base /\ DeliveryInv => SettledOnce
<1> SUFFICES ASSUME Base, DeliveryInv, NEW k \in Batches
             PROVE  /\ Cardinality({t \in delivering : t.batch = k /\ t.last}) <= 1
                    /\ batches[k].status = "completed" => \A t \in delivering : t.batch # k
  BY DEF SettledOnce
<1> DEFINE lasts == {t \in delivering : t.batch = k /\ t.last}
<1>1. \A t \in delivering : /\ t.order \in Members(t.batch)
                            /\ shipments[t.order].status = "picked_up"
  BY DEF Base, BatchTypeOK, Delivery, OrdersExist, Members, DeliveryInv, DeliveriesHold
<1>2. ASSUME NEW t \in lasts, NEW u \in lasts
      PROVE  t = u
  <2>1. t.order = u.order
    BY <1>1 DEF DeliveryInv, DeliveriesHold
  <2> QED
    BY <2>1 DEF DeliveryInv, DeliveriesHold
<1>3. Cardinality(lasts) <= 1
  <2> HIDE DEF lasts
  <2>1. CASE lasts = {}
    BY <2>1, FS_EmptySet
  <2>2. ASSUME NEW t \in lasts
        PROVE  Cardinality(lasts) <= 1
    <3>1. lasts = {t}
      BY <1>2
    <3>2. Cardinality({t}) = 1
      BY FS_Singleton
    <3> QED
      BY <3>1, <3>2
  <2> QED
    BY <2>1, <2>2
<1>4. batches[k].status = "completed" => \A t \in delivering : t.batch # k
  BY <1>1 DEF DeliveryInv, CompletedMeansDelivered
<1> QED
  BY <1>3, <1>4

\* A completed batch has every shipment and order delivered and its money captured
\* or refunded, and no two deliveries complete it: whatever interferes, what a
\* delivery counts without locking it is still true when it commits.
THEOREM CompletionIsTrue == FulfilmentSpec => [](CompletedMeansDelivered /\ SettledOnce)
<1>1. FulfilmentSpec => []DeliveryInv
  BY InitDelivery, StepDelivery, BaseInvariant, FormedInvariant, PTL DEF FulfilmentSpec
<1>2. Base /\ DeliveryInv => CompletedMeansDelivered /\ SettledOnce
  BY OneLast DEF DeliveryInv
<1> QED
  BY <1>1, <1>2, BaseInvariant, PTL

-----------------------------------------------------------------------------
(* The rows of batched orders, where they are neither carried directly nor      *)
(* cancelled                                                                     *)

\* The rows of one order, as BatchRowsAgree has them: with a batch its stage follows
\* the batch's, without one it follows its shipment's.
OrderStory(o) ==
    /\ batchOf[o] = NoBatch =>
          /\ shipments[o].status = "unassigned" <=> orders[o].status = "paid"
          /\ shipments[o].status = "assigned" <=> orders[o].status = "pickup_assigned"
          /\ shipments[o].status = "picked_up" <=> orders[o].status = "in_transit"
          /\ shipments[o].status = "delivered" <=> orders[o].status = "delivered"
    /\ batchOf[o] # NoBatch =>
          /\ batches[batchOf[o]].status = "planning" =>
                shipments[o].status = "unassigned" /\ orders[o].status = "paid"
          /\ batches[batchOf[o]].status = "in_progress" =>
                /\ shipments[o].status \in {"assigned", "picked_up", "delivered"}
                /\ orders[o].status = "pickup_assigned"
          /\ batches[batchOf[o]].status = "completed" =>
                shipments[o].status = "delivered" /\ orders[o].status = "delivered"
    /\ payments[o] = "none" => orders[o].status \in {"none", "created", "cancelled"}
    /\ payments[o] = "held" <=> orders[o].status \in {"paid", "pickup_assigned", "in_transit"}
    /\ payments[o] = "captured" => orders[o].status = "delivered"
    /\ payments[o] = "refunded" => orders[o].status \in {"delivered", "cancelled"}
    /\ settlements[o] = IF orders[o].status # "delivered" THEN "none"
                        ELSE IF payments[o] = "captured" THEN "settled"
                        ELSE "refunded"

\* No driver waits to take a shipment that is in a batch.
AcceptsUnbatched == \A r \in accepting : batchOf[r.order] = NoBatch

Story == (\A o \in Orders : OrderStory(o)) /\ AcceptsUnbatched

StoryInv == interference \subseteq {"race"} => Story

\* An order without a shipment is in no batch; one with a batch has a row there.
LEMMA BatchedOrders ==
    ASSUME Base, BatchesFormed, NEW o \in Orders
    PROVE  /\ orders[o].status \in {"none", "created"} => batchOf[o] = NoBatch
           /\ batchOf[o] # NoBatch =>
                 /\ batchOf[o] \in Batches
                 /\ batches[batchOf[o]].status \in {"planning", "in_progress", "completed"}
<1> USE DEF Base, BatchTypeOK
<1>1. orders[o].status \in {"none", "created"} => batchOf[o] = NoBatch
  BY DEF OrdersExist
<1>2. ASSUME batchOf[o] # NoBatch
      PROVE  /\ batchOf[o] \in Batches
             /\ batches[batchOf[o]].status \in {"planning", "in_progress", "completed"}
  <2>1. batchOf[o] \in Batches /\ o \in Members(batchOf[o])
    BY <1>2 DEF Members
  <2> QED
    BY <2>1 DEF BatchesFormed, BatchRow
<1> QED
  BY <1>1, <1>2

\* The story of each order is what the property says of all of them.
LEMMA StoryTold ==
    ASSUME Base, BatchesFormed, Story
    PROVE  StopsMatchOrders /\ EscrowMatchesOrder /\ LedgerMatchesMoney
<1>1. EscrowMatchesOrder /\ LedgerMatchesMoney
  BY DEF Story, OrderStory, EscrowMatchesOrder, LedgerMatchesMoney
<1>2. ASSUME NEW o \in Orders, batchOf[o] # NoBatch
      PROVE  CASE batches[batchOf[o]].status = "planning" ->
                    shipments[o].status = "unassigned" /\ orders[o].status = "paid"
               [] batches[batchOf[o]].status = "in_progress" ->
                    /\ shipments[o].status \in {"assigned", "picked_up", "delivered"}
                    /\ orders[o].status = "pickup_assigned"
               [] batches[batchOf[o]].status = "completed" ->
                    shipments[o].status = "delivered" /\ orders[o].status = "delivered"
  <2>1. batches[batchOf[o]].status \in {"planning", "in_progress", "completed"}
    BY <1>2, BatchedOrders
  <2> QED
    BY <1>2, <2>1 DEF Story, OrderStory
<1>3. StopsMatchOrders
  BY <1>2 DEF Story, OrderStory, StopsMatchOrders
<1> QED
  BY <1>1, <1>3

\* An order whose rows and batch a step leaves alone keeps its story.
LEMMA SameStory ==
    ASSUME NEW o \in Orders, OrderStory(o),
           orders'[o] = orders[o], payments'[o] = payments[o],
           shipments'[o] = shipments[o], settlements'[o] = settlements[o],
           batchOf'[o] = batchOf[o],
           batchOf[o] # NoBatch => batches'[batchOf[o]].status = batches[batchOf[o]].status
    PROVE  OrderStory(o)'
BY DEF OrderStory

\* The direct handlers move the rows of an order without a batch together.
LEMMA DirectOrderStory ==
    ASSUME Base, BatchesFormed, Story, DirectNext,
           "direct" \notin interference, "cancel" \notin interference,
           NEW o \in Orders
    PROVE  OrderStory(o)'
<1> USE DEF Base, BatchTypeOK, TypeOK, OrderRow, ShipmentRow, OrderAt, ShipmentAt
<1> DEFINE Told == OrderStory(o)'
<1>1. UNCHANGED <<batches, batchOf>> /\ OrderStory(o)
  BY DEF DirectNext, batchVars, Story
<1>2. ASSUME orders'[o] = orders[o], payments'[o] = payments[o],
             shipments'[o] = shipments[o], settlements'[o] = settlements[o]
      PROVE  Told
  BY <1>1, <1>2, SameStory
<1>3. ASSUME NEW b \in Buyers, NEW x \in Orders, NEW cart \in Carts, CreateOrder(b, x, cart)
      PROVE  Told
  <2>1. CASE x = o
    <3>1. batchOf[o] = NoBatch
      BY <1>3, <2>1, BatchedOrders DEF CreateOrder
    <3> QED
      BY <1>1, <1>3, <2>1, <3>1 DEF CreateOrder, OrderStory
  <2> QED
    BY <1>2, <1>3, <2>1 DEF CreateOrder
<1>4. ASSUME NEW b \in Buyers, NEW x \in Orders, PayOrder(b, x)
      PROVE  Told
  <2>1. CASE x = o
    <3>1. batchOf[o] = NoBatch
      BY <1>4, <2>1, BatchedOrders DEF PayOrder
    <3> QED
      BY <1>1, <1>4, <2>1, <3>1 DEF PayOrder, OrderStory
  <2> QED
    BY <1>2, <1>4, <2>1 DEF PayOrder
<1>5. ASSUME NEW x \in Orders, MayCancel(x), CancelOrderTx(x)
      PROVE  Told
  <2>1. CASE x = o
    BY <1>1, <1>5, <2>1 DEF MayCancel, CancelOrderTx, Cancellable, OrderStory
  <2> QED
    BY <1>2, <1>5, <2>1 DEF CancelOrderTx
<1>6. ASSUME NEW x \in Orders, RefundDelivered(x)
      PROVE  Told
  <2>1. CASE x = o
    BY <1>1, <1>6, <2>1 DEF RefundDelivered, OrderStory
  <2> QED
    BY <1>2, <1>6, <2>1 DEF RefundDelivered
<1>7. ASSUME NEW r \in accepting, AcceptJob(r)
      PROVE  Told
  <2>1. r.order \in Orders /\ batchOf[r.order] = NoBatch
    BY DEF AcceptRequest, Story, AcceptsUnbatched
  <2>2. CASE r.order = o
    BY <1>1, <1>7, <2>1, <2>2 DEF AcceptJob, Acceptable, OrderStory
  <2> QED
    BY <1>2, <1>7, <2>1, <2>2 DEF AcceptJob
<1>8. ASSUME NEW d \in Drivers, NEW x \in Orders, MayCarryDirectly(x), MarkPickedUp(d, x)
      PROVE  Told
  <2>1. CASE x = o
    BY <1>1, <1>8, <2>1 DEF MayCarryDirectly, MarkPickedUp, OrderStory
  <2> QED
    BY <1>2, <1>8, <2>1 DEF MarkPickedUp
<1>9. ASSUME NEW d \in Drivers, NEW x \in Orders, MayCarryDirectly(x), MarkDelivered(d, x)
      PROVE  Told
  <2>1. CASE x = o
    BY <1>1, <1>9, <2>1 DEF MayCarryDirectly, MarkDelivered, RecordSettlement, OrderStory
  <2> QED
    BY <1>2, <1>9, <2>1 DEF MarkDelivered
<1>10. ASSUME UNCHANGED <<orders, payments, shipments, settlements>>
       PROVE  Told
  BY <1>2, <1>10
<1> HIDE DEF Told
<1>11. Told
  BY <1>3, <1>4, <1>5, <1>6, <1>7, <1>8, <1>9, <1>10, DirectSteps
<1> QED
  BY <1>11 DEF Told

\* A driver asks only for an order without a batch.
LEMMA DirectAccepts ==
    ASSUME AcceptsUnbatched, DirectNext, "direct" \notin interference
    PROVE  AcceptsUnbatched'
<1>1. UNCHANGED batchOf
  BY DEF DirectNext, batchVars
<1>2. ASSUME accepting' \subseteq accepting
      PROVE  AcceptsUnbatched'
  BY <1>1, <1>2 DEF AcceptsUnbatched
<1>3. ASSUME NEW d \in Drivers, NEW o \in Orders, MayCarryDirectly(o), AcceptCheck(d, o)
      PROVE  AcceptsUnbatched'
  BY <1>1, <1>3 DEF MayCarryDirectly, AcceptCheck, AcceptsUnbatched
<1>4. \/ accepting' \subseteq accepting
      \/ \E d \in Drivers, o \in Orders : MayCarryDirectly(o) /\ AcceptCheck(d, o)
  BY DEF DirectNext, CreateOrder, PayOrder, BuyerCancel, CancelOrderTx, RefundDelivered,
         VerifyDriver, UpsertProfile, MarkPickedUp, MarkDelivered, AcceptJob, RejectAccept
<1> QED
  BY <1>2, <1>3, <1>4

\* And createBatch takes none that a driver waits for.
LEMMA CreateAccepts ==
    ASSUME BatchTypeOK, AcceptsUnbatched, "direct" \notin interference,
           NEW r \in planning, MayBatch(r.members), CreateBatch(r)
    PROVE  AcceptsUnbatched'
<1>1. \A a \in accepting : a.order \notin r.members /\ a.order \in Orders
  BY DEF MayBatch, BatchTypeOK, TypeOK, AcceptRequest
<1> QED
  BY <1>1 DEF CreateBatch, vars, AcceptsUnbatched

\* The direct handlers keep the story of every order.
LEMMA DirectStory ==
    ASSUME Base, BatchesFormed, Story, DirectNext,
           "direct" \notin interference, "cancel" \notin interference
    PROVE  Story'
BY DirectAccepts, DirectOrderStory DEF Story

\* createBatch takes paid orders that no driver waits for.
LEMMA CreateStory ==
    ASSUME Base, BatchesFormed, Story, "direct" \notin interference,
           NEW r \in planning, MayBatch(r.members), CreateBatch(r)
    PROVE  Story'
<1> USE DEF Base, BatchTypeOK
<1>1. PICK k \in Batches :
        /\ batches[k].status = "none"
        /\ batches' = [batches EXCEPT ![k] = [status |-> "planning", driver |-> r.driver]]
        /\ batchOf' = [o \in Orders |-> IF o \in r.members THEN k ELSE batchOf[o]]
  BY DEF CreateBatch
<1>2. /\ UNCHANGED <<orders, payments, shipments, settlements, accepting>>
      /\ r.members \in SUBSET Orders
      /\ \A o \in r.members : shipments[o].status = "unassigned" /\ batchOf[o] = NoBatch
  BY DEF CreateBatch, vars, Batchable, PlanRequest
<1>3. ASSUME NEW o \in Orders
      PROVE  OrderStory(o)'
  <2>1. CASE o \in r.members
    BY <1>1, <1>2, <2>1, BatchAssumption DEF Story, OrderStory
  <2>2. CASE o \notin r.members
    <3>1. batchOf'[o] = batchOf[o] /\ batchOf[o] # k
      BY <1>1, <2>2, BatchedOrders, BatchAssumption
    <3> QED
      BY <1>1, <1>2, <3>1, BatchedOrders, SameStory DEF Story
  <2> QED
    BY <2>1, <2>2
<1>4. AcceptsUnbatched'
  BY CreateAccepts DEF Story
<1> QED
  BY <1>3, <1>4 DEF Story

\* startBatch finds the orders of its batch paid and waiting.
LEMMA StartStory ==
    ASSUME Base, BatchesFormed, Story,
           NEW d \in Drivers, NEW k \in Batches, StartBatch(d, k)
    PROVE  Story'
<1> USE DEF Base, BatchTypeOK, TypeOK, OrderRow, BatchRow, OrderAt
<1>1. UNCHANGED <<payments, settlements, accepting, batchOf>>
  BY DEF StartBatch
<1>2. ASSUME NEW o \in Orders
      PROVE  OrderStory(o)'
  <2>1. CASE o \in Members(k)
    <3>1. batchOf[o] = k /\ batches[k].status = "planning"
      BY <2>1 DEF StartBatch, Members
    <3>2. orders[o].status = "paid"
      BY <3>1, BatchAssumption DEF Story, OrderStory
    <3>3. /\ batches'[k].status = "in_progress" /\ shipments'[o].status = "assigned"
          /\ orders'[o].status = "pickup_assigned"
      BY <2>1 DEF StartBatch
    <3> QED
      BY <1>1, <3>1, <3>2, <3>3, BatchAssumption DEF Story, OrderStory
  <2>2. CASE o \notin Members(k)
    <3>1. /\ batchOf[o] # k /\ orders'[o] = orders[o] /\ shipments'[o] = shipments[o]
          /\ \A j \in Batches : j # k => batches'[j] = batches[j]
      BY <2>2 DEF StartBatch, Members
    <3> QED
      BY <1>1, <3>1, BatchedOrders, SameStory DEF Story
  <2> QED
    BY <2>1, <2>2
<1>3. AcceptsUnbatched'
  BY <1>1 DEF Story, AcceptsUnbatched
<1> QED
  BY <1>2, <1>3 DEF Story

\* A pickup and a stop move a shipment of a running batch.
LEMMA StopStory ==
    ASSUME Base, BatchesFormed, DeliveryInv, Story,
           \/ \E d \in Drivers, k \in Batches, o \in Orders : BatchPickup(d, k, o)
           \/ \E t \in delivering : BatchDeliverStop(t)
    PROVE  Story'
<1> USE DEF Base, BatchTypeOK, TypeOK, ShipmentRow, ShipmentAt
<1>1. UNCHANGED <<orders, payments, settlements, accepting, batches, batchOf>>
  BY DEF BatchPickup, BatchDeliverStop
<1>2. ASSUME NEW x \in Orders, batchOf[x] # NoBatch,
             batches[batchOf[x]].status = "in_progress",
             NEW status \in {"picked_up", "delivered"},
             shipments' = [shipments EXCEPT ![x] = ShipmentAt(@, status)],
             NEW o \in Orders
      PROVE  OrderStory(o)'
  <2>1. CASE o = x
    <3>1. shipments'[x].status = status /\ OrderStory(x)
      BY <1>2 DEF Story
    <3> QED
      BY <1>1, <1>2, <2>1, <3>1 DEF OrderStory
  <2>2. CASE o # x
    <3>1. shipments'[o] = shipments[o] /\ OrderStory(o)
      BY <1>2, <2>2 DEF Story
    <3> QED
      BY <1>1, <3>1, SameStory
  <2> QED
    BY <2>1, <2>2
<1>3. ASSUME NEW d \in Drivers, NEW k \in Batches, NEW x \in Orders, BatchPickup(d, k, x),
             NEW o \in Orders
      PROVE  OrderStory(o)'
  BY <1>2, <1>3, BatchAssumption DEF BatchPickup
<1>4. ASSUME NEW t \in delivering, BatchDeliverStop(t), NEW o \in Orders
      PROVE  OrderStory(o)'
  <2>1. /\ t.order \in Orders /\ batchOf[t.order] # NoBatch
        /\ shipments[t.order].status = "picked_up"
        /\ batches[batchOf[t.order]].status \in {"planning", "in_progress", "completed"}
    <3>1. t.order \in Orders /\ t.batch \in Batches /\ batchOf[t.order] = t.batch
      BY DeliveringBatch DEF Members
    <3>2. batchOf[t.order] # NoBatch
      BY <3>1, BatchAssumption
    <3> QED
      BY <3>1, <3>2, BatchedOrders DEF DeliveryInv, DeliveriesHold
  <2>2. batches[batchOf[t.order]].status = "in_progress"
    BY <2>1 DEF Story, OrderStory
  <2> QED
    BY <1>2, <1>4, <2>1, <2>2 DEF BatchDeliverStop
<1>5. \A o \in Orders : OrderStory(o)'
  BY <1>3, <1>4
<1>6. AcceptsUnbatched'
  BY <1>1 DEF Story, AcceptsUnbatched
<1> QED
  BY <1>5, <1>6 DEF Story

\* The last delivery settles orders that wait in pickup_assigned, with held money
\* and no ledger row.
LEMMA LastStory ==
    ASSUME Base, BatchesFormed, DeliveryInv, Story,
           NEW t \in delivering, BatchDeliverLast(t)
    PROVE  Story'
<1> USE DEF Base, BatchTypeOK, TypeOK, OrderRow, ShipmentRow, BatchRow, OrderAt, ShipmentAt
<1>1. /\ t.order \in Members(t.batch) /\ t.order \in Orders /\ t.batch \in Batches
      /\ t.batch # NoBatch /\ batchOf[t.order] = t.batch
      /\ shipments[t.order].status = "picked_up"
  BY DeliveringBatch, BatchAssumption DEF DeliveryInv, DeliveriesHold, Members
<1>2. UNCHANGED <<accepting, batchOf>>
  BY DEF BatchDeliverLast
<1>3. batches[t.batch].status = "in_progress"
  <2>1. batches[t.batch].status \in {"planning", "in_progress", "completed"}
    BY <1>1, BatchedOrders
  <2> QED
    BY <1>1, <2>1 DEF Story, OrderStory
<1>4. ASSUME NEW o \in Orders
      PROVE  OrderStory(o)'
  <2>1. CASE o \in Members(t.batch)
    <3>1. batchOf[o] = t.batch
      BY <2>1 DEF Members
    <3>2. orders[o].status = "pickup_assigned" /\ payments[o] = "held" /\ settlements[o] = "none"
      BY <1>1, <1>3, <3>1 DEF Story, OrderStory
    <3>3. shipments'[o].status = "delivered"
      BY <1>1, <2>1 DEF BatchDeliverLast, DeliveryInv, DeliveriesHold
    <3>4. /\ orders'[o].status = "delivered" /\ payments'[o] = "captured"
          /\ settlements'[o] = "settled" /\ batches'[t.batch].status = "completed"
      BY <1>1, <2>1, <3>2 DEF BatchDeliverLast, RecordSettlement
    <3> QED
      BY <1>1, <1>2, <3>1, <3>3, <3>4 DEF OrderStory
  <2>2. CASE o \notin Members(t.batch)
    <3>1. /\ orders'[o] = orders[o] /\ payments'[o] = payments[o]
          /\ shipments'[o] = shipments[o] /\ settlements'[o] = settlements[o]
          /\ batchOf[o] # t.batch /\ \A j \in Batches : j # t.batch => batches'[j] = batches[j]
      BY <1>1, <2>2 DEF BatchDeliverLast, Members
    <3> QED
      BY <1>2, <3>1, BatchedOrders, SameStory DEF Story
  <2> QED
    BY <2>1, <2>2
<1>5. AcceptsUnbatched'
  BY <1>2 DEF Story, AcceptsUnbatched
<1> QED
  BY <1>4, <1>5 DEF Story

\* No request parts the rows of an order while its batch runs undisturbed; overlapping
\* deliveries do not disturb it.
LEMMA StepStory ==
    Base /\ BatchesFormed /\ DeliveryInv /\ StoryInv /\ [FulfilmentNext]_allVars => StoryInv'
<1> SUFFICES ASSUME Base, BatchesFormed, DeliveryInv, StoryInv, [FulfilmentNext]_allVars,
                    interference' \subseteq {"race"}
             PROVE  Story'
  BY DEF StoryInv
<1>1. /\ Story /\ "direct" \notin interference /\ "cancel" \notin interference
  BY DEF StoryInv, FulfilmentNext, DirectNext, allVars, batchVars
<1>2. CASE UNCHANGED <<orders, payments, shipments, settlements, accepting, batches, batchOf>>
  BY <1>1, <1>2, SameStory DEF Story, AcceptsUnbatched
<1>3. CASE DirectNext
  BY <1>1, <1>3, DirectStory
<1>4. CASE BatchNext
  BY <1>1, <1>2, <1>4, CreateStory, StartStory, StopStory, LastStory
  DEF BatchNext, PlanBatch, RejectPlan, BatchDeliverCount, vars
<1>5. CASE UNCHANGED allVars
  BY <1>2, <1>5 DEF allVars, vars, batchVars
<1> QED
  BY <1>3, <1>4, <1>5 DEF FulfilmentNext

\* No order has rows at first.
LEMMA InitStory == BatchInit => StoryInv
BY DEF BatchInit, Init, StoryInv, Story, OrderStory, AcceptsUnbatched

\* A run keeps its driver always, and the rows of its orders agree unless they are
\* carried directly or cancelled as well.
THEOREM BatchRowsAlwaysAgree == FulfilmentSpec => []BatchRowsAgree
<1>1. FulfilmentSpec => []DeliveryInv
  BY InitDelivery, StepDelivery, BaseInvariant, FormedInvariant, PTL DEF FulfilmentSpec
<1>2. FulfilmentSpec => []StoryInv
  BY <1>1, InitStory, StepStory, BaseInvariant, FormedInvariant, PTL DEF FulfilmentSpec
<1>3. Base /\ BatchesFormed /\ RunKeepsItsDriver /\ StoryInv => BatchRowsAgree
  BY StoryTold DEF StoryInv, BatchRowsAgree
<1> QED
  BY <1>2, <1>3, BaseInvariant, FormedInvariant, RunsKeepDriver, PTL

-----------------------------------------------------------------------------
(* A run that is left alone is settled *)

\* One delivery at a time; one that does not complete its batch leaves another stop
\* to serve, and so does a running batch without one.
OneDelivery == \A t, u \in delivering : t = u
StopsLeft ==
    /\ \A t \in delivering : ~t.last =>
          \E o \in Members(t.batch) \ {t.order} : shipments[o].status # "delivered"
    /\ \A k \in Batches :
          batches[k].status = "in_progress" /\ (\A t \in delivering : t.batch # k) =>
             \E o \in Members(k) : shipments[o].status # "delivered"

ServedInv == interference = {} => OneDelivery /\ StopsLeft

\* Without interference the direct handlers leave batched shipments alone.
LEMMA DirectLeavesBatched ==
    ASSUME Base, BatchesFormed, Story, DirectNext, interference = {},
           NEW o \in Orders, batchOf[o] # NoBatch
    PROVE  shipments'[o] = shipments[o]
<1> DEFINE Left == shipments'[o] = shipments[o]
<1>1. ASSUME NEW x \in Orders, batchOf[x] = NoBatch, NEW row,
             shipments' = [shipments EXCEPT ![x] = row]
      PROVE  Left
  BY <1>1 DEF Base, BatchTypeOK, TypeOK
<1>2. ASSUME UNCHANGED shipments
      PROVE  Left
  BY <1>2
<1>3. ASSUME NEW b \in Buyers, NEW x \in Orders, PayOrder(b, x)
      PROVE  Left
  BY <1>1, <1>3, BatchedOrders DEF PayOrder
<1>4. ASSUME NEW x \in Orders, MayCancel(x), CancelOrderTx(x)
      PROVE  Left
  BY <1>1, <1>4 DEF MayCancel, CancelOrderTx
<1>5. ASSUME NEW r \in accepting, AcceptJob(r)
      PROVE  Left
  BY <1>1, <1>5 DEF AcceptJob, Story, AcceptsUnbatched, Base, BatchTypeOK, TypeOK, AcceptRequest
<1>6. ASSUME NEW d \in Drivers, NEW x \in Orders, MayCarryDirectly(x),
             MarkPickedUp(d, x) \/ MarkDelivered(d, x)
      PROVE  Left
  BY <1>1, <1>6 DEF MayCarryDirectly, MarkPickedUp, MarkDelivered
<1>7. ASSUME \/ \E b \in Buyers, x \in Orders, cart \in Carts : CreateOrder(b, x, cart)
             \/ \E x \in Orders : RefundDelivered(x)
      PROVE  Left
  BY <1>2, <1>7 DEF CreateOrder, RefundDelivered
<1> HIDE DEF Left
<1>8. Left
  BY <1>2, <1>3, <1>4, <1>5, <1>6, <1>7, DirectSteps
<1> QED
  BY <1>8 DEF Left

\* A batch whose members and shipments a step leaves alone has the stops left it had.
LEMMA SameStops ==
    ASSUME Base, BatchesFormed, OneDelivery, StopsLeft,
           UNCHANGED delivering,
           \A k \in Batches :
              /\ batches[k].status # "none" => Members(k)' = Members(k)
              /\ batches'[k].status = "in_progress" => batches[k].status = "in_progress",
           \A o \in Orders : batchOf[o] # NoBatch /\ shipments[o].status # "delivered" =>
                                shipments'[o].status # "delivered"
    PROVE  OneDelivery' /\ StopsLeft'
<1>1. \A k \in Batches : \A o \in Members(k) : o \in Orders /\ batchOf[o] # NoBatch
  BY BatchAssumption DEF Members
<1>2. ASSUME NEW t \in delivering, ~t.last
      PROVE  \E o \in Members(t.batch)' \ {t.order} : shipments'[o].status # "delivered"
  <2>1. t.batch \in Batches /\ Members(t.batch)' = Members(t.batch)
    BY DeliveringBatch
  <2> QED
    BY <1>1, <1>2, <2>1 DEF StopsLeft
<1>3. ASSUME NEW k \in Batches, batches'[k].status = "in_progress",
             \A t \in delivering : t.batch # k
      PROVE  \E o \in Members(k)' : shipments'[o].status # "delivered"
  <2>1. batches[k].status = "in_progress" /\ Members(k)' = Members(k)
    BY <1>3
  <2> QED
    BY <1>1, <1>3, <2>1 DEF StopsLeft
<1> QED
  BY <1>2, <1>3 DEF OneDelivery, StopsLeft

\* A batch that starts has all its stops before it.
LEMMA StartStops ==
    ASSUME Base, BatchesFormed, OneDelivery, StopsLeft,
           NEW d \in Drivers, NEW k \in Batches, StartBatch(d, k)
    PROVE  OneDelivery' /\ StopsLeft'
<1> USE DEF Base, BatchTypeOK, TypeOK, BatchRow
<1>1. UNCHANGED <<batchOf, delivering>> /\ \A j \in Batches : Members(j)' = Members(j)
  BY DEF StartBatch, Members
<1>2. \A t \in delivering : t.batch # k /\ t.batch \in Batches
  BY DeliveringBatch DEF StartBatch
<1>3. ASSUME NEW j \in Batches, j # k, NEW o \in Members(j)
      PROVE  shipments'[o] = shipments[o]
  BY <1>3 DEF StartBatch, Members
<1>4. ASSUME NEW t \in delivering, ~t.last
      PROVE  \E o \in Members(t.batch)' \ {t.order} : shipments'[o].status # "delivered"
  <2>1. PICK o \in Members(t.batch) \ {t.order} : shipments[o].status # "delivered"
    BY <1>4 DEF StopsLeft
  <2>2. shipments'[o] = shipments[o] /\ Members(t.batch)' = Members(t.batch)
    BY <1>1, <1>2, <1>3
  <2> QED
    BY <2>1, <2>2
<1>5. ASSUME NEW j \in Batches, batches'[j].status = "in_progress",
             \A t \in delivering : t.batch # j
      PROVE  \E o \in Members(j)' : shipments'[o].status # "delivered"
  <2>1. CASE j = k
    <3>1. Members(k) # {}
      <4>1. Cardinality(Members(k)) >= 2
        BY DEF StartBatch, BatchesFormed
      <4>2. ASSUME Members(k) = {}
            PROVE  Cardinality(Members(k)) = 0
        BY <4>2, FS_EmptySet, Zenon
      <4>3. Cardinality(Members(k)) # 0
        BY <4>1
      <4> QED
        BY <4>2, <4>3, Zenon
    <3>2. \A o \in Members(k) : shipments'[o].status = "assigned"
      BY DEF StartBatch, Members
    <3> QED
      BY <1>1, <2>1, <3>1, <3>2
  <2>2. CASE j # k
    <3>1. batches[j].status = "in_progress"
      BY <1>5, <2>2 DEF StartBatch
    <3>2. PICK o \in Members(j) : shipments[o].status # "delivered"
      BY <1>1, <1>5, <3>1 DEF StopsLeft
    <3>3. shipments'[o] = shipments[o] /\ Members(j)' = Members(j)
      BY <1>1, <1>3, <2>2
    <3> QED
      BY <3>2, <3>3
  <2> QED
    BY <2>1, <2>2
<1> QED
  BY <1>1, <1>4, <1>5 DEF OneDelivery, StopsLeft

\* With no other delivery under way, one counts what is true until it commits.
LEMMA DeliverStops ==
    ASSUME Base, BatchesFormed, OneDelivery, StopsLeft, interference = {},
           \/ \E d \in Drivers, k \in Batches, o \in Orders : BatchDeliverCount(d, k, o)
           \/ \E t \in delivering : BatchDeliverStop(t) \/ BatchDeliverLast(t)
    PROVE  OneDelivery' /\ StopsLeft'
<1> USE DEF Base, BatchTypeOK, TypeOK, ShipmentRow, BatchRow, ShipmentAt
<1>1. UNCHANGED batchOf /\ \A k \in Batches : Members(k)' = Members(k)
  <2>1. UNCHANGED batchOf
    BY DEF BatchDeliverCount, BatchDeliverStop, BatchDeliverLast
  <2> QED
    BY <2>1 DEF Members
<1>2. ASSUME NEW d \in Drivers, NEW k \in Batches, NEW o \in Orders, BatchDeliverCount(d, k, o)
      PROVE  OneDelivery' /\ StopsLeft'
  <2> DEFINE new == [driver |-> d, batch |-> k, order |-> o, last |-> AllServed(k, o)]
  <2>1. delivering = {} /\ delivering' = {new} /\ UNCHANGED <<shipments, batches>>
    BY <1>2 DEF BatchDeliverCount, vars
  <2>2. ~new.last => \E x \in Members(k) \ {o} : shipments[x].status # "delivered"
    BY DEF AllServed
  <2>3. \A t \in delivering' : ~t.last =>
           \E x \in Members(t.batch)' \ {t.order} : shipments'[x].status # "delivered"
    BY <1>1, <2>1, <2>2
  <2>4. ASSUME NEW j \in Batches, batches'[j].status = "in_progress"
        PROVE  \E x \in Members(j)' : shipments'[x].status # "delivered"
    BY <1>1, <2>1, <2>4 DEF StopsLeft
  <2>5. OneDelivery'
    BY <2>1 DEF OneDelivery
  <2> QED
    BY <2>3, <2>4, <2>5 DEF StopsLeft
<1>3. ASSUME NEW t \in delivering, BatchDeliverStop(t) \/ BatchDeliverLast(t)
      PROVE  OneDelivery' /\ StopsLeft'
  <2>1. /\ delivering' = {} /\ delivering = {t}
        /\ shipments' = [shipments EXCEPT ![t.order] = ShipmentAt(@, "delivered")]
    BY <1>3 DEF BatchDeliverStop, BatchDeliverLast, OneDelivery
  <2>2. t.order \in Members(t.batch) /\ t.batch \in Batches
    BY DeliveringBatch
  <2>3. ASSUME NEW j \in Batches, batches'[j].status = "in_progress"
        PROVE  \E o \in Members(j)' : shipments'[o].status # "delivered"
    <3>1. CASE j = t.batch
      <4>1. BatchDeliverStop(t) /\ ~t.last
        BY <1>3, <2>2, <2>3, <3>1 DEF BatchDeliverStop, BatchDeliverLast
      <4>2. PICK o \in Members(t.batch) \ {t.order} : shipments[o].status # "delivered"
        BY <4>1 DEF StopsLeft
      <4>3. shipments'[o] = shipments[o]
        BY <2>1, <4>2 DEF Members
      <4> QED
        BY <1>1, <3>1, <4>2, <4>3
    <3>2. CASE j # t.batch
      <4>1. batches[j].status = "in_progress" /\ t.order \notin Members(j)
        BY <1>3, <2>2, <2>3, <3>2 DEF BatchDeliverStop, BatchDeliverLast, Members
      <4>2. PICK o \in Members(j) : shipments[o].status # "delivered"
        BY <2>1, <3>2, <4>1 DEF StopsLeft
      <4>3. shipments'[o] = shipments[o]
        BY <2>1, <4>1, <4>2 DEF Members
      <4> QED
        BY <1>1, <4>2, <4>3
    <3> QED
      BY <3>1, <3>2
  <2> QED
    BY <2>1, <2>3 DEF OneDelivery, StopsLeft
<1> QED
  BY <1>2, <1>3

\* No request leaves a running batch without a stop to serve or a delivery to settle it.
LEMMA StepServed ==
    Base /\ BatchesFormed /\ StoryInv /\ ServedInv /\ [FulfilmentNext]_allVars => ServedInv'
<1> SUFFICES ASSUME Base, BatchesFormed, StoryInv, ServedInv, [FulfilmentNext]_allVars,
                    interference' = {}
             PROVE  OneDelivery' /\ StopsLeft'
  BY DEF ServedInv
<1>1. interference = {} /\ Story /\ OneDelivery /\ StopsLeft
  BY DEF ServedInv, StoryInv, FulfilmentNext, DirectNext, allVars, batchVars
<1>2. \A k \in Batches : batches[k].status # "none" => Members(k)' = Members(k)
  BY BatchOfSteps
<1>3. CASE UNCHANGED <<shipments, batches, delivering>>
  BY <1>1, <1>2, <1>3, SameStops
<1>4. CASE DirectNext
  <2>1. UNCHANGED <<batches, delivering>>
    BY <1>4 DEF DirectNext, batchVars
  <2> QED
    BY <1>1, <1>2, <1>4, <2>1, DirectLeavesBatched, SameStops
<1>5. ASSUME NEW r \in planning, CreateBatch(r)
      PROVE  OneDelivery' /\ StopsLeft'
  <2>1. UNCHANGED <<shipments, delivering>>
    BY <1>5 DEF CreateBatch, vars
  <2>2. \A k \in Batches : batches'[k].status = "in_progress" => batches[k].status = "in_progress"
    BY <1>5 DEF CreateBatch, Base, BatchTypeOK
  <2> QED
    BY <1>1, <1>2, <2>1, <2>2, SameStops
<1>6. ASSUME NEW d \in Drivers, NEW k \in Batches, NEW x \in Orders, BatchPickup(d, k, x)
      PROVE  OneDelivery' /\ StopsLeft'
  <2>1. UNCHANGED <<batches, delivering>>
    BY <1>6 DEF BatchPickup
  <2>2. \A o \in Orders : shipments[o].status # "delivered" => shipments'[o].status # "delivered"
    BY <1>6 DEF BatchPickup, Base, BatchTypeOK, TypeOK, ShipmentRow, ShipmentAt
  <2> QED
    BY <1>1, <1>2, <2>1, <2>2, SameStops
<1>7. CASE BatchNext
  BY <1>1, <1>3, <1>5, <1>6, <1>7, StartStops, DeliverStops
  DEF BatchNext, PlanBatch, RejectPlan, vars
<1>8. CASE UNCHANGED allVars
  BY <1>3, <1>8 DEF allVars, vars, batchVars
<1> QED
  BY <1>4, <1>7, <1>8 DEF FulfilmentNext

\* Nothing runs at first.
LEMMA InitServed == BatchInit => ServedInv
BY DEF BatchInit, ServedInv, OneDelivery, StopsLeft

\* Left alone, a batch whose every stop is served has been settled.
THEOREM ServedRunsSettle == FulfilmentSpec => [](interference = {} => ServedMeansSettled)
<1>1. FulfilmentSpec => []DeliveryInv
  BY InitDelivery, StepDelivery, BaseInvariant, FormedInvariant, PTL DEF FulfilmentSpec
<1>2. FulfilmentSpec => []StoryInv
  BY <1>1, InitStory, StepStory, BaseInvariant, FormedInvariant, PTL DEF FulfilmentSpec
<1>3. FulfilmentSpec => []ServedInv
  BY <1>2, InitServed, StepServed, BaseInvariant, FormedInvariant, PTL DEF FulfilmentSpec
<1>4. StoryInv /\ ServedInv => (interference = {} => ServedMeansSettled)
  <2> SUFFICES ASSUME Story, StopsLeft, NEW k \in Batches,
                      batches[k].status = "in_progress",
                      \A t \in delivering : t.batch # k,
                      \A o \in Members(k) : shipments[o].status \in {"delivered", "cancelled"}
               PROVE  FALSE
    BY DEF StoryInv, ServedInv, ServedMeansSettled
  <2>1. \A o \in Members(k) : shipments[o].status \in {"assigned", "picked_up", "delivered"}
    BY BatchAssumption DEF Story, OrderStory, Members
  <2> QED
    BY <2>1 DEF StopsLeft
<1> QED
  BY <1>2, <1>3, <1>4, PTL

-----------------------------------------------------------------------------
(* Payouts of batches, whatever is cancelled and however deliveries overlap *)

\* A batched order is delivered with its batch, any other with its shipment, and
\* no shipment of a planned batch is on the road.
PaidStage(o) ==
    /\ batchOf[o] = NoBatch =>
          (shipments[o].status = "delivered" <=> orders[o].status = "delivered")
    /\ batchOf[o] # NoBatch =>
          /\ orders[o].status = "delivered" <=> batches[batchOf[o]].status = "completed"
          /\ batches[batchOf[o]].status = "planning" =>
                shipments[o].status \in {"unassigned", "cancelled"}

PaidRows(o) ==
    /\ \A s \in Sellers :
          Rows(o, s) = IF orders[o].status = "delivered" /\ s \in SellersIn(orders[o].items)
                       THEN 1 ELSE 0
    /\ orders[o].status # "delivered" => \A d \in Drivers : Rows(o, d) = 0

\* A delivery is made by the driver of its batch, before the batch is completed.
DriverDelivers ==
    \A t \in delivering : /\ batches[t.batch].status = "in_progress"
                          /\ t.driver = batches[t.batch].driver

\* The driver of a completed batch is paid on one of its orders.
DriverPaidOnFirst ==
    \A k \in Batches : batches[k].status = "completed" =>
        \E first \in Members(k) : \A o \in Members(k), d \in Drivers :
            Rows(o, d) = IF o = first /\ d = batches[k].driver THEN 1 ELSE 0

\* BatchPaysOnce says of a batch under way only that its driver is owed nothing; the
\* delivery that settles it must find every row of its orders unpaid, though a
\* cancellation may have parted orders and shipments meanwhile.
Paid ==
    /\ AcceptsUnbatched
    /\ \A o \in Orders : PaidStage(o) /\ PaidRows(o)
    /\ DriverDelivers
    /\ DriverPaidOnFirst

PaidInv == "direct" \notin interference => Paid

\* An order keeps what was paid for it, and the stage it was paid at, if the step
\* delivers nothing and runs no payouts for it.
LEMMA SamePaid ==
    ASSUME Base, NEW o \in Orders, PaidStage(o), PaidRows(o),
           payouts'[o] = payouts[o], batchOf'[o] = batchOf[o],
           batchOf[o] # NoBatch => batches'[batchOf[o]].status = batches[batchOf[o]].status,
           orders'[o].status = "delivered" <=> orders[o].status = "delivered",
           orders[o].status = "delivered" => orders'[o].items = orders[o].items,
           batchOf[o] = NoBatch =>
              (shipments'[o].status = "delivered" <=> shipments[o].status = "delivered"),
           batchOf[o] # NoBatch /\ batches[batchOf[o]].status = "planning" =>
              shipments'[o].status \in {shipments[o].status, "cancelled"}
    PROVE  PaidStage(o)' /\ PaidRows(o)'
<1>1. \A p \in Payees : Rows(o, p)' = Rows(o, p)
  BY DEF Rows
<1>2. PaidStage(o)'
  BY DEF PaidStage
<1>3. PaidRows(o)'
  BY <1>1 DEF PaidRows, Payees
<1> QED
  BY <1>2, <1>3

\* What a completed batch has paid its driver stays, if the step pays for none of its
\* orders.
LEMMA SamePaidOnFirst ==
    ASSUME Base, DriverPaidOnFirst, NEW k \in Batches,
           batches[k].status = "completed", batches'[k] = batches[k],
           Members(k)' = Members(k), \A o \in Members(k) : payouts'[o] = payouts[o]
    PROVE  \E first \in Members(k)' : \A o \in Members(k)', d \in Drivers :
              Rows(o, d)' = IF o = first /\ d = batches'[k].driver THEN 1 ELSE 0
BY DEF DriverPaidOnFirst, Rows

\* The direct handlers: only markDelivered pays, for an order that is in no batch and
\* that was not delivered.
LEMMA DirectOrderPaid ==
    ASSUME Base, BatchesFormed, Paid, DirectNext, "direct" \notin interference,
           NEW o \in Orders
    PROVE  /\ PaidStage(o)' /\ PaidRows(o)'
           /\ batchOf[o] # NoBatch => payouts'[o] = payouts[o]
<1> USE DEF Base, BatchTypeOK, TypeOK, OrderRow, ShipmentRow, OrderAt, ShipmentAt
<1> DEFINE Kept == /\ PaidStage(o)' /\ PaidRows(o)'
                   /\ batchOf[o] # NoBatch => payouts'[o] = payouts[o]
<1>1. UNCHANGED <<batches, batchOf>> /\ PaidStage(o) /\ PaidRows(o)
  BY DEF DirectNext, batchVars, Paid
<1>2. ASSUME payouts'[o] = payouts[o],
             orders'[o].status = "delivered" <=> orders[o].status = "delivered",
             orders[o].status = "delivered" => orders'[o].items = orders[o].items,
             batchOf[o] = NoBatch =>
                (shipments'[o].status = "delivered" <=> shipments[o].status = "delivered"),
             batchOf[o] # NoBatch /\ batches[batchOf[o]].status = "planning" =>
                shipments'[o].status \in {shipments[o].status, "cancelled"}
      PROVE  Kept
  BY <1>1, <1>2, SamePaid
<1>3. ASSUME NEW b \in Buyers, NEW x \in Orders, NEW cart \in Carts, CreateOrder(b, x, cart)
      PROVE  Kept
  BY <1>2, <1>3 DEF CreateOrder
<1>4. ASSUME NEW b \in Buyers, NEW x \in Orders, PayOrder(b, x)
      PROVE  Kept
  <2>1. x = o => batchOf[o] = NoBatch /\ shipments[o].status # "delivered"
    BY <1>1, <1>4, BatchedOrders DEF PayOrder, PaidStage
  <2> QED
    BY <1>2, <1>4, <2>1 DEF PayOrder
<1>5. ASSUME NEW x \in Orders, MayCancel(x), CancelOrderTx(x)
      PROVE  Kept
  <2>1. x = o => orders[o].status # "delivered"
    BY <1>5 DEF CancelOrderTx, Cancellable
  <2>2. /\ payouts'[o] = payouts[o]
        /\ orders'[o].status = "delivered" <=> orders[o].status = "delivered"
        /\ orders[o].status = "delivered" => orders'[o].items = orders[o].items
    BY <1>5, <2>1 DEF CancelOrderTx
  <2>3. /\ shipments'[o].status \in {shipments[o].status, "cancelled"}
        /\ shipments[o].status = "delivered" => shipments'[o].status = "delivered"
    BY <1>5 DEF CancelOrderTx
  <2> QED
    BY <1>2, <2>2, <2>3
<1>6. ASSUME NEW x \in Orders, RefundDelivered(x)
      PROVE  Kept
  BY <1>2, <1>6 DEF RefundDelivered
<1>7. ASSUME NEW r \in accepting, AcceptJob(r)
      PROVE  Kept
  <2>1. r.order \in Orders /\ batchOf[r.order] = NoBatch
    BY DEF AcceptRequest, Paid, AcceptsUnbatched
  <2>2. r.order = o => orders[o].status # "delivered"
    BY <1>1, <1>7, <2>1 DEF AcceptJob, Acceptable, PaidStage
  <2> QED
    BY <1>2, <1>7, <2>1, <2>2 DEF AcceptJob, Acceptable
<1>8. ASSUME NEW d \in Drivers, NEW x \in Orders, MayCarryDirectly(x), MarkPickedUp(d, x)
      PROVE  Kept
  <2>1. x = o => batchOf[o] = NoBatch /\ orders[o].status # "delivered"
    BY <1>1, <1>8 DEF MayCarryDirectly, MarkPickedUp, PaidStage
  <2> QED
    BY <1>2, <1>8, <2>1 DEF MarkPickedUp
<1>9. ASSUME NEW d \in Drivers, NEW x \in Orders, MayCarryDirectly(x), MarkDelivered(d, x)
      PROVE  Kept
  <2>1. CASE x # o
    BY <1>2, <1>9, <2>1 DEF MarkDelivered
  <2>2. CASE x = o
    <3> DEFINE sellers == SellersIn(orders[o].items)
               owed == sellers \cup {d}
    <3>1. batchOf[o] = NoBatch /\ orders[o].status # "delivered"
      BY <1>1, <1>9, <2>2 DEF MayCarryDirectly, MarkDelivered, PaidStage
    <3>2. /\ orders'[o].status = "delivered" /\ orders'[o].items = orders[o].items
          /\ shipments'[o].status = "delivered"
      BY <1>9, <2>2 DEF MarkDelivered
    <3>3. sellers \in SUBSET Sellers /\ owed \in SUBSET Payees
      BY SellersInAreSellers DEF Payees
    <3>4. PICK outcome \in [owed -> GatewayOutcomes] :
            payouts' = [payouts EXCEPT ![o] = RunPayouts(@, outcome)]
      BY <1>9, <2>2 DEF MarkDelivered
    <3>5. ASSUME NEW s \in Sellers
          PROVE  Rows(o, s)' = IF s \in sellers THEN 1 ELSE 0
      <4>1. payouts'[o] = RunPayouts(payouts[o], outcome)
        BY <3>4
      <4>2. s \in Payees /\ s # d /\ Rows(o, s) = 0
        BY <1>1, <3>1, PartiesAssumption DEF Payees, PaidRows
      <4>3. s \in owed <=> s \in sellers
        BY <4>2
      <4> HIDE DEF owed, sellers
      <4>4. /\ s \in owed => Rows(o, s)' = Rows(o, s) + 1
            /\ s \notin owed => Rows(o, s)' = Rows(o, s)
        BY <3>3, <4>1, <4>2, PayoutRows
      <4> QED
        BY <4>2, <4>3, <4>4
    <3>6. PaidStage(o)'
      BY <1>1, <3>1, <3>2 DEF PaidStage
    <3>7. PaidRows(o)'
      BY <3>2, <3>5 DEF PaidRows
    <3> QED
      BY <3>1, <3>6, <3>7
  <2> QED
    BY <2>1, <2>2
<1>10. ASSUME UNCHANGED <<orders, payments, shipments, settlements>>, UNCHANGED payouts
       PROVE  Kept
  BY <1>2, <1>10
<1> HIDE DEF Kept
<1>11. \/ UNCHANGED payouts
       \/ \E d \in Drivers, x \in Orders : MayCarryDirectly(x) /\ MarkDelivered(d, x)
  BY DEF DirectNext, CreateOrder, PayOrder, BuyerCancel, CancelOrderTx, RefundDelivered,
         VerifyDriver, UpsertProfile, AcceptCheck, AcceptJob, RejectAccept, MarkPickedUp
<1>12. Kept
  BY <1>3, <1>4, <1>5, <1>6, <1>7, <1>8, <1>9, <1>10, <1>11, DirectSteps
<1> QED
  BY <1>12 DEF Kept

\* No direct handler pays for an order that is in a batch.
LEMMA DirectPaid ==
    ASSUME Base, BatchesFormed, Paid, DirectNext, "direct" \notin interference
    PROVE  Paid'
<1>1. UNCHANGED <<batches, batchOf, delivering>>
  BY DEF DirectNext, batchVars
<1>2. ASSUME NEW k \in Batches, batches'[k].status = "completed"
      PROVE  \E first \in Members(k)' : \A o \in Members(k)', d \in Drivers :
                Rows(o, d)' = IF o = first /\ d = batches'[k].driver THEN 1 ELSE 0
  <2>1. Members(k)' = Members(k)
    BY <1>1 DEF Members
  <2>2. \A o \in Members(k) : payouts'[o] = payouts[o]
    BY BatchAssumption, DirectOrderPaid DEF Members
  <2> QED
    BY <1>1, <1>2, <2>1, <2>2, SamePaidOnFirst DEF Paid
<1>3. DriverDelivers' /\ DriverPaidOnFirst'
  BY <1>1, <1>2 DEF Paid, DriverDelivers, DriverPaidOnFirst
<1>4. AcceptsUnbatched'
  BY DirectAccepts DEF Paid
<1> QED
  BY <1>3, <1>4, DirectOrderPaid DEF Paid

\* A batch step that runs no payouts and completes no batch keeps what was paid, if
\* it keeps the stage of every order and delivery.
LEMMA UnpaidStep ==
    ASSUME Base, BatchesFormed, Paid, [FulfilmentNext]_allVars,
           UNCHANGED <<payouts, accepting>>, AcceptsUnbatched',
           \A o \in Orders : PaidStage(o)' /\ PaidRows(o)',
           DriverDelivers',
           \A k \in Batches : batches'[k].status = "completed" => batches'[k] = batches[k]
    PROVE  Paid'
<1>1. ASSUME NEW k \in Batches, batches'[k].status = "completed"
      PROVE  \E first \in Members(k)' : \A o \in Members(k)', d \in Drivers :
                Rows(o, d)' = IF o = first /\ d = batches'[k].driver THEN 1 ELSE 0
  <2>1. Members(k)' = Members(k)
    BY <1>1, BatchOfSteps
  <2> QED
    BY <1>1, <2>1, SamePaidOnFirst DEF Paid
<1> QED
  BY <1>1 DEF Paid, DriverPaidOnFirst

\* createBatch takes shipments that wait for a driver: nothing was paid for them.
LEMMA CreatePaid ==
    ASSUME Base, BatchesFormed, Paid, [FulfilmentNext]_allVars, "direct" \notin interference,
           NEW r \in planning, MayBatch(r.members), CreateBatch(r)
    PROVE  Paid'
<1> USE DEF Base, BatchTypeOK
<1>1. PICK k \in Batches :
        /\ batches[k].status = "none"
        /\ batches' = [batches EXCEPT ![k] = [status |-> "planning", driver |-> r.driver]]
        /\ batchOf' = [o \in Orders |-> IF o \in r.members THEN k ELSE batchOf[o]]
  BY DEF CreateBatch
<1>2. /\ UNCHANGED <<orders, shipments, payouts, accepting, delivering>>
      /\ \A o \in r.members : shipments[o].status = "unassigned" /\ batchOf[o] = NoBatch
      /\ k # NoBatch
  BY BatchAssumption DEF CreateBatch, vars, Batchable
<1>3. ASSUME NEW o \in Orders
      PROVE  PaidStage(o)' /\ PaidRows(o)'
  <2>1. PaidStage(o) /\ PaidRows(o)
    BY DEF Paid
  <2>2. PaidRows(o)'
    BY <1>2, <2>1 DEF PaidRows, Rows
  <2>3. CASE o \in r.members
    <3>1. orders[o].status # "delivered" /\ batchOf'[o] = k /\ batches'[k].status = "planning"
      BY <1>1, <1>2, <2>1, <2>3 DEF PaidStage
    <3> QED
      BY <1>2, <2>2, <2>3, <3>1 DEF PaidStage
  <2>4. CASE o \notin r.members
    <3>1. batchOf'[o] = batchOf[o] /\ batchOf[o] # k
      BY <1>1, <1>2, <2>4, BatchedOrders
    <3>2. batchOf[o] # NoBatch => batches'[batchOf[o]] = batches[batchOf[o]]
      BY <1>1, <3>1
    <3> QED
      BY <1>2, <2>1, <2>2, <3>1, <3>2 DEF PaidStage
  <2> QED
    BY <2>3, <2>4
<1>4. DriverDelivers'
  BY <1>1, <1>2, DeliveringBatch DEF Paid, DriverDelivers
<1>5. AcceptsUnbatched'
  BY CreateAccepts DEF Paid
<1>6. \A j \in Batches : batches'[j].status = "completed" => batches'[j] = batches[j]
  BY <1>1
<1> QED
  BY <1>2, <1>3, <1>4, <1>5, <1>6, UnpaidStep

\* startBatch revives what was cancelled, and even then finds nothing paid.
LEMMA StartPaid ==
    ASSUME Base, BatchesFormed, Paid, [FulfilmentNext]_allVars,
           NEW d \in Drivers, NEW k \in Batches, StartBatch(d, k)
    PROVE  Paid'
<1> USE DEF Base, BatchTypeOK, TypeOK, OrderRow, BatchRow, OrderAt
<1>1. UNCHANGED <<payouts, accepting, batchOf, delivering>>
  BY DEF StartBatch
<1>2. ASSUME NEW o \in Orders
      PROVE  PaidStage(o)' /\ PaidRows(o)'
  <2>1. PaidStage(o) /\ PaidRows(o)
    BY DEF Paid
  <2>2. CASE o \in Members(k)
    <3>1. /\ batchOf[o] = k /\ k # NoBatch /\ batches[k].status = "planning"
          /\ batches'[k].status = "in_progress" /\ orders'[o].status = "pickup_assigned"
      BY <2>2, BatchAssumption DEF StartBatch, Members
    <3>2. orders[o].status # "delivered"
      BY <2>1, <3>1 DEF PaidStage
    <3>3. PaidRows(o)'
      BY <1>1, <2>1, <3>1, <3>2 DEF PaidRows, Rows
    <3> QED
      BY <1>1, <3>1, <3>3 DEF PaidStage
  <2>3. CASE o \notin Members(k)
    <3>1. /\ batchOf[o] # k /\ orders'[o] = orders[o] /\ shipments'[o] = shipments[o]
          /\ \A j \in Batches : j # k => batches'[j] = batches[j]
      BY <2>3 DEF StartBatch, Members
    <3> QED
      BY <1>1, <2>1, <3>1, BatchedOrders, SamePaid
  <2> QED
    BY <2>2, <2>3
<1>3. ASSUME NEW t \in delivering
      PROVE  batches'[t.batch].status = "in_progress" /\ t.driver = batches'[t.batch].driver
  <2>1. /\ t.batch \in Batches /\ batches[t.batch].status = "in_progress"
        /\ t.driver = batches[t.batch].driver
    BY DeliveringBatch DEF Paid, DriverDelivers
  <2> QED
    BY <2>1 DEF StartBatch
<1>4. DriverDelivers' /\ AcceptsUnbatched'
  BY <1>1, <1>3 DEF Paid, DriverDelivers, AcceptsUnbatched
<1>5. \A j \in Batches : batches'[j].status = "completed" => batches'[j] = batches[j]
  BY DEF StartBatch
<1> QED
  BY <1>1, <1>2, <1>4, <1>5, UnpaidStep

\* A pickup and a stop leave the order where it is.
LEMMA StopPaid ==
    ASSUME Base, BatchesFormed, Paid, [FulfilmentNext]_allVars,
           \/ \E d \in Drivers, k \in Batches, o \in Orders : BatchPickup(d, k, o)
           \/ \E t \in delivering : BatchDeliverStop(t)
    PROVE  Paid'
<1> USE DEF Base, BatchTypeOK, TypeOK, ShipmentRow, ShipmentAt
<1>1. /\ UNCHANGED <<orders, payouts, accepting, batches, batchOf>>
      /\ delivering' \subseteq delivering
  BY DEF BatchPickup, BatchDeliverStop
<1>2. PICK x \in Orders : /\ batchOf[x] \in Batches
                          /\ batches[batchOf[x]].status = "in_progress"
                          /\ \A o \in Orders : o # x => shipments'[o] = shipments[o]
  <2>1. ASSUME NEW d \in Drivers, NEW k \in Batches, NEW x \in Orders, BatchPickup(d, k, x)
        PROVE  /\ batchOf[x] \in Batches
               /\ batches[batchOf[x]].status = "in_progress"
               /\ \A o \in Orders : o # x => shipments'[o] = shipments[o]
    BY <2>1 DEF BatchPickup
  <2>2. ASSUME NEW t \in delivering, BatchDeliverStop(t)
        PROVE  /\ t.order \in Orders /\ batchOf[t.order] \in Batches
               /\ batches[batchOf[t.order]].status = "in_progress"
               /\ \A o \in Orders : o # t.order => shipments'[o] = shipments[o]
    BY <2>2, DeliveringBatch DEF BatchDeliverStop, Paid, DriverDelivers, Members
  <2> QED
    BY <2>1, <2>2
<1>3. ASSUME NEW o \in Orders
      PROVE  PaidStage(o)' /\ PaidRows(o)'
  <2>1. PaidStage(o) /\ PaidRows(o) /\ batchOf[x] # NoBatch
    BY <1>2, BatchAssumption DEF Paid
  <2>2. o # x => shipments'[o] = shipments[o]
    BY <1>2
  <2>3. PaidRows(o)'
    BY <1>1, <2>1 DEF PaidRows, Rows
  <2>4. PaidStage(o)'
    BY <1>1, <1>2, <2>1, <2>2 DEF PaidStage
  <2> QED
    BY <2>3, <2>4
<1>4. DriverDelivers' /\ AcceptsUnbatched'
  BY <1>1 DEF Paid, DriverDelivers, AcceptsUnbatched
<1> QED
  BY <1>1, <1>3, <1>4, UnpaidStep

\* Only a running batch has a shipment to deliver, and it is its driver's.
LEMMA CountPaid ==
    ASSUME Base, BatchesFormed, CompletedMeansDelivered, RunKeepsItsDriver, Paid,
           [FulfilmentNext]_allVars,
           NEW d \in Drivers, NEW k \in Batches, NEW o \in Orders, BatchDeliverCount(d, k, o)
    PROVE  Paid'
<1>1. /\ UNCHANGED <<orders, shipments, payouts, accepting, batches, batchOf>>
      /\ batchOf[o] = k /\ o \in Members(k) /\ k # NoBatch
      /\ shipments[o].status = "picked_up" /\ shipments[o].driver = d
  BY BatchAssumption DEF BatchDeliverCount, vars, Members
<1>2. batches[k].status = "in_progress"
  <2>1. batches[k].status \in {"planning", "in_progress", "completed"}
    BY <1>1, BatchedOrders
  <2>2. batches[k].status # "completed"
    BY <1>1 DEF CompletedMeansDelivered
  <2>3. batches[k].status # "planning"
    BY <1>1 DEF Paid, PaidStage
  <2> QED
    BY <2>1, <2>2, <2>3
<1>3. batches[k].driver = d
  BY <1>1, <1>2 DEF RunKeepsItsDriver
<1>4. DriverDelivers'
  BY <1>1, <1>2, <1>3 DEF BatchDeliverCount, Paid, DriverDelivers
<1>5. \A x \in Orders : PaidStage(x)' /\ PaidRows(x)'
  BY <1>1 DEF Paid, PaidStage, PaidRows, Rows
<1>6. AcceptsUnbatched'
  BY <1>1 DEF Paid, AcceptsUnbatched
<1> QED
  BY <1>1, <1>4, <1>5, <1>6, UnpaidStep

\* The delivery that completes a batch gives each seller of its orders the one row,
\* and the driver one on the first order.
LEMMA LastPaid ==
    ASSUME Base, BatchesFormed, DeliveryInv, Paid,
           NEW t \in delivering, BatchDeliverLast(t)
    PROVE  Paid'
<1> USE DEF Base, BatchTypeOK, TypeOK, OrderRow, ShipmentRow, BatchRow, OrderAt, ShipmentAt
<1> DEFINE members == Members(t.batch)
           sellers(o) == SellersIn(orders[o].items)
           owed(first, o) == sellers(o) \cup (IF o = first THEN {t.driver} ELSE {})
<1>1. /\ t.order \in members /\ t.batch \in Batches /\ t.batch # NoBatch
      /\ t.driver \in Drivers /\ t.driver = batches[t.batch].driver
      /\ batches[t.batch].status = "in_progress"
  BY DeliveringBatch, BatchAssumption DEF Paid, DriverDelivers
<1>2. /\ UNCHANGED <<accepting, batchOf>> /\ delivering' = delivering \ {t}
      /\ batches' = [batches EXCEPT ![t.batch].status = "completed"]
      /\ \A k \in Batches : Members(k)' = Members(k)
  BY DEF BatchDeliverLast, Members
<1>3. PICK first \in members, status \in [members \X Payees -> GatewayOutcomes] :
        payouts' = [o \in Orders |->
              IF o \in members
              THEN RunPayouts(payouts[o], [p \in owed(first, o) |-> status[<<o, p>>]])
              ELSE payouts[o]]
  BY DEF BatchDeliverLast
<1>4. ASSUME NEW o \in members
      PROVE  /\ o \in Orders /\ batchOf[o] = t.batch
             /\ orders[o].status # "delivered"
             /\ orders'[o].status = "delivered" /\ orders'[o].items = orders[o].items
             /\ sellers(o) \in SUBSET Sellers
             /\ \A p \in Payees : Rows(o, p)' = IF p \in owed(first, o) THEN 1 ELSE 0
  <2>1. o \in Orders /\ batchOf[o] = t.batch
    BY DEF Members
  <2>2. PaidStage(o) /\ PaidRows(o)
    BY <2>1 DEF Paid
  <2>3. orders[o].status # "delivered"
    BY <1>1, <2>1, <2>2 DEF PaidStage
  <2>4. orders'[o].status = "delivered" /\ orders'[o].items = orders[o].items
    BY <2>1 DEF BatchDeliverLast
  <2>5. sellers(o) \in SUBSET Sellers
    BY <2>1, SellersInAreSellers
  <2>6. owed(first, o) \in SUBSET Payees
    BY <1>1, <2>5 DEF Payees
  <2>7. [p \in owed(first, o) |-> status[<<o, p>>]] \in [owed(first, o) -> GatewayOutcomes]
    BY <2>6
  <2>8. payouts'[o] = RunPayouts(payouts[o], [p \in owed(first, o) |-> status[<<o, p>>]])
    BY <1>3, <2>1
  <2>9. \A p \in Payees : Rows(o, p) = 0
    BY <2>2, <2>3 DEF PaidRows, Payees
  <2>10. \A p \in Payees : Rows(o, p)' = IF p \in owed(first, o) THEN 1 ELSE 0
    <3> HIDE DEF owed
    <3>1. \A p \in Payees : /\ p \in owed(first, o) => Rows(o, p)' = Rows(o, p) + 1
                            /\ p \notin owed(first, o) => Rows(o, p)' = Rows(o, p)
      BY <2>1, <2>6, <2>7, <2>8, PayoutRows
    <3> QED
      BY <2>9, <3>1
  <2> HIDE DEF owed, sellers
  <2> QED
    BY <2>1, <2>3, <2>4, <2>5, <2>10
<1>5. ASSUME NEW o \in Orders, o \notin members
      PROVE  /\ PaidStage(o)' /\ PaidRows(o)' /\ payouts'[o] = payouts[o]
  <2>1. /\ orders'[o] = orders[o] /\ payouts'[o] = payouts[o] /\ batchOf[o] # t.batch
        /\ shipments'[o] = shipments[o]
    BY <1>1, <1>3, <1>5 DEF BatchDeliverLast, Members
  <2>2. batchOf[o] # NoBatch => batches'[batchOf[o]] = batches[batchOf[o]]
    BY <1>2, <2>1
  <2> QED
    BY <1>2, <2>1, <2>2, SamePaid DEF Paid
<1>6. ASSUME NEW o \in members
      PROVE  PaidStage(o)' /\ PaidRows(o)'
  <2>1. PaidStage(o)'
    BY <1>1, <1>2, <1>4 DEF PaidStage
  <2>2. \A s \in Sellers : s \in Payees /\ (s \in owed(first, o) <=> s \in sellers(o))
    BY <1>1, PartiesAssumption DEF Payees
  <2>3. PaidRows(o)'
    BY <1>4, <2>2 DEF PaidRows
  <2> QED
    BY <2>1, <2>3
<1>7. ASSUME NEW k \in Batches, batches'[k].status = "completed"
      PROVE  \E one \in Members(k)' : \A o \in Members(k)', d \in Drivers :
                Rows(o, d)' = IF o = one /\ d = batches'[k].driver THEN 1 ELSE 0
  <2>1. CASE k = t.batch
    <3>1. batches'[k].driver = t.driver /\ Members(k)' = members
      BY <1>1, <1>2, <2>1
    <3>2. ASSUME NEW o \in members, NEW d \in Drivers
          PROVE  Rows(o, d)' = IF o = first /\ d = t.driver THEN 1 ELSE 0
      <4>1. d \in Payees /\ (d \in owed(first, o) <=> o = first /\ d = t.driver)
        BY <1>4, PartiesAssumption DEF Payees
      <4> QED
        BY <1>4, <4>1
    <3> QED
      BY <3>1, <3>2
  <2>2. CASE k # t.batch
    <3>1. /\ batches'[k] = batches[k] /\ Members(k)' = Members(k)
          /\ \A o \in Members(k) : o \in Orders /\ o \notin members
      BY <1>2, <2>2 DEF Members
    <3> QED
      BY <1>5, <1>7, <3>1, SamePaidOnFirst DEF Paid
  <2> QED
    BY <2>1, <2>2
<1>8. ASSUME NEW u \in delivering'
      PROVE  batches'[u.batch].status = "in_progress" /\ u.driver = batches'[u.batch].driver
  <2>1. /\ u \in delivering /\ u # t /\ u.batch \in Batches /\ u.order \in Members(u.batch)
        /\ batches[u.batch].status = "in_progress" /\ u.driver = batches[u.batch].driver
    BY <1>2, DeliveringBatch DEF Paid, DriverDelivers
  <2>2. u.order # t.order /\ shipments[u.order].status = "picked_up" /\ t.last
    BY <2>1 DEF DeliveryInv, DeliveriesHold, BatchDeliverLast
  <2>3. u.batch # t.batch
    BY <2>1, <2>2 DEF DeliveryInv, DeliveriesHold
  <2> QED
    BY <1>2, <2>1, <2>3
<1>9. AcceptsUnbatched'
  BY <1>2 DEF Paid, AcceptsUnbatched
<1> QED
  BY <1>5, <1>6, <1>7, <1>8, <1>9 DEF Paid, DriverDelivers, DriverPaidOnFirst

\* No request pays anybody twice for a batch, or before it is settled.
LEMMA StepPaid ==
    Base /\ BatchesFormed /\ DeliveryInv /\ RunKeepsItsDriver /\ PaidInv
        /\ [FulfilmentNext]_allVars => PaidInv'
<1> SUFFICES ASSUME Base, BatchesFormed, DeliveryInv, RunKeepsItsDriver, PaidInv,
                    [FulfilmentNext]_allVars, "direct" \notin interference'
             PROVE  Paid'
  BY DEF PaidInv
<1>1. Paid /\ "direct" \notin interference
  BY DEF PaidInv, FulfilmentNext, DirectNext, allVars, batchVars
<1>2. CASE UNCHANGED <<orders, shipments, payouts, accepting, batches, batchOf, delivering>>
  <2>1. \A o \in Orders : PaidStage(o)' /\ PaidRows(o)'
    BY <1>1, <1>2 DEF Paid, PaidStage, PaidRows, Rows
  <2>2. AcceptsUnbatched' /\ DriverDelivers'
    BY <1>1, <1>2 DEF Paid, AcceptsUnbatched, DriverDelivers
  <2> QED
    BY <1>1, <1>2, <2>1, <2>2, UnpaidStep
<1>3. CASE DirectNext
  BY <1>1, <1>3, DirectPaid
<1>4. CASE BatchNext
  BY <1>1, <1>2, <1>4, CreatePaid, StartPaid, StopPaid, CountPaid, LastPaid
  DEF BatchNext, PlanBatch, RejectPlan, vars, DeliveryInv
<1>5. CASE UNCHANGED allVars
  BY <1>2, <1>5 DEF allVars, vars, batchVars
<1> QED
  BY <1>3, <1>4, <1>5 DEF FulfilmentNext

\* Nobody was paid at first.
LEMMA InitPaid == BatchInit => PaidInv
BY DEF BatchInit, Init, PaidInv, Paid, PaidStage, PaidRows, AcceptsUnbatched, DriverDelivers,
       DriverPaidOnFirst, Rows, RowCount, NoRows, PayoutStatus, Payees

\* The rows of a batch's orders for a driver add up to the one on its first order.
LEMMA PaidAddsUp == Base /\ PaidInv => BatchPaysOnce
<1> SUFFICES ASSUME Base, Paid, NEW k \in Batches, NEW d \in Drivers
             PROVE  SumFunctionOnSet([o \in Members(k) |-> Rows(o, d)], Members(k)) =
                       IF batches[k].status = "completed" /\ batches[k].driver = d THEN 1 ELSE 0
  BY DEF PaidInv, Paid, PaidRows, BatchPaysOnce
<1> DEFINE f == [o \in Members(k) |-> Rows(o, d)]
<1>1. IsFiniteSet(Members(k))
  BY OrdersAssumption, FS_Subset DEF Members
<1>2. CASE batches[k].status = "completed"
  <2>1. PICK first \in Members(k) : \A o \in Members(k) :
          Rows(o, d) = IF o = first /\ d = batches[k].driver THEN 1 ELSE 0
    BY <1>2 DEF Paid, DriverPaidOnFirst
  <2>2. CASE d = batches[k].driver
    <3>1. f[first] = 1 /\ \A o \in Members(k) \ {first} : f[o] = 0
      BY <2>1, <2>2
    <3> HIDE DEF f
    <3>2. SumFunctionOnSet(f, Members(k)) = 1
      BY <1>1, <3>1, SumSingle
    <3> QED
      BY <1>2, <2>2, <3>2 DEF f
  <2>3. CASE d # batches[k].driver
    <3>1. \A o \in Members(k) : f[o] = 0
      BY <2>1, <2>3
    <3> HIDE DEF f
    <3>2. SumFunctionOnSet(f, Members(k)) = 0
      BY <1>1, <3>1, SumZero
    <3> QED
      BY <2>3, <3>2 DEF f
  <2> QED
    BY <2>2, <2>3
<1>3. CASE batches[k].status # "completed"
  <2>1. ASSUME NEW o \in Members(k)
        PROVE  Rows(o, d) = 0
    <3>1. o \in Orders /\ batchOf[o] = k /\ k # NoBatch
      BY BatchAssumption DEF Members
    <3> QED
      BY <1>3, <3>1 DEF Paid, PaidStage, PaidRows
  <2>2. \A o \in Members(k) : f[o] = 0
    BY <2>1
  <2> HIDE DEF f
  <2>3. SumFunctionOnSet(f, Members(k)) = 0
    BY <1>1, <2>2, SumZero
  <2> QED
    BY <1>3, <2>3 DEF f
<1> QED
  BY <1>2, <1>3

\* Unless its orders are delivered directly too, a batch pays each payee once, and
\* nobody before it is settled.
THEOREM BatchesPayOnce == FulfilmentSpec => []BatchPaysOnce
<1>1. FulfilmentSpec => []DeliveryInv
  BY InitDelivery, StepDelivery, BaseInvariant, FormedInvariant, PTL DEF FulfilmentSpec
<1>2. FulfilmentSpec => []PaidInv
  BY <1>1, InitPaid, StepPaid, BaseInvariant, FormedInvariant, RunsKeepDriver, PTL
  DEF FulfilmentSpec
<1> QED
  BY <1>2, PaidAddsUp, BaseInvariant, PTL

\* A batch is settled as a whole and once, whatever interferes, pays each payee once
\* unless its orders are delivered directly too, and, left alone, is settled as soon
\* as it is served.
THEOREM BatchesSettleWholeAndOnce == FulfilmentSpec => []SettledWholeAndOnce
BY CompletionIsTrue, BatchesPayOnce, ServedRunsSettle, PTL DEF SettledWholeAndOnce

===============================================================================
