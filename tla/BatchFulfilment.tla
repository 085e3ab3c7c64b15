--------------------------- MODULE BatchFulfilment ---------------------------
(***************************************************************************)
(* Batch runs (driver.service.ts, "BATCH MODE") on top of the direct life  *)
(* of an order.  A batch is planned from unassigned shipments outside any  *)
(* transaction, persisted, started, picked up and delivered stop by stop,  *)
(* and settled as a whole by the delivery that finds every shipment of the *)
(* batch delivered.  The shipments of a batch stay visible to the direct   *)
(* endpoints and to cancellation: nothing there looks at batch_id.         *)
(*                                                                         *)
(* batchDeliver locks the shipment's row only and counts the others in the *)
(* committed state, so its transaction is two steps: what it reads, and    *)
(* what it commits.                                                        *)
(*                                                                         *)
(* interference says what may happen to batched orders in a behaviour      *)
(* besides their own run, so that a property can name the causes it does   *)
(* not survive.  The code allows all three:                                *)
(*   "direct"   the direct endpoints are used on shipments of a batch      *)
(*   "cancel"   an order is cancelled once it is in a batch                *)
(*   "race"     two deliveries are under way at a time                     *)
(***************************************************************************)
EXTENDS OrderLifecycle

CONSTANTS
    Batches,        \* batch ids that can be handed out (bound)
    NoBatch,        \* the SQL NULL in shipments.batch_id
    Cases           \* the sets of causes to look at

ASSUME BatchAssumption ==
    /\ NoBatch \notin Batches
    /\ Cases \subseteq SUBSET {"direct", "cancel", "race"}

VARIABLES
    interference,   \* one of Cases; never changes
    batches,        \* batches: status, driver_id
    batchOf,        \* shipments.batch_id
    planning,       \* createBatch requests between the plan and the transaction
    delivering      \* batchDeliver transactions between their count and COMMIT

batchVars == <<interference, batches, batchOf, planning, delivering>>
allVars   == <<vars, batchVars>>

BatchRow == [status : {"none", "planning", "in_progress", "completed"},
             driver : Drivers \cup {NoUser}]
PlanRequest == [driver : Drivers, members : SUBSET Orders]
Delivery    == [driver : Drivers, batch : Batches, order : Orders, last : BOOLEAN]

\* The rows of the batch tables have their types, and so have all the others.
BatchTypeOK ==
    /\ TypeOK
    /\ interference \in Cases
    /\ batches \in [Batches -> BatchRow]
    /\ batchOf \in [Orders -> Batches \cup {NoBatch}]
    /\ planning \subseteq PlanRequest
    /\ delivering \subseteq Delivery

BatchInit ==
    /\ Init
    /\ interference \in Cases
    /\ batches = [k \in Batches |-> [status |-> "none", driver |-> NoUser]]
    /\ batchOf = [o \in Orders |-> NoBatch]
    /\ planning = {}
    /\ delivering = {}

Members(k) == {o \in Orders : batchOf[o] = k}

\* A batchDeliver in flight holds the row lock of its shipment.
Locked(o) == \E t \in delivering : t.order = o

-----------------------------------------------------------------------------
(* Planning *)

Batchable(o) == shipments[o].status = "unassigned" /\ batchOf[o] = NoBatch

\* createBatch before its transaction: the plan is computed from the profile
\* and the shipments as they are now.  Its route is RoutePlan's; a plan over
\* the capacity has an empty one, and goes the same way from here on.  The DTO
\* asks for two shipments at least.
\* Bound: one such request of a driver in flight at a time.
PlanBatch(d, members) ==
    /\ \A r \in planning : r.driver # d
    /\ profiles[d].verify = "verified"
    /\ Cardinality(members) >= 2
    /\ \A o \in members : Batchable(o)
    /\ planning' = planning \cup {[driver |-> d, members |-> members]}
    /\ UNCHANGED <<vars, batches, batchOf, delivering>>

\* Mutant: the transaction trusts the plan.
CreateBatchUnchecked(r) ==
    /\ \E k \in Batches :
          /\ batches[k].status = "none"
          /\ batches' = [batches EXCEPT ![k] =
                           [status |-> "planning", driver |-> r.driver]]
          /\ batchOf' = [o \in Orders |-> IF o \in r.members THEN k ELSE batchOf[o]]
    /\ planning' = planning \ {r}
    /\ UNCHANGED <<vars, delivering>>

\* createBatch's transaction.
CreateBatch(r) ==
    /\ \A o \in r.members : Batchable(o)
    /\ \E k \in Batches :
          /\ batches[k].status = "none"
          /\ batches' = [batches EXCEPT ![k] =
                           [status |-> "planning", driver |-> r.driver]]
          /\ batchOf' = [o \in Orders |-> IF o \in r.members THEN k ELSE batchOf[o]]
    /\ planning' = planning \ {r}
    /\ UNCHANGED <<vars, delivering>>

\* 'Some shipments were already assigned; try again'
RejectPlan(r) ==
    /\ \E o \in r.members : ~Batchable(o)
    /\ planning' = planning \ {r}
    /\ UNCHANGED <<vars, batches, batchOf, delivering>>

-----------------------------------------------------------------------------
(* Running *)

\* startBatch writes every shipment and every order of the batch, whatever
\* became of them since the batch was planned.
StartBatch(d, k) ==
    /\ batches[k].driver = d
    /\ batches[k].status = "planning"
    /\ \A o \in Members(k) : ~Locked(o)
    /\ batches' = [batches EXCEPT ![k].status = "in_progress"]
    /\ shipments' = [o \in Orders |->
          IF o \in Members(k) THEN [status |-> "assigned", driver |-> d]
          ELSE shipments[o]]
    /\ orders' = [o \in Orders |->
          IF o \in Members(k) THEN OrderAt(orders[o], "pickup_assigned")
          ELSE orders[o]]
    /\ UNCHANGED <<listings, payments, payouts, settlements, notices, profiles,
                   accepting, batchOf, planning, delivering>>

\* Mutant: the order's status is written to the shipment.
BatchPickupMixedUp(d, k, o) ==
    /\ batches[k].driver = d
    /\ batches[k].status = "in_progress"
    /\ batchOf[o] = k
    /\ ~Locked(o)
    /\ shipments[o].status = "assigned"
    /\ shipments' = [shipments EXCEPT ![o] = ShipmentAt(@, "in_transit")]
    /\ UNCHANGED <<listings, orders, payments, payouts, settlements, notices,
                   profiles, accepting, batches, batchOf, planning, delivering>>

\* The order keeps its status.
BatchPickup(d, k, o) ==
    /\ batches[k].driver = d
    /\ batches[k].status = "in_progress"
    /\ batchOf[o] = k
    /\ ~Locked(o)
    /\ shipments[o].status = "assigned"
    /\ shipments' = [shipments EXCEPT ![o] = ShipmentAt(@, "picked_up")]
    /\ UNCHANGED <<listings, orders, payments, payouts, settlements, notices,
                   profiles, accepting, batches, batchOf, planning, delivering>>

\* Mutant: a stop that was only picked up counts.
AllServedOrLoaded(k, o) ==
    \A x \in Members(k) \ {o} : shipments[x].status \in {"picked_up", "delivered"}

\* The count: the shipment's own UPDATE is visible to it.
AllServed(k, o) == \A x \in Members(k) \ {o} : shipments[x].status = "delivered"

\* batchDeliver up to its count: the shipment is locked and, for this
\* transaction alone, delivered; the others are what is committed.
BatchDeliverCount(d, k, o) ==
    /\ "race" \in interference \/ delivering = {}
    /\ batchOf[o] = k
    /\ ~Locked(o)
    /\ shipments[o].status = "picked_up"
    /\ shipments[o].driver = d
    /\ delivering' = delivering \cup
          {[driver |-> d, batch |-> k, order |-> o,
            last |-> AllServed(k, o)]}
    /\ UNCHANGED <<vars, batches, batchOf, planning>>

\* Mutant: the order is delivered with its stop, without its settlement.
BatchDeliverStopAndOrder(t) ==
    /\ ~t.last
    /\ shipments' = [shipments EXCEPT ![t.order] = ShipmentAt(@, "delivered")]
    /\ orders' = [orders EXCEPT ![t.order] = OrderAt(@, "delivered")]
    /\ delivering' = delivering \ {t}
    /\ UNCHANGED <<listings, payments, payouts, settlements, notices, profiles,
                   accepting, batches, batchOf, planning>>

\* COMMIT of a delivery that did not complete the batch.
BatchDeliverStop(t) ==
    /\ ~t.last
    /\ shipments' = [shipments EXCEPT ![t.order] = ShipmentAt(@, "delivered")]
    /\ delivering' = delivering \ {t}
    /\ UNCHANGED <<listings, orders, payments, payouts, settlements, notices,
                   profiles, accepting, batches, batchOf, planning>>

\* COMMIT of the delivery that completed it: capture, seller payouts, settlement
\* row and notices for every order of the batch, one driver payout on the first.
BatchDeliverLast(t) ==
    /\ t.last
    /\ shipments' = [shipments EXCEPT ![t.order] = ShipmentAt(@, "delivered")]
    /\ batches' = [batches EXCEPT ![t.batch].status = "completed"]
    /\ LET members == Members(t.batch)
           sellers(o) == SellersIn(orders[o].items)
       IN
       /\ orders' = [o \in Orders |->
             IF o \in members THEN OrderAt(orders[o], "delivered") ELSE orders[o]]
       /\ payments' = [o \in Orders |->
             IF o \in members /\ payments[o] # "none" THEN "captured" ELSE payments[o]]
       /\ settlements' = [o \in Orders |->
             IF o \in members THEN RecordSettlement(settlements[o]) ELSE settlements[o]]
       /\ \E first \in members, status \in [members \X Payees -> GatewayOutcomes] :
             LET owed(o) == sellers(o) \cup (IF o = first THEN {t.driver} ELSE {})
             IN
             /\ payouts' = [o \in Orders |->
                   IF o \in members
                   THEN RunPayouts(payouts[o], [p \in owed(o) |-> status[<<o, p>>]])
                   ELSE payouts[o]]
             /\ notices' = [o \in Orders |->
                   IF o \in members
                   THEN notices[o]
                          \cup {<<orders[o].buyer, "delivered">>}
                          \cup {<<s, "payout_released">> : s \in sellers(o)}
                          \cup (IF o = first THEN {<<t.driver, "driver_earning">>} ELSE {})
                   ELSE notices[o]]
    /\ delivering' = delivering \ {t}
    /\ UNCHANGED <<listings, profiles, accepting, batchOf, planning>>

-----------------------------------------------------------------------------
(* The direct endpoints and cancellation, on batched orders too *)

MayCarryDirectly(o) ==
    ~Locked(o) /\ (batchOf[o] = NoBatch \/ "direct" \in interference)

MayCancel(o) ==
    ~Locked(o) /\ (batchOf[o] = NoBatch \/ "cancel" \in interference)

MayBatch(members) ==
    "direct" \in interference \/ \A r \in accepting : r.order \notin members

DirectNext ==
    /\ \/ \E b \in Buyers, o \in Orders :
             \/ \E cart \in Carts : CreateOrder(b, o, cart)
             \/ PayOrder(b, o)
             \/ MayCancel(o) /\ BuyerCancel(b, o)
       \/ \E o \in Orders :
             \/ RefundDelivered(o)
             \/ MayCancel(o) /\ CancelOrderTx(o)
       \/ \E d \in Drivers, approve \in BOOLEAN : VerifyDriver(d, approve)
       \/ \E d \in Drivers, kg \in Capacities : UpsertProfile(d, kg)
       \/ \E d \in Drivers, o \in Orders :
             \/ MayCarryDirectly(o) /\ AcceptCheck(d, o)
             \/ MayCarryDirectly(o) /\ MarkPickedUp(d, o)
             \/ MayCarryDirectly(o) /\ MarkDelivered(d, o)
       \/ \E r \in accepting : AcceptJob(r) \/ RejectAccept(r)
    /\ UNCHANGED batchVars

BatchNext ==
    \/ \E d \in Drivers, members \in SUBSET Orders : PlanBatch(d, members)
    \/ \E r \in planning : (MayBatch(r.members) /\ CreateBatch(r)) \/ RejectPlan(r)
    \/ \E d \in Drivers, k \in Batches :
          \/ StartBatch(d, k)
          \/ \E o \in Orders : BatchPickup(d, k, o) \/ BatchDeliverCount(d, k, o)
    \/ \E t \in delivering : BatchDeliverStop(t) \/ BatchDeliverLast(t)

FulfilmentNext == DirectNext \/ (BatchNext /\ UNCHANGED interference)

FulfilmentSpec == BatchInit /\ [][FulfilmentNext]_allVars

-----------------------------------------------------------------------------
(* Properties that hold whatever interferes *)

\* A shipment is in one batch for good, and a batch that exists keeps at least
\* two shipments: of two plans that share a shipment, both computed before
\* either transaction, one is turned away.
MembershipIsFinal ==
    [][/\ \A o \in Orders : batchOf[o] # NoBatch => batchOf'[o] = batchOf[o]
       /\ \A k \in Batches : batches[k].status # "none" =>
             /\ Cardinality(Members(k)) >= 2
             /\ Members(k)' = Members(k)]_allVars

\* While a batch runs, every shipment of it is its driver's: neither a direct
\* accept that was under way, nor a cancellation, nor another batch changes that.
RunKeepsItsDriver ==
    \A k \in Batches : batches[k].status = "in_progress" =>
        \A o \in Members(k) : shipments[o].driver = batches[k].driver

\* A completed batch is one whose every shipment and order was delivered and
\* stays so, with its money captured or, after a dispute, refunded: nothing
\* that happens between the count and the COMMIT makes the count untrue.
CompletedMeansDelivered ==
    \A k \in Batches : batches[k].status = "completed" =>
        \A o \in Members(k) :
            /\ shipments[o].status = "delivered"
            /\ orders[o].status = "delivered"
            /\ payments[o] \in {"captured", "refunded"}
            /\ settlements[o] # "none"

\* Only one delivery of a batch may believe it is the last one, so that a batch
\* is settled once, however the deliveries of its stops overlap.
SettledOnce ==
    \A k \in Batches :
        /\ Cardinality({t \in delivering : t.batch = k /\ t.last}) <= 1
        /\ batches[k].status = "completed" => \A t \in delivering : t.batch # k

-----------------------------------------------------------------------------
(* Properties that some interference breaks *)

\* The orders of a run stay in pickup_assigned until the batch is settled,
\* while their shipments move through the stops; every other order is at the
\* stage of its shipment.
StopsMatchOrders ==
    \A o \in Orders :
        LET k == batchOf[o]
        IN  IF k = NoBatch
            THEN /\ shipments[o].status = "unassigned" <=> orders[o].status = "paid"
                 /\ shipments[o].status = "assigned" <=> orders[o].status = "pickup_assigned"
                 /\ shipments[o].status = "picked_up" <=> orders[o].status = "in_transit"
                 /\ shipments[o].status = "delivered" <=> orders[o].status = "delivered"
            ELSE CASE batches[k].status = "planning" ->
                        shipments[o].status = "unassigned" /\ orders[o].status = "paid"
                   [] batches[k].status = "in_progress" ->
                        /\ shipments[o].status \in {"assigned", "picked_up", "delivered"}
                        /\ orders[o].status = "pickup_assigned"
                   [] batches[k].status = "completed" ->
                        shipments[o].status = "delivered" /\ orders[o].status = "delivered"

\* Settling by batch pays what settling by order pays: each seller of a
\* delivered order once, the driver once for the whole batch, nobody before.
\* migrations/002_payments_logistics.sql:16 has "a row per payee (seller or
\* driver) per order"; an order also delivered directly gets two.
BatchPaysOnce ==
    "direct" \notin interference =>
    /\ \A o \in Orders, s \in Sellers :
          Rows(o, s) = IF orders[o].status = "delivered" /\ s \in SellersIn(orders[o].items)
                       THEN 1 ELSE 0
    /\ \A k \in Batches, d \in Drivers :
          SumFunctionOnSet([o \in Members(k) |-> Rows(o, d)], Members(k)) =
              IF batches[k].status = "completed" /\ batches[k].driver = d THEN 1 ELSE 0

\* The rows of an order tell one story in a batch as they do without one, and a
\* running batch keeps its driver.  Direct carriage and cancellation part the
\* rows, though not batch and driver: an order that was cancelled, or delivered
\* directly, and is then revived by startBatch has its money refunded or released
\* already.
BatchRowsAgree ==
    /\ RunKeepsItsDriver
    /\ interference \subseteq {"race"} =>
          StopsMatchOrders /\ EscrowMatchesOrder /\ LedgerMatchesMoney

\* Once every stop of a run is served and no delivery is under way, the batch
\* is settled: PRD.md:173 promises the payouts "on delivery confirmation", and
\* no later request can give them.
ServedMeansSettled ==
    \A k \in Batches :
        ~ /\ batches[k].status = "in_progress"
          /\ \A t \in delivering : t.batch # k
          /\ \E o \in Members(k) : shipments[o].status = "delivered"
          /\ \A o \in Members(k) : shipments[o].status \in {"delivered", "cancelled"}

\* A batch is settled as a whole and once, whatever interferes, pays each payee
\* once unless its orders are delivered directly too, and, left alone, is settled
\* as soon as it is served.
SettledWholeAndOnce ==
    /\ CompletedMeansDelivered /\ SettledOnce
    /\ BatchPaysOnce
    /\ interference = {} => ServedMeansSettled

\* PRD.md:209: the system "re-validates capacity & order status at start of
\* run".  The code does neither.
StartRevalidatesOrders ==
    [][\A k \in Batches :
          batches[k].status = "planning" /\ batches'[k].status = "in_progress" =>
              \A o \in Members(k) : orders[o].status = "paid"]_allVars
=============================================================================
