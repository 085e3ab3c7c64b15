------------------------------- MODULE BuyerApp -------------------------------
(***************************************************************************)
(* A buyer at the phone: paying for a listing (ListingDetail), the list of *)
(* orders (MyOrders) and the reviews (RateOrder), each an async handler    *)
(* that makes one call after another and may find its order elsewhere than *)
(* its screen says.  Drivers, the admin and other buyers go on meanwhile.  *)
(* createOrder, payOrder and cancelOrder are one transaction each; rate is *)
(* a check and an INSERT.  hazards says what may go wrong in a behaviour:  *)
(*   "lost"       a call does not reach the API, or its answer the phone   *)
(*   "late"       a call the phone has given up on is still carried out    *)
(*   "impatient"  the buyer does not wait: leaves a screen, or taps again  *)
(***************************************************************************)
EXTENDS Integers, FiniteSets

CONSTANTS
    Orders, NoOrder,
    Slots,       \* calls the phone has in flight at a time (bound)
    Stock,       \* of the one listing; every order takes one unit
    HazardCases  \* the sets of hazards to look at

ASSUME BuyerAssumption ==
    /\ IsFiniteSet(Orders) /\ NoOrder \notin Orders
    /\ IsFiniteSet(Slots)
    /\ Stock \in Nat
    /\ HazardCases \subseteq SUBSET {"lost", "late", "impatient"}

VARIABLES
    hazards,   \* never changes
    status,    \* orders.status, "none" before the INSERT
    stock,     \* listings.qty_remaining
    others,    \* units other buyers have
    ratings,   \* rows of ratings per order and target
    calls,     \* what is in flight
    screen,    \* on top: MyOrders, RateOrder or anything else
    shown,     \* rows of MyOrders, "none" for an order it does not show
    told       \* history: what an alert or an answer has told the buyer

vars == <<hazards, status, stock, others, ratings, calls, screen, shown, told>>

-----------------------------------------------------------------------------

Targets == {"seller", "driver"}
Stages  == {"created", "paid", "pickup_assigned", "in_transit", "delivered", "cancelled"}
Status  == Stages \cup {"none"}
CANCELLABLE == {"created", "paid", "pickup_assigned"}

\* rows: what GET /buyer/orders found; attended: the phone still waits.
Call == [kind : {"create", "pay", "cancel", "list"} \cup Targets,
         order : Orders \cup {NoOrder},
         at : {"sent", "checked", "answered", "refused"},
         rows : [Orders -> Status],
         attended : BOOLEAN]
NoRows == [o \in Orders |-> "none"]
Idle   == [kind |-> "list", order |-> NoOrder, at |-> "refused",
           rows |-> NoRows, attended |-> FALSE]

Send(kind, o) == [kind |-> kind, order |-> o, at |-> "sent",
                  rows |-> NoRows, attended |-> TRUE]

TypeOK ==
    /\ hazards \in HazardCases
    /\ status \in [Orders -> Status]
    /\ stock \in 0 .. Stock
    /\ others \in 0 .. Stock
    /\ ratings \in [Orders -> [Targets -> 0 .. Cardinality(Slots)]]
    /\ calls \in [Slots -> Call]
    /\ screen \in {"shop", "orders", "rate"}
    /\ shown \in [Orders -> Status]
    /\ told \subseteq {"cancelled", "thanks"} \X Orders

Init ==
    /\ hazards \in HazardCases
    /\ status = [o \in Orders |-> "none"]
    /\ stock = Stock
    /\ others = 0
    /\ ratings = [o \in Orders |-> [t \in Targets |-> 0]]
    /\ calls = [s \in Slots |-> Idle]
    /\ screen = "shop"
    /\ shown = NoRows
    /\ told = {}

-----------------------------------------------------------------------------
(* The API *)

\* A call with its result; nobody waits for the result of an abandoned one.
Reply(s, c, result) ==
    calls' = [calls EXCEPT ![s] = IF c.attended THEN [c EXCEPT !.at = result] ELSE Idle]

Refuse(s, c) ==
    /\ Reply(s, c, "refused")
    /\ UNCHANGED <<status, stock, ratings>>

CreateOrder(s, c) ==
    \/ /\ stock > 0
       /\ \E o \in Orders :
             /\ status[o] = "none"
             /\ status' = [status EXCEPT ![o] = "created"]
             /\ Reply(s, [c EXCEPT !.order = o], "answered")
       /\ stock' = stock - 1
       /\ UNCHANGED ratings
    \/ stock = 0 /\ Refuse(s, c)

PayOrder(s, c) ==
    \/ /\ status[c.order] = "created"
       /\ status' = [status EXCEPT ![c.order] = "paid"]
       /\ Reply(s, c, "answered")
       /\ UNCHANGED <<stock, ratings>>
    \/ status[c.order] # "created" /\ Refuse(s, c)

\* Mutant: an order that was cancelled is restocked again.
CancellableAgain(o) == status[o] \in CANCELLABLE \cup {"cancelled"}

Cancellable(o) == status[o] \in CANCELLABLE

CancelOrder(s, c) ==
    \/ /\ Cancellable(c.order)
       /\ status' = [status EXCEPT ![c.order] = "cancelled"]
       /\ stock' = stock + 1
       /\ Reply(s, c, "answered")
       /\ UNCHANGED ratings
    \/ ~Cancellable(c.order) /\ Refuse(s, c)

MyOrders(s, c) ==
    /\ Reply(s, [c EXCEPT !.rows = status], "answered")
    /\ UNCHANGED <<status, stock, ratings>>

Ratable(o, t) == status[o] = "delivered" /\ ratings[o][t] = 0

\* rate up to its check for an earlier rating, and its INSERT.
RateCheck(s, c) ==
    \/ /\ Ratable(c.order, c.kind)
       /\ calls' = [calls EXCEPT ![s].at = "checked"]
       /\ UNCHANGED <<status, stock, ratings>>
    \/ ~Ratable(c.order, c.kind) /\ Refuse(s, c)

RateInsert(s, c) ==
    /\ ratings' = [ratings EXCEPT ![c.order][c.kind] = @ + 1]
    /\ Reply(s, c, "answered")
    /\ UNCHANGED <<status, stock>>

Serve(s) ==
    LET c == calls[s] IN
    /\ \/ /\ c.at = "sent"
          /\ \/ c.kind = "create" /\ CreateOrder(s, c)
             \/ c.kind = "pay" /\ PayOrder(s, c)
             \/ c.kind = "cancel" /\ CancelOrder(s, c)
             \/ c.kind = "list" /\ MyOrders(s, c)
             \/ c.kind \in Targets /\ RateCheck(s, c)
       \/ c.at = "checked" /\ RateInsert(s, c)
    /\ UNCHANGED <<others, screen, shown, told>>

-----------------------------------------------------------------------------
(* The phone *)

\* Mutant: buy and cancel end after their first call.
AfterOneCall(c) == IF c.kind = "seller" THEN Send("driver", c.order) ELSE Idle

\* What a handler sends when its call has succeeded: buy pays what it created,
\* cancel loads again, submit reviews the seller and then the driver.
After(c) ==
    CASE c.kind = "create" -> Send("pay", c.order)
      [] c.kind = "cancel" -> Send("list", NoOrder)
      [] c.kind = "seller" -> Send("driver", c.order)
      [] OTHER             -> Idle

\* Mutant: the alert comes with the seller's review.
SaysEarly(c) ==
    CASE c.kind = "cancel" -> {<<"cancelled", c.order>>}
      [] c.kind = "seller" -> {<<"thanks", c.order>>}
      [] OTHER             -> {}

\* What an alert, or a screen that goes on, tells the buyer.
Says(c) ==
    CASE c.kind = "cancel" -> {<<"cancelled", c.order>>}
      [] c.kind = "driver" -> {<<"thanks", c.order>>}
      [] OTHER             -> {}

\* Nobody waits any more for what a MyOrders that was left has asked.
Leave(cs) ==
    [s \in Slots |->
       IF cs[s].kind = "list" \/ (cs[s].kind = "cancel" /\ cs[s].at # "sent") THEN Idle
       ELSE IF cs[s].kind = "cancel" THEN [cs[s] EXCEPT !.attended = FALSE]
       ELSE cs[s]]

\* Another screen on top of the stack; MyOrders loads when it is mounted.
Navigate(cs, to) ==
    /\ screen' = to
    /\ shown' = IF to = screen THEN shown ELSE NoRows
    /\ IF to = screen THEN calls' = cs
       ELSE IF to # "orders" THEN calls' = Leave(cs)
       ELSE \E s \in Slots : cs[s] = Idle /\ calls' = [cs EXCEPT ![s] = Send("list", NoOrder)]

\* Where nav.goBack leads: from a review to the orders, from those to the home.
Back == IF screen = "rate" THEN "orders" ELSE "shop"

Resume(s) ==
    LET c  == calls[s]
        cs == [calls EXCEPT ![s] = After(c)]
    IN
    /\ c.attended
    /\ c.at = "answered"
    /\ CASE c.kind = "pay"    -> Navigate(cs, "orders")
         [] c.kind = "driver" -> Navigate(cs, Back)
         [] OTHER ->
              /\ calls' = cs
              /\ shown' = IF c.kind = "list" THEN c.rows ELSE shown
              /\ UNCHANGED screen
    /\ told' = told \cup Says(c)
    /\ UNCHANGED <<status, stock, others, ratings>>

\* The catch of a handler, for a refusal and for a call that was lost: an alert
\* for buy, cancel and the seller's review; an empty list for load; nothing for
\* the driver's review, after which submit says thanks and goes back.
Catch(c, cs) ==
    IF c.kind = "driver" THEN Navigate(cs, Back) /\ told' = told \cup Says(c)
    ELSE /\ calls' = cs
         /\ shown' = IF c.kind = "list" THEN NoRows ELSE shown
         /\ UNCHANGED <<screen, told>>

ReceiveRefusal(s) ==
    /\ calls[s].attended
    /\ calls[s].at = "refused"
    /\ Catch(calls[s], [calls EXCEPT ![s] = Idle])
    /\ UNCHANGED <<status, stock, others, ratings>>

Lose(s) ==
    LET c == calls[s] IN
    /\ "lost" \in hazards
    /\ c.attended
    /\ \/ c.at # "checked" /\ Catch(c, [calls EXCEPT ![s] = Idle])
       \/ /\ "late" \in hazards
          /\ c.at \in {"sent", "checked"}
          /\ Catch(c, [calls EXCEPT ![s].attended = FALSE])
    /\ UNCHANGED <<status, stock, others, ratings>>

\* The calls with one more, which the handler of a button sends.
CallsWith(kind, o) ==
    {[calls EXCEPT ![s] = Send(kind, o)] : s \in {x \in Slots : calls[x] = Idle}}

\* A spinner blocks its own button only; MyOrders has none.
Ready == "impatient" \in hazards \/ \A s \in Slots : ~calls[s].attended

\* Pay now, on the screen of the listing.  Bound: not more orders than Orders has.
Buy ==
    /\ Ready
    /\ Cardinality({s \in Slots : calls[s].kind = "create"})
         < Cardinality({o \in Orders : status[o] = "none"})
    /\ \E cs \in CallsWith("create", NoOrder) : Navigate(cs, "shop")
    /\ UNCHANGED <<status, stock, others, ratings, told>>

Visit ==
    /\ Ready
    /\ screen # "orders"
    /\ Navigate(calls, "orders")
    /\ UNCHANGED <<status, stock, others, ratings, told>>

Refresh ==
    /\ Ready
    /\ screen = "orders"
    /\ calls' \in CallsWith("list", NoOrder)
    /\ UNCHANGED <<status, stock, others, ratings, screen, shown, told>>

\* Mutant: the row changes with the tap.
CancelAtOnce(o) ==
    /\ Ready
    /\ shown[o] \in CANCELLABLE
    /\ calls' \in CallsWith("cancel", o)
    /\ shown' = [shown EXCEPT ![o] = "cancelled"]
    /\ UNCHANGED <<status, stock, others, ratings, screen, told>>

Cancel(o) ==
    /\ Ready
    /\ shown[o] \in CANCELLABLE
    /\ calls' \in CallsWith("cancel", o)
    /\ UNCHANGED <<status, stock, others, ratings, screen, shown, told>>

\* The button of a delivered row, then submit of RateOrder.
Submit(o) ==
    /\ Ready
    /\ shown[o] = "delivered"
    /\ \E cs \in CallsWith("seller", o) : Navigate(cs, "rate")
    /\ UNCHANGED <<status, stock, others, ratings, told>>

-----------------------------------------------------------------------------
(* Everybody else *)

\* acceptJob, markPickedUp, markDelivered.
Carried(from, to) ==
    <<from, to>> \in {<<"paid", "pickup_assigned">>, <<"pickup_assigned", "in_transit">>,
                      <<"in_transit", "delivered">>}

Carry(o) ==
    /\ \E to \in Stages :
          /\ Carried(status[o], to)
          /\ status' = [status EXCEPT ![o] = to]
    /\ UNCHANGED <<stock, others, ratings, calls, screen, shown, told>>

AdminCancel(o) ==
    /\ Cancellable(o)
    /\ status' = [status EXCEPT ![o] = "cancelled"]
    /\ stock' = stock + 1
    /\ UNCHANGED <<others, ratings, calls, screen, shown, told>>

OthersBuy ==
    /\ stock > 0
    /\ stock' = stock - 1
    /\ others' = others + 1
    /\ UNCHANGED <<status, ratings, calls, screen, shown, told>>

-----------------------------------------------------------------------------

Proceed == \E s \in Slots : Serve(s) \/ Resume(s) \/ ReceiveRefusal(s)

Next ==
    /\ \/ Proceed
       \/ \E s \in Slots : Lose(s)
       \/ Buy \/ Visit \/ Refresh
       \/ \E o \in Orders : Cancel(o) \/ Submit(o) \/ Carry(o) \/ AdminCancel(o)
       \/ OthersBuy
    /\ UNCHANGED hazards

Spec == Init /\ [][Next]_vars

-----------------------------------------------------------------------------
(* Properties *)

\* A checkout leaves nothing half done: an order that is neither paid nor
\* cancelled is being paid.  (After a lost call it stays, holding its stock, and
\* no screen offers to pay it.)
UnpaidIsBeingPaid ==
    "lost" \notin hazards =>
       \A o \in Orders : status[o] = "created" =>
          \E s \in Slots : /\ calls[s].order = o
                           /\ calls[s].kind \in {"create", "pay"}
                           /\ calls[s].attended

\* PRD.md:117, "rate seller & driver": once the phone waits for nothing, an
\* order has both its reviews or neither.  With one of them missing the screen
\* can never add it: the seller's is asked for first and refused as a double.
BothOrNeither ==
    hazards = {} /\ (\A s \in Slots : ~calls[s].attended) =>
       \A o \in Orders : ratings[o]["seller"] = ratings[o]["driver"]

Stage(st) == CASE st = "created" -> 1 [] st = "paid" -> 2
               [] st = "pickup_assigned" -> 3 [] st = "in_transit" -> 4 [] OTHER -> 5

\* The list never shows an order further back than it has before, whatever was
\* refused or reloaded in between.
RowsNeverGoBack ==
    [][\A o \in Orders :
          "impatient" \notin hazards /\ shown[o] # "none" /\ shown'[o] # "none" =>
             \/ shown'[o] = shown[o]
             \/ shown[o] # "cancelled" /\ Stage(shown[o]) < Stage(shown'[o])]_vars

\* ratings.service.ts:9, "One rating per (order, target)", as long as no two rate
\* calls for an order overlap.
OneRatingPerTarget ==
    hazards \subseteq {"lost"} => \A o \in Orders, t \in Targets : ratings[o][t] <= 1

\* Units are neither lost nor made by checkouts and cancellations that are
\* repeated after a lost answer or made from a list that is out of date.
UnitsConserved ==
    Cardinality({o \in Orders : status[o] \notin {"none", "cancelled"}})
        + stock + others = Stock

\* No checkout is left half done, no unit is lost or made, and reviews come in
\* pairs and once.
OrdersAddUp ==
    /\ UnpaidIsBeingPaid /\ UnitsConserved
    /\ BothOrNeither /\ OneRatingPerTarget

\* What the buyer was told is true.  An order whose cancellation was confirmed is
\* not shown as still under way once the phone waits for nothing.  "Thanks for
\* your review!" is said of an order whose seller and driver have been rated; a
\* lost call passes for "driver may already be rated" (RateOrder.tsx:40).
ToldTheTruth ==
    /\ "impatient" \notin hazards /\ (\A s \in Slots : ~calls[s].attended) =>
          \A o \in Orders : <<"cancelled", o>> \in told =>
             shown[o] \in {"cancelled", "none"}
    /\ "lost" \notin hazards =>
          \A o \in Orders : <<"thanks", o>> \in told => \A t \in Targets : ratings[o][t] > 0
=============================================================================
