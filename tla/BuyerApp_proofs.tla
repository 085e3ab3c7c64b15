--------------------------- MODULE BuyerApp_proofs ---------------------------
(***************************************************************************)
(* What a buyer's handlers leave behind is whole and what they say is      *)
(* true, for any number of orders and calls in flight, and any hazards. A  *)
(* step of the system is one of three kinds: the API serves a call, the    *)
(* phone does something, or somebody else does. Each kind is described     *)
(* once, and every part of the invariant then needs three cases.           *)
(***************************************************************************)
EXTENDS BuyerApp, FiniteSetTheorems, TLAPS

-----------------------------------------------------------------------------
(* The invariant *)

\* An order that was at a is or will be at b.
Ahead(a, b) == a = b \/ (a # "cancelled" /\ Stage(a) < Stage(b))

\* What a call means for orders that stand at st and have the ratings rt.
CallOK(c, st, rt) ==
    /\ c.kind \in {"pay", "cancel"} \cup Targets => c.order \in Orders
    /\ c.at = "checked" => c.kind \in Targets
    /\ c.kind = "create" /\ c.at = "answered" => c.order \in Orders
    /\ c.kind = "cancel" /\ c.at = "answered" => st[c.order] = "cancelled"
    /\ c.kind = "list" =>
          \A o \in Orders : c.rows[o] # "none" => st[o] # "none" /\ Ahead(c.rows[o], st[o])
    /\ c.kind \in Targets /\ c.at \in {"checked", "answered"} => st[c.order] = "delivered"
    /\ c.kind \in Targets /\ c.at = "answered" => rt[c.order][c.kind] > 0
    /\ c.kind = "driver" => st[c.order] = "delivered" /\ rt[c.order]["seller"] > 0
    /\ c.kind = "driver" /\ c.at = "refused" => rt[c.order]["driver"] > 0

CallsInv == \A s \in Slots : CallOK(calls[s], status, ratings)

\* What the list shows was so once, and a confirmed cancellation is one.
ShownInv ==
    \A o \in Orders :
       /\ shown[o] # "none" => status[o] # "none" /\ Ahead(shown[o], status[o])
       /\ <<"cancelled", o>> \in told => status[o] = "cancelled"

\* A buyer who waits has one call in flight, and the answer of a load is newer
\* than what the list shows.
PatientInv ==
    "impatient" \notin hazards =>
       /\ \A s, r \in Slots : calls[s].attended /\ calls[r].attended => s = r
       /\ \A s \in Slots :
             calls[s].attended /\ calls[s].kind = "list" /\ calls[s].at = "answered" =>
                \A o \in Orders :
                   /\ shown[o] # "none" => /\ calls[s].rows[o] # "none"
                                           /\ Ahead(shown[o], calls[s].rows[o])
                   /\ <<"cancelled", o>> \in told => calls[s].rows[o] \in {"cancelled", "none"}
       /\ \A o \in Orders : <<"cancelled", o>> \in told /\ shown[o] \notin {"cancelled", "none"} =>
             \E s \in Slots : calls[s].attended /\ calls[s].kind = "list"

\* buy is on its way to pay o.
Buying(c, o) ==
    /\ c.order = o
    /\ \/ c.kind = "create" /\ c.at = "answered"
       \/ c.kind = "pay" /\ c.at = "sent"

\* When no call is lost, every handler comes to its end.
HeardInv ==
    "lost" \notin hazards =>
       /\ \A s \in Slots : calls[s].kind \notin {"list", "cancel"} => calls[s].attended
       /\ \A o \in Orders : status[o] = "created" => \E s \in Slots : Buying(calls[s], o)
       /\ \A o \in Orders : <<"thanks", o>> \in told => \A t \in Targets : ratings[o][t] > 0

\* Nothing is in flight but what the phone waits for, and one rate call at a time
\* finds what it has checked.
SoleInv ==
    hazards \subseteq {"lost"} =>
       /\ \A s \in Slots : ~calls[s].attended => calls[s] = Idle
       /\ \A s \in Slots : calls[s].at = "checked" => ratings[calls[s].order][calls[s].kind] = 0
       /\ \A o \in Orders, t \in Targets : ratings[o][t] <= 1

\* submit is on its way to the driver's review of o.
Reviewing(c, o) ==
    /\ c.order = o
    /\ \/ c.kind = "seller" /\ c.at = "answered"
       \/ c.kind = "driver" /\ c.at \in {"sent", "checked"}

\* Reviews come in pairs.
PairInv ==
    hazards = {} =>
       \A o \in Orders : \/ ratings[o]["seller"] = ratings[o]["driver"]
                         \/ \E s \in Slots : Reviewing(calls[s], o)

\* Rate calls that have passed the check.
Checked(o, t) == {s \in Slots : calls[s].at = "checked" /\ calls[s].order = o /\ calls[s].kind = t}

\* A target has no more ratings than calls can pass the check at a time.
RatingsInv ==
    \A o \in Orders, t \in Targets :
       ratings[o][t] + Cardinality(Checked(o, t)) <= Cardinality(Slots)

BuyerInv ==
    /\ TypeOK /\ UnitsConserved /\ RatingsInv
    /\ CallsInv /\ ShownInv /\ PatientInv /\ HeardInv /\ SoleInv /\ PairInv

-----------------------------------------------------------------------------
(* Values *)

\* Numbers of the stages.
LEMMA Stages1To5 ==
    /\ \A a \in Status : Stage(a) \in 1 .. 5
    /\ Stage("delivered") = 5 /\ Stage("cancelled") = 5
BY DEF Status, Stages, Stage

\* An order goes on from where it went on to, and stays where it ends.
LEMMA AheadFacts ==
    /\ \A a \in Status : Ahead(a, a)
    /\ \A a, b, c \in Status : Ahead(a, b) /\ Ahead(b, c) => Ahead(a, c)
    /\ \A a \in {"delivered", "cancelled"}, b \in Status : Ahead(a, b) => a = b
BY Stages1To5 DEF Ahead, Status, Stages

\* The steps of an order.
LEMMA StatusMoves ==
    /\ \A a \in {"created", "paid", "pickup_assigned"} : Ahead(a, "cancelled")
    /\ Ahead("created", "paid")
    /\ \A a \in Status, b \in Stages : Carried(a, b) => Ahead(a, b) /\ a # "none" /\ b # "created"
BY DEF Ahead, Stage, Status, Stages, Carried

\* A call that is sent, and none.
LEMMA Sent ==
    /\ Idle \in Call /\ Idle.kind = "list" /\ Idle.order = NoOrder /\ Idle.at = "refused"
    /\ Idle.rows = NoRows /\ Idle.attended = FALSE /\ NoRows \in [Orders -> Status]
    /\ \A o \in Orders : NoRows[o] = "none"
    /\ \A kind \in {"create", "pay", "cancel", "list"} \cup Targets, o \in Orders \cup {NoOrder} :
          /\ Send(kind, o) \in Call /\ Send(kind, o).kind = kind /\ Send(kind, o).order = o
          /\ Send(kind, o).at = "sent" /\ Send(kind, o).rows = NoRows
          /\ Send(kind, o).attended = TRUE
<1>1. NoRows \in [Orders -> Status] /\ \A o \in Orders : NoRows[o] = "none"
  BY DEF NoRows, Status
<1>2. /\ Idle \in Call /\ Idle.kind = "list" /\ Idle.order = NoOrder /\ Idle.at = "refused"
      /\ Idle.rows = NoRows /\ Idle.attended = FALSE
  BY <1>1 DEF Idle, Call
<1>3. ASSUME NEW kind \in {"create", "pay", "cancel", "list"} \cup Targets,
             NEW o \in Orders \cup {NoOrder}
      PROVE  /\ Send(kind, o) \in Call /\ Send(kind, o).kind = kind /\ Send(kind, o).order = o
             /\ Send(kind, o).at = "sent" /\ Send(kind, o).rows = NoRows
             /\ Send(kind, o).attended = TRUE
  BY <1>1 DEF Send, Call
<1> QED
  BY <1>1, <1>2, <1>3

\* The fields of a call.
LEMMA CallFields ==
    ASSUME NEW c \in Call
    PROVE  /\ c.kind \in {"create", "pay", "cancel", "list"} \cup Targets
           /\ c.order \in Orders \cup {NoOrder}
           /\ c.at \in {"sent", "checked", "answered", "refused"}
           /\ c.rows \in [Orders -> Status] /\ c.attended \in BOOLEAN
BY DEF Call

\* A call that gets on.
LEMMA CallAt ==
    ASSUME NEW c \in Call, NEW at \in {"sent", "checked", "answered", "refused"}
    PROVE  LET d == [c EXCEPT !.at = at]
           IN  /\ d \in Call /\ d.kind = c.kind /\ d.order = c.order /\ d.at = at
               /\ d.rows = c.rows /\ d.attended = c.attended
BY DEF Call

\* A call that the phone gives up on.
LEMMA CallAbandoned ==
    ASSUME NEW c \in Call
    PROVE  LET d == [c EXCEPT !.attended = FALSE]
           IN  /\ d \in Call /\ d.kind = c.kind /\ d.order = c.order /\ d.at = c.at
               /\ d.rows = c.rows /\ d.attended = FALSE
BY DEF Call

\* The parts of the state.
LEMMA BuyerFields ==
    ASSUME TypeOK
    PROVE  /\ \A s \in Slots : calls[s] \in Call
           /\ status \in [Orders -> Status] /\ shown \in [Orders -> Status]
           /\ \A o \in Orders, t \in Targets : ratings[o][t] \in Nat
           /\ Cardinality(Slots) \in Nat
<1>1. Cardinality(Slots) \in Nat
  BY BuyerAssumption, FS_CardinalityType
<1> QED
  BY <1>1 DEF TypeOK

-----------------------------------------------------------------------------
(* What the API does with a call *)

\* Orders go on and ratings are added.
Grows ==
    /\ status' \in [Orders -> Status]
    /\ \A o \in Orders :
          /\ status[o] # "none" => status'[o] # "none" /\ Ahead(status[o], status'[o])
          /\ \A t \in Targets : ratings'[o][t] \in Nat /\ ratings[o][t] <= ratings'[o][t]

\* No unit is lost or made.
Balanced == stock' \in Nat /\ others' \in Nat /\ UnitsConserved'

Held(st) == {o \in Orders : st[o] \notin {"none", "cancelled"}}

\* An order takes its unit when it is made and gives it back when it is cancelled.
LEMMA UnitMoves ==
    ASSUME TypeOK, UnitsConserved, NEW o \in Orders, NEW to \in Status,
           status' = [status EXCEPT ![o] = to], others' = others,
           \/ status[o] = "none" /\ to = "created" /\ stock > 0 /\ stock' = stock - 1
           \/ status[o] \notin {"none", "cancelled"} /\ to = "cancelled" /\ stock' = stock + 1
           \/ /\ status[o] \notin {"none", "cancelled"} /\ to \notin {"none", "cancelled"}
              /\ stock' = stock
    PROVE  Balanced
<1>1. /\ \A q \in Orders : status'[q] = IF q = o THEN to ELSE status[q]
      /\ stock \in Nat /\ others \in Nat
  BY BuyerAssumption DEF TypeOK
<1>2. /\ IsFiniteSet(Held(status)) /\ IsFiniteSet(Held(status'))
      /\ Cardinality(Held(status)) \in Nat
  BY BuyerAssumption, FS_Subset, FS_CardinalityType DEF Held
<1>3. Cardinality(Held(status)) + stock + others = Stock
  BY DEF UnitsConserved, Held
<1>4. Cardinality(Held(status')) + stock' + others' = Stock /\ stock' \in Nat
  <2>1. CASE status[o] = "none" /\ to = "created" /\ stock > 0 /\ stock' = stock - 1
    <3>1. o \notin Held(status) /\ Held(status') = Held(status) \cup {o}
      BY <1>1, <2>1 DEF Held
    <3>2. Cardinality(Held(status')) = Cardinality(Held(status)) + 1
      BY <1>2, <3>1, FS_AddElement
    <3> QED
      BY <1>1, <1>2, <1>3, <2>1, <3>2
  <2>2. CASE status[o] \notin {"none", "cancelled"} /\ to = "cancelled" /\ stock' = stock + 1
    <3>1. o \in Held(status) /\ Held(status') = Held(status) \ {o}
      BY <1>1, <2>2 DEF Held
    <3>2. Cardinality(Held(status')) = Cardinality(Held(status)) - 1
      BY <1>2, <3>1, FS_RemoveElement
    <3> QED
      BY <1>1, <1>2, <1>3, <2>2, <3>2
  <2>3. CASE /\ status[o] \notin {"none", "cancelled"} /\ to \notin {"none", "cancelled"}
             /\ stock' = stock
    <3>1. Held(status') = Held(status)
      BY <1>1, <2>3 DEF Held
    <3> QED
      BY <1>1, <1>2, <1>3, <2>3, <3>1
  <2> QED
    BY <2>1, <2>2, <2>3
<1> QED
  BY <1>1, <1>4 DEF Balanced, UnitsConserved, Held

\* What a call means stays so.
LEMMA CallStays ==
    ASSUME TypeOK, Grows, NEW c \in Call, CallOK(c, status, ratings)
    PROVE  CallOK(c, status', ratings')
<1>1. \A o \in Orders : /\ status[o] = "cancelled" => status'[o] = "cancelled"
                        /\ status[o] = "delivered" => status'[o] = "delivered"
                        /\ \A t \in Targets : ratings[o][t] > 0 => ratings'[o][t] > 0
  <2> TAKE o \in Orders
  <2>1. status[o] \in Status /\ status'[o] \in Status
    BY BuyerFields DEF Grows
  <2>2. status[o] \in {"cancelled", "delivered"} => status[o] = status'[o]
    BY <2>1, AheadFacts DEF Grows
  <2>3. \A t \in Targets : ratings[o][t] > 0 => ratings'[o][t] > 0
    BY BuyerFields DEF Grows
  <2> QED
    BY <2>2, <2>3
<1>2. ASSUME NEW o \in Orders, c.kind = "list", c.rows[o] # "none"
      PROVE  status'[o] # "none" /\ Ahead(c.rows[o], status'[o])
  <2>1. c.rows[o] \in Status /\ status[o] \in Status /\ status'[o] \in Status
    BY BuyerFields, CallFields DEF Grows
  <2>2. status[o] # "none" /\ Ahead(c.rows[o], status[o])
    BY <1>2 DEF CallOK
  <2> QED
    BY <2>1, <2>2, AheadFacts DEF Grows
<1>3. "seller" \in Targets /\ "driver" \in Targets
  BY DEF Targets
<1> QED
  BY <1>1, <1>2, <1>3 DEF CallOK

\* Call d is what the API makes of the one in slot s.
Served(s, d) ==
    LET c == calls[s] IN
    /\ d \in Call /\ d.kind = c.kind /\ d.attended = c.attended
    /\ c.kind # "create" => d.order = c.order
    /\ calls' = [calls EXCEPT ![s] = IF d.attended \/ d.at = "checked" THEN d ELSE Idle]
    /\ CallOK(d, status', ratings')
    /\ c.at = "checked" => /\ d.at = "answered" /\ c.kind \in Targets
                           /\ ratings' = [ratings EXCEPT ![c.order][c.kind] = @ + 1]
    /\ c.at # "checked" => ratings' = ratings /\ c.at = "sent"
    /\ d.at = "checked" => c.kind \in Targets /\ ratings[c.order][c.kind] = 0
    /\ d.at = "checked" \/ (d.at \in {"answered", "refused"})
    /\ \A o \in Orders : status'[o] = "created" =>
          \/ status[o] = "created" /\ ~Buying(c, o)
          \/ c.kind = "create" /\ (d.attended => Buying(d, o))
    /\ c.kind = "list" => d.rows = status'

\* A refusal.
LEMMA RefuseEffect ==
    ASSUME BuyerInv, NEW s \in Slots, calls[s].at = "sent", calls[s].kind # "list",
           calls[s].kind = "driver" => ratings[calls[s].order]["driver"] # 0,
           \A o \in Orders : calls[s].kind = "pay" /\ status[o] = "created" => calls[s].order # o,
           Refuse(s, calls[s]), others' = others
    PROVE  Grows /\ Balanced /\ \E d \in Call : Served(s, d)
<1> DEFINE c == calls[s]
           d == [c EXCEPT !.at = "refused"]
<1>1. /\ TypeOK /\ c \in Call /\ CallOK(c, status, ratings)
      /\ status' = status /\ ratings' = ratings
      /\ calls' = [calls EXCEPT ![s] = IF c.attended THEN d ELSE Idle]
  BY BuyerFields DEF BuyerInv, CallsInv, Refuse, Reply
<1>2. /\ d \in Call /\ d.kind = c.kind /\ d.order = c.order /\ d.at = "refused"
      /\ d.rows = c.rows /\ d.attended = c.attended
  BY <1>1, CallAt
<1>3. Grows
  BY <1>1, BuyerFields, AheadFacts DEF Grows
<1> HIDE DEF d
<1>4. c.kind = "driver" => ratings[c.order]["driver"] > 0
  <2>1. c.kind = "driver" => c.order \in Orders
    BY <1>1 DEF CallOK, Targets
  <2> QED
    BY <1>1, <2>1, BuyerFields DEF Targets
<1>5. CallOK(d, status', ratings')
  BY <1>1, <1>2, <1>4 DEF CallOK
<1>6. \A o \in Orders : status[o] = "created" => ~Buying(c, o)
  BY DEF Buying
<1>7. Balanced
  BY <1>1 DEF Balanced, Refuse, BuyerInv, TypeOK, UnitsConserved
<1> QED
  BY <1>1, <1>2, <1>3, <1>5, <1>6, <1>7 DEF Served

\* One order goes on.
LEMMA StatusGrows ==
    ASSUME TypeOK, NEW o \in Orders, NEW to \in Stages, ratings' = ratings,
           status' = [status EXCEPT ![o] = to], status[o] = "none" \/ Ahead(status[o], to)
    PROVE  Grows /\ \A q \in Orders : status'[q] = IF q = o THEN to ELSE status[q]
<1>1. to \in Status /\ to # "none"
  BY DEF Stages, Status
<1>2. \A q \in Orders : status'[q] = IF q = o THEN to ELSE status[q]
  BY BuyerFields
<1>3. status' \in [Orders -> Status]
  BY <1>1, BuyerFields
<1> QED
  BY <1>1, <1>2, <1>3, BuyerFields, AheadFacts DEF Grows

\* createOrder.
LEMMA CreateEffect ==
    ASSUME BuyerInv, NEW s \in Slots, calls[s].at = "sent", calls[s].kind = "create",
           CreateOrder(s, calls[s]), others' = others
    PROVE  Grows /\ Balanced /\ \E d \in Call : Served(s, d)
<1> DEFINE c == calls[s]
<1>0. TypeOK /\ UnitsConserved /\ c \in Call
  BY BuyerFields DEF BuyerInv
<1>1. CASE Refuse(s, c)
  BY <1>1, RefuseEffect
<1>2. ASSUME stock > 0, stock' = stock - 1, ratings' = ratings,
             NEW o \in Orders, status[o] = "none",
             status' = [status EXCEPT ![o] = "created"],
             Reply(s, [c EXCEPT !.order = o], "answered")
      PROVE  Grows /\ Balanced /\ \E d \in Call : Served(s, d)
  <2> DEFINE e == [c EXCEPT !.order = o]
             d == [e EXCEPT !.at = "answered"]
  <2>1. e \in Call /\ e.kind = c.kind /\ e.order = o /\ e.attended = c.attended
    BY <1>0 DEF Call
  <2>2. calls' = [calls EXCEPT ![s] = IF e.attended THEN d ELSE Idle]
    BY <1>2 DEF Reply
  <2> HIDE DEF e
  <2>3. d \in Call /\ d.kind = c.kind /\ d.order = o /\ d.at = "answered" /\ d.attended = c.attended
    BY <2>1, CallAt
  <2> HIDE DEF d
  <2>4. "created" \in Stages /\ "created" \in Status
    BY DEF Stages, Status
  <2>5. Grows /\ \A q \in Orders : status'[q] = IF q = o THEN "created" ELSE status[q]
    BY <1>0, <1>2, <2>4, StatusGrows
  <2>6. Balanced
    BY <1>0, <1>2, <2>4, UnitMoves
  <2>7. CallOK(d, status', ratings')
    BY <2>3 DEF CallOK, Targets
  <2>8. \A q \in Orders : status'[q] = "created" =>
           (status[q] = "created" /\ ~Buying(c, q)) \/ Buying(d, q)
    BY <2>3, <2>5 DEF Buying
  <2> QED
    BY <1>2, <2>1, <2>2, <2>3, <2>5, <2>6, <2>7, <2>8 DEF Served
<1> QED
  BY <1>1, <1>2 DEF CreateOrder

\* payOrder and cancelOrder have in common that the order of call c goes on.
LEMMA OrderEffect ==
    ASSUME BuyerInv, NEW s \in Slots, calls[s].at = "sent", others' = others,
           calls[s].kind = "pay" \/ calls[s].kind = "cancel",
           NEW to \in Stages, to # "created",
           calls[s].kind = "cancel" => to = "cancelled",
           status' = [status EXCEPT ![calls[s].order] = to], ratings' = ratings,
           Ahead(status[calls[s].order], to), Balanced, Reply(s, calls[s], "answered")
    PROVE  Grows /\ \E d \in Call : Served(s, d)
<1> DEFINE c == calls[s]
           d == [c EXCEPT !.at = "answered"]
<1>1. TypeOK /\ c \in Call /\ c.order \in Orders
  BY BuyerFields DEF BuyerInv, CallsInv, CallOK
<1>2. /\ d \in Call /\ d.kind = c.kind /\ d.order = c.order /\ d.at = "answered"
      /\ d.attended = c.attended
  BY <1>1, CallAt
<1>3. calls' = [calls EXCEPT ![s] = IF c.attended THEN d ELSE Idle]
  BY DEF Reply
<1> HIDE DEF d
<1>4. Grows /\ \A q \in Orders : status'[q] = IF q = c.order THEN to ELSE status[q]
  BY <1>1, StatusGrows
<1>5. CallOK(d, status', ratings')
  BY <1>1, <1>2, <1>4 DEF CallOK, Targets
<1>6. \A q \in Orders : status'[q] = "created" => status[q] = "created" /\ ~Buying(c, q)
  BY <1>4 DEF Buying
<1> QED
  BY <1>2, <1>3, <1>4, <1>5, <1>6 DEF Served

\* payOrder.
LEMMA PayEffect ==
    ASSUME BuyerInv, NEW s \in Slots, calls[s].at = "sent", calls[s].kind = "pay",
           PayOrder(s, calls[s]), others' = others
    PROVE  Grows /\ Balanced /\ \E d \in Call : Served(s, d)
<1> DEFINE c == calls[s]
<1>0. TypeOK /\ UnitsConserved /\ c.order \in Orders
  BY DEF BuyerInv, CallsInv, CallOK
<1>1. CASE status[c.order] # "created" /\ Refuse(s, c)
  BY <1>1, RefuseEffect
<1>2. CASE /\ status[c.order] = "created" /\ Reply(s, c, "answered")
           /\ status' = [status EXCEPT ![c.order] = "paid"] /\ UNCHANGED <<stock, ratings>>
  <2>1. "paid" \in Stages /\ "paid" \in Status /\ Ahead("created", "paid")
    BY StatusMoves DEF Stages, Status
  <2>2. Balanced
    BY <1>0, <1>2, <2>1, UnitMoves
  <2> QED
    BY <1>0, <1>2, <2>1, <2>2, OrderEffect
<1> QED
  BY <1>1, <1>2 DEF PayOrder

\* cancelOrder.
LEMMA CancelEffect ==
    ASSUME BuyerInv, NEW s \in Slots, calls[s].at = "sent", calls[s].kind = "cancel",
           CancelOrder(s, calls[s]), others' = others
    PROVE  Grows /\ Balanced /\ \E d \in Call : Served(s, d)
<1> DEFINE c == calls[s]
<1>0. TypeOK /\ UnitsConserved /\ c.order \in Orders
  BY DEF BuyerInv, CallsInv, CallOK
<1>1. CASE Refuse(s, c)
  BY <1>1, RefuseEffect
<1>2. CASE /\ status[c.order] \in CANCELLABLE /\ Reply(s, c, "answered")
           /\ status' = [status EXCEPT ![c.order] = "cancelled"] /\ stock' = stock + 1
           /\ ratings' = ratings
  <2>1. /\ "cancelled" \in Stages /\ "cancelled" \in Status
        /\ Ahead(status[c.order], "cancelled") /\ status[c.order] \notin {"none", "cancelled"}
    BY <1>2, StatusMoves DEF Stages, Status, CANCELLABLE
  <2>2. Balanced
    BY <1>0, <1>2, <2>1, UnitMoves
  <2> QED
    BY <1>0, <1>2, <2>1, <2>2, OrderEffect
<1> QED
  BY <1>1, <1>2 DEF CancelOrder, Cancellable

\* An order that stays where it is.
LEMMA NothingMoves ==
    ASSUME TypeOK, UnitsConserved, UNCHANGED <<status, stock, others>>,
           \A o \in Orders, t \in Targets : ratings'[o][t] \in Nat /\ ratings[o][t] <= ratings'[o][t]
    PROVE  Grows /\ Balanced
BY BuyerFields, AheadFacts DEF Grows, Balanced, UnitsConserved, TypeOK

\* GET /buyer/orders.
LEMMA ListEffect ==
    ASSUME BuyerInv, NEW s \in Slots, calls[s].at = "sent", calls[s].kind = "list",
           MyOrders(s, calls[s]), others' = others
    PROVE  Grows /\ Balanced /\ \E d \in Call : Served(s, d)
<1> DEFINE c == calls[s]
           e == [c EXCEPT !.rows = status]
           d == [e EXCEPT !.at = "answered"]
<1>1. TypeOK /\ UnitsConserved /\ c \in Call
  BY BuyerFields DEF BuyerInv
<1>2. /\ e \in Call /\ e.kind = c.kind /\ e.order = c.order /\ e.rows = status
      /\ e.attended = c.attended
  BY <1>1, BuyerFields DEF Call
<1>3. /\ calls' = [calls EXCEPT ![s] = IF e.attended THEN d ELSE Idle]
      /\ UNCHANGED <<status, stock, ratings>>
  BY DEF MyOrders, Reply
<1> HIDE DEF e
<1>4. /\ d \in Call /\ d.kind = c.kind /\ d.order = c.order /\ d.at = "answered"
      /\ d.rows = status /\ d.attended = c.attended
  BY <1>2, CallAt
<1> HIDE DEF d
<1>5. Grows /\ Balanced
  BY <1>1, <1>3, BuyerFields, NothingMoves
<1>6. CallOK(d, status', ratings')
  BY <1>3, <1>4, BuyerFields, AheadFacts DEF CallOK, Targets, BuyerInv
<1>7. \A o \in Orders : ~Buying(c, o)
  BY DEF Buying
<1> QED
  BY <1>2, <1>3, <1>4, <1>5, <1>6, <1>7 DEF Served

\* rate up to its check.
LEMMA RateCheckEffect ==
    ASSUME BuyerInv, NEW s \in Slots, calls[s].at = "sent", calls[s].kind \in Targets,
           RateCheck(s, calls[s]), others' = others
    PROVE  Grows /\ Balanced /\ \E d \in Call : Served(s, d)
<1> DEFINE c == calls[s]
<1>0. TypeOK /\ UnitsConserved /\ c \in Call /\ c.order \in Orders /\ CallOK(c, status, ratings)
  BY BuyerFields DEF BuyerInv, CallsInv, CallOK
<1>1. CASE ~Ratable(c.order, c.kind) /\ Refuse(s, c)
  <2>1. c.kind = "driver" => ratings[c.order]["driver"] # 0
    BY <1>0, <1>1 DEF CallOK, Ratable
  <2> QED
    BY <1>1, <2>1, RefuseEffect DEF Targets
<1>2. CASE /\ Ratable(c.order, c.kind) /\ calls' = [calls EXCEPT ![s].at = "checked"]
           /\ UNCHANGED <<status, stock, ratings>>
  <2> DEFINE d == [c EXCEPT !.at = "checked"]
  <2>1. /\ d \in Call /\ d.kind = c.kind /\ d.order = c.order /\ d.at = "checked"
        /\ d.attended = c.attended
    BY <1>0, CallAt
  <2>2. calls' = [calls EXCEPT ![s] = d]
    BY <1>2
  <2> HIDE DEF d
  <2>3. Grows /\ Balanced
    BY <1>0, <1>2, BuyerFields, NothingMoves
  <2>4. CallOK(d, status', ratings')
    BY <1>0, <1>2, <2>1 DEF CallOK, Targets, Ratable
  <2>5. \A o \in Orders : ~Buying(c, o)
    BY DEF Buying, Targets
  <2> QED
    BY <1>2, <2>1, <2>2, <2>3, <2>4, <2>5 DEF Served, Targets, Ratable
<1> QED
  BY <1>1, <1>2 DEF RateCheck

\* Its INSERT.
LEMMA RateInsertEffect ==
    ASSUME BuyerInv, NEW s \in Slots, calls[s].at = "checked",
           RateInsert(s, calls[s]), others' = others
    PROVE  Grows /\ Balanced /\ \E d \in Call : Served(s, d)
<1> DEFINE c == calls[s]
           d == [c EXCEPT !.at = "answered"]
<1>1. /\ TypeOK /\ UnitsConserved /\ c \in Call /\ c.order \in Orders /\ c.kind \in Targets
      /\ CallOK(c, status, ratings)
  BY BuyerFields DEF BuyerInv, CallsInv, CallOK
<1>2. /\ d \in Call /\ d.kind = c.kind /\ d.order = c.order /\ d.at = "answered"
      /\ d.attended = c.attended
  BY <1>1, CallAt
<1>3. /\ calls' = [calls EXCEPT ![s] = IF c.attended THEN d ELSE Idle]
      /\ ratings' = [ratings EXCEPT ![c.order][c.kind] = @ + 1] /\ UNCHANGED <<status, stock>>
  BY DEF RateInsert, Reply
<1> HIDE DEF d
<1>4. /\ \A o \in Orders, t \in Targets :
            ratings'[o][t] = IF o = c.order /\ t = c.kind THEN ratings[o][t] + 1 ELSE ratings[o][t]
      /\ \A o \in Orders, t \in Targets : ratings[o][t] \in Nat
  BY <1>1, <1>3, BuyerFields DEF TypeOK
<1>5. \A o \in Orders, t \in Targets : ratings'[o][t] \in Nat /\ ratings[o][t] <= ratings'[o][t]
  BY <1>4
<1>6. Grows /\ Balanced
  BY <1>1, <1>3, <1>5, NothingMoves
<1>7. CallOK(d, status', ratings')
  <2>1. ratings'[c.order][c.kind] > 0
    BY <1>1, <1>4
  <2>2. c.kind = "driver" => ratings'[c.order]["seller"] > 0
    BY <1>1, <1>4 DEF CallOK, Targets
  <2> QED
    BY <1>1, <1>2, <1>3, <2>1, <2>2 DEF CallOK, Targets
<1>8. \A o \in Orders : ~Buying(c, o)
  BY <1>1 DEF Buying, Targets
<1> QED
  BY <1>1, <1>2, <1>3, <1>6, <1>7, <1>8 DEF Served, Targets

\* The API takes a call one statement further.
LEMMA ServeEffect ==
    ASSUME BuyerInv, NEW s \in Slots, Serve(s)
    PROVE  /\ Grows /\ Balanced /\ UNCHANGED <<others, screen, shown, told>>
           /\ \E d \in Call : Served(s, d)
BY CreateEffect, PayEffect, CancelEffect, ListEffect, RateCheckEffect, RateInsertEffect DEF Serve

\* So do drivers, the admin and other buyers.
World == (\E o \in Orders : Carry(o) \/ AdminCancel(o)) \/ OthersBuy

\* An order they carry or cancel goes on, and none is made.
LEMMA WorldEffect ==
    ASSUME BuyerInv, World
    PROVE  /\ Grows /\ Balanced /\ UNCHANGED <<ratings, calls, screen, shown, told>>
           /\ \A o \in Orders : status'[o] = "created" => status[o] = "created"
<1>0. TypeOK /\ UnitsConserved
  BY DEF BuyerInv
<1>1. ASSUME NEW o \in Orders, Carry(o)
      PROVE  /\ Grows /\ Balanced
             /\ \A q \in Orders : status'[q] = "created" => status[q] = "created"
  <2>1. PICK to \in Stages : Carried(status[o], to) /\ status' = [status EXCEPT ![o] = to]
    BY <1>1 DEF Carry
  <2>2. /\ Ahead(status[o], to) /\ status[o] # "none" /\ to # "created" /\ to \in Status
        /\ status[o] # "cancelled" /\ to # "cancelled" /\ to # "none"
    BY <1>0, <2>1, BuyerFields, StatusMoves DEF Stages, Status, Carried
  <2>3. Balanced
    BY <1>0, <1>1, <2>1, <2>2, UnitMoves DEF Carry
  <2>4. ratings' = ratings
    BY <1>1 DEF Carry
  <2>5. Grows /\ \A q \in Orders : status'[q] = IF q = o THEN to ELSE status[q]
    BY <1>0, <2>1, <2>2, <2>4, StatusGrows
  <2> QED
    BY <2>1, <2>2, <2>3, <2>5
<1>2. ASSUME NEW o \in Orders, AdminCancel(o)
      PROVE  /\ Grows /\ Balanced
             /\ \A q \in Orders : status'[q] = "created" => status[q] = "created"
  <2>1. /\ "cancelled" \in Stages /\ "cancelled" \in Status
        /\ Ahead(status[o], "cancelled") /\ status[o] \notin {"none", "cancelled"}
    BY <1>2, StatusMoves DEF Stages, Status, CANCELLABLE, AdminCancel, Cancellable
  <2>2. Balanced
    BY <1>0, <1>2, <2>1, UnitMoves DEF AdminCancel
  <2>4. ratings' = ratings /\ status' = [status EXCEPT ![o] = "cancelled"]
    BY <1>2 DEF AdminCancel
  <2>5. Grows /\ \A q \in Orders : status'[q] = IF q = o THEN "cancelled" ELSE status[q]
    BY <1>0, <2>1, <2>2, <2>4, StatusGrows
  <2> QED
    BY <2>1, <2>2, <2>5
<1>3. CASE OthersBuy
  <2>1. Grows
    BY <1>0, <1>3, BuyerFields, AheadFacts DEF Grows, OthersBuy
  <2>2. Balanced
    <3>1. Cardinality(Held(status)) \in Nat /\ stock \in Nat /\ others \in Nat
      BY <1>0, BuyerAssumption, FS_Subset, FS_CardinalityType DEF Held, TypeOK
    <3> QED
      BY <1>0, <1>3, <3>1 DEF OthersBuy, Balanced, UnitsConserved, Held
  <2> QED
    BY <1>3, <2>1, <2>2 DEF OthersBuy
<1> QED
  BY <1>1, <1>2, <1>3 DEF World, Carry, AdminCancel, OthersBuy

-----------------------------------------------------------------------------
(* What the phone does *)

\* What becomes of a call when another screen is shown.
Follows(c, d) ==
    \/ d = c
    \/ c.kind \in {"list", "cancel"} /\ d = Idle
    \/ c.kind = "cancel" /\ d = [c EXCEPT !.attended = FALSE]
    \/ c = Idle /\ d = Send("list", NoOrder)

\* Slot s holds d, and with that another screen may be shown.
Put(s, d, r) == IF r = s THEN d ELSE calls[r]

Moved(s, d) ==
    /\ calls' \in [Slots -> Call]
    /\ \A r \in Slots : Follows(Put(s, d, r), calls'[r])
    /\ \/ \A r \in Slots : calls'[r].attended => Put(s, d, r).attended
       \/ ~d.attended /\ \E q \in Slots : /\ calls'[q] = Send("list", NoOrder)
                                          /\ \A r \in Slots \ {q} : calls'[r] = Put(s, d, r)
    /\ d.attended => calls'[s] = d

\* No other screen.
LEMMA StayEffect ==
    ASSUME TypeOK, NEW s \in Slots, NEW d \in Call, calls' = [calls EXCEPT ![s] = d]
    PROVE  Moved(s, d)
<1>1. calls' \in [Slots -> Call] /\ \A r \in Slots : calls'[r] = Put(s, d, r)
  BY DEF TypeOK, Put
<1> QED
  BY <1>1 DEF Moved, Follows

\* Another screen, or the same.
LEMMA NavigateEffect ==
    ASSUME TypeOK, NEW s \in Slots, NEW d \in Call, d.attended => d.kind \in {"create", "seller"},
           NEW to \in {"shop", "orders", "rate"}, to = "orders" => ~d.attended,
           Navigate([calls EXCEPT ![s] = d], to)
    PROVE  Moved(s, d) /\ screen' = to /\ shown' \in {shown, NoRows}
<1> DEFINE cs == [calls EXCEPT ![s] = d]
<1>0. /\ cs \in [Slots -> Call] /\ \A r \in Slots : cs[r] = Put(s, d, r)
      /\ \A r \in Slots : Put(s, d, r) \in Call
  BY DEF TypeOK, Put
<1>1. screen' = to /\ shown' \in {shown, NoRows}
  BY DEF Navigate
<1>2. CASE to = screen
  BY <1>1, <1>2, StayEffect DEF Navigate
<1>3. CASE to # screen /\ to # "orders"
  <2>1. calls' = Leave(cs)
    BY <1>3 DEF Navigate
  <2> HIDE DEF cs
  <2>2. ASSUME NEW r \in Slots
        PROVE  LET c == Put(s, d, r)
               IN  /\ calls'[r] \in Call /\ Follows(c, calls'[r])
                   /\ calls'[r].attended => c.attended
                   /\ c.kind \notin {"list", "cancel"} => calls'[r] = c
    <3> DEFINE c == Put(s, d, r)
               e == [c EXCEPT !.attended = FALSE]
    <3>1. c \in Call /\ e \in Call /\ e.attended = FALSE
      BY <1>0, CallAbandoned
    <3>2. calls'[r] = IF c.kind = "list" \/ (c.kind = "cancel" /\ c.at # "sent") THEN Idle
                      ELSE IF c.kind = "cancel" THEN e ELSE c
      BY <1>0, <2>1 DEF Leave
    <3> HIDE DEF c, e
    <3> QED
      BY <3>1, <3>2, Sent DEF Follows, e, c
  <2>3. calls' \in [Slots -> Call]
    BY <2>1, <2>2 DEF Leave
  <2>4. d.attended => calls'[s] = d
    BY <2>2 DEF Put
  <2> QED
    BY <1>1, <2>2, <2>3, <2>4 DEF Moved
<1>4. CASE to # screen /\ to = "orders"
  <2>1. PICK q \in Slots : cs[q] = Idle /\ calls' = [cs EXCEPT ![q] = Send("list", NoOrder)]
    BY <1>4 DEF Navigate
  <2> HIDE DEF cs
  <2>2. /\ calls' \in [Slots -> Call] /\ calls'[q] = Send("list", NoOrder)
        /\ \A r \in Slots \ {q} : calls'[r] = Put(s, d, r)
        /\ Put(s, d, q) = Idle
    BY <1>0, <2>1, Sent
  <2>3. \A r \in Slots : Follows(Put(s, d, r), calls'[r])
    BY <2>2 DEF Follows
  <2> QED
    BY <1>1, <1>4, <2>2, <2>3 DEF Moved
<1> QED
  BY <1>2, <1>3, <1>4

\* The phone does something about slot s, where its handler then has d in flight.
PhoneStep(s, d) ==
    LET c == calls[s] IN
    /\ UNCHANGED <<status, stock, others, ratings>>
    /\ d \in Call /\ Moved(s, d) /\ CallOK(d, status, ratings)
    /\ \/ d = Idle
       \/ d.attended /\ d.at = "sent"
       \/ d = [c EXCEPT !.attended = FALSE] /\ {"lost", "late"} \subseteq hazards
    /\ "lost" \notin hazards => \/ c = Idle
                                \/ c.at = "answered" /\ d = After(c)
                                \/ c.at = "refused"
    /\ "impatient" \notin hazards => \A r \in Slots \ {s} : ~calls[r].attended
    /\ screen' \in {"shop", "orders", "rate"}
    /\ \/ shown' = NoRows
       \/ shown' = shown /\ ~(c.attended /\ c.kind = "list")
       \/ shown' = c.rows /\ c.attended /\ c.kind = "list" /\ c.at = "answered"
    /\ told \subseteq told'
    /\ \A f \in told' \ told :
          \/ /\ f = <<"cancelled", c.order>> /\ c.kind = "cancel" /\ c.at = "answered"
             /\ d = Send("list", NoOrder)
          \/ /\ f = <<"thanks", c.order>> /\ c.kind = "driver"
             /\ c.at \in {"answered", "refused"} \/ "lost" \in hazards

\* What a new call means.
LEMMA SentOK ==
    ASSUME TypeOK, NEW kind \in {"create", "pay", "cancel", "list"} \cup Targets,
           NEW o \in Orders \cup {NoOrder}, kind \notin {"create", "list"} => o \in Orders,
           kind = "driver" => status[o] = "delivered" /\ ratings[o]["seller"] > 0
    PROVE  CallOK(Send(kind, o), status, ratings) /\ CallOK(Idle, status, ratings)
BY Sent DEF CallOK, Targets

\* A button of a screen that waits for nothing else.
LEMMA TapEffect ==
    ASSUME BuyerInv, Buy \/ Visit \/ Refresh \/ \E o \in Orders : Cancel(o) \/ Submit(o)
    PROVE  \E s \in Slots, d \in Call : PhoneStep(s, d)
<1>0. TypeOK
  BY DEF BuyerInv
<1>1. ASSUME NEW kind \in {"create", "cancel", "seller", "list"}, NEW o \in Orders \cup {NoOrder},
             kind \in {"cancel", "seller"} => o \in Orders, Ready,
             UNCHANGED <<status, stock, others, ratings, told>>, NEW cs \in CallsWith(kind, o),
             \/ calls' = cs /\ UNCHANGED <<screen, shown>>
             \/ kind = "create" /\ Navigate(cs, "shop")
             \/ kind = "seller" /\ Navigate(cs, "rate")
      PROVE  \E s \in Slots, d \in Call : PhoneStep(s, d)
  <2> DEFINE d == Send(kind, o)
  <2>1. PICK s \in Slots : calls[s] = Idle /\ cs = [calls EXCEPT ![s] = d]
    BY <1>1 DEF CallsWith
  <2>2. d \in Call /\ d.kind = kind /\ d.at = "sent" /\ d.attended
    BY Sent DEF Targets
  <2>3. CallOK(d, status, ratings)
    BY <1>0, <1>1, SentOK DEF Targets
  <2> HIDE DEF d
  <2>4. Moved(s, d) /\ screen' \in {"shop", "orders", "rate"} /\ shown' \in {shown, NoRows}
    BY <1>0, <1>1, <2>1, <2>2, StayEffect, NavigateEffect DEF TypeOK
  <2>5. ~calls[s].attended
    BY <2>1, Sent
  <2> QED
    BY <1>1, <2>1, <2>2, <2>3, <2>4, <2>5 DEF PhoneStep, Ready
<1>2. CASE Buy
  BY <1>1, <1>2 DEF Buy
<1>3. CASE Refresh
  BY <1>1, <1>3 DEF Refresh
<1>4. ASSUME NEW o \in Orders, Cancel(o)
      PROVE  \E s \in Slots, d \in Call : PhoneStep(s, d)
  BY <1>1, <1>4 DEF Cancel
<1>5. ASSUME NEW o \in Orders, Submit(o)
      PROVE  \E s \in Slots, d \in Call : PhoneStep(s, d)
  BY <1>1, <1>5 DEF Submit
<1>6. CASE Visit
  <2>1. PICK s \in Slots : calls[s] = Idle
    BY <1>6 DEF Visit, Navigate
  <2>2. calls = [calls EXCEPT ![s] = Idle]
    BY <1>0, <2>1 DEF TypeOK
  <2>3. Idle \in Call /\ ~Idle.attended /\ CallOK(Idle, status, ratings)
    BY <1>0, Sent, SentOK
  <2>4. Moved(s, Idle) /\ screen' = "orders" /\ shown' \in {shown, NoRows}
    BY <1>6, <2>2, <2>3, <1>0, NavigateEffect DEF Visit
  <2> QED
    BY <1>6, <2>1, <2>3, <2>4 DEF Visit, PhoneStep, Ready
<1> QED
  BY <1>2, <1>3, <1>4, <1>5, <1>6

\* A buyer who waits waits for one call.
LEMMA OnlyOne ==
    ASSUME BuyerInv, NEW s \in Slots, calls[s].attended
    PROVE  "impatient" \notin hazards => \A r \in Slots \ {s} : ~calls[r].attended
BY DEF BuyerInv, PatientInv

\* Where nav.goBack leads.
LEMMA BackTo == Back \in {"shop", "orders", "rate"}
BY DEF Back

\* The catch of a handler.
LEMMA CatchEffect ==
    ASSUME BuyerInv, NEW s \in Slots, NEW d \in Call, calls[s].attended, ~d.attended,
           d = Idle \/ (d = [calls[s] EXCEPT !.attended = FALSE] /\ {"lost", "late"} \subseteq hazards),
           calls[s].at = "refused" \/ "lost" \in hazards,
           Catch(calls[s], [calls EXCEPT ![s] = d]),
           UNCHANGED <<status, stock, others, ratings>>
    PROVE  PhoneStep(s, d)
<1> DEFINE c == calls[s]
<1>0. TypeOK /\ c \in Call /\ CallOK(c, status, ratings)
  BY BuyerFields DEF BuyerInv, CallsInv
<1>1. CallOK(d, status, ratings)
  <2>1. CASE d = Idle
    BY <1>0, <2>1, SentOK DEF Targets
  <2>2. CASE d = [c EXCEPT !.attended = FALSE]
    BY <1>0, <2>2, CallAbandoned DEF CallOK
  <2> QED
    BY <2>1, <2>2
<1>2. CASE c.kind = "driver"
  <2>1. Moved(s, d) /\ screen' \in {"shop", "orders", "rate"} /\ shown' \in {shown, NoRows}
    BY <1>0, <1>2, NavigateEffect, BackTo DEF Catch
  <2>2. told' = told \cup {<<"thanks", c.order>>}
    BY <1>2 DEF Catch, Says
  <2> QED
    BY <1>1, <1>2, <2>1, <2>2, OnlyOne DEF PhoneStep
<1>3. CASE c.kind # "driver"
  <2>1. calls' = [calls EXCEPT ![s] = d] /\ UNCHANGED <<screen, told>>
    BY <1>3 DEF Catch
  <2>2. Moved(s, d)
    BY <1>0, <2>1, StayEffect
  <2>3. screen' \in {"shop", "orders", "rate"}
    BY <1>0, <2>1 DEF TypeOK
  <2>4. \/ shown' = NoRows
        \/ shown' = shown /\ ~(c.attended /\ c.kind = "list")
    BY <1>3 DEF Catch
  <2> QED
    BY <1>1, <2>1, <2>2, <2>3, <2>4, OnlyOne DEF PhoneStep
<1> QED
  BY <1>2, <1>3

\* What a handler sends next.
LEMMA AfterOK ==
    ASSUME BuyerInv, NEW s \in Slots, calls[s].at = "answered"
    PROVE  LET c == calls[s]
               d == After(c)
           IN  /\ d \in Call /\ CallOK(d, status, ratings) /\ (d = Idle \/ (d.attended /\ d.at = "sent"))
               /\ c.kind \in {"pay", "driver"} => d = Idle
               /\ c.kind = "cancel" => d = Send("list", NoOrder)
<1> DEFINE c == calls[s]
<1>0. TypeOK /\ c \in Call /\ CallOK(c, status, ratings)
  BY BuyerFields DEF BuyerInv, CallsInv
<1>1. CASE c.kind = "create"
  <2>1. After(c) = Send("pay", c.order) /\ c.order \in Orders
    BY <1>0, <1>1 DEF After, CallOK
  <2> QED
    BY <1>0, <1>1, <2>1, Sent, SentOK DEF Targets
<1>2. CASE c.kind = "cancel"
  <2>1. After(c) = Send("list", NoOrder)
    BY <1>2 DEF After
  <2> QED
    BY <1>0, <1>2, <2>1, Sent, SentOK DEF Targets
<1>3. CASE c.kind = "seller"
  <2>1. After(c) = Send("driver", c.order) /\ c.order \in Orders
    BY <1>0, <1>3 DEF After, CallOK, Targets
  <2>2. status[c.order] = "delivered" /\ ratings[c.order]["seller"] > 0
    BY <1>0, <1>3 DEF CallOK, Targets
  <2> QED
    BY <1>0, <1>3, <2>1, <2>2, Sent, SentOK DEF Targets
<1>4. CASE c.kind \in {"pay", "list", "driver"}
  <2>1. After(c) = Idle
    BY <1>4 DEF After
  <2> QED
    BY <1>0, <1>4, <2>1, Sent, SentOK DEF Targets
<1> QED
  BY <1>0, <1>1, <1>2, <1>3, <1>4, CallFields DEF Targets

\* A call that has succeeded.
LEMMA ResumeEffect ==
    ASSUME BuyerInv, NEW s \in Slots, Resume(s)
    PROVE  \E d \in Call : PhoneStep(s, d)
<1> DEFINE c == calls[s]
           d == After(c)
<1>0. TypeOK /\ c \in Call /\ CallOK(c, status, ratings)
  BY BuyerFields DEF BuyerInv, CallsInv
<1>1. /\ c.attended /\ c.at = "answered" /\ told' = told \cup Says(c)
      /\ UNCHANGED <<status, stock, others, ratings>>
  BY DEF Resume
<1>2. /\ d \in Call /\ CallOK(d, status, ratings) /\ (d = Idle \/ (d.attended /\ d.at = "sent"))
      /\ c.kind \in {"pay", "driver"} => d = Idle
      /\ c.kind = "cancel" => d = Send("list", NoOrder)
  BY <1>1, AfterOK
<1>3. Idle.attended = FALSE
  BY Sent
<1> HIDE DEF d
<1>4. Moved(s, d) /\ screen' \in {"shop", "orders", "rate"}
  <2>1. CASE c.kind = "pay" /\ Navigate([calls EXCEPT ![s] = d], "orders")
    BY <1>0, <1>2, <1>3, <2>1, NavigateEffect
  <2>2. CASE c.kind = "driver" /\ Navigate([calls EXCEPT ![s] = d], Back)
    BY <1>0, <1>2, <1>3, <2>2, NavigateEffect, BackTo
  <2>3. CASE calls' = [calls EXCEPT ![s] = d] /\ UNCHANGED screen
    BY <1>0, <1>2, <2>3, StayEffect DEF TypeOK
  <2> QED
    BY <2>1, <2>2, <2>3 DEF Resume, d
<1>5. \/ shown' = NoRows
      \/ shown' = shown /\ ~(c.attended /\ c.kind = "list")
      \/ shown' = c.rows /\ c.attended /\ c.kind = "list" /\ c.at = "answered"
  BY <1>1 DEF Resume, Navigate
<1>6. \A f \in told' \ told :
         \/ /\ f = <<"cancelled", c.order>> /\ c.kind = "cancel" /\ c.at = "answered"
            /\ d = Send("list", NoOrder)
         \/ f = <<"thanks", c.order>> /\ c.kind = "driver"
  BY <1>1, <1>2 DEF Says
<1>7. "lost" \notin hazards => c.at = "answered" /\ d = After(c)
  BY <1>1 DEF d
<1> QED
  BY <1>1, <1>2, <1>4, <1>5, <1>6, <1>7, OnlyOne DEF PhoneStep

\* A refusal, or no answer.
LEMMA CaughtEffect ==
    ASSUME BuyerInv, NEW s \in Slots, ReceiveRefusal(s) \/ Lose(s)
    PROVE  \E d \in Call : PhoneStep(s, d)
<1> DEFINE c == calls[s]
           e == [c EXCEPT !.attended = FALSE]
<1>0. TypeOK /\ c \in Call
  BY BuyerFields DEF BuyerInv
<1>1. Idle \in Call /\ ~Idle.attended /\ e \in Call /\ ~e.attended
  BY <1>0, Sent, CallAbandoned
<1>2. CASE ReceiveRefusal(s)
  BY <1>1, <1>2, CatchEffect DEF ReceiveRefusal
<1>3. CASE Lose(s)
  <2>1. CASE Catch(c, [calls EXCEPT ![s] = Idle])
    BY <1>1, <1>3, <2>1, CatchEffect DEF Lose
  <2>2. CASE "late" \in hazards /\ Catch(c, [calls EXCEPT ![s].attended = FALSE])
    <3>1. Catch(c, [calls EXCEPT ![s] = e])
      BY <2>2
    <3> QED
      BY <1>1, <1>3, <2>2, <3>1, CatchEffect DEF Lose
  <2> QED
    BY <1>3, <2>1, <2>2 DEF Lose
<1> QED
  BY <1>2, <1>3

\* Every step is of one of the three kinds, or none.
LEMMA StepKinds ==
    ASSUME BuyerInv, [Next]_vars
    PROVE  /\ hazards' = hazards
           /\ \/ /\ Grows /\ Balanced /\ UNCHANGED <<others, screen, shown, told>>
                 /\ \E s \in Slots, d \in Call : Served(s, d)
              \/ \E s \in Slots, d \in Call : PhoneStep(s, d)
              \/ /\ Grows /\ Balanced /\ UNCHANGED <<ratings, calls, screen, shown, told>>
                 /\ \A o \in Orders : status'[o] = "created" => status[o] = "created"
              \/ UNCHANGED vars
<1>1. hazards' = hazards
  BY DEF Next, vars
<1>2. ASSUME NEW s \in Slots, Serve(s)
      PROVE  /\ Grows /\ Balanced /\ UNCHANGED <<others, screen, shown, told>>
             /\ \E d \in Call : Served(s, d)
  BY <1>2, ServeEffect
<1>3. ASSUME NEW s \in Slots, Resume(s) \/ ReceiveRefusal(s) \/ Lose(s)
      PROVE  \E d \in Call : PhoneStep(s, d)
  BY <1>3, ResumeEffect, CaughtEffect
<1>4. CASE Buy \/ Visit \/ Refresh \/ \E o \in Orders : Cancel(o) \/ Submit(o)
  BY <1>1, <1>4, TapEffect
<1>5. CASE World
  BY <1>1, <1>5, WorldEffect
<1> QED
  BY <1>1, <1>2, <1>3, <1>4, <1>5 DEF Next, Proceed, World

-----------------------------------------------------------------------------
(* Every part of the invariant is kept *)

\* A call that has passed the check still has when the phone has done something.
LEMMA CheckedBefore ==
    ASSUME TypeOK, NEW s \in Slots, NEW d \in Call, PhoneStep(s, d), NEW r \in Slots,
           calls'[r].at = "checked", calls'[r].kind \in Targets
    PROVE  /\ calls[r].at = "checked" /\ calls[r].order = calls'[r].order
           /\ calls[r].kind = calls'[r].kind
<1> DEFINE e == [calls[s] EXCEPT !.attended = FALSE]
<1>0. /\ calls[s] \in Call /\ calls[r] \in Call
      /\ e.kind = calls[s].kind /\ e.order = calls[s].order /\ e.at = calls[s].at
  BY BuyerFields, CallAbandoned
<1>1. Follows(Put(s, d, r), calls'[r]) /\ Put(s, d, r) \in Call
  BY <1>0 DEF PhoneStep, Moved, Put
<1>2. calls'[r] = Put(s, d, r)
  <2> DEFINE g == Put(s, d, r)
             h == [g EXCEPT !.attended = FALSE]
  <2>1. h.kind = g.kind
    BY <1>1, CallAbandoned
  <2> HIDE DEF g, h
  <2>2. Idle.at = "refused" /\ Send("list", NoOrder).at = "sent"
    BY Sent
  <2> QED
    BY <1>1, <2>1, <2>2 DEF Follows, Targets, g, h
<1>3. CASE r # s
  BY <1>2, <1>3 DEF Put
<1>4. CASE r = s
  <2>1. d = e
    BY <1>2, <1>4, Sent DEF Put, PhoneStep
  <2> QED
    BY <1>0, <1>2, <1>4, <2>1 DEF Put
<1> QED
  BY <1>3, <1>4

\* A slot of its own for every call that has passed the check.
LEMMA CheckedFinite ==
    ASSUME TypeOK, NEW o \in Orders, NEW t \in Targets
    PROVE  /\ IsFiniteSet(Checked(o, t)) /\ IsFiniteSet(Checked(o, t)')
           /\ Cardinality(Checked(o, t)) \in Nat /\ Cardinality(Checked(o, t)') \in Nat
           /\ Cardinality(Checked(o, t)') <= Cardinality(Slots)
           /\ Cardinality(Slots) \in Nat /\ ratings[o][t] \in Nat
<1>1. Checked(o, t) \subseteq Slots /\ Checked(o, t)' \subseteq Slots
  BY DEF Checked
<1> QED
  BY <1>1, BuyerAssumption, BuyerFields, FS_Subset, FS_CardinalityType

\* Every rating needs a slot, which it gives back.
LEMMA RatingsKept ==
    ASSUME BuyerInv, [Next]_vars
    PROVE  RatingsInv'
<1>0. TypeOK /\ RatingsInv /\ CallsInv
  BY DEF BuyerInv
<1>1. SUFFICES ASSUME NEW o \in Orders, NEW t \in Targets
               PROVE  ratings'[o][t] + Cardinality(Checked(o, t)') <= Cardinality(Slots)
  BY DEF RatingsInv
<1>2. /\ IsFiniteSet(Checked(o, t)) /\ IsFiniteSet(Checked(o, t)')
      /\ Cardinality(Checked(o, t)) \in Nat /\ Cardinality(Checked(o, t)') \in Nat
      /\ Cardinality(Checked(o, t)') <= Cardinality(Slots)
      /\ Cardinality(Slots) \in Nat /\ ratings[o][t] \in Nat
      /\ ratings[o][t] + Cardinality(Checked(o, t)) <= Cardinality(Slots)
  BY <1>0, CheckedFinite DEF RatingsInv
<1>3. ASSUME ratings' = ratings, Checked(o, t)' \subseteq Checked(o, t)
      PROVE  ratings'[o][t] + Cardinality(Checked(o, t)') <= Cardinality(Slots)
  <2>1. Cardinality(Checked(o, t)') <= Cardinality(Checked(o, t))
    BY <1>2, <1>3, FS_Subset
  <2> QED
    BY <1>2, <1>3, <2>1
<1>4. ASSUME NEW s \in Slots, NEW d \in Call, Served(s, d)
      PROVE  ratings'[o][t] + Cardinality(Checked(o, t)') <= Cardinality(Slots)
  <2> DEFINE c == calls[s]
  <2>1. \A r \in Slots : calls'[r] = IF r = s THEN IF d.attended \/ d.at = "checked" THEN d ELSE Idle
                                     ELSE calls[r]
    BY <1>0, <1>4 DEF Served, TypeOK
  <2>2. CASE c.at = "checked"
    <3>1. c.kind \in Targets /\ c.order \in Orders /\ d.at = "answered"
      BY <1>0, <1>4, <2>2 DEF CallsInv, CallOK, Served
    <3>2. Checked(o, t)' = Checked(o, t) \ {s}
      BY <2>1, <3>1, Sent DEF Checked
    <3>3. CASE o = c.order /\ t = c.kind
      <4>1. s \in Checked(o, t)
        BY <2>2, <3>3 DEF Checked
      <4>2. Cardinality(Checked(o, t)') = Cardinality(Checked(o, t)) - 1
        BY <1>2, <3>2, <4>1, FS_RemoveElement
      <4>3. ratings'[o][t] = ratings[o][t] + 1
        BY <1>0, <1>4, <2>2, <3>3 DEF Served, TypeOK
      <4> QED
        BY <1>2, <4>2, <4>3
    <3>4. CASE ~(o = c.order /\ t = c.kind)
      <4>1. ratings'[o][t] = ratings[o][t]
        BY <1>0, <1>4, <2>2, <3>4 DEF Served, TypeOK
      <4>2. Cardinality(Checked(o, t)') <= Cardinality(Checked(o, t))
        BY <1>2, <3>2, FS_Subset
      <4> QED
        BY <1>2, <4>1, <4>2
    <3> QED
      BY <3>3, <3>4
  <2>3. CASE c.at # "checked"
    <3>1. ratings' = ratings
      BY <1>4, <2>3 DEF Served
    <3>2. CASE d.at = "checked" /\ d.order = o /\ d.kind = t
      <4>1. c.order = o /\ c.kind = t /\ ratings[o][t] = 0
        BY <1>4, <3>2 DEF Served, Targets
      <4> QED
        BY <1>2, <3>1, <4>1
    <3>3. CASE ~(d.at = "checked" /\ d.order = o /\ d.kind = t)
      <4>1. Checked(o, t)' \subseteq Checked(o, t)
        BY <2>1, <3>3, Sent DEF Checked
      <4> QED
        BY <1>3, <3>1, <4>1
    <3> QED
      BY <3>2, <3>3
  <2> QED
    BY <2>2, <2>3
<1>5. ASSUME NEW s \in Slots, NEW d \in Call, PhoneStep(s, d)
      PROVE  ratings'[o][t] + Cardinality(Checked(o, t)') <= Cardinality(Slots)
  <2>1. Checked(o, t)' \subseteq Checked(o, t)
    BY <1>0, <1>5, CheckedBefore DEF Checked
  <2> QED
    BY <1>3, <1>5, <2>1 DEF PhoneStep
<1>6. CASE UNCHANGED <<ratings, calls>>
  BY <1>3, <1>6 DEF Checked
<1> QED
  BY <1>4, <1>5, <1>6, StepKinds DEF vars

\* Values stay where they belong.
LEMMA TypesKept ==
    ASSUME BuyerInv, [Next]_vars
    PROVE  TypeOK' /\ UnitsConserved'
<1>0. TypeOK /\ UnitsConserved /\ RatingsInv' /\ hazards' = hazards
  BY RatingsKept, StepKinds DEF BuyerInv
<1>1. UnitsConserved' /\ stock' \in Nat /\ others' \in Nat
  <2>1. CASE Balanced
    BY <2>1 DEF Balanced
  <2>2. CASE UNCHANGED <<status, stock, others>>
    BY <1>0, <2>2 DEF UnitsConserved, TypeOK
  <2> QED
    BY <2>1, <2>2, StepKinds DEF PhoneStep, vars
<1>2. stock' \in 0 .. Stock /\ others' \in 0 .. Stock
  <2>1. Cardinality({o \in Orders : status'[o] \notin {"none", "cancelled"}}) \in Nat
    BY BuyerAssumption, FS_Subset, FS_CardinalityType
  <2> QED
    BY <1>1, <2>1, BuyerAssumption DEF UnitsConserved
<1>3. status' \in [Orders -> Status]
  BY <1>0, StepKinds DEF Grows, PhoneStep, TypeOK, vars
<1>4. calls' \in [Slots -> Call] /\ shown' \in [Orders -> Status]
  <2>1. ASSUME NEW s \in Slots, NEW d \in Call, Served(s, d)
        PROVE  calls' \in [Slots -> Call]
    BY <1>0, <2>1, Sent DEF Served, TypeOK
  <2>2. ASSUME NEW s \in Slots, NEW d \in Call, PhoneStep(s, d)
        PROVE  calls' \in [Slots -> Call] /\ shown' \in [Orders -> Status]
    <3>1. calls[s].rows \in [Orders -> Status]
      BY <1>0, BuyerFields, CallFields
    <3> QED
      BY <1>0, <2>2, <3>1, Sent DEF PhoneStep, Moved, TypeOK
  <2> QED
    BY <1>0, <2>1, <2>2, StepKinds DEF TypeOK, vars
<1>5. screen' \in {"shop", "orders", "rate"}
  BY <1>0, StepKinds DEF PhoneStep, TypeOK, vars
<1>6. told' \subseteq {"cancelled", "thanks"} \X Orders
  <2>1. ASSUME NEW s \in Slots, NEW d \in Call, PhoneStep(s, d)
        PROVE  told' \subseteq {"cancelled", "thanks"} \X Orders
    <3>1. calls[s].kind \in {"cancel", "driver"} => calls[s].order \in Orders
      BY DEF BuyerInv, CallsInv, CallOK, Targets
    <3> QED
      BY <1>0, <2>1, <3>1 DEF PhoneStep, TypeOK
  <2> QED
    BY <1>0, <2>1, StepKinds DEF TypeOK, vars
<1>7. ratings' \in [Orders -> [Targets -> 0 .. Cardinality(Slots)]]
  <2>1. ratings' \in [Orders -> [Targets -> Nat]]
    <3>1. ratings \in [Orders -> [Targets -> Nat]]
      BY <1>0, BuyerFields DEF TypeOK
    <3>2. ASSUME NEW s \in Slots, NEW d \in Call, Served(s, d)
          PROVE  ratings' \in [Orders -> [Targets -> Nat]]
      BY <3>1, <3>2 DEF Served
    <3> QED
      BY <3>1, <3>2, StepKinds DEF PhoneStep, vars
  <2>2. \A o \in Orders, t \in Targets : ratings'[o][t] <= Cardinality(Slots)
    <3> TAKE o \in Orders, t \in Targets
    <3>1. ratings'[o][t] + Cardinality(Checked(o, t)') <= Cardinality(Slots)
      BY <1>0 DEF RatingsInv
    <3>2. ratings'[o][t] \in Nat
      BY <2>1
    <3> QED
      BY <1>0, <3>1, <3>2, CheckedFinite
  <2>3. Cardinality(Slots) \in Nat
    BY <1>0, BuyerFields
  <2> QED
    BY <2>1, <2>2, <2>3
<1> QED
  BY <1>0, <1>1, <1>2, <1>3, <1>4, <1>5, <1>6, <1>7 DEF TypeOK

\* Where a served call stands, and that the others stand where they did.
LEMMA ServedAt ==
    ASSUME TypeOK, NEW s \in Slots, NEW d \in Call, Served(s, d), NEW r \in Slots
    PROVE  calls'[r] = IF r = s THEN IF d.attended \/ d.at = "checked" THEN d ELSE Idle
                       ELSE calls[r]
BY DEF Served, TypeOK

\* What an abandoned cancel means.
LEMMA FollowsOK ==
    ASSUME TypeOK, NEW c \in Call, NEW d \in Call, Follows(c, d), CallOK(c, status, ratings)
    PROVE  CallOK(d, status, ratings)
<1>1. CASE d = c
  BY <1>1
<1>2. CASE d = Idle \/ d = Send("list", NoOrder)
  BY <1>2, SentOK DEF Targets
<1>3. CASE d = [c EXCEPT !.attended = FALSE]
  BY <1>3, CallAbandoned DEF CallOK
<1> QED
  BY <1>1, <1>2, <1>3 DEF Follows

\* Calls go on meaning what they mean.
LEMMA CallsKept ==
    ASSUME BuyerInv, [Next]_vars
    PROVE  CallsInv'
<1>0. TypeOK /\ CallsInv
  BY DEF BuyerInv
<1>1. SUFFICES ASSUME NEW r \in Slots
               PROVE  CallOK(calls'[r], status', ratings')
  BY DEF CallsInv
<1>2. calls[r] \in Call /\ CallOK(calls[r], status, ratings)
  BY <1>0, BuyerFields DEF CallsInv
<1>3. ASSUME NEW s \in Slots, NEW d \in Call, Served(s, d), Grows
      PROVE  CallOK(calls'[r], status', ratings')
  <2>1. CallOK(calls[r], status', ratings') /\ CallOK(Idle, status', ratings')
    BY <1>0, <1>2, <1>3, CallStays, Sent, SentOK DEF Targets
  <2> QED
    BY <1>0, <1>3, <2>1, ServedAt DEF Served
<1>4. ASSUME NEW s \in Slots, NEW d \in Call, PhoneStep(s, d)
      PROVE  CallOK(calls'[r], status', ratings')
  <2>1. Put(s, d, r) \in Call /\ CallOK(Put(s, d, r), status, ratings)
    BY <1>2, <1>4 DEF Put, PhoneStep
  <2>2. calls'[r] \in Call /\ Follows(Put(s, d, r), calls'[r])
    BY <1>4 DEF PhoneStep, Moved
  <2>3. CallOK(calls'[r], status, ratings)
    BY <1>0, <2>1, <2>2, FollowsOK
  <2> QED
    BY <1>4, <2>3 DEF PhoneStep
<1>5. CASE Grows /\ calls' = calls
  BY <1>0, <1>2, <1>5, CallStays
<1>6. CASE UNCHANGED vars
  BY <1>2, <1>6 DEF vars
<1> QED
  BY <1>3, <1>4, <1>5, <1>6, StepKinds

\* What the list shows was so, and what is cancelled stays so.
LEMMA ShownKept ==
    ASSUME BuyerInv, [Next]_vars
    PROVE  ShownInv'
<1>0. TypeOK /\ ShownInv /\ CallsInv
  BY DEF BuyerInv
<1>1. SUFFICES ASSUME NEW o \in Orders
               PROVE  /\ shown'[o] # "none" => status'[o] # "none" /\ Ahead(shown'[o], status'[o])
                      /\ <<"cancelled", o>> \in told' => status'[o] = "cancelled"
  BY DEF ShownInv
<1>2. /\ shown[o] # "none" => status[o] # "none" /\ Ahead(shown[o], status[o])
      /\ <<"cancelled", o>> \in told => status[o] = "cancelled"
      /\ shown[o] \in Status /\ status[o] \in Status
  BY <1>0, BuyerFields DEF ShownInv
<1>3. CASE Grows /\ UNCHANGED <<shown, told>>
  <2>1. /\ status'[o] \in Status
        /\ status[o] # "none" => status'[o] # "none" /\ Ahead(status[o], status'[o])
    BY <1>3 DEF Grows
  <2>2. status[o] = "cancelled" => status'[o] = "cancelled"
    BY <1>2, <2>1, AheadFacts
  <2>3. shown[o] # "none" => Ahead(shown[o], status'[o])
    BY <1>2, <2>1, AheadFacts
  <2> QED
    BY <1>2, <1>3, <2>1, <2>2, <2>3
<1>4. ASSUME NEW s \in Slots, NEW d \in Call, PhoneStep(s, d)
      PROVE  /\ shown'[o] # "none" => status'[o] # "none" /\ Ahead(shown'[o], status'[o])
             /\ <<"cancelled", o>> \in told' => status'[o] = "cancelled"
  <2>1. /\ calls[s].kind = "list" /\ calls[s].rows[o] # "none"
              => status[o] # "none" /\ Ahead(calls[s].rows[o], status[o])
        /\ calls[s].kind = "cancel" /\ calls[s].at = "answered" => status[calls[s].order] = "cancelled"
    BY <1>0 DEF CallsInv, CallOK
  <2>2. shown'[o] # "none" => status'[o] # "none" /\ Ahead(shown'[o], status'[o])
    BY <1>2, <1>4, <2>1, Sent DEF PhoneStep
  <2>3. <<"cancelled", o>> \in told' => status'[o] = "cancelled"
    BY <1>2, <1>4, <2>1 DEF PhoneStep
  <2> QED
    BY <2>2, <2>3
<1>5. CASE UNCHANGED vars
  BY <1>2, <1>5 DEF vars
<1> QED
  BY <1>3, <1>4, <1>5, StepKinds

\* A buyer who waits has one call in flight, with the newest rows.
LEMMA PatientKept ==
    ASSUME BuyerInv, [Next]_vars
    PROVE  PatientInv'
<1>0. TypeOK /\ PatientInv /\ ShownInv' /\ ShownInv /\ hazards' = hazards
  BY ShownKept, StepKinds DEF BuyerInv
<1>1. SUFFICES ASSUME "impatient" \notin hazards
               PROVE  PatientInv'
  BY <1>0 DEF PatientInv
<1>2. ASSUME NEW s \in Slots, NEW d \in Call, Served(s, d), UNCHANGED <<shown, told>>
      PROVE  PatientInv'
  <2> DEFINE c == calls[s]
  <2>1. \A r \in Slots : calls'[r] = IF r = s THEN IF d.attended \/ d.at = "checked" THEN d ELSE Idle
                                     ELSE calls[r]
    BY <1>0, <1>2, ServedAt
  <2>2. /\ \A r \in Slots : calls'[r].attended <=> calls[r].attended
        /\ \A r \in Slots : calls'[r].attended => calls'[r].kind = calls[r].kind
        /\ c.attended => calls'[s] = d
    <3>1. d.attended = c.attended /\ d.kind = c.kind /\ ~Idle.attended
      BY <1>2, Sent DEF Served
    <3> QED
      BY <2>1, <3>1
  <2>3. \A a, r \in Slots : calls'[a].attended /\ calls'[r].attended => a = r
    BY <1>0, <1>1, <2>2 DEF PatientInv
  <2>4. ASSUME NEW r \in Slots, calls'[r].attended, calls'[r].kind = "list",
               calls'[r].at = "answered", NEW o \in Orders
        PROVE  /\ shown'[o] # "none" => /\ calls'[r].rows[o] # "none"
                                        /\ Ahead(shown'[o], calls'[r].rows[o])
               /\ <<"cancelled", o>> \in told' => calls'[r].rows[o] \in {"cancelled", "none"}
    <3>1. CASE r = s
      <4>1. calls'[r].rows = status'
        BY <1>2, <2>2, <2>4, <3>1 DEF Served
      <4> QED
        BY <1>0, <4>1 DEF ShownInv
    <3>2. CASE r # s
      BY <1>0, <1>1, <1>2, <2>1, <2>4, <3>2 DEF PatientInv
    <3> QED
      BY <3>1, <3>2
  <2>5. ASSUME NEW o \in Orders, <<"cancelled", o>> \in told', shown'[o] \notin {"cancelled", "none"}
        PROVE  \E r \in Slots : calls'[r].attended /\ calls'[r].kind = "list"
    BY <1>0, <1>1, <1>2, <2>2, <2>5 DEF PatientInv
  <2> QED
    BY <2>3, <2>4, <2>5 DEF PatientInv
<1>3. ASSUME NEW s \in Slots, NEW d \in Call, PhoneStep(s, d)
      PROVE  PatientInv'
  <2> DEFINE c == calls[s]
  <2>0. \A r \in Slots \ {s} : ~calls[r].attended
    BY <1>1, <1>3 DEF PhoneStep
  <2>1. \A a, r \in Slots : calls'[a].attended /\ calls'[r].attended => a = r
    <3>1. \A r \in Slots : Put(s, d, r).attended => r = s
      BY <2>0 DEF Put
    <3>2. ~d.attended => \A r \in Slots : ~Put(s, d, r).attended
      BY <3>1 DEF Put
    <3> QED
      BY <1>3, <3>1, <3>2 DEF PhoneStep, Moved
  <2>2. \A r \in Slots : calls'[r].attended => calls'[r].at = "sent"
    <3> TAKE r \in Slots
    <3>1. CASE calls'[r] = Idle \/ calls'[r] = Send("list", NoOrder)
      BY <3>1, Sent
    <3>2. CASE calls'[r] = [Put(s, d, r) EXCEPT !.attended = FALSE]
      <4>1. Put(s, d, r) \in Call
        BY <1>0, <1>3, BuyerFields DEF Put, PhoneStep
      <4> QED
        BY <3>2, <4>1, CallAbandoned
    <3>3. CASE calls'[r] = Put(s, d, r)
      <4>1. [c EXCEPT !.attended = FALSE].attended = FALSE /\ Idle.attended = FALSE
        BY <1>0, BuyerFields, CallAbandoned, Sent
      <4>2. d.attended => d.at = "sent"
        BY <1>3, <4>1 DEF PhoneStep
      <4> QED
        BY <2>0, <3>3, <4>2 DEF Put
    <3> QED
      BY <1>3, <3>1, <3>2, <3>3 DEF PhoneStep, Moved, Follows
  <2>3. ASSUME NEW o \in Orders, <<"cancelled", o>> \in told', shown'[o] \notin {"cancelled", "none"}
        PROVE  \E r \in Slots : calls'[r].attended /\ calls'[r].kind = "list"
    <3>1. CASE <<"cancelled", o>> \in told
      <4>1. CASE shown' = NoRows
        BY <2>3, <4>1, Sent
      <4>2. CASE shown' = shown /\ ~(c.attended /\ c.kind = "list")
        BY <1>0, <1>1, <2>0, <2>3, <3>1, <4>2 DEF PatientInv
      <4>3. CASE shown' = c.rows /\ c.attended /\ c.kind = "list" /\ c.at = "answered"
        BY <1>0, <1>1, <2>3, <3>1, <4>3 DEF PatientInv
      <4> QED
        BY <1>3, <4>1, <4>2, <4>3 DEF PhoneStep
    <3>2. CASE <<"cancelled", o>> \notin told
      <4>1. d = Send("list", NoOrder)
        BY <1>3, <2>3, <3>2 DEF PhoneStep
      <4>2. d.attended /\ d.kind = "list"
        BY <4>1 DEF Send
      <4> QED
        BY <1>3, <4>2 DEF PhoneStep, Moved
    <3> QED
      BY <3>1, <3>2
  <2> QED
    BY <2>1, <2>2, <2>3 DEF PatientInv
<1>4. CASE UNCHANGED <<calls, shown, told>>
  BY <1>0, <1>4 DEF PatientInv
<1> QED
  BY <1>2, <1>3, <1>4, StepKinds DEF vars

\* Of a call that was given up or has come to its end, only these are left.
LEMMA PhoneAt ==
    ASSUME TypeOK, NEW s \in Slots, NEW d \in Call, PhoneStep(s, d), NEW r \in Slots
    PROVE  /\ \/ calls'[r] = Put(s, d, r)
              \/ calls'[r].kind \in {"list", "cancel"} /\ Put(s, d, r).kind \in {"list", "cancel"}
           /\ Put(s, d, r) = Idle => calls'[r] = Idle \/ calls'[r].attended
           /\ Put(s, d, r) \in Call
<1> DEFINE p == Put(s, d, r)
           e == [p EXCEPT !.attended = FALSE]
<1>1. p \in Call
  BY BuyerFields DEF Put, PhoneStep
<1>2. e.kind = p.kind
  BY <1>1, CallAbandoned
<1>3. Idle.kind = "list" /\ Send("list", NoOrder).kind = "list"
  BY DEF Idle, Send
<1>4. Follows(p, calls'[r])
  BY DEF PhoneStep, Moved
<1> HIDE DEF p, e
<1>5. \/ calls'[r] = p
      \/ p.kind \in {"list", "cancel"} /\ calls'[r] = Idle
      \/ p.kind = "cancel" /\ calls'[r] = e
      \/ p = Idle /\ calls'[r] = Send("list", NoOrder)
  BY <1>4 DEF Follows, e
<1>6. calls'[r] = p \/ (calls'[r].kind \in {"list", "cancel"} /\ p.kind \in {"list", "cancel"})
  <2>1. CASE calls'[r] = e
    BY <1>2, <1>3, <1>5, <2>1
  <2>2. CASE calls'[r] # e
    BY <1>3, <1>5, <2>2
  <2> QED
    BY <2>1, <2>2
<1>7. p = Idle => calls'[r] = Idle \/ calls'[r].attended
  <2>1. Idle.kind = "list" /\ Send("list", NoOrder).attended
    BY DEF Idle, Send
  <2> QED
    BY <1>5, <2>1
<1> QED
  BY <1>1, <1>6, <1>7 DEF p

\* When no call is lost, every handler comes to its end.
LEMMA HeardKept ==
    ASSUME BuyerInv, [Next]_vars
    PROVE  HeardInv'
<1>0. TypeOK /\ HeardInv /\ CallsInv /\ hazards' = hazards
  BY StepKinds DEF BuyerInv
<1>1. SUFFICES ASSUME "lost" \notin hazards
               PROVE  HeardInv'
  BY <1>0 DEF HeardInv
<1>2. /\ \A r \in Slots : calls[r].kind \notin {"list", "cancel"} => calls[r].attended
      /\ \A o \in Orders : status[o] = "created" => \E r \in Slots : Buying(calls[r], o)
      /\ \A o \in Orders : <<"thanks", o>> \in told => \A t \in Targets : ratings[o][t] > 0
  BY <1>0, <1>1 DEF HeardInv
<1>3. Grows => \A o \in Orders, t \in Targets : ratings[o][t] > 0 => ratings'[o][t] > 0
  BY <1>0, BuyerFields DEF Grows
<1>4. ASSUME NEW s \in Slots, NEW d \in Call, Served(s, d), Grows, UNCHANGED <<shown, told>>
      PROVE  HeardInv'
  <2> DEFINE c == calls[s]
  <2>1. \A r \in Slots : calls'[r] = IF r = s THEN IF d.attended \/ d.at = "checked" THEN d ELSE Idle
                                     ELSE calls[r]
    BY <1>0, <1>4, ServedAt
  <2>2. d.kind = c.kind /\ d.attended = c.attended /\ Idle.kind = "list"
    BY <1>4, Sent DEF Served
  <2>3. \A r \in Slots : calls'[r].kind \notin {"list", "cancel"} => calls'[r].attended
    BY <1>2, <2>1, <2>2
  <2>4. ASSUME NEW o \in Orders, status'[o] = "created"
        PROVE  \E r \in Slots : Buying(calls'[r], o)
    <3>1. CASE status[o] = "created" /\ ~Buying(c, o)
      BY <1>2, <2>1, <3>1
    <3>2. CASE c.kind = "create" /\ (d.attended => Buying(d, o))
      <4>1. d.attended
        BY <1>2, <2>2, <3>2
      <4> QED
        BY <2>1, <3>2, <4>1
    <3> QED
      BY <1>4, <2>4, <3>1, <3>2 DEF Served
  <2> QED
    BY <1>2, <1>3, <1>4, <2>3, <2>4 DEF HeardInv
<1>5. ASSUME NEW s \in Slots, NEW d \in Call, PhoneStep(s, d)
      PROVE  HeardInv'
  <2> DEFINE c == calls[s]
  <2>1. \/ d = Idle
        \/ d.attended /\ d.at = "sent"
    BY <1>1, <1>5 DEF PhoneStep
  <2>2. c = Idle \/ (c.at = "answered" /\ d = After(c)) \/ c.at = "refused"
    BY <1>1, <1>5 DEF PhoneStep
  <2>3. \A r \in Slots : calls'[r].kind \notin {"list", "cancel"} => calls'[r].attended
    <3> TAKE r \in Slots
    <3>1. Put(s, d, r).kind \notin {"list", "cancel"} => Put(s, d, r).attended
      BY <1>2, <2>1, Sent DEF Put
    <3> QED
      BY <1>0, <1>5, <3>1, PhoneAt
  <2>4. ASSUME NEW o \in Orders, status'[o] = "created"
        PROVE  \E r \in Slots : Buying(calls'[r], o)
    <3>1. PICK r \in Slots : Buying(calls[r], o)
      BY <1>2, <1>5, <2>4 DEF PhoneStep
    <3>2. CASE r # s
      BY <1>0, <1>5, <3>1, <3>2, PhoneAt DEF Put, Buying
    <3>3. CASE r = s
      <4>1. c.at = "answered" /\ d = After(c) /\ c.kind = "create" /\ c.order = o
        BY <2>2, <3>1, <3>3, Sent DEF Buying
      <4>2. d = Send("pay", o)
        BY <4>1 DEF After
      <4>3. d.attended /\ Buying(d, o)
        BY <4>2 DEF Buying, Send
      <4> QED
        BY <1>5, <4>3 DEF PhoneStep, Moved
    <3> QED
      BY <3>2, <3>3
  <2>5. ASSUME NEW o \in Orders, <<"thanks", o>> \in told', NEW t \in Targets
        PROVE  ratings'[o][t] > 0
    <3>1. CASE <<"thanks", o>> \in told
      BY <1>2, <1>5, <2>5, <3>1 DEF PhoneStep
    <3>2. CASE <<"thanks", o>> \notin told
      <4>1. c.kind = "driver" /\ c.order = o /\ c.at \in {"answered", "refused"}
        BY <1>1, <1>5, <2>5, <3>2 DEF PhoneStep
      <4>2. ratings[o]["seller"] > 0 /\ ratings[o]["driver"] > 0
        BY <1>0, <4>1 DEF CallsInv, CallOK, Targets
      <4> QED
        BY <1>5, <4>2 DEF PhoneStep, Targets
    <3> QED
      BY <3>1, <3>2
  <2> QED
    BY <2>3, <2>4, <2>5 DEF HeardInv
<1>6. CASE /\ Grows /\ UNCHANGED <<calls, told>>
           /\ \A o \in Orders : status'[o] = "created" => status[o] = "created"
  BY <1>2, <1>3, <1>6 DEF HeardInv
<1>7. CASE UNCHANGED vars
  BY <1>0, <1>7 DEF HeardInv, vars
<1> QED
  BY <1>4, <1>5, <1>6, <1>7, StepKinds

\* With nothing in flight but what the phone waits for, one rate call at a time
\* finds what it has checked.
LEMMA SoleKept ==
    ASSUME BuyerInv, [Next]_vars
    PROVE  SoleInv'
<1>0. TypeOK /\ SoleInv /\ PatientInv /\ CallsInv /\ hazards' = hazards
  BY StepKinds DEF BuyerInv
<1>1. SUFFICES ASSUME hazards \subseteq {"lost"}
               PROVE  SoleInv'
  BY <1>0 DEF SoleInv
<1>2. /\ \A r \in Slots : ~calls[r].attended => calls[r] = Idle
      /\ \A r \in Slots : calls[r].at = "checked" => ratings[calls[r].order][calls[r].kind] = 0
      /\ \A o \in Orders, t \in Targets : ratings[o][t] <= 1
      /\ \A a, r \in Slots : calls[a].attended /\ calls[r].attended => a = r
  BY <1>0, <1>1 DEF SoleInv, PatientInv
<1>3. ASSUME NEW s \in Slots, NEW d \in Call, Served(s, d)
      PROVE  SoleInv'
  <2> DEFINE c == calls[s]
  <2>1. \A r \in Slots : calls'[r] = IF r = s THEN IF d.attended \/ d.at = "checked" THEN d ELSE Idle
                                     ELSE calls[r]
    BY <1>0, <1>3, ServedAt
  <2>2. c.attended /\ d.attended
    <3>1. c.at \in {"sent", "checked"} /\ d.attended = c.attended
      BY <1>3 DEF Served
    <3> QED
      BY <1>2, <3>1, Sent
  <2>3. \A r \in Slots \ {s} : calls'[r] = Idle /\ calls[r] = Idle
    BY <1>2, <2>1, <2>2
  <2>4. \A r \in Slots : ~calls'[r].attended => calls'[r] = Idle
    BY <2>1, <2>2, <2>3
  <2>5. ASSUME NEW r \in Slots, calls'[r].at = "checked"
        PROVE  ratings'[calls'[r].order][calls'[r].kind] = 0
    <3>1. r = s /\ d.at = "checked" /\ calls'[r] = d
      BY <2>1, <2>2, <2>3, <2>5, Sent
    <3>2. /\ ratings[c.order][c.kind] = 0 /\ c.at # "checked" /\ ratings' = ratings
          /\ d.kind = c.kind /\ d.order = c.order
      BY <1>3, <3>1 DEF Served, Targets
    <3> QED
      BY <3>1, <3>2
  <2>6. \A o \in Orders, t \in Targets : ratings'[o][t] <= 1
    <3>1. CASE c.at = "checked"
      <4>1. ratings' = [ratings EXCEPT ![c.order][c.kind] = @ + 1] /\ ratings[c.order][c.kind] = 0
        BY <1>2, <1>3, <3>1 DEF Served
      <4> QED
        BY <1>0, <1>2, <4>1 DEF TypeOK
    <3>2. CASE c.at # "checked"
      BY <1>2, <1>3, <3>2 DEF Served
    <3> QED
      BY <3>1, <3>2
  <2> QED
    BY <2>4, <2>5, <2>6 DEF SoleInv
<1>4. ASSUME NEW s \in Slots, NEW d \in Call, PhoneStep(s, d)
      PROVE  SoleInv'
  <2>1. (d = Idle \/ (d.attended /\ d.at = "sent")) /\ ratings' = ratings
    BY <1>1, <1>4 DEF PhoneStep
  <2>2. \A r \in Slots \ {s} : calls[r] = Idle
    BY <1>1, <1>2, <1>4 DEF PhoneStep
  <2>3. \A r \in Slots : ~calls'[r].attended => calls'[r] = Idle
    <3> TAKE r \in Slots
    <3>1. Put(s, d, r) = Idle \/ (r = s /\ d.attended)
      BY <2>1, <2>2 DEF Put
    <3> QED
      BY <1>0, <1>4, <3>1, PhoneAt DEF PhoneStep, Moved
  <2>4. \A r \in Slots : calls'[r].at # "checked"
    <3> TAKE r \in Slots
    <3> DEFINE p == Put(s, d, r)
               e == [p EXCEPT !.attended = FALSE]
    <3>1. p.at # "checked" /\ p \in Call
      BY <1>4, <2>1, <2>2, Sent DEF Put, PhoneStep
    <3>2. e.at # "checked"
      BY <3>1, CallAbandoned
    <3>3. Follows(p, calls'[r])
      BY <1>4 DEF PhoneStep, Moved
    <3>4. Idle.at = "refused" /\ Send("list", NoOrder).at = "sent"
      BY DEF Idle, Send
    <3> HIDE DEF p, e
    <3>5. calls'[r] \in {p, e, Idle, Send("list", NoOrder)}
      BY <3>3 DEF Follows, e
    <3> QED
      BY <3>1, <3>2, <3>4, <3>5
  <2> QED
    BY <1>2, <2>1, <2>3, <2>4 DEF SoleInv
<1>5. CASE UNCHANGED <<ratings, calls>>
  BY <1>2, <1>5 DEF SoleInv
<1> QED
  BY <1>3, <1>4, <1>5, StepKinds DEF vars

\* The second review of a pair is on its way.
LEMMA PairKept ==
    ASSUME BuyerInv, [Next]_vars
    PROVE  PairInv'
<1>0. TypeOK /\ SoleInv /\ SoleInv' /\ CallsInv /\ PairInv /\ PatientInv /\ hazards' = hazards
  BY SoleKept, StepKinds DEF BuyerInv
<1>1. SUFFICES ASSUME hazards = {}, NEW o \in Orders, ratings'[o]["seller"] # ratings'[o]["driver"]
               PROVE  \E r \in Slots : Reviewing(calls'[r], o)
  BY <1>0 DEF PairInv
<1>2. /\ \A r \in Slots : ~calls[r].attended => calls[r] = Idle
      /\ \A q \in Orders, t \in Targets : ratings'[q][t] <= 1
      /\ \A a, r \in Slots : calls[a].attended /\ calls[r].attended => a = r
      /\ ratings[o]["seller"] # ratings[o]["driver"] => \E r \in Slots : Reviewing(calls[r], o)
  BY <1>0, <1>1 DEF SoleInv, PatientInv, PairInv
<1>3. \A r \in Slots : Reviewing(calls[r], o) => calls[r].attended
  BY <1>2, Sent DEF Reviewing
<1>4. ASSUME NEW s \in Slots, NEW d \in Call, Served(s, d), Grows
      PROVE  \E r \in Slots : Reviewing(calls'[r], o)
  <2> DEFINE c == calls[s]
  <2>1. c.attended /\ d.attended /\ calls'[s] = d /\ d.kind = c.kind
    <3>1. c.at \in {"sent", "checked"} /\ d.attended = c.attended /\ d.kind = c.kind
      BY <1>4 DEF Served
    <3>2. c.attended
      BY <1>2, <3>1, Sent
    <3> QED
      BY <1>0, <1>4, <3>1, <3>2, ServedAt
  <2>2. ratings[o]["seller"] # ratings[o]["driver"] => Reviewing(c, o)
    BY <1>2, <1>3, <2>1
  <2>3. ~(ratings'[o]["seller"] > 0 /\ ratings'[o]["driver"] > 0)
    <3>1. /\ ratings'[o]["seller"] <= 1 /\ ratings'[o]["driver"] <= 1
          /\ ratings'[o]["seller"] \in Nat /\ ratings'[o]["driver"] \in Nat
      BY <1>2, <1>4 DEF Grows, Targets
    <3> QED
      BY <1>1, <3>1
  <2>4. c.kind \in Targets => c.order \in Orders /\ d.order = c.order
    BY <1>0, <1>4 DEF Served, CallsInv, CallOK, Targets
  <2>5. CallOK(d, status', ratings') /\ d.at \in {"checked", "answered", "refused"}
    BY <1>4 DEF Served
  <2>6. d.kind = "driver" /\ d.order = o => d.at = "checked"
    BY <2>3, <2>5 DEF CallOK, Targets
  <2>7. CASE c.at = "checked"
    <3>1. /\ d.at = "answered" /\ c.kind \in Targets
          /\ ratings' = [ratings EXCEPT ![c.order][c.kind] = @ + 1]
      BY <1>4, <2>7 DEF Served
    <3>2. CASE c.order = o
      BY <2>1, <2>4, <2>6, <3>1, <3>2 DEF Reviewing, Targets
    <3>3. CASE c.order # o
      <4>1. ratings'[o] = ratings[o]
        BY <1>0, <3>1, <3>3 DEF TypeOK
      <4> QED
        BY <1>1, <2>2, <3>3, <4>1 DEF Reviewing
    <3> QED
      BY <3>2, <3>3
  <2>8. CASE c.at # "checked"
    <3>1. ratings' = ratings /\ c.at = "sent"
      BY <1>4, <2>8 DEF Served
    <3>2. c.kind = "driver" /\ c.order = o
      BY <1>1, <2>2, <3>1 DEF Reviewing
    <3> QED
      BY <2>1, <2>4, <2>6, <3>2 DEF Reviewing, Targets
  <2> QED
    BY <2>7, <2>8
<1>5. ASSUME NEW s \in Slots, NEW d \in Call, PhoneStep(s, d)
      PROVE  \E r \in Slots : Reviewing(calls'[r], o)
  <2> DEFINE c == calls[s]
  <2>1. PICK r \in Slots : Reviewing(calls[r], o)
    BY <1>1, <1>2, <1>5 DEF PhoneStep
  <2>2. r = s
    BY <1>1, <1>3, <1>5, <2>1 DEF PhoneStep
  <2>3. c = Idle \/ (c.at = "answered" /\ d = After(c)) \/ c.at = "refused"
    BY <1>1, <1>5 DEF PhoneStep
  <2>4. c.kind = "seller" /\ c.order = o /\ d = After(c)
    BY <2>1, <2>2, <2>3, Sent DEF Reviewing
  <2>5. d = Send("driver", o)
    BY <2>4 DEF After
  <2>6. d.attended /\ Reviewing(d, o)
    BY <2>5 DEF Send, Reviewing
  <2> QED
    BY <1>5, <2>6 DEF PhoneStep, Moved
<1>6. CASE UNCHANGED <<ratings, calls>>
  BY <1>1, <1>2, <1>6
<1> QED
  BY <1>4, <1>5, <1>6, StepKinds DEF vars

-----------------------------------------------------------------------------
(* Theorems *)

\* The invariant holds before anything has been tapped.
LEMMA InitBuyer ==
    ASSUME Init
    PROVE  BuyerInv
<1>0. /\ \A s \in Slots : calls[s] = Idle
      /\ \A o \in Orders : status[o] = "none" /\ shown[o] = "none"
      /\ \A o \in Orders, t \in Targets : ratings[o][t] = 0
      /\ Idle \in Call /\ Idle.kind = "list" /\ Idle.at = "refused" /\ ~Idle.attended
  BY Sent DEF Init
<1>1. Cardinality(Slots) \in Nat /\ Stock \in Nat
  BY BuyerAssumption, FS_CardinalityType
<1>2. TypeOK
  BY <1>0, <1>1, Sent DEF Init, TypeOK, Status
<1>3. UnitsConserved
  <2>1. {o \in Orders : status[o] \notin {"none", "cancelled"}} = {}
    BY <1>0
  <2> QED
    BY <1>1, <2>1, FS_EmptySet DEF Init, UnitsConserved
<1>4. RatingsInv
  <2>1. \A o \in Orders, t \in Targets : Checked(o, t) = {}
    BY <1>0 DEF Checked
  <2> QED
    BY <1>0, <1>1, <2>1, FS_EmptySet DEF RatingsInv
<1>5. CallsInv
  BY <1>0, <1>2, SentOK DEF CallsInv, Targets
<1>6. ShownInv /\ PatientInv /\ PairInv
  BY <1>0 DEF Init, ShownInv, PatientInv, PairInv, Targets
<1>7. HeardInv /\ SoleInv
  BY <1>0 DEF Init, HeardInv, SoleInv
<1> QED
  BY <1>2, <1>3, <1>4, <1>5, <1>6, <1>7 DEF BuyerInv

\* The invariant, from step to step.
THEOREM BuyerInvariant == Spec => []BuyerInv
<1>1. Init => BuyerInv
  BY InitBuyer
<1>2. BuyerInv /\ [Next]_vars => BuyerInv'
  <2> SUFFICES ASSUME BuyerInv, [Next]_vars
               PROVE  BuyerInv'
    OBVIOUS
  <2>1. TypeOK' /\ UnitsConserved' /\ RatingsInv' /\ CallsInv'
    BY TypesKept, RatingsKept, CallsKept
  <2>2. ShownInv' /\ PatientInv' /\ HeardInv' /\ SoleInv' /\ PairInv'
    BY ShownKept, PatientKept, HeardKept, SoleKept, PairKept
  <2> QED
    BY <2>1, <2>2 DEF BuyerInv
<1> QED
  BY <1>1, <1>2, PTL DEF Spec

\* Values stay where they belong, and no target is rated more often than calls
\* are in flight.
THEOREM BuyerTypes == Spec => []TypeOK
<1>1. BuyerInv => TypeOK
  BY DEF BuyerInv
<1> QED
  BY <1>1, BuyerInvariant, PTL

\* An unpaid order is being paid, units are conserved, and reviews come in pairs
\* and once, as far as the hazards of the behaviour allow.
THEOREM CheckoutsAddUp == Spec => []OrdersAddUp
<1>1. ASSUME BuyerInv
      PROVE  OrdersAddUp
  <2>0. /\ TypeOK /\ UnitsConserved /\ HeardInv /\ SoleInv /\ PairInv
    BY <1>1 DEF BuyerInv
  <2>1. UnpaidIsBeingPaid
    BY <2>0 DEF UnpaidIsBeingPaid, HeardInv, Buying
  <2>2. BothOrNeither
    <3> SUFFICES ASSUME hazards = {}, \A s \in Slots : ~calls[s].attended, NEW o \in Orders
                 PROVE  ratings[o]["seller"] = ratings[o]["driver"]
      BY DEF BothOrNeither
    <3>1. \A s \in Slots : calls[s] = Idle
      BY <2>0 DEF SoleInv
    <3>2. \A s \in Slots : ~Reviewing(calls[s], o)
      BY <3>1, Sent DEF Reviewing
    <3> QED
      BY <2>0, <3>2 DEF PairInv
  <2>3. OneRatingPerTarget
    BY <2>0 DEF OneRatingPerTarget, SoleInv
  <2> QED
    BY <2>0, <2>1, <2>2, <2>3 DEF OrdersAddUp
<1> QED
  BY <1>1, BuyerInvariant, PTL

\* The list never goes on showing as under way what it has confirmed cancelled,
\* and nobody is thanked for a review that is not there.
THEOREM BuyerIsToldTheTruth == Spec => []ToldTheTruth
<1>1. BuyerInv => ToldTheTruth
  BY DEF BuyerInv, ToldTheTruth, PatientInv, HeardInv
<1> QED
  BY <1>1, BuyerInvariant, PTL

\* A buyer who waits never sees an order go back in the list.
THEOREM RowsOnlyGoOn == Spec => RowsNeverGoBack
<1>1. ASSUME BuyerInv, [Next]_vars, "impatient" \notin hazards, NEW o \in Orders,
             shown[o] # "none", shown'[o] # "none"
      PROVE  Ahead(shown[o], shown'[o])
  <2>0. TypeOK /\ PatientInv /\ shown[o] \in Status
    BY <1>1, BuyerFields DEF BuyerInv
  <2>1. CASE shown' = shown
    BY <2>0, <2>1, AheadFacts
  <2>2. ASSUME NEW s \in Slots, NEW d \in Call, PhoneStep(s, d), shown' # shown
        PROVE  Ahead(shown[o], shown'[o])
    <3>1. shown' # NoRows
      BY <1>1, Sent
    <3>2. /\ shown' = calls[s].rows /\ calls[s].attended
          /\ calls[s].kind = "list" /\ calls[s].at = "answered"
      BY <2>2, <3>1 DEF PhoneStep
    <3> QED
      BY <1>1, <2>0, <3>2 DEF PatientInv
  <2> QED
    BY <1>1, <2>1, <2>2, StepKinds DEF vars
<1>2. BuyerInv /\ [Next]_vars =>
         [\A o \in Orders :
             "impatient" \notin hazards /\ shown[o] # "none" /\ shown'[o] # "none" =>
                \/ shown'[o] = shown[o]
                \/ shown[o] # "cancelled" /\ Stage(shown[o]) < Stage(shown'[o])]_vars
  BY <1>1 DEF Ahead
<1> QED
  BY <1>2, BuyerInvariant, PTL DEF Spec, RowsNeverGoBack

=============================================================================
