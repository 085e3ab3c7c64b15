-------------------------- MODULE OrderTransactions --------------------------
(***************************************************************************)
(* The handlers of one order, statement by statement.                      *)
(*                                                                         *)
(* OrderLifecycle takes a handler for one step.  Here DbService.tx runs it *)
(* as PostgreSQL does at READ COMMITTED: SELECT ... FOR UPDATE and UPDATE  *)
(* wait for the row and see its latest committed version, a plain SELECT   *)
(* waits for nothing, writes are seen by others after COMMIT only, and a   *)
(* ring of waiting transactions loses one of them.  Between its statements *)
(* a handler calls the payment gateway, whose effects no ROLLBACK undoes.  *)
(* Restocking, settlement row and notices touch no row another of these    *)
(* handlers waits for and are left out.                                    *)
(***************************************************************************)
EXTENDS Integers, Sequences

CONSTANTS
    Sessions,          \* pool connections that serve requests for the order (bound)
    NoSession,         \* nobody holds the row
    Drivers, NoUser,   \* drivers, and the SQL NULL in shipments.driver_id
    Seller,            \* the seller of the order
    Order              \* the order, for the contract

CONSTANT MaxCalls      \* gateway counters stop here (bound)

ASSUME SessionsAssumption ==
    /\ NoSession \notin Sessions
    /\ NoUser \notin Drivers
    /\ Seller \notin Drivers
    /\ MaxCalls \in Nat \ {0}

VARIABLES
    db,        \* the committed rows
    issued,    \* committed payouts rows per payee
    locks,     \* the session that holds a row's lock
    tx,        \* what each session runs
    gateway    \* what the payment gateway has done

vars == <<db, issued, locks, tx, gateway>>

-----------------------------------------------------------------------------
(* Rows and statements *)

Table  == {"order", "shipment", "payment"}
Payees == Drivers \cup {Seller}

OrderStatus    == {"none", "created", "paid", "pickup_assigned", "in_transit",
                   "delivered", "cancelled"}
ShipmentStatus == {"none", "unassigned", "assigned", "picked_up", "delivered",
                   "cancelled"}
PaymentStatus  == {"none", "held", "captured", "refunded"}
Status         == OrderStatus \cup ShipmentStatus \cup PaymentStatus
Existing       == Status \ {"none"}

Row(status, driver) == [status |-> status, driver |-> driver]

\* SELECT ... FOR UPDATE; the handler throws unless the status is among ok and,
\* if asked, the row's driver is the caller.
Lock(row, ok, mine) == [op |-> "lock", row |-> row, ok |-> ok, mine |-> mine]
\* A plain SELECT: unless the status is among ok, skip the next statements, or
\* throw when there are none to skip.
Read(row, ok, skip) == [op |-> "read", row |-> row, ok |-> ok, skip |-> skip]
\* UPDATE ... SET status WHERE status is among those of from; INSERT is an
\* UPDATE of a row that is not there.
Set(row, status, from) == [op |-> "set", row |-> row, status |-> status, from |-> from]
\* The same, with driver_id set to the caller.
Take(row, status, from) == [op |-> "take", row |-> row, status |-> status, from |-> from]
\* PaymentProvider: an effect, or a payout to the seller or to the caller.
Call(effect)  == [op |-> "call", effect |-> effect]
Payout(payee) == [op |-> "payout", payee |-> payee]

-----------------------------------------------------------------------------
(* The handlers as sequences of statements *)

PayProgram ==
    <<Lock("order", {"created"}, FALSE), Read("payment", {"none"}, 0),
      Call("intent"), Set("payment", "held", {"none"}),
      Set("order", "paid", Existing), Set("shipment", "unassigned", {"none"})>>

Cancellable == {"created", "paid", "pickup_assigned"}

\* Mutant: the order is read without FOR UPDATE.
CancelProgramUnlocked ==
    <<Read("order", Cancellable, 0), Read("payment", {"held"}, 2),
      Call("refund"), Set("payment", "refunded", Existing),
      Set("shipment", "cancelled", Existing \ {"delivered", "cancelled"}),
      Set("order", "cancelled", Existing)>>

CancelProgram ==
    <<Lock("order", Cancellable, FALSE), Read("payment", {"held"}, 2),
      Call("refund"), Set("payment", "refunded", Existing),
      Set("shipment", "cancelled", Existing \ {"delivered", "cancelled"}),
      Set("order", "cancelled", Existing)>>

RefundProgram ==
    <<Lock("order", {"delivered"}, FALSE), Read("payment", {"captured"}, 0),
      Call("refund"), Set("payment", "refunded", Existing)>>

AcceptProgram ==
    <<Lock("shipment", {"unassigned"}, FALSE), Take("shipment", "assigned", Existing),
      Set("order", "pickup_assigned", Existing)>>

\* Mutant: the shipment's status is written to the order.
PickupProgramMixedUp ==
    <<Lock("shipment", {"assigned"}, TRUE), Set("shipment", "picked_up", Existing),
      Set("order", "picked_up", Existing)>>

PickupProgram ==
    <<Lock("shipment", {"assigned"}, TRUE), Set("shipment", "picked_up", Existing),
      Set("order", "in_transit", Existing)>>

\* Mutant: the shipment is read without FOR UPDATE, as by two taps of the button.
DeliverProgramUnlocked ==
    <<Read("shipment", {"picked_up"}, 0), Set("shipment", "delivered", Existing),
      Set("order", "delivered", Existing), Read("payment", Existing, 2),
      Call("capture"), Set("payment", "captured", Existing),
      Payout("seller"), Payout("driver")>>

DeliverProgram ==
    <<Lock("shipment", {"picked_up"}, TRUE), Set("shipment", "delivered", Existing),
      Set("order", "delivered", Existing), Read("payment", Existing, 2),
      Call("capture"), Set("payment", "captured", Existing),
      Payout("seller"), Payout("driver")>>

Program(kind) ==
    CASE kind = "pay"     -> PayProgram
      [] kind = "cancel"  -> CancelProgram
      [] kind = "refund"  -> RefundProgram
      [] kind = "accept"  -> AcceptProgram
      [] kind = "pickup"  -> PickupProgram
      [] kind = "deliver" -> DeliverProgram

OfficeKinds == {"pay", "cancel", "refund"}
DriverKinds == {"accept", "pickup", "deliver"}

-----------------------------------------------------------------------------

\* A session: its handler and caller, the next statement, the rows it wrote,
\* the payees of the payouts rows it inserted.
Idle == [kind |-> "idle", driver |-> NoUser, pc |-> 1,
         wrote |-> [r \in {} |-> Row("none", NoUser)], paid |-> {}]

StatusOf == [r \in Table |->
                CASE r = "order" -> OrderStatus
                  [] r = "shipment" -> ShipmentStatus
                  [] r = "payment" -> PaymentStatus]

\* Committed rows have the statuses of their table, only shipments a driver,
\* and every lock is held by a session that runs something.
TypeOK ==
    /\ DOMAIN db = Table
    /\ \A r \in Table : db[r].status \in StatusOf[r] /\ db[r].driver \in Drivers \cup {NoUser}
    /\ issued \in [Payees -> Nat]
    /\ locks \in [Table -> Sessions \cup {NoSession}]
    /\ \A s \in Sessions :
          /\ tx[s].kind \in {"idle"} \cup OfficeKinds \cup DriverKinds
          /\ tx[s].kind = "idle" => \A r \in Table : locks[r] # s
          /\ tx[s].kind # "idle" => tx[s].pc \in 1 .. Len(Program(tx[s].kind)) + 1
          /\ DOMAIN tx[s].wrote \subseteq Table
          /\ tx[s].paid \subseteq Payees
    /\ gateway \in [refunds : 0 .. MaxCalls, captures : 0 .. MaxCalls,
                    payouts : [Payees -> 0 .. MaxCalls]]

Init ==
    /\ db = [r \in Table |-> Row("none", NoUser)]
    /\ issued = [p \in Payees |-> 0]
    /\ locks = [r \in Table |-> NoSession]
    /\ tx = [s \in Sessions |-> Idle]
    /\ gateway = [refunds |-> 0, captures |-> 0, payouts |-> [p \in Payees |-> 0]]

\* createOrder inserts the order: nobody else knows of it before its COMMIT.
CreateOrder ==
    /\ db["order"].status = "none"
    /\ db' = [db EXCEPT !["order"] = Row("created", NoUser)]
    /\ UNCHANGED <<issued, locks, tx, gateway>>

\* A request for the order that exists: BEGIN.
Begin(s, kind, d) ==
    /\ tx[s].kind = "idle"
    /\ db["order"].status # "none"
    /\ tx' = [tx EXCEPT ![s] = [Idle EXCEPT !.kind = kind, !.driver = d]]
    /\ UNCHANGED <<db, issued, locks, gateway>>

Running(s)   == tx[s].kind # "idle"
AtCommit(s)  == Running(s) /\ tx[s].pc = Len(Program(tx[s].kind)) + 1
AtStep(s)    == Running(s) /\ tx[s].pc <= Len(Program(tx[s].kind))
Statement(s) == Program(tx[s].kind)[tx[s].pc]
At(s, ops)   == AtStep(s) /\ Statement(s).op \in ops

\* What a session sees of a row: its own write, or the committed version.
Seen(s, r) == IF r \in DOMAIN tx[s].wrote THEN tx[s].wrote[r] ELSE db[r]

\* The statuses of a row that FOR UPDATE, or an UPDATE, finds.
Matched(st) == IF st.op = "lock" THEN Existing ELSE st.from

\* Both wait for a row they find while another session has it.
Needs(s) ==
    /\ At(s, {"lock", "set", "take"})
    /\ Seen(s, Statement(s).row).status \in Matched(Statement(s))
Holder(s)  == locks[Statement(s).row]
Waiting(s) == Needs(s) /\ Holder(s) \notin {s, NoSession}

-----------------------------------------------------------------------------

Next1(s) == [tx EXCEPT ![s].pc = @ + 1]

\* Mutant: the connection goes back to the pool without ROLLBACK.
UnlockNothing(s) == locks

Unlock(s) == [r \in Table |-> IF locks[r] = s THEN NoSession ELSE locks[r]]

\* ROLLBACK, after a throw or by the server: all the writes go, the locks too.
Rollback(s) ==
    /\ tx' = [tx EXCEPT ![s] = Idle]
    /\ locks' = Unlock(s)
    /\ UNCHANGED <<db, issued>>

LockRow(s) ==
    /\ At(s, {"lock"})
    /\ ~Waiting(s)
    /\ LET st  == Statement(s)
           row == Seen(s, st.row)
       IN  IF row.status \in st.ok /\ (st.mine => row.driver = tx[s].driver)
           THEN /\ locks' = [locks EXCEPT ![st.row] = s]
                /\ tx' = Next1(s)
                /\ UNCHANGED <<db, issued, gateway>>
           ELSE Rollback(s) /\ UNCHANGED gateway

ReadRow(s) ==
    /\ At(s, {"read"})
    /\ LET st == Statement(s)
           ok == Seen(s, st.row).status \in st.ok
       IN  IF ok \/ st.skip > 0
           THEN /\ tx' = [tx EXCEPT ![s].pc = @ + 1 + IF ok THEN 0 ELSE st.skip]
                /\ UNCHANGED <<db, issued, locks, gateway>>
           ELSE Rollback(s) /\ UNCHANGED gateway

WriteRow(s) ==
    /\ At(s, {"set", "take"})
    /\ ~Waiting(s)
    /\ LET st  == Statement(s)
           new == Row(st.status, IF st.op = "take" THEN tx[s].driver
                                 ELSE Seen(s, st.row).driver)
       IN  IF Needs(s)
           THEN /\ locks' = [locks EXCEPT ![st.row] = s]
                /\ tx' = [tx EXCEPT ![s].pc = @ + 1,
                                    ![s].wrote = [r \in DOMAIN @ \cup {st.row} |->
                                        IF r = st.row THEN new ELSE @[r]]]
           ELSE tx' = Next1(s) /\ UNCHANGED locks
    /\ UNCHANGED <<db, issued, gateway>>

Counted(n) == IF n < MaxCalls THEN n + 1 ELSE n

Done(effect) ==
    CASE effect = "refund"  -> [gateway EXCEPT !.refunds = Counted(@)]
      [] effect = "capture" -> [gateway EXCEPT !.captures = Counted(@)]
      [] effect = "intent"  -> gateway

\* The call succeeds; or it throws, the gateway having refused, or having done
\* what it was asked and the answer being lost.
CallGateway(s) ==
    /\ At(s, {"call"})
    /\ LET done == Done(Statement(s).effect)
       IN  \/ gateway' = done /\ tx' = Next1(s) /\ UNCHANGED <<db, issued, locks>>
           \/ gateway' \in {gateway, done} /\ Rollback(s)

\* runPayout: a row with a new id, the call under that id.  payout never throws;
\* a payout that failed, or whose answer was lost, is a row like any other.
RunPayout(s) ==
    /\ At(s, {"payout"})
    /\ LET payee == IF Statement(s).payee = "seller" THEN Seller ELSE tx[s].driver
       IN  /\ tx' = [tx EXCEPT ![s].pc = @ + 1, ![s].paid = @ \cup {payee}]
           /\ \/ gateway' = [gateway EXCEPT !.payouts[payee] = Counted(@)]
              \/ UNCHANGED gateway
    /\ UNCHANGED <<db, issued, locks>>

Commit(s) ==
    /\ AtCommit(s)
    /\ db' = [r \in Table |-> Seen(s, r)]
    /\ issued' = [p \in Payees |-> issued[p] + IF p \in tx[s].paid THEN 1 ELSE 0]
    /\ tx' = [tx EXCEPT ![s] = Idle]
    /\ locks' = Unlock(s)
    /\ UNCHANGED gateway

\* PostgreSQL aborts one transaction of a ring of waiting ones.
BreakDeadlock(s) ==
    /\ \E ring \in SUBSET Sessions :
          /\ s \in ring
          /\ \A x \in ring : Waiting(x) /\ Holder(x) \in ring
    /\ Rollback(s)
    /\ UNCHANGED gateway

\* The API process or the connection dies.
LoseConnection(s) ==
    /\ Running(s)
    /\ Rollback(s)
    /\ UNCHANGED gateway

Advance(s) ==
    \/ LockRow(s)
    \/ ReadRow(s)
    \/ WriteRow(s)
    \/ CallGateway(s)
    \/ RunPayout(s)
    \/ Commit(s)

Next ==
    \/ CreateOrder
    \/ \E s \in Sessions :
          \/ \E kind \in OfficeKinds : Begin(s, kind, NoUser)
          \/ \E kind \in DriverKinds, d \in Drivers : Begin(s, kind, d)
          \/ Advance(s)
          \/ BreakDeadlock(s)
          \/ LoseConnection(s)

Spec == Init /\ [][Next]_vars

\* Node runs every handler on and PostgreSQL serves the waiters of a row in
\* turn, so a statement that can run again and again does run; the server's
\* deadlock check runs on every ring, which nothing else dissolves.
FairSpec ==
    /\ Spec
    /\ \A s \in Sessions : SF_vars(Advance(s)) /\ WF_vars(BreakDeadlock(s))

-----------------------------------------------------------------------------
(* Properties *)

\* Whatever statements interleave, the committed order, shipment and payment
\* tell the same story.  cancelOrderTx locks the order first, the driver's
\* handlers the shipment.
StagesAgree ==
    LET order == db["order"].status
        ship  == db["shipment"].status
        money == db["payment"].status
    IN  /\ ship = "unassigned" <=> order = "paid"
        /\ ship = "assigned"   <=> order = "pickup_assigned"
        /\ ship = "picked_up"  <=> order = "in_transit"
        /\ ship = "delivered"  <=> order = "delivered"
        /\ ship = "cancelled"   => order = "cancelled"
        /\ money = "held"      <=> order \in {"paid", "pickup_assigned", "in_transit"}
        /\ money = "captured"   => order = "delivered"
        /\ money = "refunded"   => order \in {"delivered", "cancelled"}

\* The database never claims a movement of money the gateway has not made,
\* whatever calls fail.
NeverAheadOfGateway ==
    /\ db["payment"].status = "refunded" => gateway.refunds > 0
    /\ db["payment"].status = "captured" => gateway.captures > 0

\* Both at once: what is committed is consistent and true.
BooksAreTrue == StagesAgree /\ NeverAheadOfGateway

\* No request waits for ever: lock orders differ between the handlers, but
\* every ring of waiters is broken and every other wait ends with its holder.
RequestsEnd == \A s \in Sessions : Running(s) ~> ~Running(s)

\* payment-provider.ts:24: payouts.id is the "idempotency key" of a payout: the
\* gateway pays a payee of an order once, however often the delivery is retried.
GatewayPaysOnce == \A p \in Payees : gateway.payouts[p] <= 1

-----------------------------------------------------------------------------
(* Refinement: each COMMIT is one step of the contract *)

GoodsAt(status) ==
    CASE status = "none" -> "shelf"
      [] status \in {"created", "paid", "pickup_assigned"} -> "reserved"
      [] status = "in_transit" -> "moving"
      [] status = "delivered" -> "delivered"
      [] status = "cancelled" -> "returned"

MoneyAt(status) ==
    CASE status \in {"none", "refunded"} -> "buyer"
      [] status = "held" -> "escrow"
      [] status = "captured" -> "platform"

Goods  == [o \in {Order} |-> GoodsAt(db["order"].status)]
Money  == [o \in {Order} |-> MoneyAt(db["payment"].status)]
Issued == [o \in {Order} |-> issued]

Contract == INSTANCE EscrowContract
                WITH Orders <- {Order}, goods <- Goods, money <- Money, issued <- Issued

\* Run statement by statement, with deadlocks, lost connections and failing
\* calls, the handlers still do to the database what the contract allows: taking
\* a handler for one step loses nothing that is committed.
ImplementsContract == Contract!Spec
=============================================================================
