----------------------- MODULE OrderTransactions_proofs -----------------------
(***************************************************************************)
(* Statement by statement, for any number of sessions: what is committed   *)
(* is consistent and true, and each COMMIT is a step of the contract.  The *)
(* invariant says of each handler what it has locked, seen and written at  *)
(* every statement.  What makes it stay true while others run is that a    *)
(* handler that reaches its COMMIT is the only one past its first          *)
(* statement that has found what it looked for.                            *)
(***************************************************************************)
EXTENDS OrderTransactions, TLAPS

-----------------------------------------------------------------------------
(* The invariant *)

Kinds == OfficeKinds \cup DriverKinds

\* The status a session has written to a row, "-" for none.
Written(s, r) == IF r \in DOMAIN tx[s].wrote THEN tx[s].wrote[r].status ELSE "-"

\* It writes this status with its n-th statement.
After(s, n, status) == IF tx[s].pc > n THEN status ELSE "-"

Wrote(s, order, shipment, payment) ==
    /\ Written(s, "order") = order
    /\ Written(s, "shipment") = shipment
    /\ Written(s, "payment") = payment

Stage(r) == db[r].status

\* A row that is written is locked, and so is the one a handler starts from.
LocksHeld(s) ==
    /\ \A r \in Table : Written(s, r) # "-" => locks[r] = s
    /\ tx[s].kind = "idle" => \A r \in Table : locks[r] # s
    /\ tx[s].kind \in OfficeKinds /\ tx[s].pc > 1 => locks["order"] = s
    /\ tx[s].kind \in DriverKinds /\ tx[s].pc > 1 => locks["shipment"] = s

PayInv(s) ==
    /\ Wrote(s, After(s, 5, "paid"), After(s, 6, "unassigned"), After(s, 4, "held"))
    /\ tx[s].pc > 1 => Stage("order") = "created"

\* What a cancellation writes depends on what there is to undo.
CancelInv(s) ==
    /\ Wrote(s, After(s, 6, "cancelled"),
                IF Stage("shipment") = "none" THEN "-" ELSE After(s, 5, "cancelled"),
                IF Stage("payment") = "held" THEN After(s, 4, "refunded") ELSE "-")
    /\ tx[s].pc > 1 => Stage("order") \in Cancellable
    /\ tx[s].pc \in {3, 4} => Stage("payment") = "held"
    /\ tx[s].pc > 3 /\ Stage("payment") = "held" => gateway.refunds > 0

RefundInv(s) ==
    /\ Wrote(s, "-", "-", After(s, 4, "refunded"))
    /\ tx[s].pc > 1 => Stage("order") = "delivered"
    /\ tx[s].pc > 2 => Stage("payment") = "captured"
    /\ tx[s].pc > 3 => gateway.refunds > 0

AcceptInv(s) ==
    /\ Wrote(s, After(s, 3, "pickup_assigned"), After(s, 2, "assigned"), "-")
    /\ tx[s].pc > 1 => Stage("shipment") = "unassigned"

PickupInv(s) ==
    /\ Wrote(s, After(s, 3, "in_transit"), After(s, 2, "picked_up"), "-")
    /\ tx[s].pc > 1 => Stage("shipment") = "assigned"

DeliverInv(s) ==
    /\ Wrote(s, After(s, 3, "delivered"), After(s, 2, "delivered"), After(s, 6, "captured"))
    /\ tx[s].pc > 1 => Stage("shipment") = "picked_up"
    /\ tx[s].pc > 5 => gateway.captures > 0
    /\ tx[s].paid = (IF tx[s].pc > 7 THEN {Seller} ELSE {})
                      \cup (IF tx[s].pc > 8 THEN {tx[s].driver} ELSE {})

Progress(s) ==
    /\ tx[s].kind = "idle"    => tx[s] = Idle
    /\ tx[s].kind = "pay"     => PayInv(s)
    /\ tx[s].kind = "cancel"  => CancelInv(s)
    /\ tx[s].kind = "refund"  => RefundInv(s)
    /\ tx[s].kind = "accept"  => AcceptInv(s)
    /\ tx[s].kind = "pickup"  => PickupInv(s)
    /\ tx[s].kind = "deliver" => DeliverInv(s)

TxInv(s) ==
    /\ LocksHeld(s)
    /\ Progress(s)
    /\ tx[s].kind # "deliver" => tx[s].paid = {}
    /\ tx[s].kind \in DriverKinds => tx[s].driver \in Drivers

\* The rows and sessions as functions and records.
RowType == [status : Status, driver : Drivers \cup {NoUser}]

Writes == UNION {[rows -> RowType] : rows \in SUBSET Table}

TxType == [kind : {"idle"} \cup Kinds, driver : Drivers \cup {NoUser}, pc : Nat,
           wrote : Writes, paid : SUBSET Payees]

Shapes ==
    /\ db \in [Table -> RowType]
    /\ tx \in [Sessions -> TxType]

TxsInv == TypeOK /\ Shapes /\ BooksAreTrue /\ \A s \in Sessions : TxInv(s)

-----------------------------------------------------------------------------
(* The programs *)

\* pay (buyer.service.ts), one line a statement.
LEMMA PayStatements ==
    /\ Len(Program("pay")) = 6
    /\ Program("pay")[1] = Lock("order", {"created"}, FALSE)
    /\ Program("pay")[2] = Read("payment", {"none"}, 0)
    /\ Program("pay")[3] = Call("intent")
    /\ Program("pay")[4] = Set("payment", "held", {"none"})
    /\ Program("pay")[5] = Set("order", "paid", Existing)
    /\ Program("pay")[6] = Set("shipment", "unassigned", {"none"})
BY DEF Program, PayProgram

\* cancelOrderTx.
LEMMA CancelStatements ==
    /\ Len(Program("cancel")) = 6
    /\ Program("cancel")[1] = Lock("order", Cancellable, FALSE)
    /\ Program("cancel")[2] = Read("payment", {"held"}, 2)
    /\ Program("cancel")[3] = Call("refund")
    /\ Program("cancel")[4] = Set("payment", "refunded", Existing)
    /\ Program("cancel")[5] = Set("shipment", "cancelled", Existing \ {"delivered", "cancelled"})
    /\ Program("cancel")[6] = Set("order", "cancelled", Existing)
BY DEF Program, CancelProgram

\* refundOrder.
LEMMA RefundStatements ==
    /\ Len(Program("refund")) = 4
    /\ Program("refund")[1] = Lock("order", {"delivered"}, FALSE)
    /\ Program("refund")[2] = Read("payment", {"captured"}, 0)
    /\ Program("refund")[3] = Call("refund")
    /\ Program("refund")[4] = Set("payment", "refunded", Existing)
BY DEF Program, RefundProgram

\* acceptJob.
LEMMA AcceptStatements ==
    /\ Len(Program("accept")) = 3
    /\ Program("accept")[1] = Lock("shipment", {"unassigned"}, FALSE)
    /\ Program("accept")[2] = Take("shipment", "assigned", Existing)
    /\ Program("accept")[3] = Set("order", "pickup_assigned", Existing)
BY DEF Program, AcceptProgram

\* markPickedUp.
LEMMA PickupStatements ==
    /\ Len(Program("pickup")) = 3
    /\ Program("pickup")[1] = Lock("shipment", {"assigned"}, TRUE)
    /\ Program("pickup")[2] = Set("shipment", "picked_up", Existing)
    /\ Program("pickup")[3] = Set("order", "in_transit", Existing)
BY DEF Program, PickupProgram

\* markDelivered, whose payouts are two statements.
LEMMA DeliverStatements ==
    /\ Len(Program("deliver")) = 8
    /\ Program("deliver")[1] = Lock("shipment", {"picked_up"}, TRUE)
    /\ Program("deliver")[2] = Set("shipment", "delivered", Existing)
    /\ Program("deliver")[3] = Set("order", "delivered", Existing)
    /\ Program("deliver")[4] = Read("payment", Existing, 2)
    /\ Program("deliver")[5] = Call("capture")
    /\ Program("deliver")[6] = Set("payment", "captured", Existing)
    /\ Program("deliver")[7] = Payout("seller")
    /\ Program("deliver")[8] = Payout("driver")
BY DEF Program, DeliverProgram

\* Every handler has a last statement.
LEMMA ProgramLengths == \A kind \in Kinds : Len(Program(kind)) \in Nat
BY PayStatements, CancelStatements, RefundStatements, AcceptStatements, PickupStatements,
   DeliverStatements DEF Kinds, OfficeKinds, DriverKinds

-----------------------------------------------------------------------------
(* What a step may do to the others *)

\* The gateway undoes nothing.
GatewayGrows ==
    /\ gateway' \in [refunds : 0 .. MaxCalls, captures : 0 .. MaxCalls,
                     payouts : [Payees -> 0 .. MaxCalls]]
    /\ gateway.refunds > 0 => gateway'.refunds > 0
    /\ gateway.captures > 0 => gateway'.captures > 0

\* A session goes on with its handler, and may take a lock nobody has.
Moves(s) ==
    /\ db' = db /\ issued' = issued
    /\ tx' \in [Sessions -> TxType]
    /\ \A x \in Sessions \ {s} : tx'[x] = tx[x]
    /\ tx'[s].kind = tx[s].kind /\ tx'[s].driver = tx[s].driver
    /\ tx'[s].pc \in 1 .. Len(Program(tx[s].kind)) + 1
    /\ locks' \in [Table -> Sessions \cup {NoSession}]
    /\ \A r \in Table : locks'[r] = locks[r] \/ (locks[r] = NoSession /\ locks'[r] = s)
    /\ GatewayGrows

\* A session is rolled back.
Undoes(s) == Rollback(s) /\ GatewayGrows

\* The invariant of a session depends on its own state, on the locks it has, on
\* the committed rows and on the gateway.
LEMMA OthersKept ==
    ASSUME NEW x \in Sessions, TxInv(x), tx'[x] = tx[x], db' = db,
           \A r \in Table : locks[r] = x <=> locks'[r] = x,
           gateway.refunds > 0 => gateway'.refunds > 0,
           gateway.captures > 0 => gateway'.captures > 0
    PROVE  TxInv(x)'
<1>1. /\ \A r : Written(x, r)' = Written(x, r) /\ Stage(r)' = Stage(r)
      /\ \A n, status : After(x, n, status)' = After(x, n, status)
  BY DEF Written, Stage, After
<1>2. LocksHeld(x)'
  BY <1>1 DEF LocksHeld, TxInv, Table
<1>3. PayInv(x) => PayInv(x)'
  BY <1>1 DEF PayInv, Wrote
<1>4. CancelInv(x) => CancelInv(x)'
  BY <1>1 DEF CancelInv, Wrote
<1>5. RefundInv(x) => RefundInv(x)'
  BY <1>1 DEF RefundInv, Wrote
<1>6. AcceptInv(x) => AcceptInv(x)'
  BY <1>1 DEF AcceptInv, Wrote
<1>7. PickupInv(x) => PickupInv(x)'
  BY <1>1 DEF PickupInv, Wrote
<1>8. DeliverInv(x) => DeliverInv(x)'
  BY <1>1 DEF DeliverInv, Wrote
<1> QED
  BY <1>2, <1>3, <1>4, <1>5, <1>6, <1>7, <1>8 DEF TxInv, Progress

\* A session that goes on and keeps its own invariant keeps those of all.
LEMMA MoveKeeps ==
    ASSUME TxsInv, NEW s \in Sessions, tx[s].kind # "idle", Moves(s), TxInv(s)'
    PROVE  TxsInv'
<1>1. \A x \in Sessions \ {s} : TxInv(x)'
  <2>1. ASSUME NEW x \in Sessions \ {s}
        PROVE  \A r \in Table : locks[r] = x <=> locks'[r] = x
    BY SessionsAssumption DEF Moves
  <2> QED
    BY <2>1, OthersKept DEF Moves, GatewayGrows, TxsInv
<1>2. Shapes'
  BY DEF TxsInv, Shapes, Moves
<1>3. TypeOK'
  <2>1. \A x \in Sessions :
          /\ tx'[x].kind \in {"idle"} \cup OfficeKinds \cup DriverKinds
          /\ DOMAIN tx'[x].wrote \subseteq Table
          /\ tx'[x].paid \subseteq Payees
    BY DEF Moves, TxType, Kinds, Writes
  <2>2. \A x \in Sessions : tx'[x].kind = "idle" => \A r \in Table : locks'[r] # x
    BY SessionsAssumption DEF Moves, TxsInv, TypeOK
  <2>3. \A x \in Sessions :
           tx'[x].kind # "idle" => tx'[x].pc \in 1 .. Len(Program(tx'[x].kind)) + 1
    BY DEF Moves, TxsInv, TypeOK
  <2> QED
    BY <2>1, <2>2, <2>3 DEF Moves, GatewayGrows, TxsInv, TypeOK
<1>4. BooksAreTrue'
  BY DEF Moves, GatewayGrows, TxsInv, BooksAreTrue, StagesAgree, NeverAheadOfGateway
<1> QED
  BY <1>1, <1>2, <1>3, <1>4 DEF TxsInv

\* An idle session has written nothing and holds nothing.
LEMMA IdleIsTyped == Idle \in TxType
BY DEF Idle, TxType, Kinds, Writes

\* A rollback lets go of everything and changes nothing else.
LEMMA UndoKeeps ==
    ASSUME TxsInv, NEW s \in Sessions, Undoes(s)
    PROVE  TxsInv'
<1>1. /\ db' = db /\ issued' = issued /\ tx' = [tx EXCEPT ![s] = Idle]
      /\ locks' = Unlock(s) /\ GatewayGrows
  BY DEF Undoes, Rollback
<1>2. /\ tx' \in [Sessions -> TxType] /\ tx'[s] = Idle
      /\ \A x \in Sessions \ {s} : tx'[x] = tx[x]
  BY <1>1, IdleIsTyped DEF TxsInv, Shapes
<1>3. /\ locks' \in [Table -> Sessions \cup {NoSession}]
      /\ \A r \in Table : locks'[r] # s
      /\ \A x \in Sessions \ {s} : \A r \in Table : locks[r] = x <=> locks'[r] = x
  BY <1>1, SessionsAssumption DEF Unlock, TxsInv, TypeOK
<1>4. TxInv(s)'
  BY <1>2, <1>3 DEF TxInv, LocksHeld, Progress, Written, Idle, OfficeKinds, DriverKinds
<1>5. \A x \in Sessions \ {s} : TxInv(x)'
  BY <1>1, <1>2, <1>3, OthersKept DEF GatewayGrows, TxsInv
<1>6. Shapes'
  BY <1>1, <1>2 DEF TxsInv, Shapes
<1>7. TypeOK'
  <2>1. \A x \in Sessions :
          /\ tx'[x].kind \in {"idle"} \cup OfficeKinds \cup DriverKinds
          /\ DOMAIN tx'[x].wrote \subseteq Table
          /\ tx'[x].paid \subseteq Payees
    BY <1>2 DEF TxType, Kinds, Writes
  <2>2. \A x \in Sessions : tx'[x].kind = "idle" => \A r \in Table : locks'[r] # x
    BY <1>2, <1>3 DEF TxsInv, TypeOK
  <2>3. \A x \in Sessions :
           tx'[x].kind # "idle" => tx'[x].pc \in 1 .. Len(Program(tx'[x].kind)) + 1
    BY <1>2 DEF TxsInv, TypeOK, Idle
  <2> QED
    BY <1>1, <1>3, <2>1, <2>2, <2>3 DEF GatewayGrows, TxsInv, TypeOK
<1>8. BooksAreTrue'
  BY <1>1 DEF GatewayGrows, TxsInv, BooksAreTrue, StagesAgree, NeverAheadOfGateway
<1> QED
  BY <1>4, <1>5, <1>6, <1>7, <1>8 DEF TxsInv

-----------------------------------------------------------------------------
(* The statements *)

\* A session that has written nothing more than before.
WritesNothing(s) ==
    /\ tx'[s].wrote = tx[s].wrote
    /\ tx'[s].paid = tx[s].paid

\* To go on without a write moves the program counter, by k statements.
LEMMA GoesOn ==
    ASSUME TxsInv, NEW s \in Sessions, AtStep(s), NEW k \in Nat,
           tx[s].pc + k \in 1 .. Len(Program(tx[s].kind)) + 1,
           tx' = [tx EXCEPT ![s].pc = tx[s].pc + k],
           db' = db, issued' = issued, GatewayGrows,
           locks' \in [Table -> Sessions \cup {NoSession}],
           \A r \in Table : locks'[r] = locks[r] \/ (locks[r] = NoSession /\ locks'[r] = s)
    PROVE  Moves(s) /\ WritesNothing(s) /\ tx'[s].pc = tx[s].pc + k
<1>1. tx[s] \in TxType /\ tx[s].pc \in 1 .. Len(Program(tx[s].kind)) + 1
  BY DEF TxsInv, Shapes, TypeOK, AtStep, Running
<1>2. tx' = [tx EXCEPT ![s] = [tx[s] EXCEPT !.pc = tx[s].pc + k]]
  OBVIOUS
<1>3. /\ tx' \in [Sessions -> TxType]
      /\ \A x \in Sessions \ {s} : tx'[x] = tx[x]
      /\ tx'[s] = [tx[s] EXCEPT !.pc = tx[s].pc + k]
  <2>1. tx[s].pc + k \in Nat
    BY <1>1 DEF TxType
  <2>2. [tx[s] EXCEPT !.pc = tx[s].pc + k] \in TxType
    BY <1>1, <2>1 DEF TxType
  <2> QED
    BY <1>2, <2>2 DEF TxsInv, Shapes
<1>4. /\ tx'[s].kind = tx[s].kind /\ tx'[s].driver = tx[s].driver
      /\ tx'[s].wrote = tx[s].wrote /\ tx'[s].paid = tx[s].paid
      /\ tx'[s].pc = tx[s].pc + k
  BY <1>1, <1>3 DEF TxType
<1> QED
  BY <1>3, <1>4 DEF Moves, WritesNothing

\* A statement is followed by another or by the COMMIT.
LEMMA ThereIsANext ==
    ASSUME TxsInv, NEW s \in Sessions, AtStep(s)
    PROVE  /\ tx[s].kind \in Kinds /\ Len(Program(tx[s].kind)) \in Nat
           /\ tx[s].pc \in 1 .. Len(Program(tx[s].kind))
           /\ tx[s].pc + 1 \in 1 .. Len(Program(tx[s].kind)) + 1
<1>1. /\ tx[s].kind \in Kinds /\ tx[s].pc \in 1 .. Len(Program(tx[s].kind)) + 1
      /\ tx[s].pc <= Len(Program(tx[s].kind))
  BY DEF AtStep, Running, TxsInv, TypeOK, Kinds
<1>2. Len(Program(tx[s].kind)) \in Nat
  BY <1>1, ProgramLengths
<1> QED
  BY <1>1, <1>2

\* What the statement leaves alone.
LEMMA GatewayStays == TxsInv /\ UNCHANGED gateway => GatewayGrows
BY DEF TxsInv, TypeOK, GatewayGrows

\* FOR UPDATE finds the row in one of the statuses it needs and locks it, or the
\* handler throws.
LEMMA LockEffect ==
    ASSUME TxsInv, NEW s \in Sessions, LockRow(s),
           NEW r \in Table, NEW ok, ok \subseteq Existing, NEW mine \in BOOLEAN,
           Statement(s) = Lock(r, ok, mine)
    PROVE  \/ Undoes(s)
           \/ /\ Moves(s) /\ WritesNothing(s) /\ tx'[s].pc = tx[s].pc + 1
              /\ locks'[r] = s /\ \A q \in Table \ {r} : locks'[q] = locks[q]
              /\ Seen(s, r).status \in ok
<1>1. /\ AtStep(s) /\ ~Waiting(s) /\ gateway' = gateway
      /\ \/ Rollback(s)
         \/ /\ Seen(s, r).status \in ok
            /\ locks' = [locks EXCEPT ![r] = s] /\ tx' = Next1(s)
            /\ UNCHANGED <<db, issued>>
  BY DEF LockRow, At, Lock, Rollback
<1>2. GatewayGrows
  BY <1>1, GatewayStays
<1>3. CASE Rollback(s)
  BY <1>2, <1>3 DEF Undoes
<1>4. CASE /\ Seen(s, r).status \in ok
           /\ locks' = [locks EXCEPT ![r] = s] /\ tx' = Next1(s)
           /\ UNCHANGED <<db, issued>>
  <2>1. locks[r] \in {s, NoSession}
    BY <1>1, <1>4 DEF Waiting, Needs, Holder, At, Lock, Matched
  <2>2. /\ locks' \in [Table -> Sessions \cup {NoSession}]
        /\ locks'[r] = s /\ \A q \in Table \ {r} : locks'[q] = locks[q]
    BY <1>4 DEF TxsInv, TypeOK
  <2>3. \A q \in Table : locks'[q] = locks[q] \/ (locks[q] = NoSession /\ locks'[q] = s)
    BY <2>1, <2>2
  <2>4. tx' = [tx EXCEPT ![s].pc = tx[s].pc + 1]
    BY <1>4 DEF Next1, TxsInv, Shapes
  <2>5. tx[s].pc + 1 \in 1 .. Len(Program(tx[s].kind)) + 1
    BY <1>1, ThereIsANext
  <2>6. Moves(s) /\ WritesNothing(s) /\ tx'[s].pc = tx[s].pc + 1
    BY <1>1, <1>2, <1>4, <2>2, <2>3, <2>4, <2>5, GoesOn
  <2> QED
    BY <1>4, <2>2, <2>6
<1> QED
  BY <1>1, <1>3, <1>4

\* A SELECT finds the row as it needs it, skips what depends on it, or throws.
LEMMA ReadEffect ==
    ASSUME TxsInv, NEW s \in Sessions, ReadRow(s),
           NEW r \in Table, NEW ok, NEW skip \in {0, 2},
           Statement(s) = Read(r, ok, skip),
           tx[s].pc + 1 + skip \in 1 .. Len(Program(tx[s].kind)) + 1
    PROVE  \/ Undoes(s)
           \/ /\ Moves(s) /\ WritesNothing(s) /\ locks' = locks
              /\ IF Seen(s, r).status \in ok THEN tx'[s].pc = tx[s].pc + 1
                 ELSE skip > 0 /\ tx'[s].pc = tx[s].pc + 1 + skip
<1> DEFINE found == Seen(s, r).status \in ok
           k == 1 + IF found THEN 0 ELSE skip
<1>1. /\ AtStep(s) /\ gateway' = gateway
      /\ \/ Rollback(s)
         \/ /\ found \/ skip > 0
            /\ tx' = [tx EXCEPT ![s].pc = @ + 1 + IF found THEN 0 ELSE skip]
            /\ UNCHANGED <<db, issued, locks>>
  BY DEF ReadRow, At, Read, Rollback
<1>2. GatewayGrows
  BY <1>1, GatewayStays
<1>3. CASE Rollback(s)
  BY <1>2, <1>3 DEF Undoes
<1>4. CASE /\ found \/ skip > 0
           /\ tx' = [tx EXCEPT ![s].pc = @ + 1 + IF found THEN 0 ELSE skip]
           /\ UNCHANGED <<db, issued, locks>>
  <2>1. tx[s].pc \in Nat /\ k \in Nat
    BY DEF TxsInv, Shapes, TxType
  <2>2. tx' = [tx EXCEPT ![s].pc = tx[s].pc + k]
    <3>1. tx[s].pc + k = tx[s].pc + 1 + IF found THEN 0 ELSE skip
      BY <2>1
    <3> HIDE DEF k, found
    <3> QED
      BY <1>4, <3>1
  <2>3. locks' \in [Table -> Sessions \cup {NoSession}]
    BY <1>4 DEF TxsInv, TypeOK
  <2>4. tx[s].pc + k \in 1 .. Len(Program(tx[s].kind)) + 1
    BY <1>1, <2>1, ThereIsANext
  <2> HIDE DEF k, found
  <2>5. Moves(s) /\ WritesNothing(s) /\ tx'[s].pc = tx[s].pc + k
    BY <1>1, <1>2, <1>4, <2>1, <2>2, <2>3, <2>4, GoesOn
  <2> QED
    BY <1>4, <2>1, <2>5 DEF k, found
<1> QED
  BY <1>1, <1>3, <1>4

\* What a session sees has the type of a row.
LEMMA SeenIsTyped ==
    ASSUME TxsInv, NEW s \in Sessions, NEW r \in Table
    PROVE  /\ Seen(s, r) \in RowType
           /\ Seen(s, r).status = IF Written(s, r) = "-" THEN Stage(r) ELSE Written(s, r)
<1>1. tx[s].wrote \in Writes /\ db[r] \in RowType
  BY DEF TxsInv, Shapes, TxType
<1>2. PICK rows \in SUBSET Table : tx[s].wrote \in [rows -> RowType]
  BY <1>1 DEF Writes
<1>3. r \in DOMAIN tx[s].wrote => tx[s].wrote[r] \in RowType
  BY <1>2
<1>4. \A row \in RowType : row.status # "-"
  BY DEF RowType, Status, OrderStatus, ShipmentStatus, PaymentStatus
<1> QED
  BY <1>1, <1>3, <1>4 DEF Seen, Written, Stage

\* An UPDATE of a row it finds writes its status and locks it; one that finds
\* none does nothing.
LEMMA WriteEffect ==
    ASSUME TxsInv, NEW s \in Sessions, WriteRow(s),
           NEW r \in Table, NEW status \in Status, NEW from, NEW op \in {"set", "take"},
           Statement(s) = [op |-> op, row |-> r, status |-> status, from |-> from]
    PROVE  /\ Moves(s) /\ tx'[s].pc = tx[s].pc + 1 /\ tx'[s].paid = tx[s].paid
           /\ \A q \in Table \ {r} : locks'[q] = locks[q] /\ Written(s, q)' = Written(s, q)
           /\ IF Seen(s, r).status \in from
              THEN locks'[r] = s /\ Written(s, r)' = status
              ELSE locks'[r] = locks[r] /\ Written(s, r)' = Written(s, r)
<1> DEFINE new == Row(status, IF op = "take" THEN tx[s].driver ELSE Seen(s, r).driver)
           w   == [q \in DOMAIN tx[s].wrote \cup {r} |->
                     IF q = r THEN new ELSE tx[s].wrote[q]]
<1>1. /\ AtStep(s) /\ gateway' = gateway /\ db' = db /\ issued' = issued
      /\ Needs(s) <=> Seen(s, r).status \in from
      /\ Waiting(s) <=> Needs(s) /\ locks[r] \notin {s, NoSession}
      /\ ~Waiting(s)
  BY DEF WriteRow, At, Waiting, Needs, Holder, Matched
<1>2. GatewayGrows
  BY <1>1, GatewayStays
<1>3. /\ tx[s].pc + 1 \in 1 .. Len(Program(tx[s].kind)) + 1
      /\ tx[s].pc + 1 \in Nat
  BY <1>1, ThereIsANext
<1>4. tx \in [Sessions -> TxType] /\ tx[s] \in TxType /\ locks \in [Table -> Sessions \cup {NoSession}]
  BY DEF TxsInv, Shapes, TypeOK
<1>5. CASE Seen(s, r).status \in from
  <2>1. /\ locks' = [locks EXCEPT ![r] = s]
        /\ tx' = [tx EXCEPT ![s].pc = @ + 1,
                            ![s].wrote = [q \in DOMAIN @ \cup {r} |-> IF q = r THEN new ELSE @[q]]]
    BY <1>1, <1>5 DEF WriteRow
  <2>2. new \in RowType
    BY <1>4, SeenIsTyped DEF Row, RowType, TxType
  <2>3. w \in Writes
    <3>1. PICK rows \in SUBSET Table : tx[s].wrote \in [rows -> RowType]
      BY <1>4 DEF TxType, Writes
    <3> HIDE DEF new
    <3>2. w \in [rows \cup {r} -> RowType]
      BY <2>2, <3>1
    <3> QED
      BY <3>2 DEF Writes
  <2> DEFINE t == [tx[s] EXCEPT !.pc = tx[s].pc + 1, !.wrote = w]
  <2>4. tx' = [tx EXCEPT ![s] = t]
    <3> HIDE DEF new
    <3> QED
      BY <1>4, <2>1 DEF TxType
  <2> HIDE DEF w
  <2>5. t \in TxType /\ t.kind = tx[s].kind /\ t.driver = tx[s].driver /\ t.paid = tx[s].paid
        /\ t.pc = tx[s].pc + 1 /\ t.wrote = w
    BY <1>3, <1>4, <2>3 DEF TxType
  <2> HIDE DEF t
  <2>6. tx' \in [Sessions -> TxType] /\ tx'[s] = t /\ \A x \in Sessions \ {s} : tx'[x] = tx[x]
    BY <1>4, <2>4, <2>5
  <2>7. /\ locks' \in [Table -> Sessions \cup {NoSession}]
        /\ locks'[r] = s /\ \A q \in Table \ {r} : locks'[q] = locks[q]
        /\ locks[r] = s \/ locks[r] = NoSession
    BY <1>1, <1>4, <1>5, <2>1
  <2>8. Moves(s)
    BY <1>1, <1>2, <1>3, <2>5, <2>6, <2>7 DEF Moves
  <2>9. \A q \in Table : Written(s, q)' = IF q = r THEN status ELSE Written(s, q)
    <3>1. /\ DOMAIN w = DOMAIN tx[s].wrote \cup {r}
          /\ w[r].status = status
          /\ \A q \in DOMAIN tx[s].wrote \ {r} : w[q] = tx[s].wrote[q]
      BY DEF w, Row
    <3> QED
      BY <2>5, <2>6, <3>1 DEF Written
  <2> QED
    BY <1>5, <2>5, <2>6, <2>7, <2>8, <2>9
<1>6. CASE Seen(s, r).status \notin from
  <2>1. tx' = Next1(s) /\ locks' = locks
    BY <1>1, <1>6 DEF WriteRow
  <2>2. tx' = [tx EXCEPT ![s].pc = tx[s].pc + 1]
    BY <2>1 DEF Next1
  <2>3. Moves(s) /\ WritesNothing(s) /\ tx'[s].pc = tx[s].pc + 1
    BY <1>1, <1>2, <1>3, <1>4, <2>1, <2>2, GoesOn
  <2> QED
    BY <1>6, <2>1, <2>3 DEF WritesNothing, Written
<1> QED
  BY <1>5, <1>6

\* A call that succeeds has had its effect; one that throws may have.
LEMMA CallEffect ==
    ASSUME TxsInv, NEW s \in Sessions, CallGateway(s),
           NEW effect \in {"intent", "refund", "capture"}, Statement(s) = Call(effect)
    PROVE  \/ Undoes(s)
           \/ /\ Moves(s) /\ WritesNothing(s) /\ tx'[s].pc = tx[s].pc + 1 /\ locks' = locks
              /\ effect = "refund"  => gateway'.refunds > 0
              /\ effect = "capture" => gateway'.captures > 0
<1> DEFINE done == Done(effect)
<1>1. /\ AtStep(s)
      /\ \/ gateway' = done /\ tx' = Next1(s) /\ UNCHANGED <<db, issued, locks>>
         \/ gateway' \in {gateway, done} /\ Rollback(s)
  BY DEF CallGateway, At, Call
<1>2. /\ done \in [refunds : 0 .. MaxCalls, captures : 0 .. MaxCalls,
                   payouts : [Payees -> 0 .. MaxCalls]]
      /\ done.refunds >= gateway.refunds /\ done.captures >= gateway.captures
      /\ effect = "refund"  => done.refunds > 0
      /\ effect = "capture" => done.captures > 0
  <2>1. /\ gateway \in [refunds : 0 .. MaxCalls, captures : 0 .. MaxCalls,
                         payouts : [Payees -> 0 .. MaxCalls]]
        /\ MaxCalls \in Nat \ {0}
    BY SessionsAssumption DEF TxsInv, TypeOK
  <2>2. \A n \in 0 .. MaxCalls : Counted(n) \in 0 .. MaxCalls /\ Counted(n) >= n /\ Counted(n) > 0
    BY <2>1 DEF Counted
  <2>3. CASE effect = "intent"
    BY <2>1, <2>3 DEF Done
  <2>4. CASE effect = "refund"
    BY <2>1, <2>2, <2>4 DEF Done
  <2>5. CASE effect = "capture"
    BY <2>1, <2>2, <2>5 DEF Done
  <2> QED
    BY <2>3, <2>4, <2>5
<1>3. gateway' \in {gateway, done} => GatewayGrows
  BY <1>2 DEF GatewayGrows, TxsInv, TypeOK
<1>4. CASE gateway' \in {gateway, done} /\ Rollback(s)
  BY <1>3, <1>4 DEF Undoes
<1>5. CASE gateway' = done /\ tx' = Next1(s) /\ UNCHANGED <<db, issued, locks>>
  <2>1. tx' = [tx EXCEPT ![s].pc = tx[s].pc + 1]
    BY <1>5 DEF Next1
  <2>2. /\ tx[s].pc + 1 \in 1 .. Len(Program(tx[s].kind)) + 1
        /\ locks' \in [Table -> Sessions \cup {NoSession}]
    BY <1>1, <1>5, ThereIsANext DEF TxsInv, TypeOK
  <2>3. Moves(s) /\ WritesNothing(s) /\ tx'[s].pc = tx[s].pc + 1
    BY <1>1, <1>3, <1>5, <2>1, <2>2, GoesOn
  <2> QED
    BY <1>2, <1>5, <2>3
<1> QED
  BY <1>1, <1>4, <1>5

\* runPayout inserts a row for the payee whatever the gateway does.
LEMMA PayoutEffect ==
    ASSUME TxsInv, NEW s \in Sessions, RunPayout(s), tx[s].kind \in DriverKinds,
           NEW to \in {"seller", "driver"}, Statement(s) = Payout(to)
    PROVE  /\ Moves(s) /\ tx'[s].pc = tx[s].pc + 1 /\ locks' = locks
           /\ tx'[s].wrote = tx[s].wrote
           /\ tx'[s].paid = tx[s].paid \cup {IF to = "seller" THEN Seller ELSE tx[s].driver}
<1> DEFINE payee == IF to = "seller" THEN Seller ELSE tx[s].driver
           t == [tx[s] EXCEPT !.pc = tx[s].pc + 1, !.paid = tx[s].paid \cup {payee}]
<1>1. /\ AtStep(s) /\ UNCHANGED <<db, issued, locks>>
      /\ tx' = [tx EXCEPT ![s].pc = @ + 1, ![s].paid = @ \cup {payee}]
      /\ \/ gateway' = [gateway EXCEPT !.payouts[payee] = Counted(@)]
         \/ UNCHANGED gateway
  BY DEF RunPayout, At, Payout
<1>2. payee \in Payees
  BY DEF TxsInv, TxInv, Payees
<1>3. GatewayGrows
  <2> HIDE DEF payee
  <2>1. CASE gateway' = [gateway EXCEPT !.payouts[payee] = Counted(@)]
    <3>1. /\ gateway \in [refunds : 0 .. MaxCalls, captures : 0 .. MaxCalls,
                          payouts : [Payees -> 0 .. MaxCalls]]
          /\ Counted(gateway.payouts[payee]) \in 0 .. MaxCalls
      BY <1>2, SessionsAssumption DEF TxsInv, TypeOK, Counted
    <3> QED
      BY <2>1, <3>1 DEF GatewayGrows
  <2> QED
    BY <1>1, <2>1, GatewayStays
<1>4. tx[s] \in TxType /\ tx \in [Sessions -> TxType] /\ locks \in [Table -> Sessions \cup {NoSession}]
  BY DEF TxsInv, Shapes, TypeOK
<1>5. tx[s].pc + 1 \in 1 .. Len(Program(tx[s].kind)) + 1 /\ tx[s].pc + 1 \in Nat
  BY <1>1, ThereIsANext
<1> HIDE DEF payee
<1>6. /\ t \in TxType /\ t.kind = tx[s].kind /\ t.driver = tx[s].driver /\ t.wrote = tx[s].wrote
      /\ t.pc = tx[s].pc + 1 /\ t.paid = tx[s].paid \cup {payee}
  BY <1>2, <1>4, <1>5 DEF TxType
<1>7. tx' = [tx EXCEPT ![s] = t]
  BY <1>1, <1>4 DEF TxType
<1> HIDE DEF t
<1>8. tx' \in [Sessions -> TxType] /\ tx'[s] = t /\ \A x \in Sessions \ {s} : tx'[x] = tx[x]
  BY <1>4, <1>6, <1>7
<1>9. Moves(s)
  BY <1>1, <1>3, <1>4, <1>5, <1>6, <1>8 DEF Moves
<1> QED
  BY <1>1, <1>6, <1>8, <1>9 DEF payee

\* The statement a session has reached tells what it can do.
LEMMA ByStatement ==
    ASSUME TxsInv, NEW s \in Sessions, AtStep(s), Advance(s)
    PROVE  /\ Statement(s).op = "lock"   => LockRow(s)
           /\ Statement(s).op = "read"   => ReadRow(s)
           /\ Statement(s).op = "set"    => WriteRow(s)
           /\ Statement(s).op = "take"   => WriteRow(s)
           /\ Statement(s).op = "call"   => CallGateway(s)
           /\ Statement(s).op = "payout" => RunPayout(s)
<1>1. ~Commit(s)
  BY ThereIsANext DEF Commit, AtCommit
<1> QED
  BY <1>1 DEF Advance, LockRow, ReadRow, WriteRow, CallGateway, RunPayout, At

\* What is left of the invariant of a session that goes on.
LEMMA SessionMoves ==
    ASSUME TxsInv, NEW s \in Sessions, tx[s].kind \in Kinds, Moves(s),
           \A r \in Table : Written(s, r)' # "-" => locks'[r] = s,
           tx[s].kind \in OfficeKinds => locks'["order"] = s,
           tx[s].kind \in DriverKinds => locks'["shipment"] = s,
           Progress(s)',
           tx[s].kind # "deliver" => tx'[s].paid = {}
    PROVE  TxsInv'
<1>1. tx[s].kind # "idle" /\ tx'[s].kind = tx[s].kind /\ tx'[s].driver = tx[s].driver
  BY DEF Kinds, OfficeKinds, DriverKinds, Moves
<1>2. TxInv(s)'
  BY <1>1 DEF TxInv, LocksHeld, TxsInv
<1> QED
  BY <1>1, <1>2, MoveKeeps

\* Where the handler has its lock, it keeps it.
LEMMA LocksStay ==
    ASSUME TxsInv, NEW s \in Sessions, Moves(s), NEW r \in Table, locks[r] = s
    PROVE  locks'[r] = s
BY DEF Moves

\* A step that writes nothing.
LEMMA QuietMove ==
    ASSUME TxsInv, NEW s \in Sessions, tx[s].kind \in Kinds, Moves(s), WritesNothing(s),
           tx[s].kind \in OfficeKinds => locks'["order"] = s,
           tx[s].kind \in DriverKinds => locks'["shipment"] = s,
           Progress(s)'
    PROVE  TxsInv'
<1>1. \A r \in Table : Written(s, r)' = Written(s, r)
  BY DEF WritesNothing, Written
<1>2. \A r \in Table : Written(s, r) # "-" => locks'[r] = s
  BY LocksStay DEF TxsInv, TxInv, LocksHeld
<1>3. tx[s].kind # "deliver" => tx'[s].paid = {}
  BY DEF WritesNothing, TxsInv, TxInv
<1> QED
  BY <1>1, <1>2, <1>3, SessionMoves

\* A step that writes a row, whose lock it has then.
LEMMA WritingMove ==
    ASSUME TxsInv, NEW s \in Sessions, tx[s].kind \in Kinds, Moves(s), tx[s].pc > 1,
           tx'[s].paid = tx[s].paid, NEW r \in Table,
           \A q \in Table \ {r} : Written(s, q)' = Written(s, q),
           locks'[r] = s \/ Written(s, r)' = "-",
           Progress(s)'
    PROVE  TxsInv'
<1>1. \A q \in Table : Written(s, q) # "-" => locks'[q] = s
  BY LocksStay DEF TxsInv, TxInv, LocksHeld
<1>2. /\ tx[s].kind \in OfficeKinds => locks'["order"] = s
      /\ tx[s].kind \in DriverKinds => locks'["shipment"] = s
  BY LocksStay DEF TxsInv, TxInv, LocksHeld, Table
<1>3. tx[s].kind # "deliver" => tx'[s].paid = {}
  BY DEF TxsInv, TxInv
<1> QED
  BY <1>1, <1>2, <1>3, SessionMoves

\* The committed rows, of which nobody moves any before a COMMIT.
LEMMA StagesStay ==
    ASSUME TxsInv, NEW s \in Sessions, Moves(s)
    PROVE  /\ tx'[s].kind = tx[s].kind /\ tx'[s].driver = tx[s].driver
           /\ \A r \in Table : Stage(r)' = Stage(r)
           /\ gateway.refunds > 0 => gateway'.refunds > 0
           /\ gateway.captures > 0 => gateway'.captures > 0
BY DEF Moves, Stage, GatewayGrows

\* The stages of a row are those of its table.
LEMMA StageTypes ==
    ASSUME TxsInv
    PROVE  /\ Stage("order") \in OrderStatus /\ Stage("shipment") \in ShipmentStatus
           /\ Stage("payment") \in PaymentStatus /\ StagesAgree
BY DEF TxsInv, TypeOK, BooksAreTrue, Stage, Table, StatusOf

-----------------------------------------------------------------------------
(* The handlers, up to their COMMIT *)

\* pay: with the order locked as created, there is no payment and no shipment yet.
LEMMA PayAdvances ==
    ASSUME TxsInv, NEW s \in Sessions, tx[s].kind = "pay", AtStep(s), Advance(s)
    PROVE  TxsInv'
<1>1. /\ tx[s].pc \in 1 .. 6 /\ tx[s].kind \in Kinds /\ PayInv(s) /\ LocksHeld(s)
      /\ tx[s].kind \in OfficeKinds /\ tx[s].kind \notin DriverKinds
      /\ Len(Program(tx[s].kind)) = 6
  BY ThereIsANext, PayStatements DEF TxsInv, TxInv, Progress, OfficeKinds, DriverKinds
<1>2. /\ "order" \in Table /\ "shipment" \in Table /\ "payment" \in Table
      /\ \A r \in Table : r \in {"order", "shipment", "payment"}
  BY DEF Table
<1>3. CASE tx[s].pc = 1
  <2>1. Statement(s) = Lock("order", {"created"}, FALSE)
    BY <1>3, PayStatements DEF Statement
  <2>2. LockRow(s) /\ {"created"} \subseteq Existing
    BY <2>1, ByStatement DEF Lock, Existing, Status, OrderStatus, ShipmentStatus
  <2>3. CASE Undoes(s)
    BY <2>3, UndoKeeps
  <2>4. CASE /\ Moves(s) /\ WritesNothing(s) /\ tx'[s].pc = tx[s].pc + 1
             /\ locks'["order"] = s /\ \A q \in Table \ {"order"} : locks'[q] = locks[q]
             /\ Seen(s, "order").status \in {"created"}
    <3>1. \A r : Written(s, r)' = Written(s, r)
      BY <2>4 DEF WritesNothing, Written
    <3>2. \A r \in Table : Written(s, r) = "-"
      BY <1>1, <1>2, <1>3 DEF PayInv, Wrote, After
    <3>3. Stage("order") \in {"created"}
      BY <1>2, <2>4, <3>2, SeenIsTyped
    <3>4. Progress(s)'
      BY <1>1, <1>2, <1>3, <2>4, <3>1, <3>2, <3>3, StagesStay DEF Progress, PayInv, Wrote, After
    <3> QED
      BY <1>1, <2>4, <3>4, QuietMove
  <2> QED
    BY <1>2, <2>1, <2>2, <2>3, <2>4, LockEffect
<1>4. ASSUME tx[s].pc > 1
      PROVE  /\ locks["order"] = s /\ Stage("order") = "created"
             /\ Stage("shipment") = "none" /\ Stage("payment") = "none"
  BY <1>1, <1>4, StageTypes
     DEF PayInv, LocksHeld, StagesAgree, Stage, ShipmentStatus, PaymentStatus
<1>5. ASSUME Moves(s), WritesNothing(s), tx[s].pc \in {2, 3}, tx'[s].pc = tx[s].pc + 1
      PROVE  TxsInv'
  <2>1. \A r : Written(s, r)' = Written(s, r)
    BY <1>5 DEF WritesNothing, Written
  <2>2. Progress(s)'
    BY <1>1, <1>2, <1>4, <1>5, <2>1, StagesStay DEF Progress, PayInv, Wrote, After, WritesNothing
  <2> QED
    BY <1>1, <1>2, <1>4, <1>5, <2>2, LocksStay, QuietMove
<1>6. CASE tx[s].pc = 2
  <2>1. Statement(s) = Read("payment", {"none"}, 0)
    BY <1>6, PayStatements DEF Statement
  <2>2. ReadRow(s)
    BY <2>1, ByStatement DEF Read
  <2> QED
    BY <1>1, <1>2, <1>5, <1>6, <2>1, <2>2, ReadEffect, UndoKeeps
<1>7. CASE tx[s].pc = 3
  <2>1. Statement(s) = Call("intent")
    BY <1>7, PayStatements DEF Statement
  <2>2. CallGateway(s)
    BY <2>1, ByStatement DEF Call
  <2> QED
    BY <1>5, <1>7, <2>1, <2>2, CallEffect, UndoKeeps
<1>8. CASE tx[s].pc = 4
  <2>1. Statement(s) = Set("payment", "held", {"none"})
    BY <1>8, PayStatements DEF Statement
  <2>2. WriteRow(s) /\ Seen(s, "payment").status = "none"
    BY <1>1, <1>2, <1>4, <1>8, <2>1, ByStatement, SeenIsTyped DEF Set, PayInv, Wrote, After
  <2>3. /\ Moves(s) /\ tx'[s].pc = 5 /\ tx'[s].paid = tx[s].paid
        /\ \A q \in Table \ {"payment"} : Written(s, q)' = Written(s, q)
        /\ locks'["payment"] = s /\ Written(s, "payment")' = "held"
    BY <1>2, <1>8, <2>1, <2>2, WriteEffect DEF Set, Status, PaymentStatus
  <2>4. Progress(s)'
    BY <1>1, <1>2, <1>4, <1>8, <2>3, StagesStay DEF Progress, PayInv, Wrote, After
  <2> QED
    BY <1>1, <1>2, <1>8, <2>3, <2>4, WritingMove
<1>9. CASE tx[s].pc = 5
  <2>1. Statement(s) = Set("order", "paid", Existing)
    BY <1>9, PayStatements DEF Statement
  <2>2. WriteRow(s) /\ Seen(s, "order").status = "created"
    BY <1>1, <1>2, <1>4, <1>9, <2>1, ByStatement, SeenIsTyped DEF Set, PayInv, Wrote, After
  <2>3. /\ Moves(s) /\ tx'[s].pc = 6 /\ tx'[s].paid = tx[s].paid
        /\ \A q \in Table \ {"order"} : Written(s, q)' = Written(s, q)
        /\ locks'["order"] = s /\ Written(s, "order")' = "paid"
    BY <1>2, <1>9, <2>1, <2>2, WriteEffect DEF Set, Status, OrderStatus, Existing
  <2>4. Progress(s)'
    BY <1>1, <1>2, <1>4, <1>9, <2>3, StagesStay DEF Progress, PayInv, Wrote, After
  <2> QED
    BY <1>1, <1>2, <1>9, <2>3, <2>4, WritingMove
<1>10. CASE tx[s].pc = 6
  <2>1. Statement(s) = Set("shipment", "unassigned", {"none"})
    BY <1>10, PayStatements DEF Statement
  <2>2. WriteRow(s) /\ Seen(s, "shipment").status = "none"
    BY <1>1, <1>2, <1>4, <1>10, <2>1, ByStatement, SeenIsTyped DEF Set, PayInv, Wrote, After
  <2>3. /\ Moves(s) /\ tx'[s].pc = 7 /\ tx'[s].paid = tx[s].paid
        /\ \A q \in Table \ {"shipment"} : Written(s, q)' = Written(s, q)
        /\ locks'["shipment"] = s /\ Written(s, "shipment")' = "unassigned"
    BY <1>2, <1>10, <2>1, <2>2, WriteEffect DEF Set, Status, ShipmentStatus
  <2>4. Progress(s)'
    BY <1>1, <1>2, <1>4, <1>10, <2>3, StagesStay DEF Progress, PayInv, Wrote, After
  <2> QED
    BY <1>1, <1>2, <1>10, <2>3, <2>4, WritingMove
<1> QED
  BY <1>1, <1>3, <1>6, <1>7, <1>8, <1>9, <1>10

\* refundOrder: the order stays delivered, its payment captured until the COMMIT.
LEMMA RefundAdvances ==
    ASSUME TxsInv, NEW s \in Sessions, tx[s].kind = "refund", AtStep(s), Advance(s)
    PROVE  TxsInv'
<1>1. /\ tx[s].pc \in 1 .. 4 /\ tx[s].kind \in Kinds /\ RefundInv(s) /\ LocksHeld(s)
      /\ tx[s].kind \in OfficeKinds /\ tx[s].kind \notin DriverKinds
      /\ Len(Program(tx[s].kind)) = 4
  BY ThereIsANext, RefundStatements DEF TxsInv, TxInv, Progress, OfficeKinds, DriverKinds
<1>2. /\ "order" \in Table /\ "shipment" \in Table /\ "payment" \in Table
      /\ \A r \in Table : r \in {"order", "shipment", "payment"}
  BY DEF Table
<1>3. CASE tx[s].pc = 1
  <2>1. Statement(s) = Lock("order", {"delivered"}, FALSE)
    BY <1>3, RefundStatements DEF Statement
  <2>2. LockRow(s) /\ {"delivered"} \subseteq Existing
    BY <2>1, ByStatement DEF Lock, Existing, Status, OrderStatus, ShipmentStatus
  <2>3. CASE Undoes(s)
    BY <2>3, UndoKeeps
  <2>4. CASE /\ Moves(s) /\ WritesNothing(s) /\ tx'[s].pc = tx[s].pc + 1
             /\ locks'["order"] = s /\ \A q \in Table \ {"order"} : locks'[q] = locks[q]
             /\ Seen(s, "order").status \in {"delivered"}
    <3>1. \A r : Written(s, r)' = Written(s, r)
      BY <2>4 DEF WritesNothing, Written
    <3>2. \A r \in Table : Written(s, r) = "-"
      BY <1>1, <1>2, <1>3 DEF RefundInv, Wrote, After
    <3>3. Stage("order") \in {"delivered"}
      BY <1>2, <2>4, <3>2, SeenIsTyped
    <3>4. Progress(s)'
      BY <1>1, <1>2, <1>3, <2>4, <3>1, <3>2, <3>3, StagesStay DEF Progress, RefundInv, Wrote, After
    <3> QED
      BY <1>1, <2>4, <3>4, QuietMove
  <2> QED
    BY <1>2, <2>1, <2>2, <2>3, <2>4, LockEffect
<1>4. ASSUME tx[s].pc > 1
      PROVE  locks["order"] = s /\ Stage("order") = "delivered"
  BY <1>1, <1>4 DEF RefundInv, LocksHeld
<1>5. CASE tx[s].pc = 2
  <2>1. Statement(s) = Read("payment", {"captured"}, 0)
    BY <1>5, RefundStatements DEF Statement
  <2>2. ReadRow(s) /\ Seen(s, "payment").status = Stage("payment")
    BY <1>1, <1>2, <1>5, <2>1, ByStatement, SeenIsTyped DEF Read, RefundInv, Wrote, After
  <2>3. \/ Undoes(s)
        \/ Moves(s) /\ WritesNothing(s) /\ tx'[s].pc = 3 /\ Stage("payment") = "captured"
    <3>1. tx[s].pc + 1 + 0 \in 1 .. Len(Program(tx[s].kind)) + 1
      <4>1. tx[s].pc + 1 + 0 = tx[s].pc + 1
        BY <1>5
      <4> QED
        BY <4>1, ThereIsANext
    <3>2. \/ Undoes(s)
          \/ /\ Moves(s) /\ WritesNothing(s) /\ locks' = locks
             /\ IF Seen(s, "payment").status \in {"captured"} THEN tx'[s].pc = tx[s].pc + 1
                ELSE 0 > 0 /\ tx'[s].pc = tx[s].pc + 1 + 0
      BY <1>1, <1>2, <2>1, <2>2, <3>1, ReadEffect
    <3> QED
      BY <1>5, <2>2, <3>2
  <2>4. ASSUME Moves(s), WritesNothing(s), tx'[s].pc = 3, Stage("payment") = "captured"
        PROVE  TxsInv'
    <3>1. \A r : Written(s, r)' = Written(s, r)
      BY <2>4 DEF WritesNothing, Written
    <3>2. Progress(s)'
      BY <1>1, <1>2, <1>4, <1>5, <2>4, <3>1, StagesStay DEF Progress, RefundInv, Wrote, After
    <3> QED
      BY <1>1, <1>2, <1>4, <1>5, <2>4, <3>2, LocksStay, QuietMove
  <2> QED
    BY <2>3, <2>4, UndoKeeps
<1>6. ASSUME Moves(s), WritesNothing(s), tx[s].pc = 3, tx'[s].pc = tx[s].pc + 1,
             gateway'.refunds > 0
      PROVE  TxsInv'
  <2>1. \A r : Written(s, r)' = Written(s, r)
    BY <1>6 DEF WritesNothing, Written
  <2>2. Progress(s)'
    BY <1>1, <1>2, <1>4, <1>6, <2>1, StagesStay DEF Progress, RefundInv, Wrote, After, WritesNothing
  <2> QED
    BY <1>1, <1>2, <1>4, <1>6, <2>2, LocksStay, QuietMove
<1>7. CASE tx[s].pc = 3
  <2>1. Statement(s) = Call("refund")
    BY <1>7, RefundStatements DEF Statement
  <2>2. CallGateway(s)
    BY <2>1, ByStatement DEF Call
  <2> QED
    BY <1>6, <1>7, <2>1, <2>2, CallEffect, UndoKeeps
<1>8. CASE tx[s].pc = 4
  <2>1. Statement(s) = Set("payment", "refunded", Existing)
    BY <1>8, RefundStatements DEF Statement
  <2>2. WriteRow(s) /\ Seen(s, "payment").status = "captured"
    BY <1>1, <1>2, <1>4, <1>8, <2>1, ByStatement, SeenIsTyped DEF Set, RefundInv, Wrote, After
  <2>3. /\ Moves(s) /\ tx'[s].pc = 5 /\ tx'[s].paid = tx[s].paid
        /\ \A q \in Table \ {"payment"} : Written(s, q)' = Written(s, q)
        /\ locks'["payment"] = s /\ Written(s, "payment")' = "refunded"
    BY <1>2, <1>8, <2>1, <2>2, WriteEffect DEF Set, Status, PaymentStatus, Existing
  <2>4. Progress(s)'
    BY <1>1, <1>2, <1>4, <1>8, <2>3, StagesStay DEF Progress, RefundInv, Wrote, After
  <2> QED
    BY <1>1, <1>2, <1>8, <2>3, <2>4, WritingMove
<1> QED
  BY <1>1, <1>3, <1>5, <1>7, <1>8

\* cancelOrderTx: an order that can be cancelled has a payment in escrow and a
\* shipment, or neither yet; only what is there is undone.
LEMMA CancelAdvances ==
    ASSUME TxsInv, NEW s \in Sessions, tx[s].kind = "cancel", AtStep(s), Advance(s)
    PROVE  TxsInv'
<1>1. /\ tx[s].pc \in 1 .. 6 /\ tx[s].kind \in Kinds /\ CancelInv(s) /\ LocksHeld(s)
      /\ tx[s].kind \in OfficeKinds /\ tx[s].kind \notin DriverKinds
      /\ Len(Program(tx[s].kind)) = 6
  BY ThereIsANext, CancelStatements DEF TxsInv, TxInv, Progress, OfficeKinds, DriverKinds
<1>2. /\ "order" \in Table /\ "shipment" \in Table /\ "payment" \in Table
      /\ \A r \in Table : r \in {"order", "shipment", "payment"}
  BY DEF Table
<1>3. CASE tx[s].pc = 1
  <2>1. Statement(s) = Lock("order", Cancellable, FALSE)
    BY <1>3, CancelStatements DEF Statement
  <2>2. LockRow(s) /\ Cancellable \subseteq Existing
    BY <2>1, ByStatement DEF Lock, Existing, Status, OrderStatus, ShipmentStatus, Cancellable
  <2>3. CASE Undoes(s)
    BY <2>3, UndoKeeps
  <2>4. CASE /\ Moves(s) /\ WritesNothing(s) /\ tx'[s].pc = tx[s].pc + 1
             /\ locks'["order"] = s /\ \A q \in Table \ {"order"} : locks'[q] = locks[q]
             /\ Seen(s, "order").status \in Cancellable
    <3>1. \A r : Written(s, r)' = Written(s, r)
      BY <2>4 DEF WritesNothing, Written
    <3>2. \A r \in Table : Written(s, r) = "-"
      BY <1>1, <1>2, <1>3 DEF CancelInv, Wrote, After
    <3>3. Stage("order") \in Cancellable
      BY <1>2, <2>4, <3>2, SeenIsTyped
    <3>4. Progress(s)'
      BY <1>1, <1>2, <1>3, <2>4, <3>1, <3>2, <3>3, StagesStay DEF Progress, CancelInv, Wrote, After
    <3> QED
      BY <1>1, <2>4, <3>4, QuietMove
  <2> QED
    BY <1>2, <2>1, <2>2, <2>3, <2>4, LockEffect
<1>4. ASSUME tx[s].pc > 1
      PROVE  /\ locks["order"] = s /\ Stage("order") \in Cancellable
             /\ Stage("shipment") \in {"none", "unassigned", "assigned"}
             /\ Stage("payment") \in {"none", "held"}
  BY <1>1, <1>4, StageTypes
     DEF CancelInv, LocksHeld, StagesAgree, Stage, Cancellable, ShipmentStatus, PaymentStatus
<1>5. ASSUME Moves(s), WritesNothing(s), locks' = locks, tx[s].pc > 1, tx[s].pc < 4,
             tx'[s].pc = IF Stage("payment") = "held" THEN tx[s].pc + 1 ELSE 5,
             tx[s].pc = 3 => Stage("payment") = "held" /\ gateway'.refunds > 0
      PROVE  TxsInv'
  <2>1. \A r : Written(s, r)' = Written(s, r)
    BY <1>5 DEF WritesNothing, Written
  <2>2. Progress(s)'
    BY <1>1, <1>2, <1>4, <1>5, <2>1, StagesStay DEF Progress, CancelInv, Wrote, After
  <2> QED
    BY <1>1, <1>2, <1>4, <1>5, <2>2, LocksStay, QuietMove
<1>6. CASE tx[s].pc = 2
  <2>1. Statement(s) = Read("payment", {"held"}, 2)
    BY <1>6, CancelStatements DEF Statement
  <2>2. ReadRow(s) /\ Seen(s, "payment").status = Stage("payment")
    BY <1>1, <1>2, <1>6, <2>1, ByStatement, SeenIsTyped DEF Read, CancelInv, Wrote, After
  <2>3. \/ Undoes(s)
        \/ /\ Moves(s) /\ WritesNothing(s) /\ locks' = locks
           /\ tx'[s].pc = IF Stage("payment") = "held" THEN tx[s].pc + 1 ELSE 5
    <3>1. tx[s].pc + 1 + 2 \in 1 .. Len(Program(tx[s].kind)) + 1
      <4>1. \A n : n = 6 => 2 + 1 + 2 \in 1 .. n + 1
        OBVIOUS
      <4> QED
        BY <1>1, <1>6, <4>1
    <3>2. \/ Undoes(s)
          \/ /\ Moves(s) /\ WritesNothing(s) /\ locks' = locks
             /\ IF Seen(s, "payment").status \in {"held"} THEN tx'[s].pc = tx[s].pc + 1
                ELSE 2 > 0 /\ tx'[s].pc = tx[s].pc + 1 + 2
      BY <1>1, <1>2, <2>1, <2>2, <3>1, ReadEffect
    <3> QED
      BY <1>6, <2>2, <3>2
  <2> QED
    BY <1>5, <1>6, <2>3, UndoKeeps
<1>7. CASE tx[s].pc = 3
  <2>1. Statement(s) = Call("refund")
    BY <1>7, CancelStatements DEF Statement
  <2>2. CallGateway(s)
    BY <2>1, ByStatement DEF Call
  <2>3. Stage("payment") = "held"
    BY <1>1, <1>7 DEF CancelInv
  <2> QED
    BY <1>5, <1>7, <2>1, <2>2, <2>3, CallEffect, UndoKeeps
<1>8. CASE tx[s].pc = 4
  <2>1. Statement(s) = Set("payment", "refunded", Existing)
    BY <1>8, CancelStatements DEF Statement
  <2>2. WriteRow(s) /\ Seen(s, "payment").status = "held"
    BY <1>1, <1>2, <1>4, <1>8, <2>1, ByStatement, SeenIsTyped DEF Set, CancelInv, Wrote, After
  <2>3. /\ Moves(s) /\ tx'[s].pc = 5 /\ tx'[s].paid = tx[s].paid
        /\ \A q \in Table \ {"payment"} : Written(s, q)' = Written(s, q)
        /\ locks'["payment"] = s /\ Written(s, "payment")' = "refunded"
    BY <1>2, <1>8, <2>1, <2>2, WriteEffect DEF Set, Status, PaymentStatus, Existing
  <2>4. Progress(s)'
    BY <1>1, <1>2, <1>4, <1>8, <2>3, StagesStay DEF Progress, CancelInv, Wrote, After
  <2> QED
    BY <1>1, <1>2, <1>8, <2>3, <2>4, WritingMove
<1>9. CASE tx[s].pc = 5
  <2>1. Statement(s) = Set("shipment", "cancelled", Existing \ {"delivered", "cancelled"})
    BY <1>9, CancelStatements DEF Statement
  <2>2. WriteRow(s) /\ Seen(s, "shipment").status = Stage("shipment")
    BY <1>1, <1>2, <1>4, <1>9, <2>1, ByStatement, SeenIsTyped DEF Set, CancelInv, Wrote, After
  <2>3. /\ Moves(s) /\ tx'[s].pc = 6 /\ tx'[s].paid = tx[s].paid
        /\ \A q \in Table \ {"shipment"} : locks'[q] = locks[q] /\ Written(s, q)' = Written(s, q)
        /\ IF Stage("shipment") = "none"
           THEN locks'["shipment"] = locks["shipment"] /\ Written(s, "shipment")' = Written(s, "shipment")
           ELSE locks'["shipment"] = s /\ Written(s, "shipment")' = "cancelled"
    <3>1. Stage("shipment") \in Existing \ {"delivered", "cancelled"} <=> Stage("shipment") # "none"
      BY <1>4, <1>9 DEF Existing, Status, ShipmentStatus
    <3>2. "cancelled" \in Status
      BY DEF Status, ShipmentStatus
    <3> QED
      BY <1>2, <1>9, <2>1, <2>2, <3>1, <3>2, WriteEffect DEF Set
  <2>4. Progress(s)'
    BY <1>1, <1>2, <1>4, <1>9, <2>3, StagesStay DEF Progress, CancelInv, Wrote, After
  <2>5. \A r \in Table : Written(s, r)' # "-" => locks'[r] = s
    BY <1>1, <1>2, <1>4, <1>9, <2>3 DEF LocksHeld, CancelInv, Wrote, After
  <2>6. tx'[s].paid = {} /\ locks'["order"] = s
    BY <1>1, <1>2, <1>4, <1>9, <2>3 DEF TxsInv, TxInv
  <2> QED
    BY <1>1, <2>3, <2>4, <2>5, <2>6, SessionMoves
<1>10. CASE tx[s].pc = 6
  <2>1. Statement(s) = Set("order", "cancelled", Existing)
    BY <1>10, CancelStatements DEF Statement
  <2>2. WriteRow(s) /\ Seen(s, "order").status \in Cancellable
    BY <1>1, <1>2, <1>4, <1>10, <2>1, ByStatement, SeenIsTyped DEF Set, CancelInv, Wrote, After
  <2>3. /\ Moves(s) /\ tx'[s].pc = 7 /\ tx'[s].paid = tx[s].paid
        /\ \A q \in Table \ {"order"} : Written(s, q)' = Written(s, q)
        /\ locks'["order"] = s /\ Written(s, "order")' = "cancelled"
    BY <1>2, <1>10, <2>1, <2>2, WriteEffect DEF Set, Status, OrderStatus, Existing, Cancellable
  <2>4. Progress(s)'
    BY <1>1, <1>2, <1>4, <1>10, <2>3, StagesStay DEF Progress, CancelInv, Wrote, After
  <2> QED
    BY <1>1, <1>2, <1>10, <2>3, <2>4, WritingMove
<1> QED
  BY <1>1, <1>3, <1>6, <1>7, <1>8, <1>9, <1>10

\* acceptJob: the shipment waits for a driver, so the order is paid.
LEMMA AcceptAdvances ==
    ASSUME TxsInv, NEW s \in Sessions, tx[s].kind = "accept", AtStep(s), Advance(s)
    PROVE  TxsInv'
<1>1. /\ tx[s].pc \in 1 .. 3 /\ tx[s].kind \in Kinds /\ AcceptInv(s) /\ LocksHeld(s)
      /\ tx[s].kind \notin OfficeKinds /\ tx[s].kind \in DriverKinds
      /\ Len(Program(tx[s].kind)) = 3
  BY ThereIsANext, AcceptStatements DEF TxsInv, TxInv, Progress, OfficeKinds, DriverKinds
<1>2. /\ "order" \in Table /\ "shipment" \in Table /\ "payment" \in Table
      /\ \A r \in Table : r \in {"order", "shipment", "payment"}
  BY DEF Table
<1>3. CASE tx[s].pc = 1
  <2>1. Statement(s) = Lock("shipment", {"unassigned"}, FALSE)
    BY <1>3, AcceptStatements DEF Statement
  <2>2. LockRow(s) /\ {"unassigned"} \subseteq Existing
    BY <2>1, ByStatement DEF Lock, Existing, Status, OrderStatus, ShipmentStatus
  <2>3. CASE Undoes(s)
    BY <2>3, UndoKeeps
  <2>4. CASE /\ Moves(s) /\ WritesNothing(s) /\ tx'[s].pc = tx[s].pc + 1
             /\ locks'["shipment"] = s /\ \A q \in Table \ {"shipment"} : locks'[q] = locks[q]
             /\ Seen(s, "shipment").status \in {"unassigned"}
    <3>1. \A r : Written(s, r)' = Written(s, r)
      BY <2>4 DEF WritesNothing, Written
    <3>2. \A r \in Table : Written(s, r) = "-"
      BY <1>1, <1>2, <1>3 DEF AcceptInv, Wrote, After
    <3>3. Stage("shipment") \in {"unassigned"}
      BY <1>2, <2>4, <3>2, SeenIsTyped
    <3>4. Progress(s)'
      BY <1>1, <1>2, <1>3, <2>4, <3>1, <3>2, <3>3, StagesStay DEF Progress, AcceptInv, Wrote, After
    <3> QED
      BY <1>1, <2>4, <3>4, QuietMove
  <2> QED
    BY <1>2, <2>1, <2>2, <2>3, <2>4, LockEffect
<1>4. ASSUME tx[s].pc > 1
      PROVE  /\ locks["shipment"] = s /\ Stage("shipment") = "unassigned"
             /\ Stage("order") = "paid"
  BY <1>1, <1>4, StageTypes DEF AcceptInv, LocksHeld, StagesAgree, Stage
<1>5. CASE tx[s].pc = 2
  <2>1. Statement(s) = Take("shipment", "assigned", Existing)
    BY <1>5, AcceptStatements DEF Statement
  <2>2. WriteRow(s) /\ Seen(s, "shipment").status = "unassigned"
    BY <1>1, <1>2, <1>4, <1>5, <2>1, ByStatement, SeenIsTyped DEF Take, AcceptInv, Wrote, After
  <2>3. /\ Moves(s) /\ tx'[s].pc = 3 /\ tx'[s].paid = tx[s].paid
        /\ \A q \in Table \ {"shipment"} : Written(s, q)' = Written(s, q)
        /\ locks'["shipment"] = s /\ Written(s, "shipment")' = "assigned"
    BY <1>2, <1>5, <2>1, <2>2, WriteEffect DEF Take, Status, ShipmentStatus, Existing
  <2>4. Progress(s)'
    BY <1>1, <1>2, <1>4, <1>5, <2>3, StagesStay DEF Progress, AcceptInv, Wrote, After
  <2> QED
    BY <1>1, <1>2, <1>5, <2>3, <2>4, WritingMove
<1>6. CASE tx[s].pc = 3
  <2>1. Statement(s) = Set("order", "pickup_assigned", Existing)
    BY <1>6, AcceptStatements DEF Statement
  <2>2. WriteRow(s) /\ Seen(s, "order").status = "paid"
    BY <1>1, <1>2, <1>4, <1>6, <2>1, ByStatement, SeenIsTyped DEF Set, AcceptInv, Wrote, After
  <2>3. /\ Moves(s) /\ tx'[s].pc = 4 /\ tx'[s].paid = tx[s].paid
        /\ \A q \in Table \ {"order"} : Written(s, q)' = Written(s, q)
        /\ locks'["order"] = s /\ Written(s, "order")' = "pickup_assigned"
    BY <1>2, <1>6, <2>1, <2>2, WriteEffect DEF Set, Status, OrderStatus, Existing
  <2>4. Progress(s)'
    BY <1>1, <1>2, <1>4, <1>6, <2>3, StagesStay DEF Progress, AcceptInv, Wrote, After
  <2> QED
    BY <1>1, <1>2, <1>6, <2>3, <2>4, WritingMove
<1> QED
  BY <1>1, <1>3, <1>5, <1>6

\* markPickedUp: the shipment is assigned, so the order is too.
LEMMA PickupAdvances ==
    ASSUME TxsInv, NEW s \in Sessions, tx[s].kind = "pickup", AtStep(s), Advance(s)
    PROVE  TxsInv'
<1>1. /\ tx[s].pc \in 1 .. 3 /\ tx[s].kind \in Kinds /\ PickupInv(s) /\ LocksHeld(s)
      /\ tx[s].kind \notin OfficeKinds /\ tx[s].kind \in DriverKinds
      /\ Len(Program(tx[s].kind)) = 3
  BY ThereIsANext, PickupStatements DEF TxsInv, TxInv, Progress, OfficeKinds, DriverKinds
<1>2. /\ "order" \in Table /\ "shipment" \in Table /\ "payment" \in Table
      /\ \A r \in Table : r \in {"order", "shipment", "payment"}
  BY DEF Table
<1>3. CASE tx[s].pc = 1
  <2>1. Statement(s) = Lock("shipment", {"assigned"}, TRUE)
    BY <1>3, PickupStatements DEF Statement
  <2>2. LockRow(s) /\ {"assigned"} \subseteq Existing
    BY <2>1, ByStatement DEF Lock, Existing, Status, OrderStatus, ShipmentStatus
  <2>3. CASE Undoes(s)
    BY <2>3, UndoKeeps
  <2>4. CASE /\ Moves(s) /\ WritesNothing(s) /\ tx'[s].pc = tx[s].pc + 1
             /\ locks'["shipment"] = s /\ \A q \in Table \ {"shipment"} : locks'[q] = locks[q]
             /\ Seen(s, "shipment").status \in {"assigned"}
    <3>1. \A r : Written(s, r)' = Written(s, r)
      BY <2>4 DEF WritesNothing, Written
    <3>2. \A r \in Table : Written(s, r) = "-"
      BY <1>1, <1>2, <1>3 DEF PickupInv, Wrote, After
    <3>3. Stage("shipment") \in {"assigned"}
      BY <1>2, <2>4, <3>2, SeenIsTyped
    <3>4. Progress(s)'
      BY <1>1, <1>2, <1>3, <2>4, <3>1, <3>2, <3>3, StagesStay DEF Progress, PickupInv, Wrote, After
    <3> QED
      BY <1>1, <2>4, <3>4, QuietMove
  <2> QED
    BY <1>2, <2>1, <2>2, <2>3, <2>4, LockEffect
<1>4. ASSUME tx[s].pc > 1
      PROVE  /\ locks["shipment"] = s /\ Stage("shipment") = "assigned"
             /\ Stage("order") = "pickup_assigned"
  BY <1>1, <1>4, StageTypes DEF PickupInv, LocksHeld, StagesAgree, Stage
<1>5. CASE tx[s].pc = 2
  <2>1. Statement(s) = Set("shipment", "picked_up", Existing)
    BY <1>5, PickupStatements DEF Statement
  <2>2. WriteRow(s) /\ Seen(s, "shipment").status = "assigned"
    BY <1>1, <1>2, <1>4, <1>5, <2>1, ByStatement, SeenIsTyped DEF Set, PickupInv, Wrote, After
  <2>3. /\ Moves(s) /\ tx'[s].pc = 3 /\ tx'[s].paid = tx[s].paid
        /\ \A q \in Table \ {"shipment"} : Written(s, q)' = Written(s, q)
        /\ locks'["shipment"] = s /\ Written(s, "shipment")' = "picked_up"
    BY <1>2, <1>5, <2>1, <2>2, WriteEffect DEF Set, Status, ShipmentStatus, Existing
  <2>4. Progress(s)'
    BY <1>1, <1>2, <1>4, <1>5, <2>3, StagesStay DEF Progress, PickupInv, Wrote, After
  <2> QED
    BY <1>1, <1>2, <1>5, <2>3, <2>4, WritingMove
<1>6. CASE tx[s].pc = 3
  <2>1. Statement(s) = Set("order", "in_transit", Existing)
    BY <1>6, PickupStatements DEF Statement
  <2>2. WriteRow(s) /\ Seen(s, "order").status = "pickup_assigned"
    BY <1>1, <1>2, <1>4, <1>6, <2>1, ByStatement, SeenIsTyped DEF Set, PickupInv, Wrote, After
  <2>3. /\ Moves(s) /\ tx'[s].pc = 4 /\ tx'[s].paid = tx[s].paid
        /\ \A q \in Table \ {"order"} : Written(s, q)' = Written(s, q)
        /\ locks'["order"] = s /\ Written(s, "order")' = "in_transit"
    BY <1>2, <1>6, <2>1, <2>2, WriteEffect DEF Set, Status, OrderStatus, Existing
  <2>4. Progress(s)'
    BY <1>1, <1>2, <1>4, <1>6, <2>3, StagesStay DEF Progress, PickupInv, Wrote, After
  <2> QED
    BY <1>1, <1>2, <1>6, <2>3, <2>4, WritingMove
<1> QED
  BY <1>1, <1>3, <1>5, <1>6

\* markDelivered: what is picked up is paid into escrow, so that it always captures.
LEMMA DeliverAdvances ==
    ASSUME TxsInv, NEW s \in Sessions, tx[s].kind = "deliver", AtStep(s), Advance(s)
    PROVE  TxsInv'
<1>1. /\ tx[s].pc \in 1 .. 8 /\ tx[s].kind \in Kinds /\ DeliverInv(s) /\ LocksHeld(s)
      /\ tx[s].kind \notin OfficeKinds /\ tx[s].kind \in DriverKinds
      /\ Len(Program(tx[s].kind)) = 8
  BY ThereIsANext, DeliverStatements DEF TxsInv, TxInv, Progress, OfficeKinds, DriverKinds
<1>2. /\ "order" \in Table /\ "shipment" \in Table /\ "payment" \in Table
      /\ \A r \in Table : r \in {"order", "shipment", "payment"}
  BY DEF Table
<1>3. CASE tx[s].pc = 1
  <2>1. Statement(s) = Lock("shipment", {"picked_up"}, TRUE)
    BY <1>3, DeliverStatements DEF Statement
  <2>2. LockRow(s) /\ {"picked_up"} \subseteq Existing
    BY <2>1, ByStatement DEF Lock, Existing, Status, OrderStatus, ShipmentStatus
  <2>3. CASE Undoes(s)
    BY <2>3, UndoKeeps
  <2>4. CASE /\ Moves(s) /\ WritesNothing(s) /\ tx'[s].pc = tx[s].pc + 1
             /\ locks'["shipment"] = s /\ \A q \in Table \ {"shipment"} : locks'[q] = locks[q]
             /\ Seen(s, "shipment").status \in {"picked_up"}
    <3>1. \A r : Written(s, r)' = Written(s, r)
      BY <2>4 DEF WritesNothing, Written
    <3>2. \A r \in Table : Written(s, r) = "-"
      BY <1>1, <1>2, <1>3 DEF DeliverInv, Wrote, After
    <3>3. Stage("shipment") \in {"picked_up"}
      BY <1>2, <2>4, <3>2, SeenIsTyped
    <3>4. Progress(s)'
      BY <1>1, <1>2, <1>3, <2>4, <3>1, <3>2, <3>3, StagesStay DEF Progress, DeliverInv, Wrote, After, WritesNothing
    <3> QED
      BY <1>1, <2>4, <3>4, QuietMove
  <2> QED
    BY <1>2, <2>1, <2>2, <2>3, <2>4, LockEffect
<1>4. ASSUME tx[s].pc > 1
      PROVE  /\ locks["shipment"] = s /\ Stage("shipment") = "picked_up"
             /\ Stage("order") = "in_transit" /\ Stage("payment") = "held"
  BY <1>1, <1>4, StageTypes DEF DeliverInv, LocksHeld, StagesAgree, Stage
<1>5. ASSUME Moves(s), WritesNothing(s), tx[s].pc \in {4, 5}, tx'[s].pc = tx[s].pc + 1,
             tx[s].pc = 5 => gateway'.captures > 0
      PROVE  TxsInv'
  <2>1. \A r : Written(s, r)' = Written(s, r)
    BY <1>5 DEF WritesNothing, Written
  <2>2. Progress(s)'
    BY <1>1, <1>2, <1>4, <1>5, <2>1, StagesStay DEF Progress, DeliverInv, Wrote, After, WritesNothing
  <2> QED
    BY <1>1, <1>2, <1>4, <1>5, <2>2, LocksStay, QuietMove
<1>6. CASE tx[s].pc = 2
  <2>1. Statement(s) = Set("shipment", "delivered", Existing)
    BY <1>6, DeliverStatements DEF Statement
  <2>2. WriteRow(s) /\ Seen(s, "shipment").status = "picked_up"
    BY <1>1, <1>2, <1>4, <1>6, <2>1, ByStatement, SeenIsTyped DEF Set, DeliverInv, Wrote, After
  <2>3. /\ Moves(s) /\ tx'[s].pc = 3 /\ tx'[s].paid = tx[s].paid
        /\ \A q \in Table \ {"shipment"} : Written(s, q)' = Written(s, q)
        /\ locks'["shipment"] = s /\ Written(s, "shipment")' = "delivered"
    BY <1>2, <1>6, <2>1, <2>2, WriteEffect DEF Set, Status, ShipmentStatus, Existing
  <2>4. Progress(s)'
    BY <1>1, <1>2, <1>4, <1>6, <2>3, StagesStay DEF Progress, DeliverInv, Wrote, After
  <2> QED
    BY <1>1, <1>2, <1>6, <2>3, <2>4, WritingMove
<1>7. CASE tx[s].pc = 3
  <2>1. Statement(s) = Set("order", "delivered", Existing)
    BY <1>7, DeliverStatements DEF Statement
  <2>2. WriteRow(s) /\ Seen(s, "order").status = "in_transit"
    BY <1>1, <1>2, <1>4, <1>7, <2>1, ByStatement, SeenIsTyped DEF Set, DeliverInv, Wrote, After
  <2>3. /\ Moves(s) /\ tx'[s].pc = 4 /\ tx'[s].paid = tx[s].paid
        /\ \A q \in Table \ {"order"} : Written(s, q)' = Written(s, q)
        /\ locks'["order"] = s /\ Written(s, "order")' = "delivered"
    BY <1>2, <1>7, <2>1, <2>2, WriteEffect DEF Set, Status, OrderStatus, Existing
  <2>4. Progress(s)'
    BY <1>1, <1>2, <1>4, <1>7, <2>3, StagesStay DEF Progress, DeliverInv, Wrote, After
  <2> QED
    BY <1>1, <1>2, <1>7, <2>3, <2>4, WritingMove
<1>8. CASE tx[s].pc = 4
  <2>1. Statement(s) = Read("payment", Existing, 2)
    BY <1>8, DeliverStatements DEF Statement
  <2>2. ReadRow(s) /\ Seen(s, "payment").status \in Existing
    BY <1>1, <1>2, <1>4, <1>8, <2>1, ByStatement, SeenIsTyped
       DEF Read, DeliverInv, Wrote, After, Existing, Status, PaymentStatus
  <2>3. Undoes(s) \/ (Moves(s) /\ WritesNothing(s) /\ tx'[s].pc = 5)
    <3>1. tx[s].pc + 1 + 2 \in 1 .. Len(Program(tx[s].kind)) + 1
      <4>1. \A n : n = 8 => 4 + 1 + 2 \in 1 .. n + 1
        OBVIOUS
      <4> QED
        BY <1>1, <1>8, <4>1
    <3>2. \/ Undoes(s)
          \/ /\ Moves(s) /\ WritesNothing(s) /\ locks' = locks
             /\ IF Seen(s, "payment").status \in Existing THEN tx'[s].pc = tx[s].pc + 1
                ELSE 2 > 0 /\ tx'[s].pc = tx[s].pc + 1 + 2
      BY <1>1, <1>2, <2>1, <2>2, <3>1, ReadEffect
    <3> QED
      BY <1>8, <2>2, <3>2
  <2> QED
    BY <1>5, <1>8, <2>3, UndoKeeps
<1>9. CASE tx[s].pc = 5
  <2>1. Statement(s) = Call("capture")
    BY <1>9, DeliverStatements DEF Statement
  <2>2. CallGateway(s)
    BY <2>1, ByStatement DEF Call
  <2> QED
    BY <1>5, <1>9, <2>1, <2>2, CallEffect, UndoKeeps
<1>10. CASE tx[s].pc = 6
  <2>1. Statement(s) = Set("payment", "captured", Existing)
    BY <1>10, DeliverStatements DEF Statement
  <2>2. WriteRow(s) /\ Seen(s, "payment").status = "held"
    BY <1>1, <1>2, <1>4, <1>10, <2>1, ByStatement, SeenIsTyped DEF Set, DeliverInv, Wrote, After
  <2>3. /\ Moves(s) /\ tx'[s].pc = 7 /\ tx'[s].paid = tx[s].paid
        /\ \A q \in Table \ {"payment"} : Written(s, q)' = Written(s, q)
        /\ locks'["payment"] = s /\ Written(s, "payment")' = "captured"
    BY <1>2, <1>10, <2>1, <2>2, WriteEffect DEF Set, Status, PaymentStatus, Existing
  <2>4. Progress(s)'
    BY <1>1, <1>2, <1>4, <1>10, <2>3, StagesStay DEF Progress, DeliverInv, Wrote, After
  <2> QED
    BY <1>1, <1>2, <1>10, <2>3, <2>4, WritingMove
<1>11. CASE tx[s].pc = 7
  <2>1. Statement(s) = Payout("seller")
    BY <1>11, DeliverStatements DEF Statement
  <2>2. RunPayout(s)
    BY <2>1, ByStatement DEF Payout
  <2>3. /\ Moves(s) /\ tx'[s].pc = 8 /\ tx'[s].wrote = tx[s].wrote
        /\ tx'[s].paid = tx[s].paid \cup {Seller}
    BY <1>1, <1>11, <2>1, <2>2, PayoutEffect
  <2>4. \A r : Written(s, r)' = Written(s, r)
    BY <2>3 DEF Written
  <2>5. Progress(s)'
    BY <1>1, <1>2, <1>4, <1>11, <2>3, <2>4, StagesStay DEF Progress, DeliverInv, Wrote, After
  <2>6. /\ \A r \in Table : Written(s, r)' # "-" => locks'[r] = s
        /\ locks'["shipment"] = s
    BY <1>1, <1>2, <1>4, <1>11, <2>3, <2>4, LocksStay DEF LocksHeld
  <2> QED
    BY <1>1, <2>3, <2>5, <2>6, SessionMoves
<1>12. CASE tx[s].pc = 8
  <2>1. Statement(s) = Payout("driver")
    BY <1>12, DeliverStatements DEF Statement
  <2>2. RunPayout(s)
    BY <2>1, ByStatement DEF Payout
  <2>3. /\ Moves(s) /\ tx'[s].pc = 9 /\ tx'[s].wrote = tx[s].wrote
        /\ tx'[s].paid = tx[s].paid \cup {tx[s].driver}
    BY <1>1, <1>12, <2>1, <2>2, PayoutEffect
  <2>4. \A r : Written(s, r)' = Written(s, r)
    BY <2>3 DEF Written
  <2>5. Progress(s)'
    BY <1>1, <1>2, <1>4, <1>12, <2>3, <2>4, StagesStay DEF Progress, DeliverInv, Wrote, After
  <2>6. /\ \A r \in Table : Written(s, r)' # "-" => locks'[r] = s
        /\ locks'["shipment"] = s
    BY <1>1, <1>2, <1>4, <1>12, <2>3, <2>4, LocksStay DEF LocksHeld
  <2> QED
    BY <1>1, <2>3, <2>5, <2>6, SessionMoves
<1> QED
  BY <1>1, <1>3, <1>6, <1>7, <1>8, <1>9, <1>10, <1>11, <1>12

\* Whatever a handler does before its COMMIT keeps the invariant.
LEMMA StatementKeeps ==
    ASSUME TxsInv, NEW s \in Sessions, AtStep(s), Advance(s)
    PROVE  TxsInv'
<1>1. tx[s].kind \in {"pay", "cancel", "refund", "accept", "pickup", "deliver"}
  BY ThereIsANext DEF Kinds, OfficeKinds, DriverKinds
<1> QED
  BY <1>1, PayAdvances, CancelAdvances, RefundAdvances, AcceptAdvances, PickupAdvances,
     DeliverAdvances

-----------------------------------------------------------------------------
(* The first statement *)

\* A session that has not run its first statement has no part in the rows, so
\* that they may change under it.
LEMMA FirstIsKept ==
    ASSUME NEW x \in Sessions, TxInv(x), tx[x].kind \in {"idle"} \cup Kinds, tx[x].pc = 1,
           tx'[x] = tx[x], tx[x].kind = "idle" => \A r \in Table : locks'[r] # x
    PROVE  TxInv(x)'
<1>1. tx[x].kind \in {"idle", "pay", "cancel", "refund", "accept", "pickup", "deliver"}
  BY DEF Kinds, OfficeKinds, DriverKinds
<1>2. /\ \A r : Written(x, r)' = Written(x, r)
      /\ \A n, status : After(x, n, status)' = After(x, n, status)
  BY DEF Written, After
<1>3. \A n \in 1 .. 6 : \A status : After(x, n, status) = "-"
  BY DEF After
<1>4. \A r \in Table : Written(x, r) = "-"
  <2>1. CASE tx[x].kind = "idle"
    BY <2>1 DEF TxInv, Progress, Idle, Written
  <2>2. CASE tx[x].kind # "idle"
    BY <1>1, <1>3, <2>2 DEF TxInv, Progress, PayInv, CancelInv, RefundInv, AcceptInv,
       PickupInv, DeliverInv, Wrote, Table
  <2> QED
    BY <2>1, <2>2
<1>5. LocksHeld(x)'
  BY <1>2, <1>4 DEF LocksHeld, OfficeKinds, DriverKinds
<1>6. \A order, shipment, payment : order = "-" /\ shipment = "-" /\ payment = "-"
         => Wrote(x, order, shipment, payment)'
  BY <1>2, <1>4 DEF Wrote, Table
<1>7. Progress(x)'
  <2>1. tx[x].kind = "pay" => PayInv(x)'
    BY <1>2, <1>3, <1>6 DEF PayInv
  <2>2. tx[x].kind = "cancel" => CancelInv(x)'
    BY <1>2, <1>3, <1>6 DEF CancelInv
  <2>3. tx[x].kind = "refund" => RefundInv(x)'
    BY <1>2, <1>3, <1>6 DEF RefundInv
  <2>4. tx[x].kind = "accept" => AcceptInv(x)'
    BY <1>2, <1>3, <1>6 DEF AcceptInv
  <2>5. tx[x].kind = "pickup" => PickupInv(x)'
    BY <1>2, <1>3, <1>6 DEF PickupInv
  <2>6. tx[x].kind = "deliver" => DeliverInv(x)'
    BY <1>2, <1>3, <1>6 DEF DeliverInv, TxInv, Progress
  <2> QED
    BY <2>1, <2>2, <2>3, <2>4, <2>5, <2>6 DEF TxInv, Progress
<1> QED
  BY <1>5, <1>7 DEF TxInv

\* An idle session stands at its first statement too.
LEMMA IdleIsFirst ==
    ASSUME TxsInv, NEW x \in Sessions
    PROVE  /\ tx[x].kind \in {"idle"} \cup Kinds
           /\ tx[x].kind = "idle" => tx[x].pc = 1
           /\ tx[x].pc # 1 => tx[x].kind # "idle" /\ tx[x].pc > 1
<1>1. tx[x].kind \in {"idle"} \cup Kinds /\ tx[x].pc \in Nat
  BY DEF TxsInv, Shapes, TxType
<1>2. tx[x].kind = "idle" => tx[x].pc = 1
  BY DEF TxsInv, TxInv, Progress, Idle
<1>3. tx[x].kind # "idle" => tx[x].pc >= 1
  BY <1>1 DEF TxsInv, TypeOK
<1> QED
  BY <1>1, <1>2, <1>3

\* BEGIN.
LEMMA BeginKeeps ==
    ASSUME TxsInv, NEW s \in Sessions, NEW kind \in Kinds, NEW d \in Drivers \cup {NoUser},
           Begin(s, kind, d), kind \in DriverKinds => d \in Drivers
    PROVE  TxsInv'
<1> DEFINE t == [Idle EXCEPT !.kind = kind, !.driver = d]
<1>1. /\ tx[s].kind = "idle" /\ tx' = [tx EXCEPT ![s] = t]
      /\ db' = db /\ issued' = issued /\ locks' = locks /\ gateway' = gateway
  BY DEF Begin
<1>2. /\ t.kind = kind /\ t.driver = d /\ t.pc = 1 /\ t.paid = {}
      /\ t.wrote = [r \in {} |-> Row("none", NoUser)] /\ t \in TxType
  BY IdleIsTyped DEF Idle, TxType
<1> HIDE DEF t
<1>3. /\ tx' \in [Sessions -> TxType] /\ tx'[s] = t
      /\ \A x \in Sessions \ {s} : tx'[x] = tx[x]
  BY <1>1, <1>2 DEF TxsInv, Shapes
<1>4. \A x \in Sessions \ {s} : TxInv(x)'
  BY <1>1, <1>3, OthersKept DEF TxsInv
<1>5. TxInv(s)'
  <2>1. kind \in {"pay", "cancel", "refund", "accept", "pickup", "deliver"} /\ kind # "idle"
    BY DEF Kinds, OfficeKinds, DriverKinds
  <2>2. /\ \A r \in Table : Written(s, r)' = "-"
        /\ \A n \in 1 .. 6 : \A status : After(s, n, status)' = "-"
    BY <1>2, <1>3 DEF Written, After
  <2>3. LocksHeld(s)'
    BY <1>2, <1>3, <2>1, <2>2 DEF LocksHeld
  <2>4. Progress(s)'
    BY <1>2, <1>3, <2>1, <2>2 DEF Progress, PayInv, CancelInv, RefundInv, AcceptInv,
       PickupInv, DeliverInv, Wrote, Table
  <2> QED
    BY <1>2, <1>3, <2>3, <2>4 DEF TxInv
<1>6. TypeOK'
  <2>1. \A x \in Sessions :
          /\ tx'[x].kind \in {"idle"} \cup OfficeKinds \cup DriverKinds
          /\ DOMAIN tx'[x].wrote \subseteq Table
          /\ tx'[x].paid \subseteq Payees
    BY <1>3 DEF TxType, Kinds, Writes
  <2>2. \A x \in Sessions : tx'[x].kind = "idle" => \A r \in Table : locks'[r] # x
    BY <1>1, <1>2, <1>3 DEF TxsInv, TypeOK, Kinds, OfficeKinds, DriverKinds
  <2>3. \A x \in Sessions :
           tx'[x].kind # "idle" => tx'[x].pc \in 1 .. Len(Program(tx'[x].kind)) + 1
    <3>1. \A n \in Nat : 1 \in 1 .. n + 1
      OBVIOUS
    <3>2. 1 \in 1 .. Len(Program(kind)) + 1
      BY <3>1, ProgramLengths
    <3> QED
      BY <1>2, <1>3, <3>2 DEF TxsInv, TypeOK
  <2> QED
    BY <1>1, <2>1, <2>2, <2>3 DEF TxsInv, TypeOK
<1>7. BooksAreTrue'
  BY <1>1 DEF TxsInv, BooksAreTrue, StagesAgree, NeverAheadOfGateway
<1> QED
  BY <1>1, <1>3, <1>4, <1>5, <1>6, <1>7 DEF TxsInv, Shapes

\* createOrder: there is no order, so nobody has found any row.
LEMMA CreateKeeps ==
    ASSUME TxsInv, CreateOrder
    PROVE  TxsInv'
<1>1. /\ Stage("order") = "none" /\ db' = [db EXCEPT !["order"] = Row("created", NoUser)]
      /\ issued' = issued /\ locks' = locks /\ tx' = tx /\ gateway' = gateway
  BY DEF CreateOrder, Stage
<1>2. /\ Stage("shipment") = "none" /\ Stage("payment") = "none"
  BY <1>1, StageTypes DEF StagesAgree, Stage, ShipmentStatus, PaymentStatus
<1>3. \A x \in Sessions : tx[x].pc = 1
  <2>1. SUFFICES ASSUME NEW x \in Sessions, tx[x].pc # 1
                 PROVE  FALSE
    OBVIOUS
  <2>2. tx[x].kind \in {"pay", "cancel", "refund", "accept", "pickup", "deliver"}
    BY <2>1, IdleIsFirst DEF Kinds, OfficeKinds, DriverKinds
  <2> QED
    BY <1>1, <1>2, <2>1, <2>2, IdleIsFirst DEF TxsInv, TxInv, Progress, PayInv, CancelInv, RefundInv,
       AcceptInv, PickupInv, DeliverInv, Cancellable
<1>4. \A x \in Sessions : TxInv(x)'
  BY <1>1, <1>3, IdleIsFirst, FirstIsKept DEF TxsInv, TxInv, LocksHeld
<1>5. /\ db' \in [Table -> RowType] /\ db'["order"].status = "created"
      /\ db'["shipment"] = db["shipment"] /\ db'["payment"] = db["payment"]
      /\ \A r \in Table : db'[r].status \in StatusOf[r] /\ db'[r].driver \in Drivers \cup {NoUser}
  <2>1. Row("created", NoUser) \in RowType /\ Row("created", NoUser).status = "created"
    BY DEF Row, RowType, Status, OrderStatus
  <2>2. "order" \in Table /\ "shipment" \in Table /\ "payment" \in Table
    BY DEF Table
  <2>3. db' \in [Table -> RowType] /\ db'["order"].status = "created"
        /\ \A r \in Table \ {"order"} : db'[r] = db[r]
    BY <1>1, <2>1, <2>2 DEF TxsInv, Shapes
  <2>4. "created" \in StatusOf["order"]
    BY <2>2 DEF StatusOf, OrderStatus
  <2> QED
    BY <2>2, <2>3, <2>4 DEF TxsInv, TypeOK, RowType
<1>6. TypeOK'
  BY <1>1, <1>5 DEF TxsInv, TypeOK
<1>7. BooksAreTrue'
  BY <1>1, <1>2, <1>5 DEF Stage, BooksAreTrue, StagesAgree, NeverAheadOfGateway
<1> QED
  BY <1>1, <1>4, <1>5, <1>6, <1>7 DEF TxsInv, Shapes

-----------------------------------------------------------------------------
(* The COMMIT *)

\* A handler that has reached its COMMIT has seen and written all it needs: the
\* order and what goes with it, whatever ran meanwhile.
LEMMA WhatIsCommitted ==
    ASSUME TxsInv, NEW s \in Sessions, AtCommit(s)
    PROVE  /\ tx[s].kind \in {"pay", "cancel", "refund", "accept", "pickup", "deliver"}
           /\ locks["order"] = s
           /\ tx[s].kind = "pay" =>
                 /\ Stage("order") = "created" /\ Stage("shipment") = "none"
                 /\ Stage("payment") = "none"
                 /\ Wrote(s, "paid", "unassigned", "held") /\ tx[s].paid = {}
           /\ tx[s].kind = "cancel" =>
                 /\ Stage("order") \in Cancellable /\ tx[s].paid = {}
                 /\ Wrote(s, "cancelled",
                             IF Stage("shipment") = "none" THEN "-" ELSE "cancelled",
                             IF Stage("payment") = "held" THEN "refunded" ELSE "-")
                 /\ Stage("shipment") \in {"none", "unassigned", "assigned"}
                 /\ Stage("payment") \in {"none", "held"}
                 /\ Stage("payment") = "held" => gateway.refunds > 0
           /\ tx[s].kind = "refund" =>
                 /\ Stage("order") = "delivered" /\ Stage("shipment") = "delivered"
                 /\ Stage("payment") = "captured" /\ gateway.refunds > 0
                 /\ Wrote(s, "-", "-", "refunded") /\ tx[s].paid = {}
           /\ tx[s].kind = "accept" =>
                 /\ Stage("order") = "paid" /\ Stage("shipment") = "unassigned"
                 /\ Stage("payment") = "held"
                 /\ Wrote(s, "pickup_assigned", "assigned", "-") /\ tx[s].paid = {}
           /\ tx[s].kind = "pickup" =>
                 /\ Stage("order") = "pickup_assigned" /\ Stage("shipment") = "assigned"
                 /\ Stage("payment") = "held"
                 /\ Wrote(s, "in_transit", "picked_up", "-") /\ tx[s].paid = {}
           /\ tx[s].kind = "deliver" =>
                 /\ Stage("order") = "in_transit" /\ Stage("shipment") = "picked_up"
                 /\ Stage("payment") = "held" /\ gateway.captures > 0
                 /\ Wrote(s, "delivered", "delivered", "captured")
                 /\ tx[s].paid = {Seller, tx[s].driver} /\ tx[s].driver \in Drivers
<1>1. /\ tx[s].kind \in {"pay", "cancel", "refund", "accept", "pickup", "deliver"}
      /\ TxInv(s) /\ "order" \in Table
  BY DEF AtCommit, Running, TxsInv, TypeOK, OfficeKinds, DriverKinds, Table
<1>2. tx[s].pc = Len(Program(tx[s].kind)) + 1
  BY DEF AtCommit
<1>3. ASSUME tx[s].kind = "pay"
      PROVE  /\ locks["order"] = s
             /\ Stage("order") = "created" /\ Stage("shipment") = "none"
             /\ Stage("payment") = "none"
             /\ Wrote(s, "paid", "unassigned", "held") /\ tx[s].paid = {}
  <2>1. tx[s].pc = 6 + 1
    BY <1>2, <1>3, PayStatements
  <2>2. /\ Stage("order") = "created" /\ Wrote(s, "paid", "unassigned", "held")
        /\ tx[s].paid = {} /\ locks["order"] = s
    BY <1>1, <1>3, <2>1 DEF TxInv, Progress, PayInv, After, LocksHeld, OfficeKinds
  <2> QED
    BY <2>2, StageTypes DEF StagesAgree, Stage, ShipmentStatus, PaymentStatus
<1>4. ASSUME tx[s].kind = "cancel"
      PROVE  /\ locks["order"] = s
             /\ Stage("order") \in Cancellable /\ tx[s].paid = {}
             /\ Wrote(s, "cancelled",
                         IF Stage("shipment") = "none" THEN "-" ELSE "cancelled",
                         IF Stage("payment") = "held" THEN "refunded" ELSE "-")
             /\ Stage("shipment") \in {"none", "unassigned", "assigned"}
             /\ Stage("payment") \in {"none", "held"}
             /\ Stage("payment") = "held" => gateway.refunds > 0
  <2>1. tx[s].pc = 6 + 1
    BY <1>2, <1>4, CancelStatements
  <2>2. /\ Stage("order") \in Cancellable /\ tx[s].paid = {} /\ locks["order"] = s
        /\ Wrote(s, "cancelled",
                    IF Stage("shipment") = "none" THEN "-" ELSE "cancelled",
                    IF Stage("payment") = "held" THEN "refunded" ELSE "-")
        /\ Stage("payment") = "held" => gateway.refunds > 0
    BY <1>1, <1>4, <2>1 DEF TxInv, Progress, CancelInv, After, LocksHeld, OfficeKinds
  <2>3. /\ Stage("shipment") \in {"none", "unassigned", "assigned"}
        /\ Stage("payment") \in {"none", "held"}
    BY <2>2, StageTypes DEF StagesAgree, Stage, ShipmentStatus, PaymentStatus, Cancellable
  <2> QED
    BY <2>2, <2>3
<1>5. ASSUME tx[s].kind = "refund"
      PROVE  /\ locks["order"] = s
             /\ Stage("order") = "delivered" /\ Stage("shipment") = "delivered"
             /\ Stage("payment") = "captured" /\ gateway.refunds > 0
             /\ Wrote(s, "-", "-", "refunded") /\ tx[s].paid = {}
  <2>1. tx[s].pc = 4 + 1
    BY <1>2, <1>5, RefundStatements
  <2>2. /\ Stage("order") = "delivered" /\ Stage("payment") = "captured"
        /\ gateway.refunds > 0 /\ locks["order"] = s
        /\ Wrote(s, "-", "-", "refunded") /\ tx[s].paid = {}
    BY <1>1, <1>5, <2>1 DEF TxInv, Progress, RefundInv, After, LocksHeld, OfficeKinds
  <2> QED
    BY <2>2, StageTypes DEF StagesAgree, Stage
<1>6. ASSUME tx[s].kind = "accept"
      PROVE  /\ locks["order"] = s
             /\ Stage("order") = "paid" /\ Stage("shipment") = "unassigned"
             /\ Stage("payment") = "held"
             /\ Wrote(s, "pickup_assigned", "assigned", "-") /\ tx[s].paid = {}
  <2>1. tx[s].pc = 3 + 1
    BY <1>2, <1>6, AcceptStatements
  <2>2. /\ Stage("shipment") = "unassigned" /\ tx[s].paid = {}
        /\ Wrote(s, "pickup_assigned", "assigned", "-")
    BY <1>1, <1>6, <2>1 DEF TxInv, Progress, AcceptInv, After
  <2>3. locks["order"] = s
    BY <1>1, <2>2 DEF TxInv, LocksHeld, Wrote
  <2> QED
    BY <2>2, <2>3, StageTypes DEF StagesAgree, Stage
<1>7. ASSUME tx[s].kind = "pickup"
      PROVE  /\ locks["order"] = s
             /\ Stage("order") = "pickup_assigned" /\ Stage("shipment") = "assigned"
             /\ Stage("payment") = "held"
             /\ Wrote(s, "in_transit", "picked_up", "-") /\ tx[s].paid = {}
  <2>1. tx[s].pc = 3 + 1
    BY <1>2, <1>7, PickupStatements
  <2>2. /\ Stage("shipment") = "assigned" /\ tx[s].paid = {}
        /\ Wrote(s, "in_transit", "picked_up", "-")
    BY <1>1, <1>7, <2>1 DEF TxInv, Progress, PickupInv, After
  <2>3. locks["order"] = s
    BY <1>1, <2>2 DEF TxInv, LocksHeld, Wrote
  <2> QED
    BY <2>2, <2>3, StageTypes DEF StagesAgree, Stage
<1>8. ASSUME tx[s].kind = "deliver"
      PROVE  /\ locks["order"] = s
             /\ Stage("order") = "in_transit" /\ Stage("shipment") = "picked_up"
             /\ Stage("payment") = "held" /\ gateway.captures > 0
             /\ Wrote(s, "delivered", "delivered", "captured")
             /\ tx[s].paid = {Seller, tx[s].driver} /\ tx[s].driver \in Drivers
  <2>1. tx[s].pc = 8 + 1
    BY <1>2, <1>8, DeliverStatements
  <2>2. /\ Stage("shipment") = "picked_up" /\ gateway.captures > 0
        /\ Wrote(s, "delivered", "delivered", "captured")
        /\ tx[s].paid = {Seller, tx[s].driver} /\ tx[s].driver \in Drivers
    BY <1>1, <1>8, <2>1 DEF TxInv, Progress, DeliverInv, After, DriverKinds
  <2>3. locks["order"] = s
    BY <1>1, <2>2 DEF TxInv, LocksHeld, Wrote
  <2> QED
    BY <2>2, <2>3, StageTypes DEF StagesAgree, Stage
<1> QED
  BY <1>1, <1>3, <1>4, <1>5, <1>6, <1>7, <1>8

\* Whoever commits holds the order, and the shipment if there is one to hold,
\* so that nobody else is past the statement that looks for them.
LEMMA CommitterIsAlone ==
    ASSUME TxsInv, NEW s \in Sessions, AtCommit(s), NEW x \in Sessions \ {s}
    PROVE  tx[x].pc = 1
<1>1. SUFFICES ASSUME tx[x].pc # 1
               PROVE  FALSE
  OBVIOUS
<1>2. /\ tx[x].kind \in {"pay", "cancel", "refund", "accept", "pickup", "deliver"}
      /\ tx[x].kind \in OfficeKinds \/ tx[x].kind \in DriverKinds
      /\ tx[x].pc > 1 /\ TxInv(x) /\ TxInv(s) /\ "shipment" \in Table
  BY <1>1, IdleIsFirst DEF Kinds, OfficeKinds, DriverKinds, TxsInv, Table
<1>3. locks["order"] = s
  BY WhatIsCommitted
<1>4. tx[x].kind \in DriverKinds /\ locks["shipment"] = x
  BY <1>2, <1>3 DEF TxInv, LocksHeld
<1>5. Stage("shipment") \in {"unassigned", "assigned", "picked_up"}
  BY <1>2, <1>4 DEF TxInv, Progress, AcceptInv, PickupInv, DeliverInv, DriverKinds
<1>6. Written(s, "shipment") = "-"
  BY <1>2, <1>4 DEF TxInv, LocksHeld
<1>7. tx[s].kind = "refund"
  BY <1>5, <1>6, WhatIsCommitted DEF Wrote
<1> QED
  BY <1>5, <1>7, WhatIsCommitted

\* The rows after the COMMIT are those that were written and those that were not.
LEMMA CommitRows ==
    ASSUME TxsInv, NEW s \in Sessions, Commit(s)
    PROVE  /\ db' \in [Table -> RowType]
           /\ \A r \in Table : Stage(r)' = IF Written(s, r) = "-" THEN Stage(r) ELSE Written(s, r)
<1>1. db' = [r \in Table |-> Seen(s, r)]
  BY DEF Commit
<1>2. \A r \in Table :
         /\ Seen(s, r) \in RowType
         /\ Seen(s, r).status = IF Written(s, r) = "-" THEN Stage(r) ELSE Written(s, r)
  BY SeenIsTyped
<1>3. \A r \in Table : Stage(r)' = Seen(s, r).status
  BY <1>1 DEF Stage
<1> QED
  BY <1>1, <1>2, <1>3

\* The stages of the order after the COMMIT of each handler.
LEMMA NewStages ==
    ASSUME TxsInv, NEW s \in Sessions, Commit(s)
    PROVE  /\ tx[s].kind = "pay" =>
                 /\ Stage("order")' = "paid" /\ Stage("shipment")' = "unassigned"
                 /\ Stage("payment")' = "held"
           /\ tx[s].kind = "cancel" =>
                 /\ Stage("order")' = "cancelled" /\ Stage("shipment")' \in {"none", "cancelled"}
                 /\ Stage("payment")' = IF Stage("payment") = "held" THEN "refunded" ELSE "none"
           /\ tx[s].kind = "refund" =>
                 /\ Stage("order")' = "delivered" /\ Stage("shipment")' = "delivered"
                 /\ Stage("payment")' = "refunded"
           /\ tx[s].kind = "accept" =>
                 /\ Stage("order")' = "pickup_assigned" /\ Stage("shipment")' = "assigned"
                 /\ Stage("payment")' = "held"
           /\ tx[s].kind = "pickup" =>
                 /\ Stage("order")' = "in_transit" /\ Stage("shipment")' = "picked_up"
                 /\ Stage("payment")' = "held"
           /\ tx[s].kind = "deliver" =>
                 /\ Stage("order")' = "delivered" /\ Stage("shipment")' = "delivered"
                 /\ Stage("payment")' = "captured"
<1>1. /\ AtCommit(s)
      /\ "order" \in Table /\ "shipment" \in Table /\ "payment" \in Table
  BY DEF Commit, Table
<1>2. /\ tx[s].kind = "cancel" => Stage("payment") \in {"none", "held"}
      /\ Stage("order")' = IF Written(s, "order") = "-" THEN Stage("order") ELSE Written(s, "order")
      /\ Stage("shipment")' =
            IF Written(s, "shipment") = "-" THEN Stage("shipment") ELSE Written(s, "shipment")
      /\ Stage("payment")' =
            IF Written(s, "payment") = "-" THEN Stage("payment") ELSE Written(s, "payment")
  BY <1>1, CommitRows, WhatIsCommitted
<1> QED
  BY <1>1, <1>2, WhatIsCommitted DEF Wrote

\* A COMMIT keeps the invariant.
LEMMA CommitKeeps ==
    ASSUME TxsInv, NEW s \in Sessions, Commit(s)
    PROVE  TxsInv'
<1>1. /\ AtCommit(s) /\ tx' = [tx EXCEPT ![s] = Idle] /\ locks' = Unlock(s)
      /\ gateway' = gateway
      /\ issued' = [p \in Payees |-> issued[p] + IF p \in tx[s].paid THEN 1 ELSE 0]
  BY DEF Commit
<1>2. /\ tx' \in [Sessions -> TxType] /\ tx'[s] = Idle
      /\ \A x \in Sessions \ {s} : tx'[x] = tx[x]
  BY <1>1, IdleIsTyped DEF TxsInv, Shapes
<1>3. /\ locks' \in [Table -> Sessions \cup {NoSession}]
      /\ \A r \in Table : locks'[r] # s
      /\ \A x \in Sessions \ {s} : \A r \in Table : locks[r] = x <=> locks'[r] = x
  BY <1>1, SessionsAssumption DEF Unlock, TxsInv, TypeOK
<1>4. TxInv(s)'
  BY <1>2, <1>3 DEF TxInv, LocksHeld, Progress, Written, Idle, OfficeKinds, DriverKinds
<1>5. \A x \in Sessions \ {s} : TxInv(x)'
  BY <1>1, <1>2, <1>3, CommitterIsAlone, IdleIsFirst, FirstIsKept DEF TxsInv, TxInv, LocksHeld
<1>6. tx[s].kind \in {"pay", "cancel", "refund", "accept", "pickup", "deliver"}
  BY <1>1, WhatIsCommitted
<1>7. BooksAreTrue'
  <2>1. StagesAgree'
    BY <1>6, NewStages DEF StagesAgree, Stage
  <2>2. NeverAheadOfGateway'
    BY <1>1, <1>6, NewStages, WhatIsCommitted DEF NeverAheadOfGateway, Stage
  <2> QED
    BY <2>1, <2>2 DEF BooksAreTrue
<1>8. TypeOK'
  <2>1. \A x \in Sessions :
          /\ tx'[x].kind \in {"idle"} \cup OfficeKinds \cup DriverKinds
          /\ DOMAIN tx'[x].wrote \subseteq Table
          /\ tx'[x].paid \subseteq Payees
    BY <1>2 DEF TxType, Kinds, Writes
  <2>2. \A x \in Sessions : tx'[x].kind = "idle" => \A r \in Table : locks'[r] # x
    BY <1>2, <1>3 DEF TxsInv, TypeOK
  <2>3. \A x \in Sessions :
           tx'[x].kind # "idle" => tx'[x].pc \in 1 .. Len(Program(tx'[x].kind)) + 1
    BY <1>2 DEF TxsInv, TypeOK, Idle
  <2>4. DOMAIN db' = Table /\ \A r \in Table : db'[r].driver \in Drivers \cup {NoUser}
    BY CommitRows DEF RowType
  <2>5. \A r \in Table : db'[r].status \in StatusOf[r]
    <3>1. /\ Stage("order")' \in OrderStatus /\ Stage("shipment")' \in ShipmentStatus
          /\ Stage("payment")' \in PaymentStatus
      BY <1>6, NewStages DEF OrderStatus, ShipmentStatus, PaymentStatus
    <3> QED
      BY <3>1 DEF Stage, StatusOf, Table
  <2>6. issued' \in [Payees -> Nat]
    BY <1>1 DEF TxsInv, TypeOK
  <2> QED
    BY <1>1, <1>3, <2>1, <2>2, <2>3, <2>4, <2>5, <2>6 DEF TxsInv, TypeOK
<1> QED
  BY <1>2, <1>4, <1>5, <1>7, <1>8, CommitRows DEF TxsInv, Shapes

-----------------------------------------------------------------------------
(* The theorems *)

\* Nothing exists and nobody runs.
LEMMA InitTxs == Init => TxsInv
<1> SUFFICES ASSUME Init PROVE TxsInv
  OBVIOUS
<1>1. /\ db = [r \in Table |-> Row("none", NoUser)] /\ issued = [p \in Payees |-> 0]
      /\ locks = [r \in Table |-> NoSession] /\ tx = [s \in Sessions |-> Idle]
      /\ gateway = [refunds |-> 0, captures |-> 0, payouts |-> [p \in Payees |-> 0]]
  BY DEF Init
<1>2. /\ "order" \in Table /\ "shipment" \in Table /\ "payment" \in Table
      /\ Row("none", NoUser) \in RowType /\ Row("none", NoUser).status = "none"
  BY DEF Table, Row, RowType, Status, OrderStatus
<1>3. Shapes
  BY <1>1, <1>2, IdleIsTyped DEF Shapes
<1>4. \A s \in Sessions : TxInv(s)
  BY <1>1, SessionsAssumption
     DEF TxInv, LocksHeld, Progress, Written, Idle, OfficeKinds, DriverKinds
<1>5. TypeOK
  <2>1. \A r \in Table : "none" \in StatusOf[r]
    BY DEF StatusOf, Table, OrderStatus, ShipmentStatus, PaymentStatus
  <2>2. \A r \in Table : db[r].status \in StatusOf[r] /\ db[r].driver \in Drivers \cup {NoUser}
    BY <1>1, <2>1 DEF Row
  <2>3. \A s \in Sessions :
          /\ tx[s].kind = "idle" /\ DOMAIN tx[s].wrote \subseteq Table
          /\ tx[s].paid \subseteq Payees
          /\ \A r \in Table : locks[r] # s
    BY <1>1, SessionsAssumption DEF Idle
  <2>4. gateway \in [refunds : 0 .. MaxCalls, captures : 0 .. MaxCalls,
                     payouts : [Payees -> 0 .. MaxCalls]]
    BY <1>1, SessionsAssumption
  <2> QED
    BY <1>1, <2>2, <2>3, <2>4 DEF TypeOK
<1>6. BooksAreTrue
  BY <1>1, <1>2 DEF BooksAreTrue, StagesAgree, NeverAheadOfGateway
<1> QED
  BY <1>3, <1>4, <1>5, <1>6 DEF TxsInv

\* Every step of every session keeps the invariant.
LEMMA StepTxs == TxsInv /\ [Next]_vars => TxsInv'
<1> SUFFICES ASSUME TxsInv, [Next]_vars PROVE TxsInv'
  OBVIOUS
<1>1. CASE CreateOrder
  BY <1>1, CreateKeeps
<1>2. ASSUME NEW s \in Sessions, NEW kind \in OfficeKinds, Begin(s, kind, NoUser)
      PROVE  TxsInv'
  <2>1. kind \in Kinds /\ kind \notin DriverKinds
    BY <1>2 DEF Kinds, OfficeKinds, DriverKinds
  <2> QED
    BY <1>2, <2>1, BeginKeeps
<1>3. ASSUME NEW s \in Sessions, NEW kind \in DriverKinds, NEW d \in Drivers, Begin(s, kind, d)
      PROVE  TxsInv'
  BY <1>3, BeginKeeps DEF Kinds
<1>4. ASSUME NEW s \in Sessions, Advance(s)
      PROVE  TxsInv'
  <2>1. CASE AtStep(s)
    BY <1>4, <2>1, StatementKeeps
  <2>2. CASE ~AtStep(s)
    BY <1>4, <2>2, CommitKeeps
       DEF Advance, LockRow, ReadRow, WriteRow, CallGateway, RunPayout, At
  <2> QED
    BY <2>1, <2>2
<1>5. ASSUME NEW s \in Sessions, BreakDeadlock(s) \/ LoseConnection(s)
      PROVE  TxsInv'
  BY <1>5, GatewayStays, UndoKeeps DEF BreakDeadlock, LoseConnection, Undoes
<1>6. CASE UNCHANGED vars
  <2>1. /\ db' = db /\ issued' = issued /\ locks' = locks /\ tx' = tx /\ gateway' = gateway
    BY <1>6 DEF vars
  <2>2. \A x \in Sessions : TxInv(x)'
    BY <2>1, OthersKept DEF TxsInv
  <2>3. TypeOK' /\ Shapes' /\ BooksAreTrue'
    BY <2>1 DEF TxsInv, TypeOK, Shapes, BooksAreTrue, StagesAgree, NeverAheadOfGateway
  <2> QED
    BY <2>2, <2>3 DEF TxsInv
<1> QED
  BY <1>1, <1>2, <1>3, <1>4, <1>5, <1>6 DEF Next

\* What every handler has locked, seen and written, at each of its statements,
\* holds for any number of sessions and however they interleave, fail and wait.
THEOREM TxsInvariant == Spec => []TxsInv
<1>1. Init => TxsInv
  BY InitTxs
<1>2. TxsInv /\ [Next]_vars => TxsInv'
  BY StepTxs
<1> QED
  BY <1>1, <1>2, PTL DEF Spec

\* Committed rows have the statuses of their tables, and only a session that runs
\* a handler holds a lock.
THEOREM TxsTypes == Spec => []TypeOK
<1>1. TxsInv => TypeOK
  BY DEF TxsInv
<1> QED
  BY <1>1, TxsInvariant, PTL

\* The committed order, shipment and payment tell the same story, and the database
\* is never ahead of the payment gateway: db.service.ts:tx and the row locks of
\* the handlers are enough for that, although a gateway call is never undone.
THEOREM BooksStayTrue == Spec => []BooksAreTrue
<1>1. TxsInv => BooksAreTrue
  BY DEF TxsInv
<1> QED
  BY <1>1, TxsInvariant, PTL

\* Between COMMITs no row changes.
LEMMA OnlyCommitsShow ==
    ASSUME TxsInv, [Next]_vars, ~CreateOrder, \A s \in Sessions : ~Commit(s)
    PROVE  db' = db /\ issued' = issued
BY DEF Next, vars, Begin, Advance, LockRow, ReadRow, WriteRow, CallGateway, RunPayout,
   BreakDeadlock, LoseConnection, Rollback

\* A COMMIT is a step of the contract, or none: that of an acceptance, which the
\* contract does not tell from the order waiting for a driver.
LEMMA CommitFulfils ==
    ASSUME TxsInv, NEW s \in Sessions, Commit(s)
    PROVE  Contract!Next \/ UNCHANGED Contract!vars
<1>1. /\ Goods = [o \in {Order} |-> GoodsAt(Stage("order"))]
      /\ Money = [o \in {Order} |-> MoneyAt(Stage("payment"))]
      /\ Goods' = [o \in {Order} |-> GoodsAt(Stage("order")')]
      /\ Money' = [o \in {Order} |-> MoneyAt(Stage("payment")')]
  BY DEF Goods, Money, Stage
<1>2. /\ Issued = [o \in {Order} |-> issued]
      /\ Issued' = [o \in {Order} |->
                       [p \in Payees |-> issued[p] + IF p \in tx[s].paid THEN 1 ELSE 0]]
  BY DEF Issued, Commit
<1>3. AtCommit(s) /\ issued \in [Payees -> Nat]
  BY DEF Commit, TxsInv, TypeOK
<1>4. tx[s].paid = {} => Issued' = Issued
  <2>1. SUFFICES ASSUME tx[s].paid = {}
                 PROVE  [p \in Payees |-> issued[p] + IF p \in tx[s].paid THEN 1 ELSE 0] = issued
    BY <1>2
  <2>2. \A p \in Payees : issued[p] + 0 = issued[p]
    BY <1>3
  <2> QED
    BY <1>3, <2>1, <2>2
<1>5. /\ \A st \in {"created", "paid", "pickup_assigned"} : GoodsAt(st) = "reserved"
      /\ GoodsAt("in_transit") = "moving" /\ GoodsAt("delivered") = "delivered"
      /\ GoodsAt("cancelled") = "returned"
      /\ MoneyAt("none") = "buyer" /\ MoneyAt("refunded") = "buyer"
      /\ MoneyAt("held") = "escrow" /\ MoneyAt("captured") = "platform"
  BY DEF GoodsAt, MoneyAt
<1>6. CASE tx[s].kind = "pay"
  <2>1. Contract!Hold(Order)
    BY <1>1, <1>3, <1>4, <1>5, <1>6, WhatIsCommitted, NewStages DEF Contract!Hold
  <2> QED
    BY <2>1 DEF Contract!Next
<1>7. CASE tx[s].kind = "cancel"
  <2>1. Contract!Release(Order)
    BY <1>1, <1>3, <1>4, <1>5, <1>7, WhatIsCommitted, NewStages DEF Contract!Release, Cancellable
  <2> QED
    BY <2>1 DEF Contract!Next
<1>8. CASE tx[s].kind = "refund"
  <2>1. Contract!Compensate(Order)
    BY <1>1, <1>3, <1>4, <1>5, <1>8, WhatIsCommitted, NewStages DEF Contract!Compensate
  <2> QED
    BY <2>1 DEF Contract!Next
<1>9. CASE tx[s].kind = "accept"
  <2>1. Goods' = Goods /\ Money' = Money /\ Issued' = Issued
    BY <1>1, <1>3, <1>4, <1>5, <1>9, WhatIsCommitted, NewStages
  <2> QED
    BY <2>1 DEF Contract!vars
<1>10. CASE tx[s].kind = "pickup"
  <2>1. Contract!Depart(Order)
    BY <1>1, <1>3, <1>4, <1>5, <1>10, WhatIsCommitted, NewStages DEF Contract!Depart
  <2> QED
    BY <2>1 DEF Contract!Next
<1>11. CASE tx[s].kind = "deliver"
  <2>1. /\ tx[s].paid \in SUBSET Payees /\ tx[s].paid # {}
    BY <1>3, <1>11, WhatIsCommitted DEF Payees
  <2>2. Issued' = [Issued EXCEPT ![Order] =
                      [p \in Payees |-> @[p] + IF p \in tx[s].paid THEN 1 ELSE 0]]
    BY <1>2
  <2>3. /\ Goods[Order] = "moving" /\ Money[Order] = "escrow"
        /\ Goods' = [Goods EXCEPT ![Order] = "delivered"]
        /\ Money' = [Money EXCEPT ![Order] = "platform"]
    BY <1>1, <1>3, <1>5, <1>11, WhatIsCommitted, NewStages
  <2>4. Contract!Deliver(Order)
    BY <2>1, <2>2, <2>3 DEF Contract!Deliver
  <2> QED
    BY <2>4 DEF Contract!Next
<1> QED
  BY <1>3, <1>6, <1>7, <1>8, <1>9, <1>10, <1>11, WhatIsCommitted

\* Statement by statement, with every interleaving, deadlock, lost connection and
\* failing call, each COMMIT is one step of the escrow contract and nothing else
\* shows: to take a handler for one step loses nothing that is committed.
THEOREM TxsImplementContract == Spec => ImplementsContract
<1>1. Init => Contract!Init
  BY DEF Init, Contract!Init, Goods, Money, Issued, GoodsAt, MoneyAt, Row, Table
<1>2. TxsInv /\ [Next]_vars => [Contract!Next]_(Contract!vars)
  <2> SUFFICES ASSUME TxsInv, [Next]_vars
               PROVE  Contract!Next \/ UNCHANGED Contract!vars
    OBVIOUS
  <2>1. CASE CreateOrder
    <3>1. /\ db["order"].status = "none" /\ db'["order"].status = "created"
          /\ db'["payment"] = db["payment"] /\ issued' = issued
      BY <2>1 DEF CreateOrder, TxsInv, Shapes, Table, Row
    <3>2. Contract!Reserve(Order)
      BY <3>1 DEF Contract!Reserve, Goods, Money, Issued, GoodsAt
    <3> QED
      BY <3>2 DEF Contract!Next
  <2>2. ASSUME NEW s \in Sessions, Commit(s)
        PROVE  Contract!Next \/ UNCHANGED Contract!vars
    BY <2>2, CommitFulfils
  <2>3. CASE ~CreateOrder /\ \A s \in Sessions : ~Commit(s)
    BY <2>3, OnlyCommitsShow DEF Contract!vars, Goods, Money, Issued
  <2> QED
    BY <2>1, <2>2, <2>3
<1> QED
  BY <1>1, <1>2, TxsInvariant, PTL DEF Spec, ImplementsContract, Contract!Spec
=============================================================================
