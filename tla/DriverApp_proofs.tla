--------------------------- MODULE DriverApp_proofs ---------------------------
(***************************************************************************)
(* What the driver was told is so and every screen has a way on, for any   *)
(* number of shipments and of calls in flight, and any hazards.  The API   *)
(* only moves a shipment forward, whoever asks (Grows), and each call in   *)
(* flight means something for the rows that stays true however they move   *)
(* (CallOK): that is what an alert shown at its end rests on.  A step is   *)
(* one of six kinds, and every part of the invariant has a step for each.  *)
(***************************************************************************)
EXTENDS DriverApp, Sums, SequenceTheorems

-----------------------------------------------------------------------------
(* The invariant *)

Before   == {"unpaid", "unassigned"}
Handed   == {"delivered", "refunded"}
OnTheWay == {"picked_up"} \cup Handed

Past(sh, s) == sh[s].status \notin Before
Mine(sh, s, stages) == sh[s].driver = "me" /\ sh[s].status \in stages

\* A shipment has no driver before one has accepted it.
RowsInv == \A s \in Shipments : ship[s].status \in Before => ship[s].driver = "none"

\* How many notices the buyer has had of a shipment, at most.
Noticed == [unpaid |-> 0, unassigned |-> 1, assigned |-> 2, picked_up |-> 3,
            delivered |-> 4, refunded |-> 5, cancelled |-> 4]
NoticedOf(sh) == [s \in Shipments |-> Noticed[sh[s].status]]

\* What is newer than an OTP is about other shipments.
OtpInv ==
    \A s \in Shipments : ship[s].status = "picked_up" =>
       notices[<<"drop", s>>] <= SumFunctionOnSet(NoticedOf(ship), Shipments \ {s})

\* What was in progress had been accepted, and what was on offer paid.
RowsOK(sh, rows) ==
    /\ \A s \in Shipments : rows.active[s] # "none" => Past(sh, s)
    /\ \A s \in rows.jobs : sh[s].status # "unpaid"

\* What a call means for shipments that stand at sh.
CallOK(sh, c) ==
    /\ c.kind \notin Gets => c.ship \in Shipments
    /\ c.kind \in Gets => c.owner = "screen" \/ c = Idle
    /\ c.owner = "nobody" => c.at = "sent"
    /\ c.kind = "shipments" => c.at \in {"sent", "answered"}
    /\ c.at = "taken" => c.kind = "accept" /\ Past(sh, c.ship)
    /\ c.kind = "accept" => sh[c.ship].status # "unpaid"
    /\ c.kind = "pickup" /\ c.at = "answered" => Mine(sh, c.ship, OnTheWay)
    /\ c.kind = "deliver" /\ c.at = "answered" => Mine(sh, c.ship, Handed)
    /\ RowsOK(sh, c.rows)

CallsInv == \A x \in Slots : CallOK(ship, calls[x])

\* A screen waits for calls of its own, and its spinner for one that is there.
ScreenOf(kind) == IF kind \in {"pickup", "deliver"} THEN "job" ELSE "jobs"

Spinning(cs, top) ==
    \E x \in Slots :
       /\ cs[x].owner = "screen"
       /\ cs[x].kind \in IF top = "jobs" THEN Gets ELSE {"pickup", "deliver"}

ScreenInv ==
    /\ \A x \in Slots : calls[x].owner = "screen" => Top(stack) = ScreenOf(calls[x].kind)
    /\ waiting => Spinning(calls, Top(stack))
    /\ RowsOK(ship, lists)

\* What an alert has said stays so.
ToldInv ==
    \A s \in Shipments :
       /\ <<"picked_up", s>> \in told => Mine(ship, s, OnTheWay)
       /\ <<"delivered", s>> \in told => Mine(ship, s, Handed)
       /\ <<"taken", s>> \in told => Past(ship, s)

Loading(cs, kinds) == \E x \in Slots : cs[x].owner = "screen" /\ cs[x].kind \in kinds

Apart(jobs, active) == \A s \in jobs : active[s] = "none"

\* A driver who waits has one call in flight, and the home below all screens; what
\* is found on offer was not in progress when it was asked for.
PatientInv ==
    "impatient" \notin hazards =>
       /\ stack[1] = <<"home">>
       /\ \A x \in Slots : calls[x].owner # "gone"
       /\ \A x, y \in Slots : calls[x].owner = "screen" /\ calls[y].owner = "screen" => x = y
       /\ \A x \in Slots : calls[x].owner = "screen" /\ calls[x].kind = "jobs" =>
             Apart(calls[x].rows.jobs, lists.active)
       /\ ~Loading(calls, Gets) => Apart(lists.jobs, lists.active)

NotMine(sh, S) == \A s \in S : sh[s].driver # "me"

\* What the driver was told to have picked up is in progress in these rows.
Carries(sh, said, active) ==
    \A s \in Shipments : <<"picked_up", s>> \in said /\ sh[s].status = "picked_up" =>
       active[s] = "picked_up"

\* An accept after which Jobs has not been loaded yet.
Stale(c) == c.owner = "screen" /\ (c.kind \in Gets \/ (c.kind = "accept" /\ c.at = "answered"))

\* When nothing goes wrong, jobs that are one's own are not taken by another, and
\* Jobs shows what was picked up as soon as it has asked for it.
CleanInv ==
    hazards = {} =>
       /\ \A x \in Slots : calls[x].owner = "nobody" => calls[x] = Idle
       /\ \A s \in Shipments : <<"taken", s>> \in told => ship[s].driver # "me"
       /\ \A x \in Slots :
          /\ calls[x].kind = "accept" /\ calls[x].at # "answered" => ship[calls[x].ship].driver # "me"
          /\ calls[x].kind = "jobs" => NotMine(ship, calls[x].rows.jobs)
          /\ calls[x].kind = "shipments" /\ calls[x].at = "answered" =>
                Carries(ship, told, calls[x].rows.active)
       /\ (\A x \in Slots : ~Stale(calls[x])) => NotMine(ship, lists.jobs)
       /\ Top(stack) = "jobs" /\ ~Loading(calls, {"shipments"}) =>
             Carries(ship, told, lists.active)

DriverInv ==
    /\ TypeOK /\ RowsInv /\ OtpInv /\ CallsInv
    /\ ScreenInv /\ ToldInv /\ PatientInv /\ CleanInv

-----------------------------------------------------------------------------
(* What the API does with a shipment *)

\* The parts of the state.
LEMMA DriverFields ==
    ASSUME TypeOK
    PROVE  /\ \A s \in Shipments :
                /\ ship[s].status \in Stages /\ ship[s].driver \in {"none", "me", "other"}
                /\ ship[s].status \in Carried \cup Handed => ship[s].driver # "none"
           /\ \A c \in Codes : notices[c] \in 0 .. Limit /\ notices[c] \in Nat
           /\ \A x \in Slots : calls[x] \in Call
           /\ lists.active \in [Shipments -> Carried \cup {"none"}] /\ lists.jobs \subseteq Shipments
           /\ Limit \in Nat /\ Depth \in Nat
BY DriverAppAssumption DEF TypeOK, Lists, Handed

\* From where a shipment goes where.
Goes(from, to) ==
    \/ from = "unpaid" /\ to \in {"unassigned", "cancelled"}
    \/ from = "unassigned" /\ to \in {"assigned", "cancelled"}
    \/ from = "assigned" /\ to \in {"picked_up", "cancelled"}
    \/ from = "picked_up" /\ to = "delivered"
    \/ from = "delivered" /\ to = "refunded"

\* With whom: a driver only comes when one accepts, and stays.
With(s, to, d) ==
    \/ to = "assigned" /\ d \in {"me", "other"}
    \/ to = "unassigned" /\ d = "none"
    \/ to \notin {"assigned", "unassigned"} /\ d = ship[s].driver

\* The shipments that have become this driver's.
Gained == {s \in Shipments : ship'[s].driver = "me" /\ ship[s].driver # "me"}

\* No shipment goes back or changes hands, and the notices are right.
Grows ==
    /\ ship' \in [Shipments -> [status : Stages, driver : {"none", "me", "other"}]]
    /\ notices' \in [Codes -> 0 .. Limit]
    /\ RowsInv' /\ OtpInv'
    /\ \A s \in Shipments :
          /\ ship'[s].status \in Carried \cup Handed => ship'[s].driver # "none"
          /\ ship[s].status # "unpaid" => ship'[s].status # "unpaid"
          /\ Past(ship, s) => Past(ship', s) /\ ship'[s].driver = ship[s].driver
          /\ ship[s].status \in OnTheWay => ship'[s].status \in OnTheWay
          /\ ship[s].status \in Handed => ship'[s].status \in Handed
          /\ ship'[s].status = "picked_up" => ship[s].status \in {"assigned", "picked_up"}

\* The new notices are at least as many as a list shows before an OTP.
LEMMA NotifyEffect ==
    ASSUME TypeOK, NEW buyer \in Nat, NEW seller \in Nat, NEW code, Notify(buyer, seller, code)
    PROVE  /\ notices' \in [Codes -> 0 .. Limit]
           /\ \A s \in Shipments : /\ <<"drop", s>> \in Codes
                                   /\ notices'[<<"drop", s>>] <= notices[<<"drop", s>>] + buyer
           /\ code \in Codes => notices'[code] = 0
<1> DEFINE newer(c) == notices[c] + IF c[1] = "drop" THEN buyer ELSE seller
           place(c) == IF c = code THEN 0 ELSE IF newer(c) < Limit THEN newer(c) ELSE Limit
<1>1. notices' = [c \in Codes |-> place(c)]
  BY DEF Notify
<1>2. ASSUME NEW c \in Codes
      PROVE  /\ newer(c) \in Nat /\ place(c) \in 0 .. Limit /\ place(c) <= newer(c)
             /\ c = code => place(c) = 0
  BY DriverFields
<1>3. \A s \in Shipments : /\ <<"drop", s>> \in Codes
                           /\ newer(<<"drop", s>>) = notices[<<"drop", s>>] + buyer
  BY DEF Codes
<1> HIDE DEF newer, place
<1> QED
  BY <1>1, <1>2, <1>3

\* Sums of what the buyer was told.
LEMMA NoticedSum ==
    ASSUME NEW sh, \A s \in Shipments : sh[s].status \in Stages, NEW s \in Shipments
    PROVE  /\ IsFiniteSet(Shipments \ {s})
           /\ \A t \in Shipments : NoticedOf(sh)[t] \in 0 .. 5
           /\ SumFunctionOnSet(NoticedOf(sh), Shipments \ {s}) \in Nat
<1>1. IsFiniteSet(Shipments \ {s})
  BY DriverAppAssumption, FS_Subset
<1>2. \A t \in Shipments : NoticedOf(sh)[t] \in 0 .. 5
  BY DEF NoticedOf, Noticed, Stages
<1>3. SumFunctionOnSet(NoticedOf(sh), Shipments \ {s}) \in Nat
  BY <1>1, <1>2, SumNat
<1> QED
  BY <1>1, <1>2, <1>3

\* A shipment goes where it goes, and the buyer hears of it as often as that says.
LEMMA MoveEffect ==
    ASSUME TypeOK, RowsInv, OtpInv, NEW s \in Shipments, NEW to, NEW d,
           Goes(ship[s].status, to), With(s, to, d), Moves(s, to, d),
           NEW buyer \in Nat, NEW seller \in Nat, NEW code, Notify(buyer, seller, code),
           Noticed[ship[s].status] + buyer <= Noticed[to],
           to = "picked_up" => code = <<"drop", s>>
    PROVE  /\ Grows /\ \A t \in Gained : t = s /\ to = "assigned" /\ d = "me"
<1>0. /\ \A t \in Shipments : ship'[t] = IF t = s THEN [status |-> to, driver |-> d] ELSE ship[t]
      /\ to \in Stages /\ d \in {"none", "me", "other"}
  BY DriverFields DEF Moves, TypeOK, Goes, With, Stages
<1>1. ship' \in [Shipments -> [status : Stages, driver : {"none", "me", "other"}]]
  BY <1>0 DEF Moves, TypeOK
<1>2. \A t \in Shipments :
         /\ t # s => ship'[t].status = ship[t].status /\ ship'[t].driver = ship[t].driver
         /\ t = s => ship'[t].status = to /\ ship'[t].driver = d
  BY <1>0
<1>3. ASSUME NEW t \in Shipments
      PROVE  /\ ship'[t].status \in Before => ship'[t].driver = "none"
             /\ ship'[t].status \in Carried \cup Handed => ship'[t].driver # "none"
             /\ ship[t].status # "unpaid" => ship'[t].status # "unpaid"
             /\ Past(ship, t) => Past(ship', t) /\ ship'[t].driver = ship[t].driver
             /\ ship[t].status \in OnTheWay => ship'[t].status \in OnTheWay
             /\ ship[t].status \in Handed => ship'[t].status \in Handed
             /\ ship'[t].status = "picked_up" => ship[t].status \in {"assigned", "picked_up"}
             /\ t \in Gained => t = s /\ to = "assigned" /\ d = "me"
  <2>1. /\ ship[t].status \in Before => ship[t].driver = "none"
        /\ ship[t].status \in Carried \cup Handed => ship[t].driver # "none"
    BY DriverFields DEF RowsInv
  <2>2. CASE t # s
    BY <1>2, <2>1, <2>2 DEF Past, Gained
  <2>3. CASE t = s
    BY <1>2, <2>1, <2>3 DEF Goes, With, Past, Before, Carried, Handed, OnTheWay, Gained
  <2> QED
    BY <2>2, <2>3
<1>4. /\ notices' \in [Codes -> 0 .. Limit]
      /\ \A t \in Shipments : notices'[<<"drop", t>>] <= notices[<<"drop", t>>] + buyer
      /\ to = "picked_up" => notices'[<<"drop", s>>] = 0
      /\ \A t \in Shipments : notices[<<"drop", t>>] \in Nat /\ notices'[<<"drop", t>>] \in Nat
  BY NotifyEffect, DriverFields
<1>5. ASSUME NEW t \in Shipments, ship'[t].status = "picked_up"
      PROVE  notices'[<<"drop", t>>] <= SumFunctionOnSet(NoticedOf(ship'), Shipments \ {t})
  <2> DEFINE f == NoticedOf(ship)
             g == NoticedOf(ship')
  <2>1. /\ IsFiniteSet(Shipments \ {t})
        /\ \A u \in Shipments : f[u] \in Nat /\ g[u] \in Nat
        /\ SumFunctionOnSet(f, Shipments \ {t}) \in Nat
        /\ SumFunctionOnSet(g, Shipments \ {t}) \in Nat
    <3>1. \A u \in Shipments : ship[u].status \in Stages
      BY DriverFields
    <3>2. \A u \in Shipments : ship'[u].status \in Stages
      BY <1>0, <1>2, <3>1
    <3> HIDE DEF f, g
    <3>3. /\ \A u \in Shipments : f[u] \in 0 .. 5
          /\ IsFiniteSet(Shipments \ {t}) /\ SumFunctionOnSet(f, Shipments \ {t}) \in Nat
      BY <3>1, NoticedSum DEF f
    <3>4. /\ \A u \in Shipments : g[u] \in 0 .. 5
          /\ SumFunctionOnSet(g, Shipments \ {t}) \in Nat
      BY <3>2, NoticedSum DEF g
    <3> QED
      BY <3>3, <3>4
  <2>2. \A u \in Shipments : u # s => g[u] = f[u]
    BY <1>2 DEF NoticedOf
  <2>3. f[s] = Noticed[ship[s].status] /\ g[s] = Noticed[to]
    BY <1>2 DEF NoticedOf
  <2> HIDE DEF f, g
  <2>4. CASE t = s
    BY <1>2, <1>4, <1>5, <2>1, <2>4 DEF f, g
  <2>5. CASE t # s
    <3> DEFINE rest == Shipments \ {t}
    <3>1. /\ IsFiniteSet(rest) /\ s \in rest
          /\ \A u \in rest : f[u] \in Int
          /\ g[s] \in Int /\ \A u \in rest \ {s} : g[u] = f[u]
      BY <2>1, <2>2, <2>5
    <3>2. SumFunctionOnSet(g, rest) = SumFunctionOnSet(f, rest) - f[s] + g[s]
      <4> HIDE DEF rest
      <4> QED
        BY <3>1, SumChange
    <3>3. notices[<<"drop", t>>] <= SumFunctionOnSet(f, Shipments \ {t})
      BY <1>2, <1>5, <2>5 DEF OtpInv, f
    <3>4. f[s] \in Nat /\ g[s] \in Nat /\ f[s] + buyer <= g[s]
      BY <2>1, <2>3
    <3> QED
      BY <1>4, <2>1, <3>2, <3>3, <3>4 DEF g
  <2> QED
    BY <2>4, <2>5
<1>6. RowsInv' /\ OtpInv'
  BY <1>3, <1>5 DEF RowsInv, OtpInv
<1>7. \A t \in Gained : t = s /\ to = "assigned" /\ d = "me"
  BY <1>3 DEF Gained
<1> QED
  BY <1>1, <1>3, <1>4, <1>6, <1>7 DEF Grows

\* What a driver does to a shipment, and the others.
LEMMA RowEffect ==
    ASSUME TypeOK, RowsInv, OtpInv, NEW s \in Shipments, NEW d \in {"me", "other"}, NEW code,
           \/ Pay(s) \/ Cancel(s) \/ RefundOrder(s)
           \/ Accept(s, d) \/ MarkPickedUp(s, d, code) \/ MarkDelivered(s, d, code)
    PROVE  Grows /\ \A t \in Gained : t = s /\ d = "me" /\ Accept(s, d)
<1>1. CASE Pay(s)
  <2>1. Goes("unpaid", "unassigned") /\ With(s, "unassigned", "none")
    BY DEF Goes, With
  <2>2. Noticed["unpaid"] + 1 <= Noticed["unassigned"]
    BY DEF Noticed
  <2> QED
    BY <1>1, <2>1, <2>2, MoveEffect DEF Pay
<1>2. CASE Cancel(s)
  <2> DEFINE buyer == IF ship[s].status = "unpaid" THEN 1 ELSE 2
  <2>1. Goes(ship[s].status, "cancelled") /\ With(s, "cancelled", ship[s].driver)
    BY <1>2 DEF Goes, With, Cancel, CANCELLABLE
  <2>2. buyer \in Nat /\ Noticed[ship[s].status] + buyer <= Noticed["cancelled"]
    BY <1>2 DEF Noticed, Cancel, CANCELLABLE
  <2>3. Moves(s, "cancelled", ship[s].driver) /\ Notify(buyer, 1, NoCode)
    BY <1>2 DEF Cancel
  <2> HIDE DEF buyer
  <2> QED
    BY <2>1, <2>2, <2>3, MoveEffect
<1>3. CASE RefundOrder(s)
  <2>1. Goes("delivered", "refunded") /\ With(s, "refunded", ship[s].driver)
    BY DEF Goes, With
  <2>2. Noticed["delivered"] + 1 <= Noticed["refunded"]
    BY DEF Noticed
  <2> QED
    BY <1>3, <2>1, <2>2, MoveEffect DEF RefundOrder
<1>4. CASE Accept(s, d)
  <2>1. Goes("unassigned", "assigned") /\ With(s, "assigned", d)
    BY DEF Goes, With
  <2>2. Noticed["unassigned"] + 1 <= Noticed["assigned"]
    BY DEF Noticed
  <2>3. ship[s].status = "unassigned" /\ Moves(s, "assigned", d) /\ Notify(1, 0, NoCode)
    BY <1>4 DEF Accept, Acceptable
  <2> QED
    BY <1>4, <2>1, <2>2, <2>3, MoveEffect
<1>5. CASE MarkPickedUp(s, d, code)
  <2>1. ship[s].status = "assigned" /\ ship[s].driver = d
    BY <1>5 DEF MarkPickedUp, Collectable
  <2>2. Goes("assigned", "picked_up") /\ With(s, "picked_up", d)
    BY <2>1 DEF Goes, With
  <2>3. Noticed["assigned"] + 1 <= Noticed["picked_up"]
    BY DEF Noticed
  <2> QED
    BY <1>5, <2>1, <2>2, <2>3, MoveEffect DEF MarkPickedUp
<1>6. CASE MarkDelivered(s, d, code)
  <2>1. ship[s].status = "picked_up" /\ ship[s].driver = d
    BY <1>6 DEF MarkDelivered, Deliverable
  <2>2. Goes("picked_up", "delivered") /\ With(s, "delivered", d)
    BY <2>1 DEF Goes, With
  <2>3. Noticed["picked_up"] + 1 <= Noticed["delivered"]
    BY DEF Noticed
  <2> QED
    BY <1>6, <2>1, <2>2, <2>3, MoveEffect DEF MarkDelivered
<1> QED
  BY <1>1, <1>2, <1>3, <1>4, <1>5, <1>6

\* So do the buyers, the admin and other drivers, none of whom takes a shipment for
\* this one.
LEMMA DeskEffect ==
    ASSUME DriverInv, Desk
    PROVE  Grows /\ Gained = {} /\ UNCHANGED <<calls, stack, lists, waiting, told>>
<1>1. PICK s \in Shipments : Pay(s) \/ Cancel(s) \/ RefundOrder(s) \/ Accept(s, "other")
  BY DEF Desk
<1>2. TypeOK /\ RowsInv /\ OtpInv
  BY DEF DriverInv
<1>3. Grows /\ \A t \in Gained : FALSE
  BY <1>1, <1>2, RowEffect
<1> QED
  BY <1>3 DEF Desk, phone

-----------------------------------------------------------------------------
(* Calls *)

Kinds == Gets \cup {"accept", "pickup", "deliver"}

\* The fields of a call.
LEMMA CallFields ==
    ASSUME NEW c \in Call
    PROVE  /\ c.kind \in Kinds /\ c.ship \in Shipments \cup {NoShipment}
           /\ c.code \in Codes \cup {NoCode}
           /\ c.at \in {"sent", "answered", "refused", "taken"} /\ c.rows \in Lists
           /\ c.owner \in {"screen", "gone", "nobody"}
BY DEF Call, Kinds

\* A call that is sent, and none.
LEMMA Sending ==
    /\ Empty \in Lists /\ Empty.jobs = {} /\ \A s \in Shipments : Empty.active[s] = "none"
    /\ \A kind \in Kinds, s \in Shipments \cup {NoShipment}, code \in Codes \cup {NoCode} :
          LET d == Send(kind, s, code)
          IN  /\ d \in Call /\ d.kind = kind /\ d.ship = s /\ d.at = "sent" /\ d.rows = Empty
              /\ d.owner = "screen"
    /\ \A kind \in Gets : /\ Ask(kind) \in Call /\ Ask(kind).kind = kind /\ Ask(kind).at = "sent"
                          /\ Ask(kind).rows = Empty /\ Ask(kind).owner = "screen"
    /\ Load = Ask("shipments")
    /\ Idle \in Call /\ Idle.kind = "jobs" /\ Idle.at = "sent" /\ Idle.rows = Empty
    /\ Idle.owner = "nobody"
<1>1. Empty \in Lists /\ Empty.jobs = {} /\ \A s \in Shipments : Empty.active[s] = "none"
  BY DEF Empty, Lists
<1>2. ASSUME NEW kind \in Kinds, NEW s \in Shipments \cup {NoShipment},
             NEW code \in Codes \cup {NoCode}
      PROVE  LET d == Send(kind, s, code)
             IN  /\ d \in Call /\ d.kind = kind /\ d.ship = s /\ d.at = "sent"
                 /\ d.rows = Empty /\ d.owner = "screen"
  BY <1>1 DEF Send, Call, Kinds
<1>3. \A kind \in Gets : /\ Ask(kind) \in Call /\ Ask(kind).kind = kind /\ Ask(kind).at = "sent"
                         /\ Ask(kind).rows = Empty /\ Ask(kind).owner = "screen"
  BY <1>2 DEF Ask, Kinds
<1>4. Load = Ask("shipments") /\ "jobs" \in Gets
  BY DEF Load, LoadOrder, Gets
<1>5. /\ Idle \in Call /\ Idle.kind = "jobs" /\ Idle.at = "sent" /\ Idle.rows = Empty
      /\ Idle.owner = "nobody"
  BY <1>3, <1>4 DEF Idle, Call
<1> QED
  BY <1>1, <1>2, <1>3, <1>4, <1>5

\* A call with its result, and with another to wait for it.
LEMMA CallWith ==
    ASSUME NEW c \in Call
    PROVE  /\ \A at \in {"sent", "answered", "refused", "taken"} :
                LET d == [c EXCEPT !.at = at]
                IN  /\ d \in Call /\ d.kind = c.kind /\ d.ship = c.ship /\ d.at = at
                    /\ d.rows = c.rows /\ d.owner = c.owner
           /\ \A owner \in {"gone", "nobody"} :
                LET d == [c EXCEPT !.owner = owner]
                IN  /\ d \in Call /\ d.kind = c.kind /\ d.ship = c.ship /\ d.at = c.at
                    /\ d.rows = c.rows /\ d.owner = owner
BY DEF Call

\* What rows say stays true.
LEMMA RowsStay ==
    ASSUME TypeOK, Grows, NEW rows \in Lists, RowsOK(ship, rows)
    PROVE  RowsOK(ship', rows)
BY DEF RowsOK, Grows, Lists

\* So does what a call means.
LEMMA CallStays ==
    ASSUME TypeOK, Grows, NEW c \in Call, CallOK(ship, c)
    PROVE  CallOK(ship', c)
<1>1. c.kind \in Kinds /\ c.rows \in Lists
  BY CallFields
<1>2. RowsOK(ship', c.rows)
  BY <1>1, RowsStay DEF CallOK
<1>3. /\ c.kind \notin Gets => c.ship \in Shipments
      /\ c.at = "taken" => c.kind = "accept"
      /\ "accept" \notin Gets /\ "pickup" \notin Gets /\ "deliver" \notin Gets
  BY DEF CallOK, Gets
<1>4. /\ c.at = "taken" => Past(ship', c.ship)
      /\ c.kind = "accept" => ship'[c.ship].status # "unpaid"
  BY <1>3 DEF CallOK, Grows
<1>5. /\ c.kind = "pickup" /\ c.at = "answered" => Mine(ship', c.ship, OnTheWay)
      /\ c.kind = "deliver" /\ c.at = "answered" => Mine(ship', c.ship, Handed)
  BY <1>3 DEF CallOK, Grows, Mine, Past, OnTheWay, Handed, Before
<1> QED
  BY <1>2, <1>3, <1>4, <1>5 DEF CallOK

-----------------------------------------------------------------------------
(* What the API does with a call *)

\* The call x has the result d, for who still waits for it.
Served(x, d) ==
    LET c == calls[x] IN
    /\ c.at = "sent" /\ c # Idle
    /\ calls' = [calls EXCEPT ![x] = IF c.owner = "nobody" THEN Idle ELSE d]
    /\ d.kind = c.kind /\ d.ship = c.ship /\ d.owner = c.owner /\ d.at # "sent"
    /\ c.owner # "nobody" => CallOK(ship', d)
    /\ \A t \in Gained : c.kind = "accept" /\ d.at = "answered" /\ t = c.ship
    /\ c.kind = "shipments" =>
          \A s \in Shipments : ship[s].driver = "me" /\ ship[s].status = "picked_up" =>
             d.rows.active[s] = "picked_up"
    /\ c.kind = "jobs" =>
          \A s \in d.rows.jobs : s \in c.rows.jobs \/ ship[s].status = "unassigned"

\* Nothing moves.
LEMMA StillGrows ==
    ASSUME TypeOK, RowsInv, OtpInv, UNCHANGED <<ship, notices>>
    PROVE  Grows /\ Gained = {}
<1>1. RowsInv' /\ OtpInv'
  BY DEF RowsInv, OtpInv
<1>2. \A s \in Shipments : ship[s].status \in Carried \cup Handed => ship[s].driver # "none"
  BY DriverFields
<1> QED
  BY <1>1, <1>2 DEF Grows, Gained, TypeOK

\* What was in progress or on offer for this driver.
LEMMA RowsFound ==
    ASSUME TypeOK, NEW c \in Call, RowsOK(ship, c.rows)
    PROVE  /\ LET mine == [s \in Shipments |-> IF ship[s].driver = "me" /\ ship[s].status \in Carried
                                               THEN ship[s].status ELSE "none"]
                  d    == [c EXCEPT !.rows.active = mine]
              IN  /\ d \in Call /\ d.kind = c.kind /\ d.ship = c.ship /\ d.at = c.at
                  /\ d.owner = c.owner /\ d.rows.active = mine /\ RowsOK(ship, d.rows)
           /\ LET jobs == {s \in Shipments : Acceptable(s)}
                  d    == [c EXCEPT !.rows.jobs = jobs]
              IN  /\ d \in Call /\ d.kind = c.kind /\ d.ship = c.ship /\ d.at = c.at
                  /\ d.owner = c.owner /\ d.rows.jobs = jobs /\ RowsOK(ship, d.rows)
<1> DEFINE mine == [s \in Shipments |-> IF ship[s].driver = "me" /\ ship[s].status \in Carried
                                        THEN ship[s].status ELSE "none"]
           jobs == {s \in Shipments : Acceptable(s)}
<1>1. /\ mine \in [Shipments -> Carried \cup {"none"}] /\ jobs \in SUBSET Shipments
      /\ \A s \in Shipments : mine[s] # "none" => Past(ship, s)
      /\ \A s \in jobs : ship[s].status # "unpaid"
  BY DEF Carried, Past, Before, Acceptable
<1> HIDE DEF mine, jobs
<1>2. LET d == [c EXCEPT !.rows.active = mine]
      IN  /\ d \in Call /\ d.kind = c.kind /\ d.ship = c.ship /\ d.at = c.at
          /\ d.owner = c.owner /\ d.rows.active = mine /\ d.rows.jobs = c.rows.jobs
  BY <1>1 DEF Call, Lists
<1>3. LET d == [c EXCEPT !.rows.jobs = jobs]
      IN  /\ d \in Call /\ d.kind = c.kind /\ d.ship = c.ship /\ d.at = c.at
          /\ d.owner = c.owner /\ d.rows.jobs = jobs /\ d.rows.active = c.rows.active
  BY <1>1 DEF Call, Lists
<1> QED
  BY <1>1, <1>2, <1>3 DEF RowsOK, mine, jobs

\* A GET finds rows, and moves nothing.
LEMMA GetEffect ==
    ASSUME DriverInv, NEW x \in Slots, LET c == calls[x] IN
              /\ c.at = "sent" /\ c # Idle
              /\ \/ c.kind = "shipments" /\ MyActiveShipments(x, c)
                 \/ c.kind = "jobs" /\ AvailableJobs(x, c)
    PROVE  Grows /\ \E d \in Call : Served(x, d)
<1> DEFINE c == calls[x]
           mine == [s \in Shipments |-> IF ship[s].driver = "me" /\ ship[s].status \in Carried
                                        THEN ship[s].status ELSE "none"]
           jobs == {s \in Shipments : Acceptable(s)}
<1>0. /\ TypeOK /\ RowsInv /\ OtpInv /\ c \in Call /\ CallOK(ship, c) /\ RowsOK(ship, c.rows)
      /\ c.owner = "screen" /\ c.kind \in Gets
  BY DriverFields DEF DriverInv, CallsInv, CallOK, Gets
<1>1. Grows /\ Gained = {} /\ ship' = ship
  BY <1>0, StillGrows DEF MyActiveShipments, AvailableJobs, Refuse
<1>2. ASSUME NEW d \in Call, NEW at \in {"answered", "refused"},
             d.kind = c.kind, d.ship = c.ship, d.owner = c.owner, RowsOK(ship, d.rows),
             Reply(x, d, at), c.kind = "shipments" => at = "answered",
             c.kind = "shipments" => d.rows.active = mine,
             c.kind = "jobs" => d.rows.jobs \in {c.rows.jobs, jobs}
      PROVE  \E e \in Call : Served(x, e)
  <2> DEFINE e == [d EXCEPT !.at = at]
  <2>1. /\ e \in Call /\ e.kind = d.kind /\ e.ship = d.ship /\ e.at = at
        /\ e.rows = d.rows /\ e.owner = d.owner
    <3>1. d \in Call /\ at \in {"sent", "answered", "refused", "taken"}
      BY <1>2
    <3> QED
      BY <3>1 DEF Call
  <2>2. calls' = [calls EXCEPT ![x] = e]
    BY <1>0, <1>2 DEF Reply
  <2>3. CallOK(ship', e)
    <3> HIDE DEF e
    <3> QED
      BY <1>0, <1>1, <1>2, <2>1 DEF CallOK, Gets
  <2>4. ASSUME c.kind = "shipments", NEW s \in Shipments,
               ship[s].driver = "me", ship[s].status = "picked_up"
        PROVE  e.rows.active[s] = "picked_up"
    <3>1. e.rows.active = mine /\ mine[s] = "picked_up"
      BY <1>2, <2>1, <2>4 DEF Carried
    <3> QED
      BY <3>1
  <2>5. ASSUME c.kind = "jobs", NEW s \in e.rows.jobs
        PROVE  s \in c.rows.jobs \/ ship[s].status = "unassigned"
    <3>1. e.rows.jobs \in {c.rows.jobs, jobs}
      BY <1>2, <2>1, <2>5
    <3> QED
      BY <2>5, <3>1 DEF Acceptable
  <2> HIDE DEF e
  <2> QED
    BY <1>0, <1>1, <1>2, <2>1, <2>2, <2>3, <2>4, <2>5 DEF Served
<1>3. CASE c.kind = "shipments"
  <2> DEFINE d == [c EXCEPT !.rows.active = mine]
  <2>1. Reply(x, d, "answered")
    BY <1>3 DEF MyActiveShipments
  <2>2. /\ d \in Call /\ d.kind = c.kind /\ d.ship = c.ship /\ d.owner = c.owner
        /\ d.rows.active = mine /\ RowsOK(ship, d.rows)
    BY <1>0, RowsFound
  <2> HIDE DEF d, mine
  <2> QED
    BY <1>1, <1>2, <1>3, <2>1, <2>2
<1>4. CASE c.kind = "jobs"
  <2>1. CASE Reply(x, c, "refused")
    BY <1>0, <1>1, <1>2, <1>4, <2>1
  <2>2. CASE Reply(x, [c EXCEPT !.rows.jobs = jobs], "answered")
    <3> DEFINE d == [c EXCEPT !.rows.jobs = jobs]
    <3>1. /\ d \in Call /\ d.kind = c.kind /\ d.ship = c.ship /\ d.owner = c.owner
          /\ d.rows.jobs = jobs /\ RowsOK(ship, d.rows)
      BY <1>0, RowsFound
    <3>2. Reply(x, d, "answered")
      BY <2>2
    <3> HIDE DEF d, jobs
    <3> QED
      BY <1>1, <1>2, <1>4, <3>1, <3>2
  <2> QED
    BY <1>4, <2>1, <2>2 DEF AvailableJobs, Refuse
<1> QED
  BY <1>0, <1>1, <1>3, <1>4 DEF Gets

\* The result of a POST.
LEMMA PostReplied ==
    ASSUME TypeOK, CallsInv, Grows, NEW x \in Slots, LET c == calls[x] IN c.at = "sent" /\ c # Idle,
           NEW at \in {"answered", "refused", "taken"}, Reply(x, calls[x], at),
           calls[x].kind \in {"accept", "pickup", "deliver"},
           \A t \in Gained : calls[x].kind = "accept" /\ at = "answered" /\ t = calls[x].ship,
           at = "taken" => calls[x].kind = "accept" /\ Past(ship', calls[x].ship),
           calls[x].kind = "pickup" /\ at = "answered" => Mine(ship', calls[x].ship, OnTheWay),
           calls[x].kind = "deliver" /\ at = "answered" => Mine(ship', calls[x].ship, Handed)
    PROVE  \E d \in Call : Served(x, d)
<1> DEFINE c == calls[x]
           d == [c EXCEPT !.at = at]
<1>0. c \in Call /\ c.at = "sent" /\ c # Idle /\ CallOK(ship, c)
  BY DriverFields DEF CallsInv
<1>1. CallOK(ship', c)
  BY <1>0, CallStays
<1>2. /\ d \in Call /\ d.kind = c.kind /\ d.ship = c.ship /\ d.at = at
      /\ d.rows = c.rows /\ d.owner = c.owner
  BY <1>0 DEF Call
<1>3. calls' = [calls EXCEPT ![x] = IF c.owner = "nobody" THEN Idle ELSE d]
  BY DEF Reply
<1>4. c.kind \notin Gets
  BY DEF Gets
<1>5. c.owner # "nobody" => CallOK(ship', d)
  <2> HIDE DEF d
  <2> QED
    BY <1>1, <1>2, <1>4 DEF CallOK
<1> HIDE DEF d
<1> QED
  BY <1>0, <1>2, <1>3, <1>4, <1>5 DEF Served, Gets

\* The API refuses a POST, or carries it out.
LEMMA PostEffect ==
    ASSUME DriverInv, NEW x \in Slots, calls[x].at = "sent", calls[x] # Idle,
           \/ calls[x].kind = "accept" /\ AcceptJob(x, calls[x])
           \/ /\ calls[x].kind = "pickup"
              /\ \/ /\ MarkPickedUp(calls[x].ship, "me", calls[x].code)
                    /\ Reply(x, calls[x], "answered")
                 \/ Refuse(x, calls[x], "refused")
           \/ /\ calls[x].kind = "deliver"
              /\ \/ /\ MarkDelivered(calls[x].ship, "me", calls[x].code)
                    /\ Reply(x, calls[x], "answered")
                 \/ Refuse(x, calls[x], "refused")
    PROVE  Grows /\ \E d \in Call : Served(x, d)
<1> DEFINE c == calls[x]
           s == c.ship
<1>0. /\ TypeOK /\ RowsInv /\ OtpInv /\ CallsInv /\ c \in Call /\ CallOK(ship, c)
      /\ c.kind \notin Gets /\ s \in Shipments
  BY DriverFields DEF DriverInv, CallsInv, CallOK, Gets
<1>1. ASSUME Refuse(x, c, "refused")
      PROVE  Grows /\ \E d \in Call : Served(x, d)
  <2>1. Grows /\ Gained = {}
    BY <1>0, <1>1, StillGrows DEF Refuse
  <2> QED
    BY <1>0, <1>1, <2>1, PostReplied DEF Refuse
<1>2. ASSUME c.kind = "accept", ~Acceptable(s), Refuse(x, c, "taken")
      PROVE  Grows /\ \E d \in Call : Served(x, d)
  <2>1. Grows /\ Gained = {}
    BY <1>0, <1>2, StillGrows DEF Refuse
  <2>2. Past(ship', s)
    BY <1>0, <1>2 DEF CallOK, Acceptable, Past, Before, Refuse
  <2> QED
    BY <1>0, <1>2, <2>1, <2>2, PostReplied DEF Refuse
<1>3. ASSUME c.kind = "accept", Accept(s, "me"), Reply(x, c, "answered")
      PROVE  Grows /\ \E d \in Call : Served(x, d)
  <2>1. Grows /\ \A t \in Gained : t = s
    BY <1>0, <1>3, RowEffect
  <2> QED
    BY <1>0, <1>3, <2>1, PostReplied
<1>4. ASSUME c.kind = "pickup", MarkPickedUp(s, "me", c.code), Reply(x, c, "answered")
      PROVE  Grows /\ \E d \in Call : Served(x, d)
  <2>1. Grows /\ \A t \in Gained : Accept(s, "me")
    BY <1>0, <1>4, RowEffect
  <2>2. ship[s].status = "assigned" /\ ship' = [ship EXCEPT ![s] = [status |-> "picked_up", driver |-> "me"]]
    BY <1>4 DEF MarkPickedUp, Collectable, Moves
  <2>3. Mine(ship', s, OnTheWay)
    BY <1>0, <2>2 DEF TypeOK, Mine, OnTheWay
  <2>4. Gained = {}
    BY <2>1, <2>2 DEF Accept, Acceptable, Gained
  <2> QED
    BY <1>0, <1>4, <2>1, <2>3, <2>4, PostReplied
<1>5. ASSUME c.kind = "deliver", MarkDelivered(s, "me", c.code), Reply(x, c, "answered")
      PROVE  Grows /\ \E d \in Call : Served(x, d)
  <2>1. Grows /\ \A t \in Gained : Accept(s, "me")
    BY <1>0, <1>5, RowEffect
  <2>2. ship[s].status = "picked_up" /\ ship' = [ship EXCEPT ![s] = [status |-> "delivered", driver |-> "me"]]
    BY <1>5 DEF MarkDelivered, Deliverable, Moves
  <2>3. Mine(ship', s, Handed)
    BY <1>0, <2>2 DEF TypeOK, Mine, Handed
  <2>4. Gained = {}
    BY <2>1, <2>2 DEF Accept, Acceptable, Gained
  <2> QED
    BY <1>0, <1>5, <2>1, <2>3, <2>4, PostReplied
<1> QED
  BY <1>1, <1>2, <1>3, <1>4, <1>5 DEF AcceptJob

\* The API serves a call.
LEMMA ServeEffect ==
    ASSUME DriverInv, NEW x \in Slots, Serve(x)
    PROVE  /\ Grows /\ UNCHANGED <<stack, lists, waiting, told>>
           /\ \E d \in Call : Served(x, d)
<1>1. calls[x].at = "sent" /\ calls[x] # Idle /\ UNCHANGED <<stack, lists, waiting, told>>
  BY DEF Serve, phone
<1>2. CASE \/ calls[x].kind = "shipments" /\ MyActiveShipments(x, calls[x])
           \/ calls[x].kind = "jobs" /\ AvailableJobs(x, calls[x])
  BY <1>1, <1>2, GetEffect
<1>3. CASE \/ calls[x].kind = "accept" /\ AcceptJob(x, calls[x])
           \/ /\ calls[x].kind = "pickup"
              /\ \/ /\ MarkPickedUp(calls[x].ship, "me", calls[x].code)
                    /\ Reply(x, calls[x], "answered")
                 \/ Refuse(x, calls[x], "refused")
           \/ /\ calls[x].kind = "deliver"
              /\ \/ /\ MarkDelivered(calls[x].ship, "me", calls[x].code)
                    /\ Reply(x, calls[x], "answered")
                 \/ Refuse(x, calls[x], "refused")
  BY <1>1, <1>3, PostEffect
<1> QED
  BY <1>1, <1>2, <1>3 DEF Serve

-----------------------------------------------------------------------------
(* Screens *)

\* What is on a screen.
LEMMA ScreenFacts ==
    ASSUME NEW e \in Screens
    PROVE  /\ e[1] \in {"home", "jobs", "job"}
           /\ e[1] = "home" => e = <<"home">>
           /\ e[1] = "job" => e[2] \in Shipments /\ e[3] \in Carried
BY DEF Screens

\* A stack with one more, one less, or another on top.
LEMMA StackFacts ==
    ASSUME NEW st \in Seq(Screens), Len(st) > 0
    PROVE  /\ st[1] \in Screens /\ st[Len(st)] \in Screens /\ Top(st) \in {"home", "jobs", "job"}
           /\ \A e \in Screens :
                /\ Append(st, e) \in Seq(Screens) /\ Len(Append(st, e)) = Len(st) + 1
                /\ Top(Append(st, e)) = e[1] /\ Append(st, e)[1] = st[1]
           /\ Len(st) > 1 =>
                LET below == SubSeq(st, 1, Len(st) - 1)
                IN  below \in Seq(Screens) /\ Len(below) = Len(st) - 1 /\ below[1] = st[1]
           /\ Replaced(st) \in Seq(Screens) /\ Len(Replaced(st)) = Len(st)
           /\ Top(Replaced(st)) = "jobs" /\ (Len(st) > 1 => Replaced(st)[1] = st[1])
<1>1. st[1] \in Screens /\ st[Len(st)] \in Screens
  OBVIOUS
<1>2. Top(st) \in {"home", "jobs", "job"}
  BY <1>1, ScreenFacts DEF Top
<1>3. ASSUME NEW e \in Screens
      PROVE  /\ Append(st, e) \in Seq(Screens) /\ Len(Append(st, e)) = Len(st) + 1
             /\ Top(Append(st, e)) = e[1] /\ Append(st, e)[1] = st[1]
  BY DEF Top
<1> DEFINE below == SubSeq(st, 1, Len(st) - 1)
<1>4. /\ below \in Seq(Screens) /\ Len(below) = Len(st) - 1
      /\ Len(st) > 1 => below[1] = st[1]
  <2> DEFINE n == Len(st) - 1
  <2>1. n \in Nat /\ 1 \in Int /\ n \in Int /\ \A i \in 1 .. n : st[i] \in Screens
    OBVIOUS
  <2>2. Len(st) > 1 => 1 \in 1 .. n
    OBVIOUS
  <2> HIDE DEF n
  <2>3. /\ SubSeq(st, 1, n) \in Seq(Screens) /\ Len(SubSeq(st, 1, n)) = IF 1 <= n THEN n - 1 + 1 ELSE 0
        /\ \A i \in 1 .. n - 1 + 1 : SubSeq(st, 1, n)[i] = st[1 + i - 1]
    BY <2>1, SubSeqProperties
  <2>4. Len(SubSeq(st, 1, n)) = n
    BY <2>1, <2>3
  <2>5. Len(st) > 1 => SubSeq(st, 1, n)[1] = st[1]
    BY <2>1, <2>2, <2>3
  <2>6. below = SubSeq(st, 1, n)
    BY DEF n
  <2> HIDE DEF below
  <2>7. below \in Seq(Screens) /\ Len(below) = n /\ (Len(st) > 1 => below[1] = st[1])
    BY <2>3, <2>4, <2>5, <2>6
  <2> QED
    BY <2>7 DEF n
<1>5. Replaced(st) = below \o << <<"jobs">> >>
  BY DEF Replaced
<1> HIDE DEF below
<1>6. <<"jobs">> \in Screens /\ << <<"jobs">> >> \in Seq(Screens)
  BY DEF Screens
<1>7. /\ Replaced(st) \in Seq(Screens) /\ Len(Replaced(st)) = Len(st)
      /\ Replaced(st)[Len(st)] = <<"jobs">>
      /\ Len(st) > 1 => Replaced(st)[1] = below[1]
  BY <1>4, <1>5, <1>6
<1>8. Top(Replaced(st)) = "jobs"
  BY <1>7 DEF Top
<1> QED
  BY <1>1, <1>2, <1>3, <1>4, <1>7, <1>8 DEF below

-----------------------------------------------------------------------------
(* What the phone does *)

\* The call x of load ends, with rows or with none.
LoadStep(x, rows) ==
    LET c == calls[x] IN
    /\ c.kind \in Gets /\ c.owner = "screen" /\ rows \in Lists
    /\ rows = Empty \/ (rows = c.rows /\ c.at = "answered")
    /\ hazards = {} /\ c.kind = "shipments" => rows = c.rows /\ c.at = "answered"
    /\ Loaded(x, c.kind, rows)

\* The call x of accept or act ends, or is given up; the screen stays.
PostStep(x, d) ==
    LET c == calls[x] IN
    /\ c.kind \in {"accept", "pickup", "deliver"} /\ c.owner # "nobody"
    /\ calls' = [calls EXCEPT ![x] = d]
    /\ \/ d = Idle
       \/ d = [c EXCEPT !.owner = "nobody"] /\ c.at = "sent" /\ hazards # {}
       \/ d = Load /\ c.kind = "accept" /\ c.at = "answered" /\ c.owner = "screen"
    /\ hazards = {} /\ c.kind = "accept" /\ c.at = "answered" /\ c.owner = "screen" => d = Load
    /\ waiting' = WaitingAfter(c)
    /\ told' \in {told, told \cup {<<"taken", c.ship>>}} /\ (told' # told => c.at = "taken")
    /\ UNCHANGED <<stack, lists>>

\* The screen on top sends the call d.
SendStep(x, d) ==
    /\ calls[x] = Idle /\ calls' = [calls EXCEPT ![x] = d]
    /\ d \in Call /\ d.at = "sent" /\ d.rows = Empty /\ d.owner = "screen" /\ d.kind # "jobs"
    /\ d.kind \notin Gets => d.ship \in Shipments
    /\ d.kind = "accept" => d.ship \in lists.jobs
    /\ Top(stack) = ScreenOf(d.kind) /\ Ready
    /\ waiting' = (d.kind \in {"pickup", "deliver"})
    /\ UNCHANGED <<stack, lists, told>>

\* Another stack of screens is shown, which may end a call of act.
ShowStep(cs, st) ==
    /\ cs \in [Slots -> Call] /\ st \in Seq(Screens) /\ Len(st) \in 1 .. Depth
    /\ Show(cs, st)
    /\ \A y \in Slots :
          \/ cs[y] = calls[y]
          \/ cs[y] = Idle /\ calls[y].kind \in {"pickup", "deliver"} /\ Top(st) = "jobs"
    /\ "impatient" \notin hazards =>
          st[1] = <<"home">> /\ \A y \in Slots : cs[y].owner = "nobody"
    /\ told \subseteq told'
    /\ \A f \in told' \ told : \E y \in Slots :
          /\ calls[y].at = "answered"
          /\ \/ calls[y].kind = "pickup" /\ f = <<"picked_up", calls[y].ship>>
             \/ calls[y].kind = "deliver" /\ f = <<"delivered", calls[y].ship>>
    /\ hazards = {} /\ told' # told => Top(stack) = "job" /\ Top(st) = "jobs"

\* What becomes of the call c of a screen that is left.
Quits(c, e) ==
    \/ e = Idle
    \/ e = c /\ c.owner # "screen"
    \/ e = [c EXCEPT !.owner = "gone"] /\ c.owner = "screen" /\ c.kind \notin Gets

\* Either the screen on top stays as it is, or it is mounted and loads.
Mounted(cs, top) ==
    /\ lists' = Empty /\ waiting' = (top = "jobs")
    /\ calls' \in [Slots -> Call]
    /\ \A y \in Slots : Quits(cs[y], calls'[y]) \/ (calls'[y] = Load /\ top = "jobs")
    /\ top = "jobs" => \E x \in Slots : calls'[x] = Load /\ \A y \in Slots \ {x} : calls'[y].owner # "screen"

\* Show does one of the two.
LEMMA ShowEffect ==
    ASSUME NEW cs \in [Slots -> Call], NEW st, Show(cs, st)
    PROVE  /\ stack' = st
           /\ \/ Top(st) = Top(stack) /\ calls' = cs /\ UNCHANGED <<lists, waiting>>
              \/ Top(st) # Top(stack) /\ Mounted(cs, Top(st))
<1> DEFINE ab == Abandoned(cs)
<1>1. ASSUME NEW y \in Slots
      PROVE  ab[y] \in Call /\ Quits(cs[y], ab[y]) /\ ab[y].owner # "screen"
  <2> DEFINE e == [cs[y] EXCEPT !.owner = "gone"]
  <2>1. /\ ab[y] = IF cs[y].owner # "screen" THEN cs[y]
                   ELSE IF cs[y].kind \in Gets THEN Idle ELSE e
        /\ e \in Call /\ e.owner = "gone"
    BY DEF Abandoned, Call
  <2> QED
    BY <2>1, Sending DEF Quits
<1>2. ab \in [Slots -> Call]
  BY <1>1 DEF Abandoned
<1>3. stack' = st
  BY DEF Show
<1>4. CASE Top(st) = Top(stack)
  BY <1>3, <1>4 DEF Show
<1>5. CASE Top(st) # Top(stack)
  <2>1. lists' = Empty /\ waiting' = (Top(st) = "jobs")
    BY <1>5 DEF Show
  <2>2. CASE Top(st) = "jobs"
    <3>1. PICK x \in Slots : calls' = [ab EXCEPT ![x] = Load]
      BY <1>5, <2>2 DEF Show, Free
    <3> HIDE DEF ab
    <3>2. Load \in Call
      BY Sending DEF Gets
    <3>3. /\ calls' \in [Slots -> Call] /\ calls'[x] = Load
          /\ \A y \in Slots \ {x} : calls'[y] = ab[y]
      BY <1>2, <3>1, <3>2
    <3> QED
      BY <1>1, <1>3, <1>5, <2>1, <2>2, <3>3 DEF Mounted
  <2>3. CASE Top(st) # "jobs"
    BY <1>1, <1>2, <1>3, <1>5, <2>1, <2>3 DEF Show, Mounted
  <2> QED
    BY <2>2, <2>3
<1> QED
  BY <1>4, <1>5

\* What is known of a call whose end the phone waits for.
LEMMA WaitedFor ==
    ASSUME DriverInv, NEW x \in Slots
    PROVE  LET c == calls[x]
           IN  /\ c \in Call /\ CallOK(ship, c) /\ c.kind \in Kinds /\ c.rows \in Lists
               /\ c.kind \in Gets /\ c.owner # "nobody" => c.owner = "screen"
               /\ c.at \in {"answered", "refused", "taken"} => c.owner # "nobody"
               /\ c.at \in {"refused", "taken"} => c.kind # "shipments"
               /\ c.at = "taken" => c.kind = "accept"
<1> DEFINE c == calls[x]
<1>1. c \in Call /\ CallOK(ship, c) /\ c.kind \in Kinds /\ c.rows \in Lists
  BY DriverFields, CallFields DEF DriverInv, CallsInv
<1> QED
  BY <1>1, Sending DEF CallOK

\* A call of load ends.
LEMMA LoadEffect ==
    ASSUME DriverInv, NEW x \in Slots, calls[x].kind \in Gets, calls[x].owner = "screen",
           NEW rows, Loaded(x, calls[x].kind, rows),
           \/ rows = Empty /\ (hazards # {} \/ calls[x].kind # "shipments")
           \/ rows = calls[x].rows /\ calls[x].at = "answered"
    PROVE  LoadStep(x, rows)
BY WaitedFor, Sending DEF LoadStep

\* A call of act was a success.
LEMMA ActedEffect ==
    ASSUME DriverInv, NEW x \in Slots, calls[x].at = "answered", calls[x].owner # "nobody",
           calls[x].kind \in {"pickup", "deliver"}, Acted(x, calls[x])
    PROVE  \E cs, st : ShowStep(cs, st)
<1> DEFINE c == calls[x]
           cs == [calls EXCEPT ![x] = Idle]
           st == Replaced(stack)
<1>0. /\ TypeOK /\ ScreenInv /\ PatientInv /\ stack \in Seq(Screens) /\ Len(stack) \in 1 .. Depth
      /\ Len(stack) \in Nat /\ Len(stack) # 0 /\ Idle \in Call /\ Idle.owner = "nobody"
  BY Sending, DriverAppAssumption DEF DriverInv, TypeOK
<1>1. /\ st \in Seq(Screens) /\ Len(st) = Len(stack) /\ Top(st) = "jobs"
      /\ Len(stack) > 1 => st[1] = stack[1]
  BY <1>0, StackFacts
<1>2. /\ cs \in [Slots -> Call] /\ cs[x] = Idle
      /\ \A y \in Slots \ {x} : cs[y] = calls[y]
  BY <1>0 DEF TypeOK
<1>3. Show(cs, st)
  BY DEF Acted
<1>4. told' = told \cup {<<IF c.kind = "pickup" THEN "picked_up" ELSE "delivered", c.ship>>}
  BY DEF Acted
<1> HIDE DEF cs, st
<1>5. ASSUME "impatient" \notin hazards
      PROVE  /\ Top(stack) = "job" /\ st[1] = <<"home">>
             /\ \A y \in Slots : cs[y].owner = "nobody"
  <2>1. c.owner = "screen" /\ c \in Call
    BY <1>0, <1>5, DriverFields, CallFields DEF PatientInv
  <2>2. Top(stack) = "job" /\ stack[1] = <<"home">>
    BY <1>0, <1>5, <2>1 DEF ScreenInv, ScreenOf, PatientInv
  <2>3. Len(stack) # 1
    <3>1. <<"home">>[1] = "home"
      OBVIOUS
    <3> QED
      BY <2>2, <3>1 DEF Top
  <2>4. ASSUME NEW y \in Slots \ {x}
        PROVE  calls[y].owner = "nobody"
    <3>1. calls[y].owner \in {"screen", "gone", "nobody"}
      BY <1>0, DriverFields, CallFields
    <3> QED
      BY <1>0, <1>5, <2>1, <3>1 DEF PatientInv
  <2>5. Len(stack) > 1
    <3>1. \A n \in Nat : n # 0 /\ n # 1 => n > 1
      OBVIOUS
    <3> QED
      BY <1>0, <2>3, <3>1
  <2> QED
    BY <1>0, <1>1, <1>2, <2>2, <2>4, <2>5
<1>6. \A y \in Slots :
         \/ cs[y] = calls[y]
         \/ cs[y] = Idle /\ calls[y].kind \in {"pickup", "deliver"} /\ Top(st) = "jobs"
  BY <1>1, <1>2
<1>7. told \subseteq told' /\ \A f \in told' \ told : \E y \in Slots :
         /\ calls[y].at = "answered"
         /\ \/ calls[y].kind = "pickup" /\ f = <<"picked_up", calls[y].ship>>
            \/ calls[y].kind = "deliver" /\ f = <<"delivered", calls[y].ship>>
  BY <1>4
<1>8. Len(st) \in 1 .. Depth
  BY <1>0, <1>1
<1> QED
  BY <1>1, <1>2, <1>3, <1>5, <1>6, <1>7, <1>8 DEF ShowStep

\* A result of the API.
LEMMA ResumeEffect ==
    ASSUME DriverInv, NEW x \in Slots, Resume(x)
    PROVE  \/ \E rows : LoadStep(x, rows)
           \/ \E d : PostStep(x, d)
           \/ \E cs, st : ShowStep(cs, st)
<1> DEFINE c == calls[x]
<1>0. c.at = "answered" /\ c.owner # "nobody" /\ waiting \in BOOLEAN
  BY DEF Resume, DriverInv, TypeOK
<1>1. CASE c.kind \in Gets /\ Loaded(x, c.kind, c.rows)
  BY <1>0, <1>1, WaitedFor, LoadEffect
<1>2. CASE c.kind = "accept" /\ Accepted(x, c)
  <2> DEFINE d == IF c.owner = "screen" THEN Load ELSE Idle
  <2>1. calls' = [calls EXCEPT ![x] = d]
    BY <1>2 DEF Accepted
  <2>2. WaitingAfter(c) = waiting
    BY <1>0, <1>2 DEF WaitingAfter
  <2>3. PostStep(x, d)
    BY <1>0, <1>2, <2>1, <2>2 DEF PostStep, Accepted, phone
  <2> QED
    BY <2>3
<1>3. CASE c.kind \in {"pickup", "deliver"} /\ Acted(x, c)
  BY <1>0, <1>3, ActedEffect
<1> QED
  BY <1>1, <1>2, <1>3 DEF Resume

\* A refusal, or no answer.
LEMMA CaughtEffect ==
    ASSUME DriverInv, NEW x \in Slots, ReceiveRefusal(x) \/ Lose(x)
    PROVE  \/ \E rows : LoadStep(x, rows)
           \/ \E d : PostStep(x, d)
<1> DEFINE c == calls[x]
           sent == [c EXCEPT !.at = "sent"]
           late == [c EXCEPT !.owner = "nobody"]
<1>0. /\ c \in Call /\ c.kind \in Kinds /\ sent.kind = c.kind /\ sent.owner = c.owner
      /\ sent.at = "sent" /\ sent.ship = c.ship
  BY WaitedFor, CallWith
<1>1. ASSUME NEW e \in {c, sent}, NEW d, c.owner # "nobody",
             Catch(x, e, [calls EXCEPT ![x] = d]),
             \/ d = Idle /\ (hazards # {} \/ e.at \in {"refused", "taken"})
             \/ d = late /\ e.at = "sent" /\ c.at = "sent" /\ hazards # {} /\ c.kind \notin Gets,
             e = c \/ hazards # {}, e.at \in {"refused", "taken"} => c.at = e.at
      PROVE  \/ \E rows : LoadStep(x, rows)
             \/ \E q : PostStep(x, q)
  <2>0. e.kind = c.kind /\ e.owner = c.owner /\ e.ship = c.ship
    BY <1>0, <1>1
  <2> HIDE DEF sent
  <2>1. CASE e.kind \in Gets /\ Loaded(x, e.kind, Empty)
    <3>1. c.owner = "screen" /\ (hazards # {} \/ c.kind # "shipments")
      BY <1>1, <2>0, <2>1, WaitedFor
    <3> QED
      BY <2>0, <2>1, <3>1, LoadEffect
  <2>2. CASE /\ e.kind \notin Gets
             /\ calls' = [calls EXCEPT ![x] = d]
             /\ waiting' = WaitingAfter(e)
             /\ told' = IF e.at = "taken" THEN told \cup {<<"taken", e.ship>>} ELSE told
             /\ UNCHANGED <<stack, lists>>
    <3>1. c.kind \in {"accept", "pickup", "deliver"}
      BY <1>0, <2>0, <2>2 DEF Kinds
    <3>2. waiting' = WaitingAfter(c)
      BY <2>0, <2>2 DEF WaitingAfter
    <3>3. /\ told' \in {told, told \cup {<<"taken", c.ship>>}}
          /\ told' # told => c.at = "taken"
      BY <1>1, <2>0, <2>2
    <3>4. hazards = {} => c.at # "answered"
      BY <1>1
    <3> QED
      BY <1>1, <2>2, <3>1, <3>2, <3>3, <3>4 DEF PostStep
  <2> QED
    BY <1>1, <2>1, <2>2 DEF Catch
<1>2. CASE ReceiveRefusal(x)
  <2>1. c.at \in {"refused", "taken"} /\ Catch(x, c, [calls EXCEPT ![x] = Idle])
    BY <1>2 DEF ReceiveRefusal
  <2>2. c.owner # "nobody"
    BY <2>1, WaitedFor
  <2> QED
    BY <1>1, <2>1, <2>2
<1>3. CASE Lose(x)
  <2>0. hazards # {} /\ c.owner # "nobody"
    BY <1>3 DEF Lose
  <2>1. CASE Catch(x, sent, [calls EXCEPT ![x] = Idle])
    <3>1. sent.at \notin {"refused", "taken"}
      BY <1>0
    <3> HIDE DEF sent
    <3> QED
      BY <1>1, <2>0, <2>1, <3>1
  <2>2. CASE /\ c.at = "sent" /\ c.kind \notin Gets
             /\ Catch(x, c, [calls EXCEPT ![x].owner = "nobody"])
    <3>1. [calls EXCEPT ![x].owner = "nobody"] = [calls EXCEPT ![x] = late]
      OBVIOUS
    <3>2. Catch(x, c, [calls EXCEPT ![x] = late])
      BY <2>2, <3>1
    <3> QED
      BY <1>1, <2>0, <2>2, <3>2
  <2> QED
    BY <1>3, <2>1, <2>2 DEF Lose
<1> QED
  BY <1>2, <1>3

\* A tap that shows another screen.
LEMMA NavigateEffect ==
    ASSUME DriverInv, Ready, NEW st \in Seq(Screens), Len(st) \in 1 .. Depth, st[1] = stack[1],
           Show(calls, st), told' = told
    PROVE  ShowStep(calls, st)
<1>1. calls \in [Slots -> Call] /\ PatientInv
  BY DEF DriverInv, TypeOK
<1>2. "impatient" \notin hazards => \A y \in Slots : calls[y].owner = "nobody"
  BY DEF Ready
<1> QED
  BY <1>1, <1>2 DEF ShowStep, PatientInv

\* What the driver taps.
LEMMA DriverEffect ==
    ASSUME DriverInv, Driver
    PROVE  \/ \E x \in Slots : \E d : SendStep(x, d)
           \/ \E cs, st : ShowStep(cs, st)
<1>0. /\ Ready /\ TypeOK /\ stack \in Seq(Screens) /\ Len(stack) \in 1 .. Depth /\ Len(stack) \in Nat
      /\ Len(stack) > 0 /\ waiting \in BOOLEAN /\ Depth \in Nat
      /\ lists.active \in [Shipments -> Carried \cup {"none"}] /\ lists.jobs \subseteq Shipments
  BY DriverAppAssumption, DriverFields DEF Driver, DriverInv, TypeOK
<1>1. ASSUME NEW e \in Screens, Len(stack) < Depth, Show(calls, Append(stack, e)), told' = told
      PROVE  \E cs, st : ShowStep(cs, st)
  <2> DEFINE st == Append(stack, e)
  <2>1. st \in Seq(Screens) /\ Len(st) = Len(stack) + 1 /\ st[1] = stack[1]
    BY <1>0, StackFacts
  <2>2. Len(st) \in 1 .. Depth
    BY <1>0, <1>1, <2>1
  <2> QED
    BY <1>0, <1>1, <2>1, <2>2, NavigateEffect
<1>2. ASSUME NEW kind \in Kinds, NEW s \in Shipments \cup {NoShipment}, NEW code \in Codes \cup {NoCode},
             NEW x \in Free(calls), calls' = [calls EXCEPT ![x] = Send(kind, s, code)],
             kind # "jobs", kind \notin Gets => s \in Shipments,
             kind = "accept" => s \in lists.jobs, Top(stack) = ScreenOf(kind),
             waiting' = (kind \in {"pickup", "deliver"}), UNCHANGED <<stack, lists, told>>
      PROVE  \E y \in Slots : \E d : SendStep(y, d)
  <2> DEFINE d == Send(kind, s, code)
  <2>1. d \in Call /\ d.kind = kind /\ d.ship = s /\ d.at = "sent" /\ d.rows = Empty /\ d.owner = "screen"
    BY Sending
  <2>2. calls[x] = Idle /\ calls' = [calls EXCEPT ![x] = d] /\ x \in Slots
    BY <1>2 DEF Free
  <2> HIDE DEF d
  <2>3. SendStep(x, d)
    BY <1>0, <1>2, <2>1, <2>2 DEF SendStep
  <2> QED
    BY <2>2, <2>3
<1>3. CASE Visit
  <2>1. <<"jobs">> \in Screens
    BY DEF Screens
  <2> QED
    BY <1>1, <1>3, <2>1 DEF Visit
<1>4. CASE GoBack
  <2> DEFINE st == SubSeq(stack, 1, Len(stack) - 1)
  <2>1. st \in Seq(Screens) /\ Len(st) = Len(stack) - 1 /\ st[1] = stack[1]
    BY <1>0, <1>4, StackFacts DEF GoBack
  <2>2. Show(calls, st) /\ told' = told /\ Len(stack) > 1
    BY <1>4 DEF GoBack
  <2> HIDE DEF st
  <2>3. Len(st) \in 1 .. Depth
    BY <1>0, <2>1, <2>2
  <2> QED
    BY <1>0, <2>1, <2>2, <2>3, NavigateEffect
<1>5. ASSUME NEW s \in Shipments, Open(s)
      PROVE  \E cs, st : ShowStep(cs, st)
  <2>1. lists.active[s] \in Carried
    BY <1>0, <1>5 DEF Open
  <2>2. <<"job", s, lists.active[s]>> \in Screens
    BY <2>1 DEF Screens
  <2> QED
    BY <1>1, <1>5, <2>2 DEF Open
<1>6. ASSUME NEW s \in Shipments, TapAccept(s)
      PROVE  \E y \in Slots : \E d : SendStep(y, d)
  <2>1. PICK x \in Free(calls) : calls' = [calls EXCEPT ![x] = Send("accept", s, NoCode)]
    BY <1>6 DEF TapAccept
  <2>2. /\ Top(stack) = "jobs" /\ ~waiting /\ s \in lists.jobs
        /\ UNCHANGED <<stack, lists, waiting, told>>
    BY <1>6 DEF TapAccept, phone
  <2>3. /\ "accept" \in Kinds /\ "accept" \notin Gets /\ ScreenOf("accept") = "jobs"
        /\ NoCode \in Codes \cup {NoCode} /\ s \in Shipments \cup {NoShipment}
    BY DEF Kinds, Gets, ScreenOf
  <2>4. waiting' = ("accept" \in {"pickup", "deliver"})
    BY <1>0, <2>2
  <2> QED
    BY <1>2, <2>1, <2>2, <2>3, <2>4
<1>7. CASE Refresh
  <2>1. PICK x \in Free(calls) : calls' = [calls EXCEPT ![x] = Load]
    BY <1>7 DEF Refresh
  <2>2. Top(stack) = "jobs" /\ ~waiting /\ UNCHANGED <<stack, lists, waiting, told>>
    BY <1>7 DEF Refresh, phone
  <2>3. /\ Load \in Call /\ Load.kind = "shipments" /\ Load.at = "sent" /\ Load.rows = Empty
        /\ Load.owner = "screen" /\ Load.kind \in Gets /\ Load.kind \notin {"accept", "pickup", "deliver"}
    BY Sending DEF Gets
  <2>4. calls[x] = Idle /\ x \in Slots
    BY DEF Free
  <2>5. waiting' = (Load.kind \in {"pickup", "deliver"})
    BY <1>0, <2>2, <2>3
  <2>6. Top(stack) = ScreenOf(Load.kind)
    BY <2>2, <2>3 DEF ScreenOf
  <2>7. SendStep(x, Load)
    BY <1>0, <2>1, <2>2, <2>3, <2>4, <2>5, <2>6 DEF SendStep
  <2> QED
    BY <2>4, <2>7
<1>8. CASE Act
  <2> DEFINE s == stack[Len(stack)][2]
             kind == IF stack[Len(stack)][3] = "assigned" THEN "pickup" ELSE "deliver"
  <2>1. PICK code \in {c \in Listed : c[2] = s} \cup {NoCode}, x \in Free(calls) :
           calls' = [calls EXCEPT ![x] = Send(kind, s, code)]
    BY <1>8 DEF Act
  <2>2. Top(stack) = "job" /\ waiting' = TRUE /\ UNCHANGED <<stack, lists, told>>
    BY <1>8 DEF Act
  <2>3. s \in Shipments
    BY <1>0, <2>2, StackFacts, ScreenFacts DEF Top
  <2>4. code \in Codes \cup {NoCode}
    BY DEF Listed
  <2>5. /\ kind \in {"pickup", "deliver"} /\ kind \in Kinds /\ kind \notin Gets
        /\ kind # "jobs" /\ kind # "accept" /\ ScreenOf(kind) = "job"
    BY DEF Kinds, Gets, ScreenOf
  <2> HIDE DEF s, kind
  <2>6. waiting' = (kind \in {"pickup", "deliver"}) /\ Top(stack) = ScreenOf(kind)
    BY <2>2, <2>5
  <2>7. s \in Shipments \cup {NoShipment} /\ x \in Free(calls)
    BY <2>3
  <2>8. calls' = [calls EXCEPT ![x] = Send(kind, s, code)]
    BY <2>1
  <2> QED
    BY <1>2, <2>2, <2>3, <2>4, <2>5, <2>6, <2>7, <2>8
<1>9. \/ Visit \/ GoBack \/ Refresh \/ Act
      \/ \E s \in Shipments : Open(s) \/ TapAccept(s)
  BY DEF Driver
<1> QED
  BY <1>3, <1>4, <1>5, <1>6, <1>7, <1>8, <1>9

\* Every step is of one of these kinds, or none.
LEMMA StepKinds ==
    ASSUME DriverInv, [Next]_vars
    PROVE  /\ hazards' = hazards
           /\ \/ /\ Grows /\ UNCHANGED <<stack, lists, waiting, told>>
                 /\ \E x \in Slots, d \in Call : Served(x, d)
              \/ Grows /\ Gained = {} /\ UNCHANGED <<calls, stack, lists, waiting, told>>
              \/ /\ UNCHANGED <<ship, notices>>
                 /\ \/ \E x \in Slots : \E rows : LoadStep(x, rows)
                    \/ \E x \in Slots : \E d : PostStep(x, d)
                    \/ \E x \in Slots : \E d : SendStep(x, d)
                    \/ \E cs, st : ShowStep(cs, st)
              \/ UNCHANGED vars
<1>1. hazards' = hazards
  BY DEF Next, vars
<1>2. ASSUME NEW x \in Slots, Serve(x)
      PROVE  /\ Grows /\ UNCHANGED <<stack, lists, waiting, told>>
             /\ \E d \in Call : Served(x, d)
  BY <1>2, ServeEffect
<1>3. ASSUME NEW x \in Slots, Resume(x) \/ ReceiveRefusal(x) \/ Lose(x)
      PROVE  /\ UNCHANGED <<ship, notices>>
             /\ \/ \E rows : LoadStep(x, rows)
                \/ \E d : PostStep(x, d)
                \/ \E cs, st : ShowStep(cs, st)
  <2>1. UNCHANGED <<ship, notices>>
    BY <1>3 DEF Resume, ReceiveRefusal, Lose
  <2> QED
    BY <1>3, <2>1, ResumeEffect, CaughtEffect
<1>4. CASE Driver
  <2>1. UNCHANGED <<ship, notices>>
    BY <1>4 DEF Driver
  <2> QED
    BY <1>1, <1>4, <2>1, DriverEffect
<1>5. CASE Desk
  BY <1>1, <1>5, DeskEffect
<1> QED
  BY <1>1, <1>2, <1>3, <1>4, <1>5 DEF Next

-----------------------------------------------------------------------------
(* Every part of the invariant is kept *)

\* A call that is given up, and one that is sent, mean no more than before.
LEMMA MeansNoMore ==
    ASSUME TypeOK
    PROVE  /\ CallOK(ship, Idle) /\ \A kind \in Gets : CallOK(ship, Ask(kind))
           /\ RowsOK(ship, Empty)
           /\ \A c \in Call : CallOK(ship, c) /\ c.kind \notin Gets =>
                /\ CallOK(ship, [c EXCEPT !.owner = "gone"])
                /\ c.at = "sent" => CallOK(ship, [c EXCEPT !.owner = "nobody"])
<1>1. RowsOK(ship, Empty)
  BY Sending DEF RowsOK
<1>2. CallOK(ship, Idle)
  BY <1>1, Sending DEF CallOK, Gets
<1>3. \A kind \in Gets : CallOK(ship, Ask(kind))
  BY <1>1, Sending DEF CallOK, Gets
<1>4. ASSUME NEW c \in Call, CallOK(ship, c), c.kind \notin Gets,
             NEW owner \in {"gone", "nobody"}, owner = "nobody" => c.at = "sent"
      PROVE  CallOK(ship, [c EXCEPT !.owner = owner])
  <2> DEFINE d == [c EXCEPT !.owner = owner]
  <2>1. d.kind = c.kind /\ d.ship = c.ship /\ d.at = c.at /\ d.rows = c.rows /\ d.owner = owner
    BY DEF Call
  <2> HIDE DEF d
  <2>2. CallOK(ship, d)
    BY <1>4, <2>1 DEF CallOK
  <2> QED
    BY <2>2 DEF d
<1> QED
  BY <1>1, <1>2, <1>3, <1>4

\* What a screen's call becomes when another is shown.
LEMMA ShownCalls ==
    ASSUME DriverInv, NEW cs, NEW st, ShowStep(cs, st), NEW y \in Slots
    PROVE  /\ calls'[y] \in Call /\ CallOK(ship, calls'[y])
           /\ cs[y] \in Call /\ CallOK(ship, cs[y])
<1>1. calls[y] \in Call /\ CallOK(ship, calls[y]) /\ TypeOK
  BY WaitedFor DEF DriverInv
<1>2. cs \in [Slots -> Call] /\ cs[y] \in Call /\ CallOK(ship, cs[y])
  BY <1>1, MeansNoMore DEF ShowStep
<1>3. calls' = cs \/ Mounted(cs, Top(st))
  BY <1>2, ShowEffect DEF ShowStep
<1>4. CASE Mounted(cs, Top(st))
  <2>1. CallOK(ship, Load)
    BY <1>1, MeansNoMore, Sending DEF Gets
  <2> QED
    BY <1>1, <1>2, <1>4, <2>1, MeansNoMore DEF Mounted, Quits
<1> QED
  BY <1>2, <1>3, <1>4

\* Values stay where they belong.
LEMMA TypesKept ==
    ASSUME DriverInv, [Next]_vars
    PROVE  TypeOK'
<1>0. TypeOK /\ hazards' = hazards /\ Idle \in Call /\ Load \in Call /\ Empty \in Lists
  BY StepKinds, Sending DEF DriverInv, Gets
<1> DEFINE RowTypes ==
              /\ ship' \in [Shipments -> [status : Stages, driver : {"none", "me", "other"}]]
              /\ \A s \in Shipments : ship'[s].status \in Carried \cup {"delivered", "refunded"}
                                         => ship'[s].driver # "none"
              /\ notices' \in [Codes -> 0 .. Limit]
           PhoneTypes ==
              /\ stack' \in Seq(Screens) /\ Len(stack') \in 1 .. Depth
              /\ lists' \in Lists /\ waiting' \in BOOLEAN
              /\ told' \subseteq {"picked_up", "delivered", "taken"} \X Shipments
<1>1. Grows => RowTypes
  BY DEF Grows, Handed
<1>2. UNCHANGED <<ship, notices>> => RowTypes
  BY <1>0 DEF TypeOK
<1>3. UNCHANGED <<stack, lists, waiting, told>> => PhoneTypes
  BY <1>0 DEF TypeOK
<1> HIDE DEF RowTypes
<1>4. ASSUME NEW x \in Slots, NEW d \in Call, Served(x, d), Grows,
             UNCHANGED <<stack, lists, waiting, told>>
      PROVE  TypeOK'
  <2>1. calls' \in [Slots -> Call]
    BY <1>0, <1>4 DEF Served, TypeOK
  <2> QED
    BY <1>0, <1>1, <1>3, <1>4, <2>1 DEF TypeOK, RowTypes
<1>5. ASSUME NEW x \in Slots, NEW rows, LoadStep(x, rows)
      PROVE  PhoneTypes /\ calls' \in [Slots -> Call]
  <2>1. Ask("jobs") \in Call
    BY Sending DEF Gets
  <2>2. calls' \in [Slots -> Call] /\ UNCHANGED <<stack, told>> /\ waiting' \in BOOLEAN
    BY <1>0, <1>5, <2>1 DEF LoadStep, Loaded, LoadOrder, TypeOK
  <2>3. rows \in Lists /\ lists' \in {[lists EXCEPT !.active = rows.active], [lists EXCEPT !.jobs = rows.jobs]}
    BY <1>5 DEF LoadStep, Loaded
  <2>4. lists' \in Lists
    BY <1>0, <2>3 DEF TypeOK, Lists
  <2> QED
    BY <1>0, <2>2, <2>4 DEF TypeOK
<1>6. ASSUME NEW x \in Slots, NEW d, PostStep(x, d)
      PROVE  PhoneTypes /\ calls' \in [Slots -> Call]
  <2>1. /\ calls[x] \in Call /\ [calls[x] EXCEPT !.owner = "nobody"] \in Call
        /\ calls[x].ship \in Shipments
    BY <1>6, WaitedFor, CallWith DEF PostStep, CallOK, Gets
  <2>2. calls' \in [Slots -> Call]
    BY <1>0, <1>6, <2>1 DEF PostStep, TypeOK
  <2>3. told' \subseteq {"picked_up", "delivered", "taken"} \X Shipments
    BY <1>0, <1>6, <2>1 DEF PostStep, TypeOK
  <2>4. waiting' \in BOOLEAN /\ UNCHANGED <<stack, lists>>
    BY <1>6 DEF PostStep, WaitingAfter
  <2> QED
    BY <1>0, <2>2, <2>3, <2>4 DEF TypeOK
<1>7. ASSUME NEW x \in Slots, NEW d, SendStep(x, d)
      PROVE  PhoneTypes /\ calls' \in [Slots -> Call]
  BY <1>0, <1>7 DEF SendStep, TypeOK
<1>8. ASSUME NEW cs, NEW st, ShowStep(cs, st)
      PROVE  PhoneTypes /\ calls' \in [Slots -> Call]
  <2>1. /\ cs \in [Slots -> Call] /\ st \in Seq(Screens) /\ Len(st) \in 1 .. Depth /\ Show(cs, st)
    BY <1>8 DEF ShowStep
  <2>2. stack' = st /\ calls' \in [Slots -> Call] /\ lists' \in {lists, Empty} /\ waiting' \in {waiting, TRUE, FALSE}
    BY <2>1, ShowEffect DEF Mounted
  <2>3. \A y \in Slots : calls[y].kind \in {"pickup", "deliver"} => calls[y].ship \in Shipments
    BY WaitedFor DEF CallOK, Gets
  <2>4. told' \subseteq {"picked_up", "delivered", "taken"} \X Shipments
    BY <1>0, <1>8, <2>3 DEF ShowStep, TypeOK
  <2> QED
    BY <1>0, <2>1, <2>2, <2>4 DEF TypeOK
<1>9. PhoneTypes /\ RowTypes /\ calls' \in [Slots -> Call] => TypeOK'
  BY <1>0 DEF TypeOK, RowTypes
<1>10. CASE UNCHANGED <<calls, stack, lists, waiting, told>> /\ Grows
  <2>1. calls' \in [Slots -> Call]
    BY <1>0, <1>10 DEF TypeOK
  <2> QED
    BY <1>1, <1>3, <1>9, <1>10, <2>1
<1>11. CASE UNCHANGED vars
  BY <1>0, <1>11 DEF TypeOK, vars
<1> HIDE DEF PhoneTypes
<1> QED
  BY <1>2, <1>4, <1>5, <1>6, <1>7, <1>8, <1>9, <1>10, <1>11, StepKinds

\* Calls go on meaning what they mean.
LEMMA CallsKept ==
    ASSUME DriverInv, [Next]_vars
    PROVE  CallsInv'
<1>0. TypeOK /\ CallsInv
  BY DEF DriverInv
<1>1. SUFFICES ASSUME NEW y \in Slots
               PROVE  CallOK(ship', calls'[y])
  BY DEF CallsInv
<1>2. calls[y] \in Call /\ CallOK(ship, calls[y]) /\ calls \in [Slots -> Call]
  BY <1>0 DEF CallsInv, TypeOK
<1>3. ASSUME NEW x \in Slots, NEW d \in Call, Served(x, d), Grows
      PROVE  CallOK(ship', calls'[y])
  <2>1. CallOK(ship', calls[y]) /\ CallOK(ship', Idle)
    BY <1>0, <1>2, <1>3, CallStays, MeansNoMore, Sending
  <2>2. calls'[y] = IF y = x THEN IF calls[x].owner = "nobody" THEN Idle ELSE d ELSE calls[y]
    BY <1>2, <1>3 DEF Served
  <2>3. calls[x].owner # "nobody" => CallOK(ship', d)
    BY <1>3 DEF Served
  <2> QED
    BY <2>1, <2>2, <2>3
<1>4. CASE Grows /\ calls' = calls
  BY <1>0, <1>2, <1>4, CallStays
<1>5. ASSUME NEW x \in Slots, NEW rows, LoadStep(x, rows), ship' = ship
      PROVE  CallOK(ship', calls'[y])
  <2>1. calls' = [calls EXCEPT ![x] = IF calls[x].kind = "shipments" THEN Ask("jobs") ELSE Idle]
    BY <1>5 DEF LoadStep, Loaded, LoadOrder
  <2> QED
    BY <1>0, <1>2, <1>5, <2>1, MeansNoMore DEF Gets
<1>6. ASSUME NEW x \in Slots, NEW d, PostStep(x, d), ship' = ship
      PROVE  CallOK(ship', calls'[y])
  <2>1. calls[x] \in Call /\ CallOK(ship, calls[x]) /\ calls[x].kind \notin Gets
    BY <1>6, WaitedFor DEF PostStep, Gets
  <2>2. CallOK(ship, d)
    BY <1>0, <1>6, <2>1, MeansNoMore, Sending DEF PostStep, Gets
  <2>3. calls'[y] = IF y = x THEN d ELSE calls[y]
    BY <1>2, <1>6 DEF PostStep
  <2> QED
    BY <1>2, <1>6, <2>2, <2>3
<1>7. ASSUME NEW x \in Slots, NEW d, SendStep(x, d), ship' = ship
      PROVE  CallOK(ship', calls'[y])
  <2>1. /\ d \in Call /\ d.at = "sent" /\ d.rows = Empty /\ d.owner = "screen"
        /\ d.kind \notin Gets => d.ship \in Shipments
        /\ d.kind = "accept" => d.ship \in lists.jobs
    BY <1>7 DEF SendStep
  <2>2. \A s \in lists.jobs : ship[s].status # "unpaid"
    BY DEF DriverInv, ScreenInv, RowsOK
  <2>3. CallOK(ship, d)
    BY <1>0, <2>1, <2>2, MeansNoMore DEF CallOK
  <2>4. calls'[y] = IF y = x THEN d ELSE calls[y]
    BY <1>2, <1>7 DEF SendStep
  <2> QED
    BY <1>2, <1>7, <2>3, <2>4
<1>8. ASSUME NEW cs, NEW st, ShowStep(cs, st), ship' = ship
      PROVE  CallOK(ship', calls'[y])
  BY <1>8, ShownCalls
<1>9. CASE UNCHANGED vars
  BY <1>2, <1>9 DEF vars
<1> QED
  BY <1>3, <1>4, <1>5, <1>6, <1>7, <1>8, <1>9, StepKinds

\* Where the calls stand when one of them is served.
LEMMA ServedAt ==
    ASSUME TypeOK, NEW x \in Slots, NEW d \in Call, Served(x, d), NEW y \in Slots
    PROVE  /\ calls'[y] = IF y = x THEN IF calls[x].owner = "nobody" THEN Idle ELSE d ELSE calls[y]
           /\ calls[y].owner # "nobody" =>
                 calls'[y].owner = calls[y].owner /\ calls'[y].kind = calls[y].kind
           /\ calls[y].owner = "nobody" => calls'[y].owner = "nobody"
<1>1. calls'[y] = IF y = x THEN IF calls[x].owner = "nobody" THEN Idle ELSE d ELSE calls[y]
  BY DEF Served, TypeOK
<1> QED
  BY <1>1, Sending DEF Served

\* When load ends a call, it makes the next.
LEMMA LoadAt ==
    ASSUME TypeOK, NEW x \in Slots, NEW rows, LoadStep(x, rows)
    PROVE  /\ \A y \in Slots \ {x} : calls'[y] = calls[y]
           /\ \/ /\ calls[x].kind = "shipments" /\ calls'[x] = Ask("jobs")
                 /\ lists'.active = rows.active /\ lists'.jobs = lists.jobs /\ waiting' = waiting
              \/ /\ calls[x].kind = "jobs" /\ calls'[x] = Idle
                 /\ lists'.jobs = rows.jobs /\ lists'.active = lists.active /\ waiting' = FALSE
           /\ UNCHANGED <<stack, told>> /\ calls[x].owner = "screen"
<1>1. /\ calls' = [calls EXCEPT ![x] = IF calls[x].kind = "shipments" THEN Ask("jobs") ELSE Idle]
      /\ \/ calls[x].kind = "shipments" /\ lists' = [lists EXCEPT !.active = rows.active]
         \/ calls[x].kind = "jobs" /\ lists' = [lists EXCEPT !.jobs = rows.jobs]
      /\ waiting' = (waiting /\ calls[x].kind = "shipments")
      /\ UNCHANGED <<stack, told>> /\ calls[x].owner = "screen"
  BY DEF LoadStep, Loaded, LoadOrder
<1>2. waiting \in BOOLEAN /\ calls \in [Slots -> Call]
  BY DEF TypeOK
<1>3. lists = [active |-> lists.active, jobs |-> lists.jobs]
  BY DEF TypeOK, Lists
<1> QED
  BY <1>1, <1>2, <1>3

\* A screen waits for calls of its own, and its spinner for one that is there.
LEMMA ScreenKept ==
    ASSUME DriverInv, [Next]_vars
    PROVE  ScreenInv'
<1> DEFINE Own == \A y \in Slots : calls[y].owner = "screen" => Top(stack) = ScreenOf(calls[y].kind)
           Spins == waiting => Spinning(calls, Top(stack))
<1>0. /\ TypeOK /\ CallsInv /\ Own /\ Spins /\ RowsOK(ship, lists) /\ lists \in Lists
      /\ calls \in [Slots -> Call] /\ Idle.owner = "nobody"
      /\ \A kind \in Gets : Ask(kind).owner = "screen" /\ Ask(kind).kind = kind
  BY Sending DEF DriverInv, ScreenInv, TypeOK
<1>1. ASSUME NEW x \in Slots, NEW d \in Call, Served(x, d), Grows,
             UNCHANGED <<stack, lists, waiting, told>>
      PROVE  ScreenInv'
  <2>1. \A y \in Slots : /\ calls[y].owner # "nobody" =>
                               calls'[y].owner = calls[y].owner /\ calls'[y].kind = calls[y].kind
                         /\ calls[y].owner = "nobody" => calls'[y].owner = "nobody"
    BY <1>0, <1>1, ServedAt
  <2>2. Own'
    BY <1>0, <1>1, <2>1
  <2>3. Spins'
    BY <1>0, <1>1, <2>1 DEF Spinning
  <2>4. RowsOK(ship', lists')
    BY <1>0, <1>1, RowsStay
  <2> QED
    BY <2>2, <2>3, <2>4 DEF ScreenInv
<1>2. CASE Grows /\ UNCHANGED <<calls, stack, lists, waiting, told>>
  <2>1. RowsOK(ship', lists')
    BY <1>0, <1>2, RowsStay
  <2> QED
    BY <1>0, <1>2, <2>1 DEF ScreenInv, Spinning
<1>3. ASSUME NEW x \in Slots, NEW rows, LoadStep(x, rows), ship' = ship
      PROVE  ScreenInv'
  <2>1. /\ \A y \in Slots \ {x} : calls'[y] = calls[y]
        /\ \/ /\ calls[x].kind = "shipments" /\ calls'[x] = Ask("jobs")
              /\ lists'.active = rows.active /\ lists'.jobs = lists.jobs /\ waiting' = waiting
           \/ /\ calls[x].kind = "jobs" /\ calls'[x] = Idle
              /\ lists'.jobs = rows.jobs /\ lists'.active = lists.active /\ waiting' = FALSE
        /\ UNCHANGED <<stack, told>> /\ calls[x].owner = "screen"
    BY <1>0, <1>3, LoadAt
  <2>2. Top(stack) = "jobs"
    BY <1>0, <2>1 DEF ScreenOf
  <2>3. RowsOK(ship, rows)
    BY <1>0, <1>3, MeansNoMore DEF LoadStep, CallsInv, CallOK
  <2>4. RowsOK(ship', lists')
    BY <1>0, <1>3, <2>1, <2>3 DEF RowsOK
  <2>5. Own'
    BY <1>0, <2>1, <2>2 DEF ScreenOf, Gets
  <2>6. Spins'
    <3> SUFFICES ASSUME waiting' PROVE Spinning(calls', Top(stack'))
      OBVIOUS
    <3>1. calls'[x].owner = "screen" /\ calls'[x].kind = "jobs"
      BY <1>0, <2>1 DEF Gets
    <3> QED
      BY <2>1, <2>2, <3>1 DEF Spinning, Gets
  <2> QED
    BY <2>4, <2>5, <2>6 DEF ScreenInv
<1>4. ASSUME NEW x \in Slots, NEW d, PostStep(x, d), ship' = ship
      PROVE  ScreenInv'
  <2>1. /\ calls'[x] = d /\ \A y \in Slots \ {x} : calls'[y] = calls[y]
        /\ calls[x].kind \in {"accept", "pickup", "deliver"} /\ UNCHANGED <<stack, lists>>
        /\ waiting' = WaitingAfter(calls[x])
        /\ \/ d = Idle
           \/ d = [calls[x] EXCEPT !.owner = "nobody"]
           \/ d = Load /\ calls[x].kind = "accept" /\ calls[x].owner = "screen"
    BY <1>0, <1>4 DEF PostStep
  <2>2. d.owner = "screen" => d.kind = "shipments" /\ Top(stack) = "jobs"
    <3>1. [calls[x] EXCEPT !.owner = "nobody"].owner = "nobody"
      BY <1>0, CallWith
    <3> QED
      BY <1>0, <2>1, <3>1, Sending DEF ScreenOf, Gets
  <2>3. Own'
    BY <1>0, <2>1, <2>2 DEF ScreenOf
  <2>4. Spins'
    <3> SUFFICES ASSUME waiting' PROVE Spinning(calls', Top(stack'))
      OBVIOUS
    <3>1. waiting /\ ~(calls[x].kind \in {"pickup", "deliver"} /\ calls[x].owner = "screen")
      BY <2>1 DEF WaitingAfter
    <3>2. PICK y \in Slots : /\ calls[y].owner = "screen"
                             /\ calls[y].kind \in IF Top(stack) = "jobs" THEN Gets ELSE {"pickup", "deliver"}
      BY <1>0, <3>1 DEF Spinning
    <3>3. y # x
      BY <2>1, <3>1, <3>2 DEF Gets
    <3> QED
      BY <2>1, <3>2, <3>3 DEF Spinning
  <2> QED
    BY <1>0, <1>4, <2>1, <2>3, <2>4 DEF ScreenInv
<1>5. ASSUME NEW x \in Slots, NEW d, SendStep(x, d), ship' = ship
      PROVE  ScreenInv'
  <2>1. /\ calls'[x] = d /\ \A y \in Slots \ {x} : calls'[y] = calls[y]
        /\ d.owner = "screen" /\ Top(stack) = ScreenOf(d.kind)
        /\ waiting' = (d.kind \in {"pickup", "deliver"}) /\ UNCHANGED <<stack, lists>>
    BY <1>0, <1>5 DEF SendStep
  <2>2. Own'
    BY <1>0, <2>1
  <2>3. Spins'
    BY <2>1 DEF Spinning, ScreenOf
  <2> QED
    BY <1>0, <1>5, <2>1, <2>2, <2>3 DEF ScreenInv
<1>6. ASSUME NEW cs, NEW st, ShowStep(cs, st), ship' = ship
      PROVE  ScreenInv'
  <2>1. /\ \A y \in Slots : \/ cs[y] = calls[y]
                            \/ /\ cs[y] = Idle /\ calls[y].kind \in {"pickup", "deliver"}
                               /\ Top(st) = "jobs"
        /\ stack' = st
    BY <1>6, ShowEffect DEF ShowStep
  <2>2. CASE Top(st) = Top(stack) /\ calls' = cs /\ UNCHANGED <<lists, waiting>>
    <3>1. Own'
      BY <1>0, <2>1, <2>2
    <3>2. Spins'
      <4> SUFFICES ASSUME waiting' PROVE Spinning(calls', Top(stack'))
        OBVIOUS
      <4>1. PICK y \in Slots : /\ calls[y].owner = "screen"
                               /\ calls[y].kind \in IF Top(stack) = "jobs" THEN Gets ELSE {"pickup", "deliver"}
        BY <1>0, <2>2 DEF Spinning
      <4>2. cs[y] = calls[y]
        BY <2>1, <2>2, <4>1 DEF Gets
      <4> QED
        BY <2>1, <2>2, <4>1, <4>2 DEF Spinning
    <3> QED
      BY <1>0, <1>6, <2>2, <3>1, <3>2 DEF ScreenInv
  <2>3. CASE Mounted(cs, Top(st))
    <3>1. \A y \in Slots : calls'[y].owner = "screen" => calls'[y] = Load /\ Top(st) = "jobs"
      <4> TAKE y \in Slots
      <4>1. [cs[y] EXCEPT !.owner = "gone"].owner # "screen"
        <5>1. cs[y] \in Call
          BY <1>6, ShownCalls
        <5> QED
          BY <5>1, CallWith
      <4> QED
        BY <1>0, <2>3, <4>1 DEF Mounted, Quits
    <3>2. Load.kind = "shipments" /\ Load.owner = "screen"
      BY <1>0, Sending DEF Gets
    <3>3. Own'
      BY <2>1, <3>1, <3>2 DEF ScreenOf
    <3>4. Spins'
      BY <2>1, <2>3, <3>2 DEF Mounted, Spinning, Gets
    <3>5. RowsOK(ship', lists')
      BY <1>0, <1>6, <2>3, MeansNoMore DEF Mounted
    <3> QED
      BY <3>3, <3>4, <3>5 DEF ScreenInv
  <2> QED
    BY <1>6, <2>2, <2>3, ShowEffect DEF ShowStep
<1>7. CASE UNCHANGED vars
  BY <1>0, <1>7 DEF vars, ScreenInv, Spinning
<1> QED
  BY <1>1, <1>2, <1>3, <1>4, <1>5, <1>6, <1>7, StepKinds

\* What an alert has said stays so.
LEMMA ToldKept ==
    ASSUME DriverInv, [Next]_vars
    PROVE  ToldInv'
<1>0. TypeOK /\ CallsInv /\ ToldInv
  BY DEF DriverInv
<1>1. CASE Grows /\ told' = told
  BY <1>0, <1>1 DEF Grows, ToldInv, Mine, Past, Before, OnTheWay, Handed
<1>2. CASE UNCHANGED <<ship, told>>
  BY <1>0, <1>2 DEF ToldInv
<1>3. ASSUME NEW x \in Slots, NEW d, PostStep(x, d), ship' = ship, told' # told
      PROVE  ToldInv'
  <2> DEFINE q == calls[x].ship
  <2>1. told' = told \cup {<<"taken", q>>} /\ calls[x].at = "taken"
    BY <1>3 DEF PostStep
  <2>2. Past(ship, q)
    BY <1>0, <2>1 DEF CallsInv, CallOK
  <2> HIDE DEF q
  <2>3. ASSUME NEW s \in Shipments
        PROVE  /\ <<"picked_up", s>> \in told' => <<"picked_up", s>> \in told
               /\ <<"delivered", s>> \in told' => <<"delivered", s>> \in told
               /\ <<"taken", s>> \in told' => <<"taken", s>> \in told \/ s = q
    BY <2>1
  <2> QED
    BY <1>0, <1>3, <2>2, <2>3 DEF ToldInv
<1>4. ASSUME NEW cs, NEW st, ShowStep(cs, st), ship' = ship
      PROVE  ToldInv'
  <2>1. ASSUME NEW f \in told' \ told
        PROVE  \E y \in Slots :
                  \/ f = <<"picked_up", calls[y].ship>> /\ Mine(ship, calls[y].ship, OnTheWay)
                  \/ f = <<"delivered", calls[y].ship>> /\ Mine(ship, calls[y].ship, Handed)
    BY <1>0, <1>4, <2>1 DEF ShowStep, CallsInv, CallOK
  <2>2. ASSUME NEW s \in Shipments
        PROVE  /\ <<"picked_up", s>> \in told' \ told => Mine(ship, s, OnTheWay)
               /\ <<"delivered", s>> \in told' \ told => Mine(ship, s, Handed)
               /\ <<"taken", s>> \notin told' \ told
    BY <2>1
  <2> QED
    BY <1>0, <1>4, <2>2 DEF ToldInv
<1>5. ASSUME NEW x \in Slots, (\E rows : LoadStep(x, rows)) \/ (\E d : SendStep(x, d))
      PROVE  told' = told
  BY <1>5 DEF LoadStep, Loaded, SendStep
<1> QED
  BY <1>1, <1>2, <1>3, <1>4, <1>5, StepKinds DEF vars

\* A driver who waits has one call in flight, and finds nothing on offer that is in
\* progress.
LEMMA PatientKept ==
    ASSUME DriverInv, [Next]_vars
    PROVE  PatientInv'
<1>0. /\ TypeOK /\ PatientInv /\ hazards' = hazards /\ RowsOK(ship, lists)
      /\ Idle.owner = "nobody" /\ Empty.jobs = {}
      /\ \A kind \in Gets : /\ Ask(kind).owner = "screen" /\ Ask(kind).kind = kind
                            /\ Ask(kind).rows = Empty
      /\ Load = Ask("shipments") /\ lists.jobs \subseteq Shipments
  BY StepKinds, Sending, DriverFields DEF DriverInv, ScreenInv
<1>1. SUFFICES ASSUME "impatient" \notin hazards
               PROVE  PatientInv'
  BY <1>0 DEF PatientInv
<1> DEFINE Quiet == /\ \A y \in Slots : calls[y].owner # "gone"
                    /\ \A y, z \in Slots : calls[y].owner = "screen" /\ calls[z].owner = "screen" => y = z
           Found == \A y \in Slots : calls[y].owner = "screen" /\ calls[y].kind = "jobs" =>
                       Apart(calls[y].rows.jobs, lists.active)
           Shown == ~Loading(calls, Gets) => Apart(lists.jobs, lists.active)
<1>2. stack[1] = <<"home">> /\ Quiet /\ Found /\ Shown
  BY <1>0, <1>1 DEF PatientInv
<1>3. stack'[1] = <<"home">> /\ Quiet' /\ Found' /\ Shown' => PatientInv'
  BY DEF PatientInv
<1>4. ASSUME NEW x \in Slots, NEW d \in Call, Served(x, d), UNCHANGED <<stack, lists>>
      PROVE  PatientInv'
  <2>1. \A y \in Slots :
           /\ calls'[y] = IF y = x THEN IF calls[x].owner = "nobody" THEN Idle ELSE d ELSE calls[y]
           /\ calls[y].owner # "nobody" =>
                 calls'[y].owner = calls[y].owner /\ calls'[y].kind = calls[y].kind
           /\ calls[y].owner = "nobody" => calls'[y].owner = "nobody"
    BY <1>0, <1>4, ServedAt
  <2>2. Quiet' /\ (Loading(calls', Gets) <=> Loading(calls, Gets))
    BY <1>2, <2>1 DEF Loading
  <2>3. ASSUME NEW y \in Slots, calls'[y].owner = "screen", calls'[y].kind = "jobs"
        PROVE  Apart(calls'[y].rows.jobs, lists'.active)
    <3>1. CASE y # x
      BY <1>2, <1>4, <2>1, <2>3, <3>1
    <3>2. CASE y = x
      <4>1. calls'[x] = d /\ calls[x].owner = "screen" /\ calls[x].kind = "jobs"
        BY <1>0, <2>1, <2>3, <3>2
      <4>2. \A s \in d.rows.jobs : s \in calls[x].rows.jobs \/ ship[s].status = "unassigned"
        BY <1>4, <4>1 DEF Served
      <4>3. Apart(calls[x].rows.jobs, lists.active)
        BY <1>2, <4>1
      <4>4. d.rows.jobs \subseteq Shipments
        BY CallFields DEF Lists
      <4> QED
        BY <1>0, <1>4, <3>2, <4>1, <4>2, <4>3, <4>4 DEF Apart, RowsOK, Past, Before
    <3> QED
      BY <3>1, <3>2
  <2>4. Shown'
    BY <1>2, <1>4, <2>2
  <2> QED
    BY <1>2, <1>3, <1>4, <2>2, <2>3, <2>4
<1>5. ASSUME NEW x \in Slots, NEW rows, LoadStep(x, rows)
      PROVE  PatientInv'
  <2>1. /\ \A y \in Slots \ {x} : calls'[y] = calls[y]
        /\ \/ /\ calls[x].kind = "shipments" /\ calls'[x] = Ask("jobs")
              /\ lists'.active = rows.active /\ lists'.jobs = lists.jobs
           \/ /\ calls[x].kind = "jobs" /\ calls'[x] = Idle
              /\ lists'.jobs = rows.jobs /\ lists'.active = lists.active
        /\ stack' = stack /\ calls[x].owner = "screen"
    BY <1>0, <1>5, LoadAt
  <2>2. \A y \in Slots \ {x} : calls'[y].owner = "nobody"
    <3>1. \A y \in Slots : calls[y].owner \in {"screen", "gone", "nobody"}
      BY <1>0, DriverFields, CallFields
    <3> QED
      BY <1>2, <2>1, <3>1
  <2>3. CASE calls'[x] = Ask("jobs")
    <3>1. calls'[x].owner = "screen" /\ calls'[x].kind \in Gets /\ calls'[x].rows.jobs = {}
      BY <1>0, <2>3 DEF Gets
    <3>2. Quiet' /\ Found' /\ Loading(calls', Gets)
      BY <2>2, <3>1 DEF Loading, Apart
    <3> QED
      BY <1>2, <1>3, <2>1, <3>2
  <2>4. CASE calls[x].kind = "jobs" /\ calls'[x] = Idle
    <3>1. Quiet' /\ Found'
      BY <1>0, <2>2, <2>4
    <3>2. Apart(calls[x].rows.jobs, lists.active) /\ Apart(Empty.jobs, lists.active)
      BY <1>0, <1>2, <2>1, <2>4 DEF Apart
    <3>3. rows \in {Empty, calls[x].rows}
      BY <1>5 DEF LoadStep
    <3>4. calls[x].kind # "shipments"
      BY <2>4
    <3>5. Shown'
      BY <2>1, <3>2, <3>3, <3>4
    <3> QED
      BY <1>2, <1>3, <2>1, <3>1, <3>5
  <2> QED
    BY <2>1, <2>3, <2>4
<1>6. ASSUME NEW x \in Slots, NEW d, PostStep(x, d)
      PROVE  PatientInv'
  <2>1. /\ calls'[x] = d /\ \A y \in Slots \ {x} : calls'[y] = calls[y]
        /\ calls[x].kind \in {"accept", "pickup", "deliver"} /\ UNCHANGED <<stack, lists>>
        /\ \/ d = Idle
           \/ d = [calls[x] EXCEPT !.owner = "nobody"]
           \/ d = Load /\ calls[x].owner = "screen"
    BY <1>0, <1>6 DEF PostStep, TypeOK
  <2>2. /\ [calls[x] EXCEPT !.owner = "nobody"].owner = "nobody"
        /\ calls[x].kind \notin Gets
    BY <1>0, <2>1, DriverFields, CallWith DEF Gets
  <2>3. \/ d.owner = "nobody"
        \/ d.owner = "screen" /\ calls[x].owner = "screen" /\ d.kind = "shipments"
    BY <1>0, <2>1, <2>2 DEF Gets
  <2>4. Quiet' /\ Found'
    BY <1>2, <2>1, <2>3
  <2>5. Loading(calls, Gets) => Loading(calls', Gets)
    BY <2>1, <2>2 DEF Loading
  <2> QED
    BY <1>2, <1>3, <2>1, <2>4, <2>5
<1>7. ASSUME NEW x \in Slots, NEW d, SendStep(x, d)
      PROVE  PatientInv'
  <2>1. /\ calls'[x] = d /\ \A y \in Slots \ {x} : calls'[y] = calls[y]
        /\ d.owner = "screen" /\ d.kind # "jobs" /\ UNCHANGED <<stack, lists>>
        /\ \A y \in Slots : calls[y].owner = "nobody"
    BY <1>0, <1>1, <1>7 DEF SendStep, Ready, TypeOK
  <2>2. Quiet' /\ Found' /\ ~Loading(calls, Gets)
    BY <2>1 DEF Loading
  <2> QED
    BY <1>2, <1>3, <2>1, <2>2
<1>8. ASSUME NEW cs, NEW st, ShowStep(cs, st)
      PROVE  PatientInv'
  <2>1. /\ st[1] = <<"home">> /\ stack' = st /\ \A y \in Slots : cs[y].owner = "nobody"
        /\ \A y \in Slots : cs[y] = calls[y] \/ calls[y].kind \in {"pickup", "deliver"}
    BY <1>1, <1>8, ShowEffect DEF ShowStep
  <2>2. CASE calls' = cs /\ UNCHANGED lists
    <3>1. ~Loading(calls, Gets)
      BY <2>1 DEF Loading, Gets
    <3>2. Quiet' /\ Found'
      BY <2>1, <2>2
    <3> QED
      BY <1>2, <1>3, <2>1, <2>2, <3>1, <3>2
  <2>3. CASE Mounted(cs, Top(st))
    <3>1. \A y \in Slots : \/ calls'[y].owner = "nobody"
                           \/ calls'[y] = Load /\ Top(st) = "jobs"
      BY <1>0, <2>1, <2>3 DEF Mounted, Quits
    <3>2. Top(st) = "jobs" => \E x \in Slots : \A y \in Slots \ {x} : calls'[y].owner # "screen"
      BY <2>3 DEF Mounted
    <3>3. Load.owner = "screen" /\ Load.kind = "shipments"
      BY <1>0 DEF Gets
    <3>4. Quiet' /\ Found'
      BY <3>1, <3>2, <3>3
    <3>5. lists' = Empty
      BY <2>3 DEF Mounted
    <3>6. Shown'
      BY <1>0, <3>5 DEF Apart
    <3> QED
      BY <1>3, <2>1, <3>4, <3>6
  <2> QED
    BY <1>8, <2>2, <2>3, ShowEffect DEF ShowStep
<1>9. CASE UNCHANGED <<calls, stack, lists>>
  BY <1>2, <1>3, <1>9
<1> QED
  BY <1>4, <1>5, <1>6, <1>7, <1>8, <1>9, StepKinds DEF vars

\* When nothing goes wrong the others of a call are idle, and so are all when the
\* phone is ready for a tap.
LEMMA OthersIdle ==
    ASSUME DriverInv, hazards = {}
    PROVE  /\ \A x \in Slots : calls[x] = Idle \/ calls[x].owner = "screen"
           /\ \A x \in Slots : calls[x].owner # "nobody" =>
                \A y \in Slots \ {x} : calls[y] = Idle
           /\ Ready => \A x \in Slots : calls[x] = Idle
<1>1. \A x \in Slots : calls[x].owner \in {"screen", "gone", "nobody"}
  BY DriverFields, CallFields DEF DriverInv
<1>2. /\ \A x \in Slots : calls[x].owner # "gone"
      /\ \A x, y \in Slots : calls[x].owner = "screen" /\ calls[y].owner = "screen" => x = y
      /\ \A x \in Slots : calls[x].owner = "nobody" => calls[x] = Idle
  BY DEF DriverInv, PatientInv, CleanInv
<1> QED
  BY <1>1, <1>2, Sending DEF Ready

\* What was picked up goes on being shown so, however shipments move.
LEMMA CarriesStays ==
    ASSUME DriverInv, Grows, NEW active, Carries(ship, told, active)
    PROVE  Carries(ship', told, active)
<1>1. SUFFICES ASSUME NEW s \in Shipments, <<"picked_up", s>> \in told, ship'[s].status = "picked_up"
               PROVE  active[s] = "picked_up"
  BY DEF Carries
<1>2. ship[s].status \in OnTheWay /\ ship[s].status \in {"assigned", "picked_up"}
  BY <1>1 DEF DriverInv, ToldInv, Mine, Grows
<1> QED
  BY <1>1, <1>2 DEF Carries, OnTheWay, Handed

\* The parts of CleanInv.
TakenElsewhere == \A s \in Shipments : <<"taken", s>> \in told => ship[s].driver # "me"

CleanCall(sh, said, c) ==
    /\ c.owner = "nobody" => c = Idle
    /\ c.kind = "accept" /\ c.at # "answered" => sh[c.ship].driver # "me"
    /\ c.kind = "jobs" => NotMine(sh, c.rows.jobs)
    /\ c.kind = "shipments" /\ c.at = "answered" => Carries(sh, said, c.rows.active)

OffersNotMine == (\A x \in Slots : ~Stale(calls[x])) => NotMine(ship, lists.jobs)

CarriedShown == Top(stack) = "jobs" /\ ~Loading(calls, {"shipments"}) => Carries(ship, told, lists.active)

\* They make it up.
LEMMA CleanParts ==
    /\ CleanInv /\ hazards = {} =>
          /\ TakenElsewhere /\ OffersNotMine /\ CarriedShown
          /\ \A x \in Slots : CleanCall(ship, told, calls[x])
    /\ (/\ TakenElsewhere /\ OffersNotMine /\ CarriedShown
        /\ \A x \in Slots : CleanCall(ship, told, calls[x])) => CleanInv
BY DEF CleanInv, TakenElsewhere, OffersNotMine, CarriedShown, CleanCall

\* No call, and a new load, are clean.
LEMMA CleanSent ==
    \A sh, said : CleanCall(sh, said, Idle) /\ \A kind \in Gets : CleanCall(sh, said, Ask(kind))
BY Sending DEF CleanCall, NotMine, Gets

\* Shipments of others stay so, but for one that is accepted.
LEMMA NotMineStays ==
    ASSUME DriverInv, Grows, NEW S, S \subseteq Shipments, S \cap Gained = {}, NotMine(ship, S)
    PROVE  NotMine(ship', S)
BY DEF NotMine, Gained

\* A clean call stays so, however shipments move, unless this driver gains its own.
LEMMA CleanStays ==
    ASSUME DriverInv, Grows, Gained = {}, NEW x \in Slots, CleanCall(ship, told, calls[x])
    PROVE  CleanCall(ship', told, calls[x])
<1>1. /\ calls[x].rows \in Lists /\ calls[x].rows.jobs \subseteq Shipments
      /\ calls[x].kind = "accept" => calls[x].ship \in Shipments
  BY WaitedFor DEF Lists, CallOK, Gets
<1>2. calls[x].kind = "jobs" => NotMine(ship', calls[x].rows.jobs)
  BY <1>1, NotMineStays DEF CleanCall
<1>3. calls[x].kind = "accept" /\ calls[x].at # "answered" => ship'[calls[x].ship].driver # "me"
  BY <1>1 DEF CleanCall, Gained
<1>4. calls[x].kind = "shipments" /\ calls[x].at = "answered" =>
         Carries(ship', told, calls[x].rows.active)
  BY CarriesStays DEF CleanCall
<1> QED
  BY <1>2, <1>3, <1>4 DEF CleanCall

\* When nothing goes wrong and a call is served.
LEMMA CleanServed ==
    ASSUME DriverInv, CleanInv, hazards = {}, NEW x \in Slots, NEW d \in Call, Served(x, d), Grows,
           UNCHANGED <<stack, lists, told>>
    PROVE  CleanInv'
<1> DEFINE c == calls[x]
<1>0. /\ TakenElsewhere /\ OffersNotMine /\ CarriedShown
      /\ \A y \in Slots : CleanCall(ship, told, calls[y])
  BY CleanParts
<1>1. /\ c.owner = "screen" /\ \A y \in Slots \ {x} : calls[y] = Idle
      /\ calls'[x] = d /\ \A y \in Slots \ {x} : calls'[y] = Idle
      /\ c.at = "sent" /\ d.kind = c.kind /\ d.ship = c.ship /\ d.owner = "screen" /\ d.at # "sent"
      /\ Idle.owner = "nobody" /\ c \in Call /\ d.rows.jobs \subseteq Shipments
      /\ c.rows.jobs \subseteq Shipments
  BY OthersIdle, Sending, DriverFields, CallFields DEF Served, DriverInv, TypeOK, Lists
<1>2. TakenElsewhere'
  <2>1. \A s \in Shipments : <<"taken", s>> \in told => ship'[s].driver = ship[s].driver
    BY DEF DriverInv, ToldInv, Grows
  <2> QED
    BY <1>0, <2>1 DEF TakenElsewhere
<1>3. ASSUME NEW y \in Slots
      PROVE  CleanCall(ship', told', calls'[y])
  <2>1. CASE y # x
    BY <1>1, <2>1, CleanSent
  <2>2. d.kind = "accept" /\ d.at # "answered" => ship'[d.ship].driver # "me"
    <3>1. c.kind = "accept" => c.ship \in Shipments /\ (ship[c.ship].driver # "me")
      BY <1>0, <1>1, WaitedFor DEF CleanCall, CallOK, Gets
    <3>2. d.at # "answered" => Gained = {}
      BY <1>1 DEF Served
    <3> QED
      BY <1>1, <3>1, <3>2 DEF Gained
  <2>3. d.kind = "jobs" => NotMine(ship', d.rows.jobs)
    <3>1. SUFFICES ASSUME d.kind = "jobs" PROVE NotMine(ship', d.rows.jobs)
      OBVIOUS
    <3>2. /\ Gained = {} /\ NotMine(ship, c.rows.jobs)
          /\ \A s \in d.rows.jobs : s \in c.rows.jobs \/ ship[s].status = "unassigned"
      BY <1>0, <1>1, <3>1 DEF Served, CleanCall
    <3>3. \A s \in Shipments : ship[s].status = "unassigned" => ship[s].driver = "none"
      BY DEF DriverInv, RowsInv, Before
    <3>4. NotMine(ship, d.rows.jobs)
      BY <1>1, <3>2, <3>3 DEF NotMine
    <3> QED
      BY <1>1, <3>2, <3>4, NotMineStays
  <2>4. d.kind = "shipments" => Carries(ship', told, d.rows.active)
    <3>1. SUFFICES ASSUME d.kind = "shipments" PROVE Carries(ship, told, d.rows.active)
      BY CarriesStays
    <3>2. \A s \in Shipments : ship[s].driver = "me" /\ ship[s].status = "picked_up" =>
             d.rows.active[s] = "picked_up"
      BY <1>1, <3>1 DEF Served
    <3>3. \A s \in Shipments : <<"picked_up", s>> \in told => ship[s].driver = "me"
      BY DEF DriverInv, ToldInv, Mine
    <3> QED
      BY <3>2, <3>3 DEF Carries
  <2>5. CASE y = x
    BY <1>1, <2>2, <2>3, <2>4, <2>5 DEF CleanCall
  <2> QED
    BY <2>1, <2>5
<1>4. OffersNotMine'
  <2>1. SUFFICES ASSUME ~Stale(d) PROVE NotMine(ship', lists.jobs)
    BY <1>1 DEF OffersNotMine
  <2>2. ~Stale(c) /\ Gained = {}
    BY <1>1, <2>1 DEF Stale, Served
  <2>3. \A y \in Slots : ~Stale(calls[y])
    BY <1>1, <2>2 DEF Stale
  <2> QED
    BY <1>0, <2>2, <2>3, NotMineStays, DriverFields DEF OffersNotMine, DriverInv
<1>5. CarriedShown'
  <2>1. Loading(calls, {"shipments"}) => Loading(calls', {"shipments"})
    BY <1>1 DEF Loading
  <2>2. SUFFICES ASSUME Top(stack) = "jobs", ~Loading(calls', {"shipments"})
                 PROVE  Carries(ship', told, lists.active)
    BY DEF CarriedShown
  <2> QED
    BY <1>0, <2>1, <2>2, CarriesStays DEF CarriedShown
<1> QED
  BY <1>2, <1>3, <1>4, <1>5, CleanParts DEF CleanInv, TakenElsewhere, CleanCall, OffersNotMine, CarriedShown

\* When nothing goes wrong and a load ends.
LEMMA CleanLoaded ==
    ASSUME DriverInv, CleanInv, hazards = {}, NEW x \in Slots, NEW rows, LoadStep(x, rows), ship' = ship
    PROVE  CleanInv'
<1> DEFINE c == calls[x]
<1>0. /\ TypeOK /\ TakenElsewhere /\ OffersNotMine /\ CarriedShown
      /\ \A y \in Slots : CleanCall(ship, told, calls[y])
  BY CleanParts DEF DriverInv
<1>1. /\ \A y \in Slots \ {x} : calls'[y] = calls[y]
      /\ \/ /\ c.kind = "shipments" /\ calls'[x] = Ask("jobs")
            /\ lists'.active = rows.active /\ lists'.jobs = lists.jobs
         \/ /\ c.kind = "jobs" /\ calls'[x] = Idle
            /\ lists'.jobs = rows.jobs /\ lists'.active = lists.active
      /\ UNCHANGED <<stack, told>> /\ c.owner = "screen"
      /\ \A y \in Slots \ {x} : calls[y] = Idle
  BY <1>0, LoadAt, OthersIdle
<1>2. TakenElsewhere'
  BY <1>0, <1>1 DEF TakenElsewhere
<1>3. \A y \in Slots : CleanCall(ship', told', calls'[y])
  BY <1>1, CleanSent DEF Gets
<1>4. Idle.owner = "nobody" /\ Ask("jobs").owner = "screen" /\ Ask("jobs").kind \in Gets
  BY Sending DEF Gets
<1>5. OffersNotMine'
  <2>1. CASE calls'[x] = Ask("jobs")
    BY <1>4, <2>1 DEF OffersNotMine, Stale
  <2>2. CASE c.kind = "jobs" /\ lists'.jobs = rows.jobs
    <3>1. rows \in {Empty, c.rows}
      BY DEF LoadStep
    <3>2. NotMine(ship, c.rows.jobs) /\ NotMine(ship, Empty.jobs)
      BY <1>0, <2>2, Sending DEF CleanCall, NotMine
    <3> QED
      BY <2>2, <3>1, <3>2 DEF OffersNotMine
  <2> QED
    BY <1>1, <2>1, <2>2
<1>6. CarriedShown'
  <2>1. CASE c.kind = "shipments" /\ lists'.active = rows.active
    <3>1. rows = c.rows /\ c.at = "answered"
      BY <2>1 DEF LoadStep
    <3>2. Carries(ship, told, rows.active)
      BY <1>0, <2>1, <3>1 DEF CleanCall
    <3> QED
      BY <1>1, <2>1, <3>2 DEF CarriedShown
  <2>2. CASE c.kind = "jobs" /\ lists'.active = lists.active
    <3>1. ~Loading(calls, {"shipments"})
      BY <1>1, <1>4, <2>2 DEF Loading
    <3> QED
      BY <1>0, <1>1, <2>2, <3>1 DEF CarriedShown
  <2> QED
    BY <1>1, <2>1, <2>2
<1> QED
  BY <1>2, <1>3, <1>5, <1>6, CleanParts DEF CleanInv, TakenElsewhere, CleanCall, OffersNotMine, CarriedShown

\* When nothing goes wrong and a POST ends.
LEMMA CleanPosted ==
    ASSUME DriverInv, CleanInv, hazards = {}, NEW x \in Slots, NEW d, PostStep(x, d), ship' = ship
    PROVE  CleanInv'
<1> DEFINE c == calls[x]
<1>0. /\ TypeOK /\ TakenElsewhere /\ OffersNotMine /\ CarriedShown
      /\ \A y \in Slots : CleanCall(ship, told, calls[y])
  BY CleanParts DEF DriverInv
<1>1. /\ c.owner = "screen" /\ calls'[x] = d /\ \A y \in Slots \ {x} : calls'[y] = calls[y]
      /\ \A y \in Slots \ {x} : calls[y] = Idle
      /\ \/ d = Idle /\ ~(c.kind = "accept" /\ c.at = "answered")
         \/ d = Load
      /\ c.kind \notin Gets /\ UNCHANGED <<stack, lists>>
      /\ told' \in {told, told \cup {<<"taken", c.ship>>}} /\ (told' # told => c.at = "taken")
  BY <1>0, OthersIdle, Sending DEF PostStep, TypeOK, Gets
<1>2. /\ Idle.owner = "nobody" /\ Load.owner = "screen" /\ Load.kind = "shipments"
      /\ Load \in {Ask(kind) : kind \in Gets}
  BY Sending DEF Gets
<1>3. TakenElsewhere'
  <2>1. c.at = "taken" => ship[c.ship].driver # "me"
    BY <1>0, WaitedFor DEF CleanCall
  <2>2. \A s \in Shipments : <<"taken", s>> \in told' => <<"taken", s>> \in told \/ (s = c.ship /\ c.at = "taken")
    BY <1>1
  <2> QED
    BY <1>0, <2>1, <2>2 DEF TakenElsewhere
<1>4. \A y \in Slots : CleanCall(ship', told', calls'[y])
  <2>1. CleanCall(ship', told', Idle) /\ CleanCall(ship', told', Load)
    BY <1>2, CleanSent
  <2>2. \A y \in Slots : calls'[y] = Idle \/ calls'[y] = Load
    BY <1>1
  <2> QED
    BY <2>1, <2>2
<1>5. OffersNotMine'
  <2>1. CASE d = Load
    BY <1>1, <1>2, <2>1 DEF OffersNotMine, Stale, Gets
  <2>2. CASE d = Idle /\ ~(c.kind = "accept" /\ c.at = "answered")
    <3>1. \A y \in Slots : ~Stale(calls[y])
      BY <1>1, <1>2, <2>2 DEF Stale
    <3> QED
      BY <1>0, <1>1, <3>1 DEF OffersNotMine
  <2> QED
    BY <1>1, <2>1, <2>2
<1>6. CarriedShown'
  <2>1. \A s \in Shipments : <<"picked_up", s>> \in told' => <<"picked_up", s>> \in told
    BY <1>1
  <2>2. ~Loading(calls, {"shipments"})
    BY <1>1, <1>2 DEF Loading, Gets
  <2> QED
    BY <1>0, <1>1, <2>1, <2>2 DEF CarriedShown, Carries
<1> QED
  BY <1>3, <1>4, <1>5, <1>6, CleanParts DEF CleanInv, TakenElsewhere, CleanCall, OffersNotMine, CarriedShown

\* When nothing goes wrong and a call is sent.
LEMMA CleanSending ==
    ASSUME DriverInv, CleanInv, hazards = {}, NEW x \in Slots, NEW d, SendStep(x, d), ship' = ship
    PROVE  CleanInv'
<1>0. /\ TypeOK /\ TakenElsewhere /\ OffersNotMine /\ CarriedShown
  BY CleanParts DEF DriverInv
<1>1. /\ \A y \in Slots : calls[y] = Idle
      /\ calls'[x] = d /\ \A y \in Slots \ {x} : calls'[y] = Idle
      /\ d.at = "sent" /\ d.owner = "screen" /\ d.kind # "jobs" /\ UNCHANGED <<stack, lists, told>>
      /\ d.kind = "accept" => d.ship \in lists.jobs
  BY <1>0, OthersIdle DEF SendStep, TypeOK
<1>2. Idle.owner = "nobody"
  BY Sending
<1>3. NotMine(ship, lists.jobs) /\ ~Loading(calls, {"shipments"})
  BY <1>0, <1>1, <1>2 DEF OffersNotMine, Stale, Loading
<1>4. CleanCall(ship', told', d)
  BY <1>1, <1>3 DEF CleanCall, NotMine
<1>5. \A y \in Slots : CleanCall(ship', told', calls'[y])
  BY <1>1, <1>4, CleanSent
<1>6. TakenElsewhere' /\ OffersNotMine' /\ CarriedShown'
  BY <1>0, <1>1, <1>3 DEF TakenElsewhere, OffersNotMine, CarriedShown
<1> QED
  BY <1>5, <1>6, CleanParts DEF CleanInv, TakenElsewhere, CleanCall, OffersNotMine, CarriedShown

\* When nothing goes wrong and another screen is shown.
LEMMA CleanShown ==
    ASSUME DriverInv, CleanInv, hazards = {}, NEW cs, NEW st, ShowStep(cs, st), ship' = ship
    PROVE  CleanInv'
<1>0. /\ TypeOK /\ TakenElsewhere /\ OffersNotMine /\ CarriedShown
      /\ \A y \in Slots : CleanCall(ship, told, calls[y])
      /\ Idle.owner = "nobody" /\ Load.owner = "screen" /\ Load.kind = "shipments"
      /\ Load \in {Ask(kind) : kind \in Gets}
  BY CleanParts, Sending DEF DriverInv, Gets
<1>1. /\ \A y \in Slots : cs[y] = Idle
      /\ \A y \in Slots : calls[y] = Idle \/ calls[y].kind \in {"pickup", "deliver"}
      /\ stack' = st
  <2>1. \A y \in Slots : /\ cs[y].owner = "nobody"
                         /\ \/ cs[y] = calls[y]
                            \/ cs[y] = Idle /\ calls[y].kind \in {"pickup", "deliver"}
    BY DEF ShowStep
  <2> QED
    BY <1>0, <2>1, ShowEffect DEF ShowStep, CleanCall
<1>2. /\ \A s \in Shipments : <<"taken", s>> \in told' => <<"taken", s>> \in told
      /\ told' # told => Top(stack) = "job" /\ Top(st) = "jobs"
  <2>1. \A f \in told' \ told : \E q : f = <<"picked_up", q>> \/ f = <<"delivered", q>>
    BY DEF ShowStep
  <2>2. \A s : \A q : <<"taken", s>> # <<"picked_up", q>> /\ <<"taken", s>> # <<"delivered", q>>
    OBVIOUS
  <2> QED
    BY <2>1, <2>2 DEF ShowStep
<1>3. TakenElsewhere'
  BY <1>0, <1>2 DEF TakenElsewhere
<1>4. CASE Top(st) = Top(stack) /\ calls' = cs /\ UNCHANGED lists
  <2>1. told' = told /\ ~Loading(calls, {"shipments"}) /\ \A y \in Slots : ~Stale(calls[y])
    BY <1>0, <1>1, <1>2, <1>4 DEF Loading, Stale, Gets
  <2>2. \A y \in Slots : CleanCall(ship', told', calls'[y])
    BY <1>1, <1>4, CleanSent
  <2>3. OffersNotMine' /\ CarriedShown'
    BY <1>0, <1>1, <1>4, <2>1 DEF OffersNotMine, CarriedShown
  <2> QED
    BY <1>3, <2>2, <2>3, CleanParts DEF CleanInv, TakenElsewhere, CleanCall, OffersNotMine, CarriedShown
<1>5. CASE Mounted(cs, Top(st))
  <2>1. \A y \in Slots : calls'[y] = Idle \/ calls'[y] = Load
    BY <1>0, <1>1, <1>5 DEF Mounted, Quits
  <2>2. \A y \in Slots : CleanCall(ship', told', calls'[y])
    BY <1>0, <2>1, CleanSent
  <2>3. lists' = Empty /\ (Top(stack') = "jobs" => Loading(calls', {"shipments"}))
    BY <1>0, <1>1, <1>5 DEF Mounted, Loading
  <2>4. OffersNotMine' /\ CarriedShown'
    BY <2>3, Sending DEF OffersNotMine, CarriedShown, NotMine
  <2> QED
    BY <1>3, <2>2, <2>4, CleanParts DEF CleanInv, TakenElsewhere, CleanCall, OffersNotMine, CarriedShown
<1> QED
  BY <1>4, <1>5, ShowEffect DEF ShowStep

\* When nothing goes wrong, what was taken was by others, and what was picked up is
\* shown so.
LEMMA CleanKept ==
    ASSUME DriverInv, [Next]_vars
    PROVE  CleanInv'
<1>0. CleanInv /\ hazards' = hazards
  BY StepKinds DEF DriverInv
<1>1. SUFFICES ASSUME hazards = {} PROVE CleanInv'
  BY <1>0 DEF CleanInv
<1>2. CASE Grows /\ Gained = {} /\ UNCHANGED <<calls, stack, lists, waiting, told>>
  <2>0. /\ TakenElsewhere /\ OffersNotMine /\ CarriedShown
        /\ \A y \in Slots : CleanCall(ship, told, calls[y]) /\ CleanCall(ship', told, calls[y])
    BY <1>0, <1>1, <1>2, CleanParts, CleanStays
  <2>1. TakenElsewhere'
    BY <1>2, <2>0 DEF TakenElsewhere, Gained
  <2>2. OffersNotMine'
    BY <1>2, <2>0, NotMineStays, DriverFields DEF OffersNotMine, DriverInv
  <2>3. CarriedShown'
    BY <1>2, <2>0, CarriesStays DEF CarriedShown, Loading
  <2> QED
    BY <1>2, <2>0, <2>1, <2>2, <2>3, CleanParts DEF CleanInv, TakenElsewhere, CleanCall, OffersNotMine, CarriedShown
<1>3. CASE UNCHANGED vars
  BY <1>0, <1>3 DEF vars, CleanInv, Loading
<1> QED
  BY <1>0, <1>1, <1>2, <1>3, CleanServed, CleanLoaded, CleanPosted, CleanSending, CleanShown, StepKinds

-----------------------------------------------------------------------------
(* Theorems *)

\* The invariant holds before anything is ordered.
LEMMA InitDriver ==
    ASSUME Init
    PROVE  DriverInv
<1>1. /\ \A s \in Shipments : ship[s].status = "unpaid" /\ ship[s].driver = "none"
      /\ \A x \in Slots : calls[x] = Idle
      /\ stack[1] = <<"home">> /\ Len(stack) = 1 /\ lists = Empty /\ ~waiting /\ told = {}
      /\ Idle \in Call /\ Empty \in Lists /\ Idle.kind = "jobs" /\ Idle.owner = "nobody"
      /\ Idle.rows = Empty /\ Empty.jobs = {}
  BY Sending DEF Init
<1>2. TypeOK
  <2>1. <<"home">> \in Screens /\ Limit \in 0 .. Limit /\ 1 \in 1 .. Depth
    BY DriverAppAssumption DEF Screens
  <2>2. stack \in Seq(Screens) /\ Len(stack) \in 1 .. Depth
    BY <2>1 DEF Init
  <2>3. /\ notices \in [Codes -> 0 .. Limit]
        /\ ship \in [Shipments -> [status : Stages, driver : {"none", "me", "other"}]]
    BY <2>1 DEF Init, Stages
  <2> QED
    BY <1>1, <2>2, <2>3 DEF Init, TypeOK, Carried
<1>3. RowsInv /\ OtpInv /\ ToldInv
  BY <1>1 DEF RowsInv, OtpInv, ToldInv
<1>4. CallsInv
  BY <1>1, <1>2, MeansNoMore DEF CallsInv
<1>5. ScreenInv
  BY <1>1, <1>2, MeansNoMore DEF ScreenInv
<1>6. PatientInv
  BY <1>1 DEF PatientInv, Apart
<1>7. CleanInv
  BY <1>1 DEF CleanInv, NotMine, Carries
<1> QED
  BY <1>2, <1>3, <1>4, <1>5, <1>6, <1>7 DEF DriverInv

\* Shipments without a driver, and the notices before an OTP, stay as they should.
LEMMA RowsKept ==
    ASSUME DriverInv, [Next]_vars
    PROVE  RowsInv' /\ OtpInv'
<1>1. CASE Grows
  BY <1>1 DEF Grows
<1>2. CASE UNCHANGED <<ship, notices>>
  BY <1>2 DEF DriverInv, RowsInv, OtpInv
<1> QED
  BY <1>1, <1>2, StepKinds DEF vars

\* The invariant, from step to step.
THEOREM DriverInvariant == Spec => []DriverInv
<1>1. Init => DriverInv
  BY InitDriver
<1>2. DriverInv /\ [Next]_vars => DriverInv'
  <2> SUFFICES ASSUME DriverInv, [Next]_vars
               PROVE  DriverInv'
    OBVIOUS
  <2>1. TypeOK' /\ RowsInv' /\ OtpInv' /\ CallsInv'
    BY TypesKept, RowsKept, CallsKept
  <2>2. ScreenInv' /\ ToldInv' /\ PatientInv' /\ CleanInv'
    BY ScreenKept, ToldKept, PatientKept, CleanKept
  <2> QED
    BY <2>1, <2>2 DEF DriverInv
<1> QED
  BY <1>1, <1>2, PTL DEF Spec

\* Values stay where they belong, and nobody carries what no driver has accepted.
THEOREM DriverTypes == Spec => []TypeOK
<1>1. DriverInv => TypeOK
  BY DEF DriverInv
<1> QED
  BY <1>1, DriverInvariant, PTL

\* A driver who waits never sees a shipment in progress and on offer at once.
LEMMA Shown ==
    ASSUME DriverInv
    PROVE  ShownOnce
<1>1. SUFFICES ASSUME Settled, "impatient" \notin hazards
               PROVE  Apart(lists.jobs, lists.active)
  BY DEF ShownOnce, Apart
<1>2. ~Loading(calls, Gets)
  BY <1>1 DEF Settled, Loading
<1> QED
  BY <1>1, <1>2 DEF DriverInv, PatientInv

\* What the driver was told is so, as far as the hazards of the behaviour allow.
THEOREM DriverIsToldTheTruth == Spec => []ToldTheTruth
<1>1. ASSUME DriverInv
      PROVE  ToldTheTruth
  <2>1. ToldInv /\ CleanInv /\ ShownOnce
    BY <1>1, Shown DEF DriverInv
  <2>2. Settled => ~Loading(calls, {"shipments"})
    BY DEF Settled, Loading
  <2>3. ASSUME NEW s \in Shipments, hazards = {}
        PROVE  /\ <<"taken", s>> \in told => ship[s].driver # "me"
               /\ Settled /\ Top(stack) = "jobs" /\ ship[s].status = "picked_up"
                  /\ <<"picked_up", s>> \in told => lists.active[s] = "picked_up"
    BY <2>1, <2>2, <2>3 DEF CleanInv, Carries
  <2> QED
    BY <2>1, <2>3 DEF ToldTheTruth, ToldInv, Mine, OnTheWay, Handed
<1> QED
  BY <1>1, DriverInvariant, PTL

\* Of an OTP that is needed, the notices of the other shipments leave it in reach.
LEMMA OtpStaysInReach ==
    ASSUME DriverInv
    PROVE  OtpInReach
<1>1. SUFFICES ASSUME Limit > 5 * (Cardinality(Shipments) - 1),
                      NEW s \in Shipments, ship[s].status = "picked_up"
               PROVE  <<"drop", s>> \in Listed
  BY DEF OtpInReach
<1> DEFINE rest == Shipments \ {s}
           f == NoticedOf(ship)
           five == [t \in Shipments |-> 5]
           left == [t \in Shipments |-> 5 - f[t]]
<1>2. /\ IsFiniteSet(rest) /\ \A t \in Shipments : f[t] \in 0 .. 5
      /\ SumFunctionOnSet(f, rest) \in Nat
  BY NoticedSum, DriverFields DEF DriverInv
<1>3. Cardinality(rest) = Cardinality(Shipments) - 1 /\ Cardinality(rest) \in Nat
  BY <1>2, DriverAppAssumption, FS_RemoveElement, FS_CardinalityType
<1> HIDE DEF f
<1>4. \A t \in rest : five[t] = 5 /\ left[t] \in Nat /\ f[t] \in Int /\ left[t] \in Int
                      /\ five[t] = f[t] + left[t]
  BY <1>2
<1> HIDE DEF rest, five, left
<1>5. SumFunctionOnSet(five, rest) = Cardinality(rest) * 5
  BY <1>2, <1>4, SumConstant
<1>6. SumFunctionOnSet(five, rest) = SumFunctionOnSet(f, rest) + SumFunctionOnSet(left, rest)
  BY <1>2, <1>4, SumPlus
<1>7. SumFunctionOnSet(left, rest) \in Nat
  BY <1>2, <1>4, SumNat
<1>8. notices[<<"drop", s>>] <= SumFunctionOnSet(f, rest)
  BY <1>1 DEF DriverInv, OtpInv, f, rest
<1>9. <<"drop", s>> \in Codes /\ notices[<<"drop", s>>] \in Nat /\ Limit \in Nat
  <2>1. <<"drop", s>> \in Codes
    BY DEF Codes
  <2> QED
    BY <2>1, DriverFields DEF DriverInv
<1>10. notices[<<"drop", s>>] < Limit
  <2>1. SumFunctionOnSet(f, rest) <= Cardinality(rest) * 5
    BY <1>2, <1>3, <1>5, <1>6, <1>7
  <2>2. Limit > 5 * Cardinality(rest)
    BY <1>1, <1>3
  <2> QED
    BY <1>2, <1>3, <1>8, <1>9, <2>1, <2>2
<1> QED
  BY <1>9, <1>10 DEF Listed

\* Every screen has a way on.
THEOREM DriverHasAWayOn == Spec => []NoDeadEnd
<1>1. ASSUME DriverInv
      PROVE  NoDeadEnd
  <2>1. ScreenInv /\ PatientInv /\ OtpInReach
    BY <1>1, OtpStaysInReach DEF DriverInv
  <2> QED
    BY <2>1 DEF NoDeadEnd, ScreenInv, Spinning, PatientInv
<1> QED
  BY <1>1, DriverInvariant, PTL

=============================================================================
