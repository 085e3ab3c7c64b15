----------------------- MODULE SettlementAmounts_proofs -----------------------
(***************************************************************************)
(* The route of every batch, of any number of shipments on any map, can    *)
(* be driven and leaves nobody out; and goods and money add up, for any    *)
(* number of orders, any quantities and prices. The invariant of the       *)
(* route says what the two sets of planRoute mean; that of the money       *)
(* keeps the sums over all orders, of what each holds and of the parts of  *)
(* its settlement, and what the ledger tells of the settled ones follows   *)
(* from it.                                                                *)
(***************************************************************************)
EXTENDS SettlementAmounts, Sums, TLAPS

-----------------------------------------------------------------------------
(* The route *)

\* The stops on the route are those the two sets name.
RouteMatches ==
    \A s \in Chosen :
       /\ s \in visited <=> \E i \in 1 .. Len(route) : route[i] = Stop(s, "pickup")
       /\ s \in served  <=> \E i \in 1 .. Len(route) : route[i] = Stop(s, "drop")

\* Where the two loops stand.
LoopsInOrder ==
    /\ phase = "start"   => route = <<>> /\ visited = {}
    /\ phase = "pickups" => route # <<>> /\ served = {}
    /\ phase = "drops"   => route # <<>> /\ visited = Chosen
    /\ phase = "done" /\ route # <<>> => served = Chosen

RouteInv == TypeOK /\ RouteMatches /\ LoopsInOrder /\ RouteIsServable

StopSet == [shipment : Chosen, type : {"pickup", "drop"}]

\* A stop added at the end of a route that does not have it keeps the route
\* servable, if it is a drop or there is no drop yet.
LEMMA AppendedStop ==
    ASSUME route \in Seq(StopSet), RouteIsServable,
           NEW stop \in StopSet,
           \A i \in 1 .. Len(route) : route[i] # stop,
           stop.type = "drop" \/ \A i \in 1 .. Len(route) : route[i].type # "drop",
           route' = Append(route, stop)
    PROVE  RouteIsServable'
<1>1. /\ Len(route') = Len(route) + 1
      /\ \A i \in 1 .. Len(route) : route'[i] = route[i]
      /\ route'[Len(route) + 1] = stop
  OBVIOUS
<1>2. Len(route) \in Nat
  OBVIOUS
<1>. QED
  BY <1>1, <1>2 DEF RouteIsServable

\* The stops of the longer route are those of the shorter one and the new one.
LEMMA AppendedStops ==
    ASSUME NEW S, route \in Seq(S), NEW stop \in S, route' = Append(route, stop)
    PROVE  /\ route' \in Seq(S)
           /\ route' # <<>>
           /\ \A x : (\E i \in 1 .. Len(route') : route'[i] = x)
                       <=> x = stop \/ \E i \in 1 .. Len(route) : route[i] = x
<1>1. /\ Len(route') = Len(route) + 1
      /\ \A i \in 1 .. Len(route) : route'[i] = route[i]
      /\ route'[Len(route) + 1] = stop
      /\ Len(route) \in Nat
  OBVIOUS
<1>2. route' \in Seq(S) /\ route' # <<>>
  OBVIOUS
<1>. QED
  BY <1>1, <1>2

\* The candidates are shipments and a finite list of them.
LEMMA CandidateFacts ==
    ASSUME candidates \in Selections
    PROVE  /\ candidates \in Seq(Shipments)
           /\ Len(candidates) \in Nat
           /\ candidates # <<>> => candidates[1] \in Chosen
           /\ \A i \in 1 .. Len(candidates) : candidates[i] \in Chosen
<1>1. candidates \in Seq(Shipments)
  BY RouteAssumption
<1>. QED
  BY <1>1 DEF Chosen

\* planRoute starts with an empty route and empty sets.
LEMMA InitRoute == Init => RouteInv
  BY DEF Init, RouteInv, TypeOK, RouteMatches, LoopsInOrder, RouteIsServable

\* One iteration of either loop, or a return, keeps the invariant.
LEMMA StepRoute == RouteInv /\ [Next]_vars => RouteInv'
<1>. SUFFICES ASSUME RouteInv, [Next]_vars PROVE RouteInv'
  OBVIOUS
<1>. USE DEF RouteInv
<1>c. /\ candidates' = candidates
      /\ Chosen' = Chosen
  BY DEF Next, vars, ReturnEmpty, FirstPickup, AddPickup, StartDrops, AddDrop, Return, Chosen
<1>t. route \in Seq(StopSet)
  BY DEF TypeOK, StopSet
<1>1. CASE ReturnEmpty
  BY <1>1, <1>c DEF ReturnEmpty, TypeOK, RouteMatches, LoopsInOrder, RouteIsServable
<1>2. CASE FirstPickup
  <2>1. candidates[1] \in Chosen
    BY <1>2, CandidateFacts DEF FirstPickup, TypeOK
  <2>. DEFINE stop == Stop(candidates[1], "pickup")
  <2>2. /\ route' = <<stop>>
        /\ stop \in StopSet
        /\ served = {}
        /\ served' = {}
        /\ visited' = {candidates[1]}
        /\ phase' = "pickups"
    BY <1>2, <2>1 DEF FirstPickup, Stop, StopSet, LoopsInOrder, TypeOK
  <2>3. /\ route' # <<>>
        /\ route' \in Seq(StopSet)
        /\ Len(route') = 1
        /\ route'[1] = stop
    BY <2>2
  <2>4. TypeOK'
    BY <1>c, <2>1, <2>2, <2>3 DEF TypeOK, StopSet
  <2>5. RouteMatches'
    BY <1>c, <2>1, <2>2, <2>3 DEF RouteMatches, Stop
  <2>6. LoopsInOrder'
    BY <2>2, <2>3 DEF LoopsInOrder
  <2>7. RouteIsServable'
    BY <2>3 DEF RouteIsServable
  <2>. QED
    BY <2>4, <2>5, <2>6, <2>7
<1>3. CASE AddPickup
  <2>1. PICK i \in 1 .. Len(candidates) : /\ GoTo(PickupAt, visited, "pickup", i)
                                           /\ visited' = visited \cup {candidates[i]}
    BY <1>3 DEF AddPickup
  <2>. DEFINE stop == Stop(candidates[i], "pickup")
  <2>2. /\ candidates[i] \in Chosen
        /\ candidates[i] \notin visited
        /\ route' = Append(route, stop)
        /\ stop \in StopSet
    BY <2>1, CandidateFacts DEF GoTo, Nearest, Stop, StopSet, TypeOK
  <2>3. phase = "pickups" /\ phase' = "pickups" /\ served = {} /\ served' = {}
    BY <1>3 DEF AddPickup, LoopsInOrder
  <2>4. /\ route' \in Seq(StopSet)
        /\ route' # <<>>
        /\ \A x : (\E j \in 1 .. Len(route') : route'[j] = x)
                    <=> x = stop \/ \E j \in 1 .. Len(route) : route[j] = x
    BY <1>t, <2>2, AppendedStops
  <2>5. /\ \A j \in 1 .. Len(route) : route[j] # stop
        /\ \A j \in 1 .. Len(route) : route[j].type # "drop"
    <3>1. \A j \in 1 .. Len(route) : route[j] # stop
      BY <2>2 DEF RouteMatches
    <3>2. ASSUME NEW j \in 1 .. Len(route) PROVE route[j].type # "drop"
      <4>1. route[j] \in StopSet
        BY <1>t
      <4>2. route[j].shipment \in Chosen /\ route[j] = Stop(route[j].shipment, route[j].type)
        BY <4>1 DEF StopSet, Stop
      <4>. QED
        BY <4>2, <2>3 DEF RouteMatches
    <3>. QED
      BY <3>1, <3>2
  <2>6. RouteIsServable'
    BY <1>t, <2>2, <2>5, AppendedStop
  <2>7. TypeOK'
    BY <1>3, <1>c, <2>1, <2>2, <2>3, <2>4 DEF AddPickup, TypeOK, StopSet
  <2>8. RouteMatches'
    BY <1>c, <2>1, <2>2, <2>3, <2>4 DEF RouteMatches, Stop
  <2>9. LoopsInOrder'
    BY <2>3, <2>4 DEF LoopsInOrder
  <2>. QED
    BY <2>6, <2>7, <2>8, <2>9
<1>4. CASE StartDrops
  BY <1>4, <1>c DEF StartDrops, TypeOK, RouteMatches, LoopsInOrder, RouteIsServable
<1>5. CASE AddDrop
  <2>1. PICK i \in 1 .. Len(candidates) : /\ GoTo(DropAt, served, "drop", i)
                                           /\ served' = served \cup {candidates[i]}
    BY <1>5 DEF AddDrop
  <2>. DEFINE stop == Stop(candidates[i], "drop")
  <2>2. /\ candidates[i] \in Chosen
        /\ candidates[i] \notin served
        /\ route' = Append(route, stop)
        /\ stop \in StopSet
        /\ stop.type = "drop"
    BY <2>1, CandidateFacts DEF GoTo, Nearest, Stop, StopSet, TypeOK
  <2>3. phase = "drops" /\ phase' = "drops" /\ visited = Chosen /\ visited' = Chosen
    BY <1>5 DEF AddDrop, LoopsInOrder
  <2>4. /\ route' \in Seq(StopSet)
        /\ route' # <<>>
        /\ \A x : (\E j \in 1 .. Len(route') : route'[j] = x)
                    <=> x = stop \/ \E j \in 1 .. Len(route) : route[j] = x
    BY <1>t, <2>2, AppendedStops
  <2>5. \A j \in 1 .. Len(route) : route[j] # stop
    BY <2>2 DEF RouteMatches
  <2>6. RouteIsServable'
    BY <1>t, <2>2, <2>5, AppendedStop
  <2>7. TypeOK'
    BY <1>5, <1>c, <2>1, <2>2, <2>3, <2>4 DEF AddDrop, TypeOK, StopSet
  <2>8. RouteMatches'
    BY <1>c, <2>1, <2>2, <2>3, <2>4 DEF RouteMatches, Stop
  <2>9. LoopsInOrder'
    BY <1>c, <2>3, <2>4 DEF LoopsInOrder
  <2>. QED
    BY <2>6, <2>7, <2>8, <2>9
<1>6. CASE Return
  BY <1>6, <1>c DEF Return, TypeOK, RouteMatches, LoopsInOrder, RouteIsServable
<1>7. CASE UNCHANGED vars
  BY <1>7, <1>c DEF vars, TypeOK, RouteMatches, LoopsInOrder, RouteIsServable
<1>. QED
  BY <1>1, <1>2, <1>3, <1>4, <1>5, <1>6, <1>7 DEF Next

\* Whatever the selection and the map, the invariant holds while planRoute runs.
THEOREM RouteInvariant == Spec => []RouteInv
<1>1. Init => RouteInv
  BY InitRoute
<1>2. RouteInv /\ [Next]_vars => RouteInv'
  BY StepRoute
<1>. QED
  BY <1>1, <1>2, PTL DEF Spec

\* Every plan the engine returns, and every partial one, can be driven: no stop
\* twice and no drop before a pickup.
THEOREM RouteServable == Spec => []RouteIsServable
<1>1. RouteInv => RouteIsServable
  BY DEF RouteInv
<1>. QED
  BY <1>1, RouteInvariant, PTL

-----------------------------------------------------------------------------
(* How many stops, and how much weight *)

\* The candidates are distinct: there are as many shipments as rows.
LEMMA ChosenCount ==
    ASSUME candidates \in Selections
    PROVE  /\ Chosen \subseteq Shipments /\ IsFiniteSet(Chosen)
           /\ Len(candidates) \in Nat /\ Cardinality(Chosen) = Len(candidates)
           /\ candidates # <<>> => Chosen # {}
<1> DEFINE n == Len(candidates)
<1>1. n \in Nat /\ candidates \in [1 .. n -> Shipments]
  BY RouteAssumption
<1>2. candidates \in Bijection(1 .. n, Chosen)
  BY <1>1, RouteAssumption DEF Chosen, Bijection, Injection, IsInjective, Surjection
<1>3. ExistsBijection(1 .. n, Chosen)
  BY <1>2 DEF ExistsBijection
<1>4. IsFiniteSet(Chosen) /\ Cardinality(Chosen) = n
  BY <1>1, <1>3, FS_NatBijection, FS_CountingElements
<1>5. Chosen \subseteq Shipments
  BY <1>1 DEF Chosen
<1>6. candidates # <<>> => Chosen # {}
  BY CandidateFacts
<1> QED
  BY <1>1, <1>4, <1>5, <1>6

\* The route has a stop for each member of the two sets, and was begun with a
\* selection the truck can carry.
RouteCounted ==
    /\ Len(route) = Cardinality(visited) + Cardinality(served)
    /\ route # <<>> => ~Overweight

\* Each iteration adds a stop and a new member to one of the sets.
LEMMA StepCounted == RouteInv /\ RouteCounted /\ [Next]_vars => RouteCounted'
<1> SUFFICES ASSUME RouteInv, RouteCounted, [Next]_vars PROVE RouteCounted'
  OBVIOUS
<1>1. candidates' = candidates /\ Chosen' = Chosen /\ Overweight' = Overweight
  BY DEF Next, vars, ReturnEmpty, FirstPickup, AddPickup, StartDrops, AddDrop, Return, Chosen,
         Overweight
<1>2. /\ IsFiniteSet(visited) /\ IsFiniteSet(served) /\ route \in Seq(StopSet)
      /\ Cardinality(visited) \in Nat /\ Cardinality(served) \in Nat
  <2>1. visited \subseteq Chosen /\ served \subseteq Chosen /\ IsFiniteSet(Chosen)
    BY ChosenCount DEF RouteInv, TypeOK
  <2> QED
    BY <2>1, FS_Subset, FS_CardinalityType DEF RouteInv, TypeOK, StopSet
<1>3. CASE FirstPickup
  <2>1. served = {} /\ served' = {} /\ visited' = {candidates[1]} /\ Len(route') = 1
    BY <1>3 DEF FirstPickup, RouteInv, TypeOK, LoopsInOrder
  <2>2. Cardinality(served') = 0 /\ Cardinality(visited') = 1
    BY <2>1, FS_EmptySet, FS_Singleton
  <2>3. ~Overweight
    BY <1>3 DEF FirstPickup
  <2> QED
    BY <1>1, <2>1, <2>2, <2>3 DEF RouteCounted
<1>4. ASSUME NEW stop \in StopSet, route' = Append(route, stop)
      PROVE  Len(route') = Len(route) + 1
  BY <1>2, <1>4
<1>5. CASE AddPickup
  <2>1. PICK i \in 1 .. Len(candidates) : /\ GoTo(PickupAt, visited, "pickup", i)
                                          /\ visited' = visited \cup {candidates[i]}
    BY <1>5 DEF AddPickup
  <2>2. /\ candidates[i] \in Chosen /\ candidates[i] \notin visited
        /\ route' = Append(route, Stop(candidates[i], "pickup"))
    BY <2>1 DEF GoTo, Nearest, Chosen
  <2>3. Stop(candidates[i], "pickup") \in StopSet
    BY <2>2 DEF Stop, StopSet
  <2>4. Len(route') = Len(route) + 1 /\ route # <<>>
    BY <1>4, <1>5, <2>2, <2>3 DEF RouteInv, LoopsInOrder, AddPickup
  <2>5. Cardinality(visited') = Cardinality(visited) + 1 /\ served' = served
    BY <1>2, <1>5, <2>1, <2>2, FS_AddElement DEF AddPickup
  <2> QED
    BY <1>1, <1>2, <2>4, <2>5 DEF RouteCounted
<1>6. CASE AddDrop
  <2>1. PICK i \in 1 .. Len(candidates) : /\ GoTo(DropAt, served, "drop", i)
                                          /\ served' = served \cup {candidates[i]}
    BY <1>6 DEF AddDrop
  <2>2. /\ candidates[i] \in Chosen /\ candidates[i] \notin served
        /\ route' = Append(route, Stop(candidates[i], "drop"))
    BY <2>1 DEF GoTo, Nearest, Chosen
  <2>3. Stop(candidates[i], "drop") \in StopSet
    BY <2>2 DEF Stop, StopSet
  <2>4. Len(route') = Len(route) + 1 /\ route # <<>>
    BY <1>4, <1>6, <2>2, <2>3 DEF RouteInv, LoopsInOrder, AddDrop
  <2>5. Cardinality(served') = Cardinality(served) + 1 /\ visited' = visited
    BY <1>2, <1>6, <2>1, <2>2, FS_AddElement DEF AddDrop
  <2> QED
    BY <1>1, <1>2, <2>4, <2>5 DEF RouteCounted
<1>7. CASE UNCHANGED <<visited, served, route>>
  BY <1>1, <1>7 DEF RouteCounted
<1> QED
  BY <1>3, <1>5, <1>6, <1>7 DEF Next, vars, ReturnEmpty, StartDrops, Return

\* What is on board is some of what was chosen, and weighs no more.
LEMMA OnBoardFits ==
    ASSUME RouteInv, RouteCounted
    PROVE  LoadFits
<1> SUFFICES ASSUME NEW n \in 0 .. Len(route) PROVE LoadOf(OnBoard(n)) <= Capacity
  BY DEF LoadFits
<1>1. /\ IsFiniteSet(Chosen) /\ OnBoard(n) \subseteq Chosen
      /\ \A s \in Chosen : Weight[s] \in Nat
  BY ChosenCount, RouteAssumption DEF RouteInv, TypeOK, OnBoard
<1>2. CASE route = <<>>
  <2>1. OnBoard(n) = {}
    BY <1>2 DEF OnBoard
  <2>2. LoadOf(OnBoard(n)) = 0
    BY <2>1, SumEmpty DEF LoadOf
  <2> QED
    BY <2>2, RouteAssumption
<1>3. CASE route # <<>>
  <2>1. ~(LoadOf(Chosen) > Capacity)
    BY <1>3 DEF RouteCounted, Overweight
  <2>2. LoadOf(OnBoard(n)) <= LoadOf(Chosen)
    BY <1>1, SumMonotone DEF LoadOf
  <2>3. LoadOf(OnBoard(n)) \in Nat /\ LoadOf(Chosen) \in Nat
    BY <1>1, SumNat, FS_Subset DEF LoadOf
  <2> QED
    BY <2>1, <2>2, <2>3, RouteAssumption
<1> QED
  BY <1>2, <1>3

\* A finished route stops twice for each shipment.
LEMMA FinishedIsComplete ==
    ASSUME RouteInv, RouteCounted
    PROVE  RouteIsComplete
<1> SUFFICES ASSUME phase = "done", route # <<>>
             PROVE  /\ \A s \in Chosen, t \in {"pickup", "drop"} :
                          \E i \in 1 .. Len(route) : route[i] = Stop(s, t)
                    /\ Len(route) = totalStops
  BY DEF RouteIsComplete
<1>1. served = Chosen /\ visited = Chosen
  BY DEF RouteInv, TypeOK, LoopsInOrder
<1>2. \A s \in Chosen, t \in {"pickup", "drop"} :
          \E i \in 1 .. Len(route) : route[i] = Stop(s, t)
  BY <1>1 DEF RouteInv, RouteMatches
<1>3. Cardinality(Chosen) = Len(candidates) /\ Len(candidates) \in Nat
  BY ChosenCount DEF RouteInv, TypeOK
<1>4. Len(route) = totalStops
  BY <1>1, <1>3 DEF RouteCounted, totalStops
<1> QED
  BY <1>2, <1>4

\* Every plan that comes back with a route leaves nobody out, has the stops the
\* earnings are computed from and, at each of them, no more on the truck than it
\* can carry.
THEOREM PlansAreRight == Spec => [](RouteIsComplete /\ LoadFits)
<1>1. Init => RouteCounted
  BY FS_EmptySet DEF Init, RouteCounted
<1>2. Spec => []RouteCounted
  BY <1>1, StepCounted, RouteInvariant, PTL DEF Spec
<1> QED
  BY <1>2, OnBoardFits, FinishedIsComplete, RouteInvariant, PTL

-----------------------------------------------------------------------------
(* Rounding *)

\* What an integer division leaves is less than its divisor.
LEMMA DivisionBounds ==
    ASSUME NEW a \in Int, NEW n \in Nat \ {0}
    PROVE  /\ a \div n \in Int
           /\ n * (a \div n) <= a
           /\ a < n * (a \div n) + n
BY Z3

\* Rounding a number that is not negative gives one that is not.
LEMMA RoundedNat ==
    ASSUME NEW x \in Nat, NEW unit \in Nat \ {0}
    PROVE  Rounded(x, unit) \in Nat
<1> DEFINE h == unit \div 2
           q == (x + h) \div unit
<1>1. h \in Nat
  OBVIOUS
<1>2. q \in Int /\ x + h < unit * q + unit
  BY <1>1, DivisionBounds
<1>3. q >= 0
  <2> HIDE DEF q, h
  <2>1. SUFFICES ASSUME q <= -1 PROVE FALSE
    BY <1>2
  <2>2. unit * q \in Int /\ unit * q <= -unit
    BY <1>2, <2>1
  <2> QED
    BY <1>1, <1>2, <2>2
<1> QED
  BY <1>2, <1>3 DEF Rounded

\* The shares of n orders differ from the earnings by half a paisa an order.
LEMMA SharesOfEarnings ==
    ASSUME NEW earning \in Nat, NEW n \in Nat \ {0}
    PROVE  /\ Share(earning, n) \in Nat
           /\ 2 * (earning - n * Share(earning, n)) \in -n .. n
<1> DEFINE q == Share(earning, n)
<1>1. q \in Nat
  <2>1. 2 * earning \in Nat /\ 2 * n \in Nat \ {0}
    OBVIOUS
  <2> QED
    BY <2>1, RoundedNat DEF Share
<1>2. q = (2 * earning + n) \div (2 * n)
  <2>1. (2 * n) \div 2 = n
    OBVIOUS
  <2> QED
    BY <2>1 DEF Share, Rounded
<1>3. (2 * n) * q <= 2 * earning + n /\ 2 * earning + n < (2 * n) * q + 2 * n
  <2>1. 2 * earning + n \in Int /\ 2 * n \in Nat \ {0}
    OBVIOUS
  <2> HIDE DEF q
  <2> QED
    BY <1>2, <2>1, DivisionBounds
<1>4. n * q \in Int /\ (2 * n) * q = 2 * (n * q)
  <2> HIDE DEF q
  <2> QED
    BY <1>1
<1>5. ASSUME NEW p \in Int, 2 * p <= 2 * earning + n, 2 * earning + n < 2 * p + 2 * n
      PROVE  2 * (earning - p) \in -n .. n
  BY <1>5
<1> QED
  BY <1>1, <1>3, <1>4, <1>5

\* createOrder rounds the quantity and what is left of the stock each for itself:
\* a unit appears when the request has a half, and nothing is lost.
LEMMA StockIsRounded ==
    ASSUME NEW asked \in Nat, NEW remaining \in Nat, asked <= 10 * remaining
    PROVE  /\ Rounded(10 * remaining - asked, 10) \in Nat
           /\ Rounded(10 * remaining - asked, 10) + Rounded(asked, 10) - remaining
                 = IF asked % 10 = 5 THEN 1 ELSE 0
           /\ asked % 10 = 0 => (Rounded(10 * remaining - asked, 10) = 0
                                    <=> 10 * remaining - asked <= 0)
BY DEF Rounded

\* A price that covers another covers it after both amounts are rounded.
LEMMA PriceCovers ==
    ASSUME NEW asked \in Nat, asked % 10 = 0, NEW low \in Nat, NEW high \in Nat, low <= high
    PROVE  Rounded(asked * high, 1000) >= Rounded(Rounded(asked, 10) * low, 100)
<1> DEFINE q == Rounded(asked, 10)
<1>1. q \in Nat /\ asked = 10 * q
  BY DEF Rounded
<1>2. asked * high = 10 * (q * high) /\ q * high >= q * low /\ q * high \in Nat /\ q * low \in Nat
  <2> HIDE DEF q
  <2> QED
    BY <1>1
<1>3. ASSUME NEW a \in Nat, NEW b \in Nat, b <= a
      PROVE  Rounded(10 * a, 1000) >= Rounded(b, 100)
  BY <1>3 DEF Rounded
<1> QED
  BY <1>2, <1>3

-----------------------------------------------------------------------------
(* The invariant *)

\* What an order holds of the listing, and the two payees' parts of it.
Held       == [o \in Orders |-> IF orders[o] \in {"none", "cancelled"} THEN 0 ELSE QtyOf[o]]
FarmerPart == [o \in Orders |-> settlements[o].farmer]
DriverPart == [o \in Orders |-> settlements[o].driver]

GoodsInv ==
    /\ \A o \in Orders : orders[o] # "none" => Asked[o] >= 10 * Moq
    /\ listing.remaining + SumFunctionOnSet(Held, Orders) - Stock \in 0 .. Cardinality(Fine)
    /\ Fine = {} => (listing.status = "sold" <=> listing.remaining = 0)

\* A settlement is there when its order was delivered, and keeps its parts when
\* the order is refunded.
SplitsMatch ==
    \A o \in Orders :
       /\ settlements[o].status = CASE orders[o] = "delivered" -> "settled"
                                    [] orders[o] = "refunded" -> "refunded"
                                    [] OTHER -> "none"
       /\ settlements[o].status = "none" => settlements[o] = NoSplit
       /\ settlements[o].status # "none" =>
             /\ settlements[o].gross = Total[o]
             /\ settlements[o].farmer = FarmerPayout[o]
             /\ settlements[o].margin = Total[o] - FarmerPayout[o] - settlements[o].driver

Delivered == {"delivered", "refunded"}

\* Twice what the drivers were paid over their parts.
DriverError == 2 * (paidOut.driver - SumFunctionOnSet(DriverPart, Orders))

\* A batch settles once, so that its rounding is the only one.
PaymentsInv ==
    /\ paidOut.seller = SumFunctionOnSet(FarmerPart, Orders)
    /\ \/ DriverError = 0
       \/ /\ phase = "done"
          /\ \A o \in Chosen : orders[o] \in Delivered
          /\ DriverError \in -Cardinality(Chosen) .. Cardinality(Chosen)

AmountsInv == RouteInv /\ AmountsTypeOK /\ GoodsInv /\ SplitsMatch /\ PaymentsInv

\* Quantities and amounts are natural numbers.
LEMMA AmountsFacts ==
    /\ IsFiniteSet(Orders) /\ Stock \in Nat \ {0} /\ Moq \in Nat \ {0}
    /\ PayoutPrice \in Nat /\ BuyerPrice \in Nat
    /\ Asked \in [Orders -> Nat]
    /\ QtyOf \in [Orders -> Nat] /\ \A o \in Orders : QtyOf[o] = Rounded(Asked[o], 10)
    /\ Total \in [Orders -> Nat] /\ \A o \in Orders : Total[o] = Rounded(Asked[o] * BuyerPrice, 1000)
    /\ FarmerPayout \in [Orders -> Nat]
    /\ \A o \in Orders : FarmerPayout[o] = Rounded(QtyOf[o] * PayoutPrice, 100)
<1> USE AmountsAssumption DEF Orders
<1>1. \A o \in Orders : Asked[o] \in Nat /\ Rounded(Asked[o], 10) \in Nat
  BY RoundedNat
<1>2. QtyOf \in [Orders -> Nat] /\ \A o \in Orders : QtyOf[o] = Rounded(Asked[o], 10)
  BY <1>1 DEF QtyOf
<1>3. ASSUME NEW o \in Orders
      PROVE  /\ Rounded(Asked[o] * BuyerPrice, 1000) \in Nat
             /\ Rounded(QtyOf[o] * PayoutPrice, 100) \in Nat
  <2>1. Asked[o] * BuyerPrice \in Nat /\ QtyOf[o] * PayoutPrice \in Nat
    BY <1>1, <1>2
  <2> QED
    BY <2>1, RoundedNat
<1> QED
  BY <1>1, <1>2, <1>3 DEF Total, FarmerPayout

\* What a driver earns, alone or for a batch, is a natural number.
LEMMA EarningsAreNat ==
    ASSUME TypeOK
    PROVE  /\ estEarnings \in Nat
           /\ \A o \in Orders : directEarnings(Distance[PickupAt[o]][DropAt[o]]) \in Nat
<1>1. \A p, q \in Places : Distance[p][q] \in Nat
  BY RouteAssumption
<1>2. \A o \in Orders : PickupAt[o] \in Places /\ DropAt[o] \in Places
  BY RouteAssumption DEF Orders
<1>3. route \in Seq(StopSet) /\ StopSet \subseteq [shipment : Orders, type : {"pickup", "drop"}]
  <2>1. Chosen \subseteq Orders
    BY ChosenCount DEF TypeOK, Orders
  <2> QED
    BY <2>1 DEF TypeOK, StopSet
<1>4. totalKm \in Nat
  <2> DEFINE leg == [i \in 2 .. Len(route) |->
                       Distance[PlaceOf(route[i - 1])][PlaceOf(route[i])]]
  <2>1. ASSUME NEW i \in 1 .. Len(route) PROVE PlaceOf(route[i]) \in Places
    <3>1. route[i] \in StopSet
      BY <1>3
    <3>2. route[i].shipment \in Orders
      BY <1>3, <3>1
    <3> QED
      BY <1>2, <3>2 DEF PlaceOf
  <2>2. Len(route) \in Nat
    BY <1>3
  <2>3. \A i \in 2 .. Len(route) : leg[i] \in Nat
    <3>1. \A i \in 2 .. Len(route) : i \in 1 .. Len(route) /\ i - 1 \in 1 .. Len(route)
      BY <2>2
    <3> QED
      BY <1>1, <2>1, <3>1
  <2>4. IsFiniteSet(2 .. Len(route))
    BY <2>2, FS_Interval
  <2> HIDE DEF leg
  <2>5. SumFunctionOnSet(leg, 2 .. Len(route)) \in Nat
    BY <2>3, <2>4, SumNat
  <2> QED
    BY <2>5 DEF leg, totalKm
<1>5. totalStops \in Nat
  BY ChosenCount DEF TypeOK, totalStops
<1> QED
  BY <1>1, <1>2, <1>4, <1>5 DEF estEarnings, directEarnings

\* The steps of this module are steps of planBatch or leave it alone.
LEMMA StepRouteHere == RouteInv /\ [AmountsNext]_allVars => RouteInv' /\ Chosen' = Chosen
<1> SUFFICES ASSUME RouteInv, [AmountsNext]_allVars PROVE RouteInv' /\ Chosen' = Chosen
  OBVIOUS
<1>1. [Next]_vars
  BY DEF AmountsNext, allVars, Plan
<1>2. candidates' = candidates
  BY <1>1 DEF Next, vars, ReturnEmpty, FirstPickup, AddPickup, StartDrops, AddDrop, Return
<1> QED
  BY <1>1, <1>2, StepRoute DEF Chosen

\* An empty ledger satisfies it.
LEMMA InitAmounts == AmountsInit => AmountsInv
<1> SUFFICES ASSUME AmountsInit PROVE AmountsInv
  OBVIOUS
<1> USE DEF AmountsInit
<1>1. RouteInv
  BY InitRoute
<1>2. AmountsTypeOK
  BY <1>1, AmountsFacts DEF AmountsTypeOK, RouteInv, NoSplit
<1>3. SumFunctionOnSet(Held, Orders) = 0
  BY AmountsFacts, SumZero DEF Held
<1>4. SumFunctionOnSet(FarmerPart, Orders) = 0 /\ SumFunctionOnSet(DriverPart, Orders) = 0
  BY AmountsFacts, SumZero DEF FarmerPart, DriverPart, NoSplit
<1>5. Fine = {} /\ Cardinality({}) = 0
  BY FS_EmptySet DEF Fine
<1>6. GoodsInv
  BY <1>3, <1>5, AmountsFacts DEF GoodsInv
<1>7. SplitsMatch
  BY DEF SplitsMatch, NoSplit
<1>8. PaymentsInv
  BY <1>4 DEF PaymentsInv, DriverError
<1> QED
  BY <1>1, <1>2, <1>6, <1>7, <1>8 DEF AmountsInv

-----------------------------------------------------------------------------
(* Types *)

\* The parts of a settlement are amounts.
LEMMA SplitIsTyped ==
    ASSUME NEW o \in Orders, NEW driver \in Nat
    PROVE  Split(o, driver) \in [gross : Nat, farmer : Nat, driver : Nat, margin : Int,
                                 status : {"none", "settled", "refunded"}]
<1>1. Total[o] \in Nat /\ FarmerPayout[o] \in Nat
  BY AmountsFacts
<1> QED
  BY <1>1 DEF Split

\* What is listed, delivered and paid stays a natural number.
LEMMA StepAmountsTypes == RouteInv /\ AmountsTypeOK /\ [AmountsNext]_allVars => AmountsTypeOK'
<1> SUFFICES ASSUME RouteInv, AmountsTypeOK, [AmountsNext]_allVars PROVE AmountsTypeOK'
  OBVIOUS
<1> USE DEF AmountsTypeOK
<1>1. TypeOK'
  BY StepRouteHere DEF RouteInv
<1>2. ASSUME UNCHANGED amounts PROVE AmountsTypeOK'
  BY <1>1, <1>2 DEF amounts
<1>3. ASSUME NEW o \in Orders, CreateOrder(o) PROVE AmountsTypeOK'
  <2>1. /\ Asked[o] \in Nat /\ listing.remaining \in Nat
        /\ Asked[o] <= 10 * listing.remaining
    <3>1. Asked[o] \in Nat
      BY AmountsFacts
    <3> QED
      BY <1>3, <3>1 DEF CreateOrder, Orderable
  <2>2. Rounded(10 * listing.remaining - Asked[o], 10) \in Nat
    BY <2>1, StockIsRounded
  <2> QED
    BY <1>1, <1>3, <2>2 DEF CreateOrder
<1>4. ASSUME NEW o \in Orders, PayOrder(o) PROVE AmountsTypeOK'
  BY <1>1, <1>4 DEF PayOrder
<1>5. ASSUME NEW o \in Orders, CancelOrder(o) PROVE AmountsTypeOK'
  <2>1. QtyOf[o] \in Nat
    BY AmountsFacts
  <2> QED
    BY <1>1, <1>5, <2>1 DEF CancelOrder
<1>6. ASSUME NEW o \in Orders, MarkDelivered(o) PROVE AmountsTypeOK'
  <2> DEFINE earning == directEarnings(Distance[PickupAt[o]][DropAt[o]])
  <2>1. earning \in Nat
    BY EarningsAreNat
  <2>2. Split(o, earning) \in [gross : Nat, farmer : Nat, driver : Nat, margin : Int,
                               status : {"none", "settled", "refunded"}]
    BY <2>1, SplitIsTyped
  <2>3. FarmerPayout[o] \in Nat
    BY AmountsFacts
  <2> HIDE DEF earning
  <2> QED
    BY <1>1, <1>6, <2>1, <2>2, <2>3 DEF MarkDelivered, earning
<1>7. ASSUME NEW o \in Orders, RefundOrder(o) PROVE AmountsTypeOK'
  BY <1>1, <1>7 DEF RefundOrder
<1>8. ASSUME BatchSettle PROVE AmountsTypeOK'
  <2> DEFINE n == Len(candidates)
  <2>1. /\ n \in Nat \ {0} /\ Chosen \subseteq Orders /\ IsFiniteSet(Chosen)
    BY <1>8, ChosenCount DEF BatchSettle, TypeOK, Orders
  <2>2. estEarnings \in Nat /\ Share(estEarnings, n) \in Nat
    BY <2>1, EarningsAreNat, SharesOfEarnings
  <2>3. \A o \in Orders : Split(o, Share(estEarnings, n)) \in
            [gross : Nat, farmer : Nat, driver : Nat, margin : Int,
             status : {"none", "settled", "refunded"}]
    BY <2>2, SplitIsTyped
  <2>4. SumFunctionOnSet(FarmerPayout, Chosen) \in Nat
    BY <2>1, AmountsFacts, SumNat
  <2> QED
    BY <1>1, <1>8, <2>2, <2>3, <2>4 DEF BatchSettle
<1> QED
  BY <1>2, <1>3, <1>4, <1>5, <1>6, <1>7, <1>8 DEF AmountsNext, allVars

-----------------------------------------------------------------------------
(* Goods *)

\* An order that is made moves from the stock what it holds, and the unit that
\* appears is allowed for by its being Fine.
LEMMA CreateKeepsGoods ==
    ASSUME AmountsTypeOK, GoodsInv, NEW o \in Orders, CreateOrder(o)
    PROVE  GoodsInv'
<1> DEFINE left == Rounded(10 * listing.remaining - Asked[o], 10)
<1> USE DEF AmountsTypeOK
<1>1. /\ Asked[o] \in Nat /\ QtyOf[o] \in Nat /\ QtyOf[o] = Rounded(Asked[o], 10)
      /\ Stock \in Nat /\ IsFiniteSet(Orders)
  BY AmountsFacts
<1>2. /\ orders[o] = "none" /\ listing.status = "live"
      /\ orders' = [orders EXCEPT ![o] = "created"]
      /\ Asked[o] >= 10 * Moq /\ Asked[o] <= 10 * listing.remaining
      /\ listing' = [status |-> IF 10 * listing.remaining - Asked[o] <= 0 THEN "sold" ELSE "live",
                     remaining |-> left]
  BY DEF CreateOrder, Orderable
<1>3. /\ left \in Nat
      /\ left + QtyOf[o] - listing.remaining = IF Asked[o] % 10 = 5 THEN 1 ELSE 0
      /\ Asked[o] % 10 = 0 => (left = 0 <=> 10 * listing.remaining - Asked[o] <= 0)
  <2>1. listing.remaining \in Nat /\ Asked[o] <= 10 * listing.remaining
    BY <1>2
  <2> QED
    BY <1>1, <2>1, StockIsRounded
<1>4. SumFunctionOnSet(Held', Orders) = SumFunctionOnSet(Held, Orders) + QtyOf[o]
      /\ SumFunctionOnSet(Held, Orders) \in Int
  <2>1. \A x \in Orders : Held[x] \in Int
    BY AmountsFacts DEF Held
  <2>2. Held[o] = 0 /\ Held'[o] = QtyOf[o] /\ \A x \in Orders \ {o} : Held'[x] = Held[x]
    BY <1>2 DEF Held
  <2>3. SumFunctionOnSet(Held', Orders) = SumFunctionOnSet(Held, Orders) - Held[o] + Held'[o]
    <3> DEFINE f == Held  g == Held'
    <3>1. \A x \in Orders : f[x] \in Int
      BY <2>1
    <3>2. g[o] \in Int /\ \A x \in Orders \ {o} : g[x] = f[x]
      BY <1>1, <2>2
    <3> HIDE DEF f, g
    <3>3. SumFunctionOnSet(g, Orders) = SumFunctionOnSet(f, Orders) - f[o] + g[o]
      BY <1>1, <3>1, <3>2, SumChange
    <3> QED
      BY <3>3 DEF f, g
  <2>4. SumFunctionOnSet(Held, Orders) \in Int
    BY <1>1, <2>1, SumType
  <2> QED
    BY <1>1, <2>2, <2>3, <2>4
<1>5. IsFiniteSet(Fine) /\ Cardinality(Fine) \in Nat
  BY <1>1, FS_Subset, FS_CardinalityType DEF Fine
<1>6. Cardinality(Fine') = Cardinality(Fine) + IF Asked[o] % 10 = 0 THEN 0 ELSE 1
  <2>1. CASE Asked[o] % 10 = 0
    <3>1. Fine' = Fine
      BY <1>2, <2>1 DEF Fine
    <3> QED
      BY <1>5, <2>1, <3>1
  <2>2. CASE Asked[o] % 10 # 0
    <3>1. o \notin Fine /\ Fine' = Fine \cup {o}
      BY <1>2, <2>2 DEF Fine
    <3> QED
      BY <1>5, <2>2, <3>1, FS_AddElement
  <2> QED
    BY <2>1, <2>2
<1>7. \A x \in Orders : orders'[x] # "none" => Asked[x] >= 10 * Moq
  BY <1>2 DEF GoodsInv
<1>8. listing'.remaining + SumFunctionOnSet(Held', Orders) - Stock \in 0 .. Cardinality(Fine')
  <2> DEFINE sum == SumFunctionOnSet(Held, Orders)
             n   == Cardinality(Fine)
  <2>1. listing.remaining \in Nat /\ listing.remaining + sum - Stock \in 0 .. n
    BY DEF GoodsInv
  <2>2. /\ sum \in Int /\ n \in Nat /\ listing'.remaining = left
        /\ SumFunctionOnSet(Held', Orders) = sum + QtyOf[o]
        /\ Cardinality(Fine') = n + IF Asked[o] % 10 = 0 THEN 0 ELSE 1
    BY <1>2, <1>4, <1>5, <1>6
  <2> HIDE DEF sum, n, left
  <2> QED
    BY <1>1, <1>3, <2>1, <2>2
<1>9. Fine' = {} => (listing'.status = "sold" <=> listing'.remaining = 0)
  <2>1. Fine' = {} => Asked[o] % 10 = 0
    BY <1>2 DEF Fine
  <2> HIDE DEF left
  <2> QED
    BY <1>2, <1>3, <2>1
<1> QED
  BY <1>7, <1>8, <1>9 DEF GoodsInv

\* A cancelled order gives back what it held, which is something.
LEMMA CancelKeepsGoods ==
    ASSUME AmountsTypeOK, GoodsInv, NEW o \in Orders, CancelOrder(o)
    PROVE  GoodsInv'
<1> USE DEF AmountsTypeOK
<1>1. /\ Asked[o] \in Nat /\ QtyOf[o] \in Nat /\ QtyOf[o] = Rounded(Asked[o], 10)
      /\ Stock \in Nat /\ Moq \in Nat \ {0} /\ IsFiniteSet(Orders)
  BY AmountsFacts
<1>2. /\ orders[o] \in {"created", "paid"} /\ orders' = [orders EXCEPT ![o] = "cancelled"]
      /\ listing' = [status |-> "live", remaining |-> listing.remaining + QtyOf[o]]
  BY DEF CancelOrder
<1>3. QtyOf[o] > 0
  BY <1>1, <1>2 DEF GoodsInv, Rounded
<1>4. SumFunctionOnSet(Held', Orders) = SumFunctionOnSet(Held, Orders) - QtyOf[o]
      /\ SumFunctionOnSet(Held, Orders) \in Int
  <2>1. \A x \in Orders : Held[x] \in Int
    BY AmountsFacts DEF Held
  <2>2. Held[o] = QtyOf[o] /\ Held'[o] = 0 /\ \A x \in Orders \ {o} : Held'[x] = Held[x]
    BY <1>2 DEF Held
  <2>3. SumFunctionOnSet(Held', Orders) = SumFunctionOnSet(Held, Orders) - Held[o] + Held'[o]
    <3> DEFINE f == Held  g == Held'
    <3>1. \A x \in Orders : f[x] \in Int
      BY <2>1
    <3>2. g[o] \in Int /\ \A x \in Orders \ {o} : g[x] = f[x]
      BY <2>2
    <3> HIDE DEF f, g
    <3>3. SumFunctionOnSet(g, Orders) = SumFunctionOnSet(f, Orders) - f[o] + g[o]
      BY <1>1, <3>1, <3>2, SumChange
    <3> QED
      BY <3>3 DEF f, g
  <2>4. SumFunctionOnSet(Held, Orders) \in Int
    BY <1>1, <2>1, SumType
  <2> QED
    BY <1>1, <2>2, <2>3, <2>4
<1>5. Fine' = Fine
  BY <1>2 DEF Fine
<1>6. listing'.remaining + SumFunctionOnSet(Held', Orders) - Stock \in 0 .. Cardinality(Fine')
  <2> DEFINE sum == SumFunctionOnSet(Held, Orders)
  <2>1. /\ listing.remaining \in Nat /\ listing.remaining + sum - Stock \in 0 .. Cardinality(Fine)
        /\ listing'.remaining = listing.remaining + QtyOf[o]
    BY <1>2 DEF GoodsInv
  <2>2. sum \in Int /\ SumFunctionOnSet(Held', Orders) = sum - QtyOf[o]
    BY <1>4
  <2> HIDE DEF sum
  <2>3. listing'.remaining + (sum - QtyOf[o]) - Stock = listing.remaining + sum - Stock
    BY <1>1, <2>1, <2>2
  <2> QED
    BY <1>5, <2>1, <2>2, <2>3
<1>7. listing'.status = "live" /\ listing'.remaining # 0
  BY <1>1, <1>2, <1>3
<1> QED
  BY <1>2, <1>5, <1>6, <1>7 DEF GoodsInv

\* A step that keeps the listing, and every order among those that hold something
\* of it, keeps the balance.
LEMMA OthersKeepGoods ==
    ASSUME GoodsInv, UNCHANGED listing,
           \A x \in Orders : /\ orders'[x] = "none" <=> orders[x] = "none"
                             /\ orders'[x] = "cancelled" <=> orders[x] = "cancelled"
    PROVE  GoodsInv'
<1>1. Held' = Held
  BY DEF Held
<1>2. Fine' = Fine
  BY DEF Fine
<1> QED
  BY <1>1, <1>2 DEF GoodsInv

\* What a listing has left and what its orders hold go on adding up to the stock,
\* but for what rounding makes of an order that is no multiple of ten grams.
LEMMA StepGoods == RouteInv /\ AmountsTypeOK /\ GoodsInv /\ [AmountsNext]_allVars => GoodsInv'
<1> SUFFICES ASSUME RouteInv, AmountsTypeOK, GoodsInv, [AmountsNext]_allVars PROVE GoodsInv'
  OBVIOUS
<1> USE DEF AmountsTypeOK
<1>1. ASSUME UNCHANGED amounts PROVE GoodsInv'
  BY <1>1, OthersKeepGoods DEF amounts
<1>2. ASSUME NEW o \in Orders, PayOrder(o) PROVE GoodsInv'
  BY <1>2, OthersKeepGoods DEF PayOrder
<1>3. ASSUME NEW o \in Orders, MarkDelivered(o) PROVE GoodsInv'
  BY <1>3, OthersKeepGoods DEF MarkDelivered
<1>4. ASSUME NEW o \in Orders, RefundOrder(o) PROVE GoodsInv'
  BY <1>4, OthersKeepGoods DEF RefundOrder
<1>5. ASSUME BatchSettle PROVE GoodsInv'
  BY <1>5, OthersKeepGoods DEF BatchSettle
<1> QED
  BY <1>1, <1>2, <1>3, <1>4, <1>5, CreateKeepsGoods, CancelKeepsGoods DEF AmountsNext, allVars

-----------------------------------------------------------------------------
(* Settlements and payouts *)

\* The statuses of a settlement and of its order change together.
LEMMA StepSplits ==
    RouteInv /\ AmountsTypeOK /\ SplitsMatch /\ [AmountsNext]_allVars => SplitsMatch'
<1> SUFFICES ASSUME RouteInv, AmountsTypeOK, SplitsMatch, [AmountsNext]_allVars
             PROVE  SplitsMatch'
  OBVIOUS
<1> USE DEF AmountsTypeOK
<1>1. ASSUME UNCHANGED amounts PROVE SplitsMatch'
  BY <1>1 DEF amounts, SplitsMatch
<1>2. ASSUME NEW o \in Orders, UNCHANGED settlements,
             orders[o] \notin Delivered, orders'[o] \notin Delivered,
             \A x \in Orders \ {o} : orders'[x] = orders[x]
      PROVE  SplitsMatch'
  BY <1>2 DEF SplitsMatch, Delivered
<1>3. ASSUME NEW o \in Orders, CreateOrder(o) \/ PayOrder(o) \/ CancelOrder(o)
      PROVE  SplitsMatch'
  BY <1>2, <1>3 DEF CreateOrder, PayOrder, CancelOrder, Delivered
<1>4. ASSUME NEW o \in Orders, MarkDelivered(o) PROVE SplitsMatch'
  BY <1>4 DEF MarkDelivered, SplitsMatch, Split
<1>5. ASSUME NEW o \in Orders, RefundOrder(o) PROVE SplitsMatch'
  BY <1>5 DEF RefundOrder, SplitsMatch
<1>6. ASSUME BatchSettle PROVE SplitsMatch'
  BY <1>6 DEF BatchSettle, SplitsMatch, Split
<1> QED
  BY <1>1, <1>3, <1>4, <1>5, <1>6 DEF AmountsNext, allVars

\* Parts that do not change add up to the same.
LEMMA SameParts ==
    ASSUME \A x \in Orders : /\ settlements'[x].farmer = settlements[x].farmer
                             /\ settlements'[x].driver = settlements[x].driver
    PROVE  FarmerPart' = FarmerPart /\ DriverPart' = DriverPart
BY DEF FarmerPart, DriverPart

\* A step that delivers nothing pays nobody.
LEMMA OthersKeepPayments ==
    ASSUME PaymentsInv, UNCHANGED paidOut, Chosen' = Chosen,
           phase = "done" => phase' = "done",
           \A x \in Orders : /\ settlements'[x].farmer = settlements[x].farmer
                             /\ settlements'[x].driver = settlements[x].driver
                             /\ orders[x] \in Delivered => orders'[x] \in Delivered,
           Chosen \subseteq Orders
    PROVE  PaymentsInv'
<1>1. DriverError' = DriverError
  BY SameParts DEF DriverError
<1> QED
  BY <1>1, SameParts DEF PaymentsInv

\* A delivery pays both parts of its settlement in full.
LEMMA DeliveryKeepsPayments ==
    ASSUME AmountsTypeOK, AmountsTypeOK', SplitsMatch, PaymentsInv, Chosen \subseteq Orders,
           NEW o \in Orders, MarkDelivered(o), UNCHANGED vars
    PROVE  PaymentsInv'
<1> DEFINE earning == directEarnings(Distance[PickupAt[o]][DropAt[o]])
<1>1. /\ orders[o] = "paid" /\ orders' = [orders EXCEPT ![o] = "delivered"]
      /\ settlements' = [settlements EXCEPT ![o] = Split(o, earning)]
      /\ paidOut' = [seller |-> paidOut.seller + FarmerPayout[o],
                     driver |-> paidOut.driver + earning]
  BY DEF MarkDelivered
<1>2. earning \in Nat /\ FarmerPayout[o] \in Nat /\ IsFiniteSet(Orders)
  BY EarningsAreNat, AmountsFacts DEF AmountsTypeOK
<1>3. settlements[o] = NoSplit
  BY <1>1 DEF SplitsMatch
<1> HIDE DEF earning
<1>4. /\ FarmerPart[o] = 0 /\ FarmerPart'[o] = FarmerPayout[o]
      /\ DriverPart[o] = 0 /\ DriverPart'[o] = earning
      /\ \A x \in Orders \ {o} : FarmerPart'[x] = FarmerPart[x] /\ DriverPart'[x] = DriverPart[x]
      /\ \A x \in Orders : FarmerPart[x] \in Int /\ DriverPart[x] \in Int
  BY <1>1, <1>3 DEF FarmerPart, DriverPart, NoSplit, Split, AmountsTypeOK
<1>5. SumFunctionOnSet(FarmerPart', Orders) = SumFunctionOnSet(FarmerPart, Orders) - 0 + FarmerPayout[o]
  <2> DEFINE f == FarmerPart  g == FarmerPart'
  <2>1. /\ \A x \in Orders : f[x] \in Int
        /\ f[o] = 0 /\ g[o] = FarmerPayout[o] /\ g[o] \in Int
        /\ \A x \in Orders \ {o} : g[x] = f[x]
    BY <1>2, <1>4
  <2> HIDE DEF f, g
  <2>2. SumFunctionOnSet(g, Orders) = SumFunctionOnSet(f, Orders) - f[o] + g[o]
    BY <1>2, <2>1, SumChange
  <2> QED
    BY <2>1, <2>2 DEF f, g
<1>6. SumFunctionOnSet(DriverPart', Orders) = SumFunctionOnSet(DriverPart, Orders) - 0 + earning
  <2> DEFINE f == DriverPart  g == DriverPart'
  <2>1. /\ \A x \in Orders : f[x] \in Int
        /\ f[o] = 0 /\ g[o] = earning /\ g[o] \in Int
        /\ \A x \in Orders \ {o} : g[x] = f[x]
    BY <1>2, <1>4
  <2> HIDE DEF f, g
  <2>2. SumFunctionOnSet(g, Orders) = SumFunctionOnSet(f, Orders) - f[o] + g[o]
    BY <1>2, <2>1, SumChange
  <2> QED
    BY <2>1, <2>2 DEF f, g
<1>7. /\ SumFunctionOnSet(FarmerPart, Orders) \in Int
      /\ SumFunctionOnSet(DriverPart, Orders) \in Int
      /\ paidOut.seller \in Int /\ paidOut.driver \in Int
  BY <1>2, <1>4, SumType DEF AmountsTypeOK
<1>8. paidOut'.seller = SumFunctionOnSet(FarmerPart', Orders)
  BY <1>1, <1>2, <1>5, <1>7 DEF PaymentsInv
<1>9. DriverError' = DriverError
  <2> DEFINE was == SumFunctionOnSet(DriverPart, Orders)
             is  == SumFunctionOnSet(DriverPart', Orders)
  <2>1. is = was - 0 + earning /\ was \in Int /\ paidOut'.driver = paidOut.driver + earning
    BY <1>1, <1>6, <1>7
  <2> HIDE DEF was, is
  <2>2. 2 * (paidOut'.driver - is) = 2 * (paidOut.driver - was)
    BY <1>2, <1>7, <2>1
  <2> QED
    BY <2>2 DEF was, is, DriverError
<1>10. /\ phase' = phase /\ Chosen' = Chosen
       /\ \A x \in Orders : orders[x] \in Delivered => orders'[x] \in Delivered
  BY <1>1 DEF vars, Chosen, Delivered, AmountsTypeOK
<1> QED
  BY <1>8, <1>9, <1>10 DEF PaymentsInv

\* A batch pays the farmers' parts in full and the driver to half a paisa an order.
LEMMA BatchKeepsPayments ==
    ASSUME RouteInv, AmountsTypeOK, SplitsMatch, PaymentsInv, BatchSettle, UNCHANGED vars
    PROVE  PaymentsInv'
<1> DEFINE n     == Len(candidates)
           share == Share(estEarnings, n)
           owed  == [x \in Orders |-> IF x \in Chosen THEN FarmerPayout[x] ELSE 0]
           wages == [x \in Orders |-> IF x \in Chosen THEN share ELSE 0]
<1>1. /\ n \in Nat \ {0} /\ n = Cardinality(Chosen) /\ n >= 2
      /\ Chosen \subseteq Orders /\ IsFiniteSet(Chosen) /\ IsFiniteSet(Orders)
      /\ \E x \in Chosen : TRUE
  <2>1. n \in Nat /\ n >= 2 /\ candidates # <<>>
    BY DEF BatchSettle, RouteInv, TypeOK
  <2> QED
    BY <2>1, ChosenCount, AmountsFacts DEF RouteInv, TypeOK, Orders
<1>2. /\ estEarnings \in Nat /\ share \in Nat
      /\ 2 * (estEarnings - n * share) \in -n .. n
  BY <1>1, EarningsAreNat, SharesOfEarnings DEF RouteInv
<1>3. /\ phase = "done" /\ \A x \in Chosen : orders[x] = "paid"
      /\ orders' = [x \in Orders |-> IF x \in Chosen THEN "delivered" ELSE orders[x]]
      /\ settlements' = [x \in Orders |-> IF x \in Chosen THEN Split(x, share) ELSE settlements[x]]
      /\ paidOut' = [seller |-> paidOut.seller + SumFunctionOnSet(FarmerPayout, Chosen),
                     driver |-> paidOut.driver + estEarnings]
  BY DEF BatchSettle
<1>4. \A x \in Chosen : settlements[x] = NoSplit
  BY <1>1, <1>3 DEF SplitsMatch
<1> HIDE DEF n, share
<1>5. ASSUME NEW x \in Orders
      PROVE  /\ FarmerPart[x] \in Int /\ owed[x] \in Int
             /\ FarmerPart'[x] = FarmerPart[x] + owed[x]
             /\ DriverPart[x] \in Int /\ wages[x] \in Int
             /\ DriverPart'[x] = DriverPart[x] + wages[x]
  <2>1. settlements[x].farmer \in Int /\ settlements[x].driver \in Int
        /\ FarmerPayout[x] \in Int
    BY AmountsFacts DEF AmountsTypeOK
  <2>2. CASE x \in Chosen
    <3>1. settlements[x] = NoSplit /\ settlements'[x] = Split(x, share)
      BY <1>3, <1>4, <2>2
    <3> QED
      BY <1>2, <2>1, <2>2, <3>1 DEF FarmerPart, DriverPart, Split, NoSplit
  <2>3. CASE x \notin Chosen
    BY <1>3, <2>1, <2>3 DEF FarmerPart, DriverPart
  <2> QED
    BY <2>2, <2>3
<1>6. SumFunctionOnSet(owed, Orders) = SumFunctionOnSet(FarmerPayout, Chosen)
  <2>1. /\ \A x \in Chosen : FarmerPayout[x] \in Int /\ owed[x] = FarmerPayout[x]
        /\ \A x \in Orders \ Chosen : owed[x] = 0
    BY <1>1, AmountsFacts
  <2> HIDE DEF owed
  <2> QED
    BY <1>1, <2>1, SumOutside
<1>7. SumFunctionOnSet(wages, Orders) = n * share
  <2> DEFINE each == [x \in Chosen |-> share]
  <2>1. /\ \A x \in Chosen : each[x] \in Int /\ each[x] = share /\ wages[x] = each[x]
        /\ \A x \in Orders \ Chosen : wages[x] = 0
    BY <1>1, <1>2
  <2> HIDE DEF wages, each
  <2>2. SumFunctionOnSet(wages, Orders) = SumFunctionOnSet(each, Chosen)
    BY <1>1, <2>1, SumOutside
  <2>3. SumFunctionOnSet(each, Chosen) = Cardinality(Chosen) * share
    BY <1>1, <1>2, <2>1, SumConstant
  <2> QED
    BY <1>1, <2>2, <2>3
<1>8. SumFunctionOnSet(FarmerPart', Orders)
         = SumFunctionOnSet(FarmerPart, Orders) + SumFunctionOnSet(owed, Orders)
  <2> DEFINE f == FarmerPart  h == FarmerPart'
  <2>1. \A x \in Orders : f[x] \in Int /\ owed[x] \in Int /\ h[x] = f[x] + owed[x]
    BY <1>5
  <2> HIDE DEF f, h, owed
  <2>2. SumFunctionOnSet(h, Orders) = SumFunctionOnSet(f, Orders) + SumFunctionOnSet(owed, Orders)
    BY <1>1, <2>1, SumPlus
  <2> QED
    BY <2>2 DEF f, h
<1>9. SumFunctionOnSet(DriverPart', Orders)
         = SumFunctionOnSet(DriverPart, Orders) + SumFunctionOnSet(wages, Orders)
  <2> DEFINE f == DriverPart  h == DriverPart'
  <2>1. \A x \in Orders : f[x] \in Int /\ wages[x] \in Int /\ h[x] = f[x] + wages[x]
    BY <1>5
  <2> HIDE DEF f, h, wages
  <2>2. SumFunctionOnSet(h, Orders) = SumFunctionOnSet(f, Orders) + SumFunctionOnSet(wages, Orders)
    BY <1>1, <2>1, SumPlus
  <2> QED
    BY <2>2 DEF f, h
<1>10. /\ SumFunctionOnSet(DriverPart, Orders) \in Int
       /\ paidOut.seller \in Int /\ paidOut.driver \in Int
  BY <1>1, <1>5, SumType DEF AmountsTypeOK
<1>11. paidOut'.seller = SumFunctionOnSet(FarmerPart', Orders)
  BY <1>3, <1>6, <1>8 DEF PaymentsInv
<1>12. DriverError = 0
  BY <1>1, <1>3 DEF PaymentsInv, Delivered
<1>13. DriverError' \in -n .. n
  <2> DEFINE was  == SumFunctionOnSet(DriverPart, Orders)
             is   == SumFunctionOnSet(DriverPart', Orders)
             paid == n * share
             earned == estEarnings
  <2>1. /\ is = was + paid /\ was \in Int /\ paidOut'.driver = paidOut.driver + earned
        /\ paid \in Int /\ earned \in Int /\ 2 * (earned - paid) \in -n .. n
        /\ 2 * (paidOut.driver - was) = 0
    BY <1>1, <1>2, <1>3, <1>7, <1>9, <1>10, <1>12 DEF DriverError
  <2> HIDE DEF was, is, paid, earned
  <2>2. 2 * (paidOut'.driver - is) = 2 * (earned - paid)
    BY <1>10, <2>1
  <2> QED
    BY <2>1, <2>2 DEF is, DriverError
<1>14. phase' = "done" /\ Chosen' = Chosen /\ \A x \in Chosen : orders'[x] \in Delivered
  BY <1>1, <1>3 DEF vars, Chosen, Delivered
<1> QED
  BY <1>1, <1>11, <1>13, <1>14 DEF PaymentsInv

\* The payouts follow the settlements, to the half paisa a driver's part is rounded by.
LEMMA StepPayments ==
    /\ RouteInv /\ AmountsTypeOK /\ AmountsTypeOK' /\ SplitsMatch /\ PaymentsInv
    /\ [AmountsNext]_allVars
    => PaymentsInv'
<1> SUFFICES ASSUME RouteInv, AmountsTypeOK, AmountsTypeOK', SplitsMatch, PaymentsInv,
                    [AmountsNext]_allVars
             PROVE  PaymentsInv'
  OBVIOUS
<1>1. Chosen' = Chosen /\ Chosen \subseteq Orders
  BY StepRouteHere, ChosenCount DEF RouteInv, TypeOK, Orders
<1>2. ASSUME UNCHANGED amounts, [Next]_vars PROVE PaymentsInv'
  <2>1. phase = "done" => phase' = "done"
    BY <1>2 DEF Next, vars, ReturnEmpty, FirstPickup, AddPickup, StartDrops, AddDrop, Return
  <2> QED
    BY <1>1, <1>2, <2>1, OthersKeepPayments DEF amounts
<1>3. ASSUME NEW o \in Orders, CreateOrder(o) \/ PayOrder(o) \/ CancelOrder(o), UNCHANGED vars
      PROVE  PaymentsInv'
  <2>1. /\ settlements' = settlements /\ paidOut' = paidOut /\ phase' = phase
        /\ \A x \in Orders : orders[x] \in Delivered => orders'[x] \in Delivered
    BY <1>3 DEF CreateOrder, PayOrder, CancelOrder, Delivered, vars, AmountsTypeOK
  <2> QED
    BY <1>1, <2>1, OthersKeepPayments
<1>4. ASSUME NEW o \in Orders, RefundOrder(o), UNCHANGED vars PROVE PaymentsInv'
  <2>1. /\ paidOut' = paidOut /\ phase' = phase
        /\ \A x \in Orders : /\ settlements'[x].farmer = settlements[x].farmer
                             /\ settlements'[x].driver = settlements[x].driver
                             /\ orders[x] \in Delivered => orders'[x] \in Delivered
    BY <1>4 DEF RefundOrder, Delivered, vars, AmountsTypeOK
  <2> QED
    BY <1>1, <2>1, OthersKeepPayments
<1>5. UNCHANGED allVars => UNCHANGED amounts /\ [Next]_vars
  BY DEF allVars
<1> QED
  BY <1>1, <1>2, <1>3, <1>4, <1>5, DeliveryKeepsPayments, BatchKeepsPayments DEF AmountsNext, Plan

-----------------------------------------------------------------------------
(* What follows *)

\* Routes, goods, settlements and payouts belong together at all times, for any stock,
\* prices and orders.
THEOREM AmountsInvariant == AmountsSpec => []AmountsInv
<1>1. AmountsInv /\ [AmountsNext]_allVars => AmountsInv'
  BY StepRouteHere, StepAmountsTypes, StepGoods, StepSplits, StepPayments DEF AmountsInv
<1> QED
  BY <1>1, InitAmounts, PTL DEF AmountsSpec

\* Every row of the tables an order is settled in has the type its column has,
\* whatever is ordered.
THEOREM AmountsTypes == AmountsSpec => []AmountsTypeOK
<1>1. AmountsInv => AmountsTypeOK
  BY DEF AmountsInv
<1> QED
  BY <1>1, AmountsInvariant, PTL

\* The goods of StockDrift.
LEMMA DriftIsBounded == AmountsInv => StockDrift
<1> SUFFICES ASSUME AmountsInv PROVE StockDrift
  OBVIOUS
<1> DEFINE live == {o \in Orders : orders[o] \notin {"none", "cancelled"}}
<1>1. SumFunctionOnSet(Held, Orders) = SumFunctionOnSet(QtyOf, live)
  <2>1. /\ \A x \in live : QtyOf[x] \in Int /\ Held[x] = QtyOf[x]
        /\ \A x \in Orders \ live : Held[x] = 0
        /\ live \subseteq Orders /\ IsFiniteSet(Orders)
    BY AmountsFacts DEF Held
  <2> HIDE DEF live
  <2> QED
    BY <2>1, SumOutside
<1> QED
  BY <1>1 DEF AmountsInv, GoodsInv, StockDrift

\* What the ledger tells of the settled orders is what the sums over all orders
\* say, without the refunded ones.
LEMMA BooksAddUp == AmountsInv => BooksBalance
<1> SUFFICES ASSUME AmountsInv PROVE BooksBalance
  OBVIOUS
<1> DEFINE settled == {o \in Orders : settlements[o].status = "settled"}
           part(p) == [o \in settled |-> settlements[o][p]]
           told(p) == SumFunctionOnSet(part(p), settled)
           captured == SumFunctionOnSet(Total, {o \in Orders : orders[o] = "delivered"})
           doubled == 2 * (paidOut.driver - told("driver"))
           n == Cardinality(Chosen)
<1> USE DEF AmountsInv
<1>1. /\ IsFiniteSet(Orders) /\ settled \subseteq Orders /\ IsFiniteSet(settled)
      /\ {o \in Orders : orders[o] = "delivered"} = settled
      /\ n \in Nat
  <2>1. IsFiniteSet(Orders)
    BY AmountsFacts
  <2>2. n \in Nat
    BY ChosenCount, FS_CardinalityType DEF RouteInv, TypeOK
  <2>3. {o \in Orders : orders[o] = "delivered"} = settled
    BY DEF SplitsMatch, AmountsTypeOK
  <2> QED
    BY <2>1, <2>2, <2>3, FS_Subset
<1>2. \A o \in settled : /\ settlements[o].farmer \in Nat /\ settlements[o].driver \in Nat
                         /\ settlements[o].margin \in Int /\ settlements[o].farmer = FarmerPayout[o]
                         /\ settlements[o].gross = Total[o]
                         /\ settlements[o].margin
                              = Total[o] - settlements[o].farmer - settlements[o].driver
                         /\ Total[o] \in Int
  BY AmountsFacts DEF AmountsTypeOK, SplitsMatch
<1>3. /\ told("farmer") \in Int /\ told("driver") \in Int /\ told("margin") \in Int
  <2>1. \A o \in settled : /\ part("farmer")[o] \in Int /\ part("driver")[o] \in Int
                           /\ part("margin")[o] \in Int
    BY <1>2
  <2> HIDE DEF settled, part
  <2> QED
    BY <1>1, <2>1, SumType
<1>4. captured = told("farmer") + told("driver") + told("margin")
  <2> DEFINE f == part("farmer")  d == part("driver")  m == part("margin")
             fd == [o \in settled |-> settlements[o].farmer + settlements[o].driver]
  <2>1. \A o \in settled : /\ f[o] \in Int /\ d[o] \in Int /\ fd[o] = f[o] + d[o]
                           /\ fd[o] \in Int /\ m[o] \in Int /\ Total[o] = fd[o] + m[o]
    BY <1>2
  <2> HIDE DEF f, d, m, fd, settled
  <2>2. SumFunctionOnSet(fd, settled)
           = SumFunctionOnSet(f, settled) + SumFunctionOnSet(d, settled)
    BY <1>1, <2>1, SumPlus
  <2>3. SumFunctionOnSet(Total, settled)
           = SumFunctionOnSet(fd, settled) + SumFunctionOnSet(m, settled)
    BY <1>1, <2>1, SumPlus
  <2> QED
    BY <1>1, <2>2, <2>3 DEF f, d, m
<1>5. /\ told("farmer") = SumFunctionOnSet(FarmerPart, settled)
      /\ told("driver") = SumFunctionOnSet(DriverPart, settled)
  <2>1. \A o \in settled : /\ part("farmer")[o] = FarmerPart[o]
                           /\ part("driver")[o] = DriverPart[o]
    BY DEF FarmerPart, DriverPart
  <2> HIDE DEF settled, part
  <2> QED
    BY <1>1, <2>1, SumSame
<1>6. \A o \in Orders : FarmerPart[o] \in Nat /\ DriverPart[o] \in Nat
  BY DEF FarmerPart, DriverPart, AmountsTypeOK
<1>7. /\ told("farmer") <= SumFunctionOnSet(FarmerPart, Orders)
      /\ told("driver") <= SumFunctionOnSet(DriverPart, Orders)
      /\ SumFunctionOnSet(FarmerPart, Orders) \in Int
      /\ SumFunctionOnSet(DriverPart, Orders) \in Int
  <2> HIDE DEF settled, told
  <2> QED
    BY <1>1, <1>5, <1>6, SumMonotone, SumType
<1>8. ASSUME \A o \in Orders : orders[o] # "refunded"
      PROVE  /\ told("farmer") = SumFunctionOnSet(FarmerPart, Orders)
             /\ told("driver") = SumFunctionOnSet(DriverPart, Orders)
  <2>1. \A o \in Orders \ settled : FarmerPart[o] = 0 /\ DriverPart[o] = 0
    BY <1>8 DEF FarmerPart, DriverPart, SplitsMatch, NoSplit, AmountsTypeOK
  <2> HIDE DEF settled, told
  <2> QED
    BY <1>1, <1>5, <1>6, <2>1, SumOutside
<1>9. DriverError \in -n .. n /\ paidOut.driver \in Int /\ paidOut.seller \in Int
  BY <1>1 DEF PaymentsInv, AmountsTypeOK
<1>10. doubled >= -n
  <2> DEFINE all == SumFunctionOnSet(DriverPart, Orders)
             some == told("driver")
  <2>1. 2 * (paidOut.driver - all) \in -n .. n /\ some <= all /\ some \in Int /\ all \in Int
    BY <1>3, <1>7, <1>9 DEF DriverError
  <2> HIDE DEF all, told, n
  <2> QED
    BY <1>1, <1>9, <2>1
<1>11. paidOut.seller = SumFunctionOnSet(FarmerPart, Orders)
  BY DEF PaymentsInv
<1>12. ASSUME \A o \in Orders : orders[o] # "refunded"
       PROVE  paidOut.seller = told("farmer") /\ doubled <= n
  <2>1. doubled = DriverError
    BY <1>8, <1>12 DEF DriverError
  <2> HIDE DEF doubled, told, n
  <2> QED
    BY <1>1, <1>8, <1>9, <1>11, <1>12, <2>1
<1>13. ASSUME BuyerPrice >= PayoutPrice, NEW o \in settled \ Fine
       PROVE  settlements[o].gross >= settlements[o].farmer
  <2>1. Asked[o] % 10 = 0
    BY DEF Fine, SplitsMatch
  <2>2. /\ Total[o] = Rounded(Asked[o] * BuyerPrice, 1000)
        /\ FarmerPayout[o] = Rounded(Rounded(Asked[o], 10) * PayoutPrice, 100)
        /\ Asked[o] \in Nat /\ PayoutPrice \in Nat /\ BuyerPrice \in Nat
        /\ PayoutPrice <= BuyerPrice
    BY <1>13, AmountsFacts
  <2> QED
    BY <1>2, <2>1, <2>2, PriceCovers
<1> HIDE DEF settled, n
<1>14. /\ captured = told("farmer") + told("driver") + told("margin")
       /\ paidOut.seller >= told("farmer") /\ doubled >= -n
       /\ (\A o \in Orders : orders[o] # "refunded") =>
             paidOut.seller = told("farmer") /\ doubled <= n
       /\ BuyerPrice >= PayoutPrice =>
             \A o \in settled \ Fine : settlements[o].gross >= settlements[o].farmer
  <2>1. paidOut.seller >= told("farmer")
    <3> HIDE DEF told
    <3> QED
      BY <1>3, <1>7, <1>9, <1>11
  <2> QED
    BY <1>4, <1>10, <1>12, <1>13, <2>1
<1> QED
  BY <1>14 DEF BooksBalance, settled, n

\* Goods and money add up whatever is ordered, in whatever quantity and at
\* whatever prices, delivered alone or in a batch, cancelled or refunded.
THEOREM GoodsAndMoneyAddUp == AmountsSpec => []AmountsAddUp
<1>1. AmountsInv => AmountsAddUp
  BY DriftIsBounded, BooksAddUp DEF AmountsAddUp
<1> QED
  BY <1>1, AmountsInvariant, PTL
=============================================================================
