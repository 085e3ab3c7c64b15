------------------------------ MODULE RoutePlan ------------------------------
(***************************************************************************)
(* planBatch: the plan of a batch run for the shipments a driver selected. *)
(*                                                                         *)
(* The two while loops of planRoute are the state machine, one iteration a *)
(* step; the scan for the nearest stop inside an iteration is Nearest.     *)
(* Distances come from a function on places: haversine is not modelled,    *)
(* and no property depends on it.  Distances and weights are in hundredths *)
(* of a kilometre and of a kg, the decimals both are rounded to.           *)
(***************************************************************************)
EXTENDS Integers, Sequences, FiniteSets, Functions

CONSTANTS
    Selections,      \* the candidate lists planBatch may be called with (bound)
    Distance,        \* distanceKm between two places
    PickupAt, DropAt, Weight,
                     \* pickup and drop place, weight_kg of a shipment
    Capacity         \* the driver's capacity_kg

Shipments == DOMAIN Weight
Places    == {PickupAt[s] : s \in Shipments} \cup {DropAt[s] : s \in Shipments}

\* shipmentIds are distinct: planBatchFromShipments compares their number with
\* the number of rows found.
ASSUME RouteAssumption ==
    /\ PickupAt \in [Shipments -> Places]
    /\ DropAt \in [Shipments -> Places]
    /\ Weight \in [Shipments -> Nat]
    /\ \A p, q \in Places : Distance[p][q] \in Nat
    /\ Capacity \in Nat \ {0}
    /\ \A c \in Selections :
          /\ c \in Seq(Shipments)
          /\ \A i, j \in 1 .. Len(c) : c[i] = c[j] => i = j

VARIABLES
    candidates,   \* the shipments to plan, in the order of the rows
    phase,        \* "start", "pickups", "drops" or "done"
    visited,      \* visited: shipments whose pickup is on the route
    served,       \* visitedDrops: shipments whose drop is
    route         \* routePlan: the stops so far

vars == <<candidates, phase, visited, served, route>>

-----------------------------------------------------------------------------

Stop(s, type) == [shipment |-> s, type |-> type]
PlaceOf(stop) ==
    IF stop.type = "pickup" THEN PickupAt[stop.shipment] ELSE DropAt[stop.shipment]

Chosen == {candidates[i] : i \in 1 .. Len(candidates)}

\* totalWeight; the candidates are distinct, so their set has the same sum.
LoadOf(shipments) == SumFunctionOnSet(Weight, shipments)

TypeOK ==
    /\ candidates \in Selections
    /\ phase \in {"start", "pickups", "drops", "done"}
    /\ visited \subseteq Chosen
    /\ served \subseteq visited
    /\ route \in Seq([shipment : Chosen, type : {"pickup", "drop"}])

Init ==
    /\ candidates \in Selections
    /\ phase = "start"
    /\ visited = {}
    /\ served = {}
    /\ route = <<>>

-----------------------------------------------------------------------------

Overweight == LoadOf(Chosen) > Capacity

\* No candidates, or more than the truck can carry: a plan without a route.
ReturnEmpty ==
    /\ phase = "start"
    /\ candidates = <<>> \/ Overweight
    /\ phase' = "done"
    /\ UNCHANGED <<candidates, visited, served, route>>

\* Mutant: the first pickup is not marked as visited.
FirstPickupUnmarked ==
    /\ phase = "start"
    /\ candidates # <<>>
    /\ ~Overweight
    /\ route' = <<Stop(candidates[1], "pickup")>>
    /\ phase' = "pickups"
    /\ UNCHANGED <<candidates, visited, served>>

\* The route starts at the first candidate; the case of a single candidate
\* takes the same two steps.
FirstPickup ==
    /\ phase = "start"
    /\ candidates # <<>>
    /\ ~Overweight
    /\ visited' = {candidates[1]}
    /\ route' = <<Stop(candidates[1], "pickup")>>
    /\ phase' = "pickups"
    /\ UNCHANGED <<candidates, served>>

Here == PlaceOf(route[Len(route)])

\* i is what the scan finds: the first of the nearest stops not yet done.
Nearest(places, done, i) ==
    /\ candidates[i] \notin done
    /\ \A j \in 1 .. Len(candidates) :
          candidates[j] \notin done =>
             LET near == Distance[Here][places[candidates[i]]]
                 far  == Distance[Here][places[candidates[j]]]
             IN  near < far \/ (near = far /\ i <= j)

\* Mutant: a stop where the truck stands already is passed over.
GoToElsewhere(places, done, type, i) ==
    /\ Nearest(places, done, i)
    /\ Distance[Here][places[candidates[i]]] > 0
    /\ route' = Append(route, Stop(candidates[i], type))

GoTo(places, done, type, i) ==
    /\ Nearest(places, done, i)
    /\ route' = Append(route, Stop(candidates[i], type))

AddPickup ==
    /\ phase = "pickups"
    /\ visited # Chosen
    /\ \E i \in 1 .. Len(candidates) :
          /\ GoTo(PickupAt, visited, "pickup", i)
          /\ visited' = visited \cup {candidates[i]}
    /\ UNCHANGED <<candidates, phase, served>>

\* Mutant: the first loop ends after one pickup.
StartDropsEarly ==
    /\ phase = "pickups"
    /\ phase' = "drops"
    /\ UNCHANGED <<candidates, visited, served, route>>

StartDrops ==
    /\ phase = "pickups"
    /\ visited = Chosen
    /\ phase' = "drops"
    /\ UNCHANGED <<candidates, visited, served, route>>

AddDrop ==
    /\ phase = "drops"
    /\ served # Chosen
    /\ \E i \in 1 .. Len(candidates) :
          /\ GoTo(DropAt, served, "drop", i)
          /\ served' = served \cup {candidates[i]}
    /\ UNCHANGED <<candidates, phase, visited>>

Return ==
    /\ phase = "drops"
    /\ served = Chosen
    /\ phase' = "done"
    /\ UNCHANGED <<candidates, visited, served, route>>

Next ==
    \/ ReturnEmpty
    \/ FirstPickup
    \/ AddPickup
    \/ StartDrops
    \/ AddDrop
    \/ Return

\* The function runs to its end: nothing in it waits.
Spec == Init /\ [][Next]_vars /\ WF_vars(Next)

-----------------------------------------------------------------------------
(* The rest of the plan, computed from the finished route *)

\* routeDistance
totalKm ==
    LET leg == [i \in 2 .. Len(route) |->
                  Distance[PlaceOf(route[i - 1])][PlaceOf(route[i])]]
    IN  SumFunctionOnSet(leg, 2 .. Len(route))

totalStops == 2 * Len(candidates)

\* estimatedMinutes is totalKm / 15, in kilometres, and compared with 360;
\* utilization is in percent of the capacity.
feasible ==
    /\ phase = "done"
    /\ route # <<>>
    /\ totalKm < 100 * 360 * 15
    /\ 100 * LoadOf(Chosen) >= 30 * Capacity

-----------------------------------------------------------------------------
(* Properties *)

\* A driver can follow the route: it visits no stop twice and no drop comes
\* before a pickup, whatever ties and detours the greedy choice meets.
RouteIsServable ==
    \A i, j \in 1 .. Len(route) :
       i < j => /\ route[i] # route[j]
                /\ route[i].type = "drop" => route[j].type = "drop"

\* A finished route stops at the pickup and at the drop of every shipment, and
\* has the totalStops the earnings are computed from.
RouteIsComplete ==
    phase = "done" /\ route # <<>> =>
       /\ \A s \in Chosen, t \in {"pickup", "drop"} :
             \E i \in 1 .. Len(route) : route[i] = Stop(s, t)
       /\ Len(route) = totalStops

\* The shipments on the truck after n stops.
OnBoard(n) == {s \in Chosen : /\ \E i \in 1 .. n : route[i] = Stop(s, "pickup")
                              /\ ~ \E i \in 1 .. n : route[i] = Stop(s, "drop")}

\* The truck is never overloaded between two stops (PRD 8.3, "never violate
\* capacity"): the weight is tested once, before there is a route.
LoadFits == \A n \in 0 .. Len(route) : LoadOf(OnBoard(n)) <= Capacity

\* A plan that begins a route ends with one that leaves nobody out and that the
\* truck can carry: both loops end.
PlanReturns == phase = "pickups" ~> phase = "done" /\ RouteIsComplete /\ LoadFits
=============================================================================
