------------------------------ MODULE DriverApp ------------------------------
(***************************************************************************)
(* A delivery as three phones see it.  The seller's and the buyer's list   *)
(* notices, where the pickup code and the drop OTP arrive; the driver's    *)
(* shows jobs (Jobs.tsx) and one delivery at a time (ActiveJob.tsx), to    *)
(* which the driver types what those two say.  Every handler of the        *)
(* driver's phone is async: it makes one call after another, and finds its *)
(* shipment, and the stack of screens, as they are by then.                *)
(* Two shipments with the same random code, loads beyond the vehicle's     *)
(* capacity and batches are not looked at.  hazards says what may happen:  *)
(*   "lost"       a call does not reach the API, or its answer the phone   *)
(*   "late"       a call the phone has given up on is still carried out    *)
(*   "impatient"  the driver does not wait: leaves a screen, or taps again *)
(***************************************************************************)
EXTENDS Naturals, Sequences, FiniteSets

CONSTANTS
    Shipments, NoShipment,
    Slots,       \* calls the driver's phone has in flight at a time (bound)
    Depth,       \* screens on its stack (bound)
    Limit,       \* notices in a list: 50 in the code
    HazardCases  \* the sets of hazards to look at

ASSUME DriverAppAssumption ==
    /\ IsFiniteSet(Shipments) /\ NoShipment \notin Shipments
    /\ Depth \in Nat \ {0} /\ Limit \in Nat
    /\ HazardCases \subseteq SUBSET {"lost", "late", "impatient"}

VARIABLES
    hazards,   \* never changes
    ship,      \* rows of shipments
    notices,   \* how many of a user's notices are newer than that with a code
    calls,     \* what the driver's phone has in flight
    stack,     \* its screens, the last one on top
    lists,     \* state of Jobs: active and jobs
    waiting,   \* spinner of the screen on top: loading of Jobs, busy of ActiveJob
    told       \* history: what an alert has told the driver

phone == <<stack, lists, waiting, told>>
vars  == <<hazards, ship, notices, calls, stack, lists, waiting, told>>

-----------------------------------------------------------------------------

\* Before there is a row, and after its delivery was refunded, too.
Stages  == {"unpaid", "unassigned", "assigned", "picked_up", "delivered", "refunded", "cancelled"}
Carried == {"assigned", "picked_up"}

\* Pickup codes are sent to sellers and OTPs to buyers, here one of each.  NoCode
\* is no code of these, mistyped or in a notice without one.
NoCode == <<"none", NoShipment>>
Codes  == {"pickup", "drop"} \X Shipments
Gets   == {"shipments", "jobs"}

Lists == [active : [Shipments -> Carried \cup {"none"}], jobs : SUBSET Shipments]
Empty == [active |-> [s \in Shipments |-> "none"], jobs |-> {}]

\* owner: the screen that waits for the answer, if that is still there and the
\* phone has not given up; rows: what a GET has found.
Call == [kind : Gets \cup {"accept", "pickup", "deliver"},
         ship : Shipments \cup {NoShipment}, code : Codes \cup {NoCode},
         at : {"sent", "answered", "refused", "taken"},
         rows : Lists, owner : {"screen", "gone", "nobody"}]

Send(kind, s, code) == [kind |-> kind, ship |-> s, code |-> code, at |-> "sent",
                        rows |-> Empty, owner |-> "screen"]

\* load asks for the driver's shipments, and then for the jobs on offer.
LoadOrder == <<"shipments", "jobs">>
Ask(kind) == Send(kind, NoShipment, NoCode)
Load == Ask(LoadOrder[1])
Idle == [Ask("jobs") EXCEPT !.owner = "nobody"]

Screens == {<<"home">>, <<"jobs">>} \cup ({"job"} \X Shipments \X Carried)
Top(st) == st[Len(st)][1]

TypeOK ==
    /\ hazards \in HazardCases
    /\ ship \in [Shipments -> [status : Stages, driver : {"none", "me", "other"}]]
    /\ \A s \in Shipments : ship[s].status \in Carried \cup {"delivered", "refunded"} => ship[s].driver # "none"
    /\ notices \in [Codes -> 0 .. Limit]
    /\ calls \in [Slots -> Call]
    /\ stack \in Seq(Screens) /\ Len(stack) \in 1 .. Depth
    /\ lists \in Lists
    /\ waiting \in BOOLEAN
    /\ told \subseteq {"picked_up", "delivered", "taken"} \X Shipments

Init ==
    /\ hazards \in HazardCases
    /\ ship = [s \in Shipments |-> [status |-> "unpaid", driver |-> "none"]]
    /\ notices = [c \in Codes |-> Limit]
    /\ calls = [x \in Slots |-> Idle]
    /\ stack = << <<"home">> >>
    /\ lists = Empty
    /\ waiting = FALSE
    /\ told = {}

-----------------------------------------------------------------------------
(* The rows: what the API does with a shipment, whoever asks for it *)

\* So many new notices for the buyer and the seller, the last of them with code.
\* The list shows those before Limit.
Notify(buyer, seller, code) ==
    LET newer(c) == notices[c] + IF c[1] = "drop" THEN buyer ELSE seller
        place(c) == IF c = code THEN 0 ELSE IF newer(c) < Limit THEN newer(c) ELSE Limit
    IN  notices' = [c \in Codes |-> place(c)]

Moves(s, to, d) == ship' = [ship EXCEPT ![s] = [status |-> to, driver |-> d]]

Pay(s) ==
    /\ ship[s].status = "unpaid"
    /\ Moves(s, "unassigned", "none")
    /\ Notify(1, 1, <<"pickup", s>>)

Acceptable(s) == ship[s].status = "unassigned"

\* Mutant: the UPDATE leaves driver_id.
AcceptNameless(s, d) ==
    /\ Acceptable(s)
    /\ Moves(s, "assigned", "none")
    /\ Notify(1, 0, NoCode)

Accept(s, d) ==
    /\ Acceptable(s)
    /\ Moves(s, "assigned", d)
    /\ Notify(1, 0, NoCode)

Collectable(s, d, code) ==
    /\ ship[s] = [status |-> "assigned", driver |-> d]
    /\ code = <<"pickup", s>>

MarkPickedUp(s, d, code) ==
    /\ Collectable(s, d, code)
    /\ Moves(s, "picked_up", d)
    /\ Notify(1, 0, <<"drop", s>>)

Deliverable(s, d, code) ==
    /\ ship[s] = [status |-> "picked_up", driver |-> d]
    /\ code = <<"drop", s>>

MarkDelivered(s, d, code) ==
    /\ Deliverable(s, d, code)
    /\ Moves(s, "delivered", d)
    /\ Notify(1, 1, NoCode)

\* Mutant: also what is under way.
CancellableUnderway == {"unpaid", "unassigned", "assigned", "picked_up"}

\* Where the shipment of an order is that cancelOrderTx lets through.
CANCELLABLE == {"unpaid", "unassigned", "assigned"}

\* By the buyer or the admin; what was paid is refunded.
Cancel(s) ==
    /\ ship[s].status \in CANCELLABLE
    /\ Moves(s, "cancelled", ship[s].driver)
    /\ Notify(IF ship[s].status = "unpaid" THEN 1 ELSE 2, 1, NoCode)

\* By the admin, after a dispute.
RefundOrder(s) ==
    /\ ship[s].status = "delivered"
    /\ Moves(s, "refunded", ship[s].driver)
    /\ Notify(1, 0, NoCode)

\* Everybody else: buyers, the admin, and other drivers as far as the list shows.
Desk ==
    /\ \E s \in Shipments : Pay(s) \/ Cancel(s) \/ RefundOrder(s) \/ Accept(s, "other")
    /\ UNCHANGED calls /\ UNCHANGED phone

-----------------------------------------------------------------------------
(* The API, for this driver's calls *)

\* A call with its result; nobody waits for the result of an abandoned one.
Reply(x, c, result) ==
    calls' = [calls EXCEPT ![x] = IF c.owner = "nobody" THEN Idle ELSE [c EXCEPT !.at = result]]

Refuse(x, c, how) == Reply(x, c, how) /\ UNCHANGED <<ship, notices>>

MyActiveShipments(x, c) ==
    LET mine(s) == IF ship[s].driver = "me" /\ ship[s].status \in Carried
                   THEN ship[s].status ELSE "none"
    IN  /\ Reply(x, [c EXCEPT !.rows.active = [s \in Shipments |-> mine(s)]], "answered")
        /\ UNCHANGED <<ship, notices>>

\* requireVerifiedDriver: the admin may have rejected the driver, or not yet seen.
AvailableJobs(x, c) ==
    \/ Refuse(x, c, "refused")
    \/ /\ Reply(x, [c EXCEPT !.rows.jobs = {s \in Shipments : Acceptable(s)}], "answered")
       /\ UNCHANGED <<ship, notices>>

AcceptJob(x, c) ==
    \/ Refuse(x, c, "refused")
    \/ Accept(c.ship, "me") /\ Reply(x, c, "answered")
    \/ ~Acceptable(c.ship) /\ Refuse(x, c, "taken")

Serve(x) ==
    LET c == calls[x] IN
    /\ c.at = "sent" /\ c # Idle
    /\ \/ c.kind = "shipments" /\ MyActiveShipments(x, c)
       \/ c.kind = "jobs" /\ AvailableJobs(x, c)
       \/ c.kind = "accept" /\ AcceptJob(x, c)
       \/ /\ c.kind = "pickup"
          /\ \/ MarkPickedUp(c.ship, "me", c.code) /\ Reply(x, c, "answered")
             \/ ~Collectable(c.ship, "me", c.code) /\ Refuse(x, c, "refused")
       \/ /\ c.kind = "deliver"
          /\ \/ MarkDelivered(c.ship, "me", c.code) /\ Reply(x, c, "answered")
             \/ ~Deliverable(c.ship, "me", c.code) /\ Refuse(x, c, "refused")
    /\ UNCHANGED phone

-----------------------------------------------------------------------------
(* The driver's phone *)

Free(cs) == {x \in Slots : cs[x] = Idle}

\* What becomes of a screen's calls when it is left: the answer of a GET has
\* nowhere to go, a POST and its handler go on.
Abandoned(cs) ==
    [x \in Slots |->
       IF cs[x].owner # "screen" THEN cs[x]
       ELSE IF cs[x].kind \in Gets THEN Idle ELSE [cs[x] EXCEPT !.owner = "gone"]]

\* NavHost renders the top of the stack.  A screen that was not there is mounted,
\* and Jobs loads then; one that was stays as it is.
Show(cs, st) ==
    /\ stack' = st
    /\ IF Top(st) = Top(stack) THEN calls' = cs /\ UNCHANGED <<lists, waiting>>
       ELSE /\ lists' = Empty
            /\ waiting' = (Top(st) = "jobs")
            /\ IF Top(st) = "jobs"
               THEN \E x \in Free(Abandoned(cs)) : calls' = [Abandoned(cs) EXCEPT ![x] = Load]
               ELSE calls' = Abandoned(cs)

\* Mutant: reset.
ReplacedByReset(st) == << <<"jobs">> >>

\* nav.replace('driver.jobs'), on whatever screen is on top by then.
Replaced(st) == SubSeq(st, 1, Len(st) - 1) \o << <<"jobs">> >>

\* load, with what one of its calls has found: nothing when it failed.
Loaded(x, kind, rows) ==
    /\ \/ kind = "shipments" /\ lists' = [lists EXCEPT !.active = rows.active]
       \/ kind = "jobs" /\ lists' = [lists EXCEPT !.jobs = rows.jobs]
    /\ calls' = [calls EXCEPT ![x] = IF kind = LoadOrder[1] THEN Ask(LoadOrder[2]) ELSE Idle]
    /\ waiting' = (waiting /\ kind = LoadOrder[1])
    /\ UNCHANGED <<stack, told>>

\* accept loads again; act says so and replaces its screen.
Accepted(x, c) ==
    /\ calls' = [calls EXCEPT ![x] = IF c.owner = "screen" THEN Load ELSE Idle]
    /\ UNCHANGED phone

Acted(x, c) ==
    /\ told' = told \cup {<<IF c.kind = "pickup" THEN "picked_up" ELSE "delivered", c.ship>>}
    /\ Show([calls EXCEPT ![x] = Idle], Replaced(stack))

Resume(x) ==
    LET c == calls[x] IN
    /\ c.at = "answered" /\ c.owner # "nobody"
    /\ \/ c.kind \in Gets /\ Loaded(x, c.kind, c.rows)
       \/ c.kind = "accept" /\ Accepted(x, c)
       \/ c.kind \in {"pickup", "deliver"} /\ Acted(x, c)
    /\ UNCHANGED <<ship, notices>>

\* The catch and finally of a handler: the spinner of act stops, if it is there.
WaitingAfter(c) == waiting /\ ~(c.kind \in {"pickup", "deliver"} /\ c.owner = "screen")

Catch(x, c, cs) ==
    \/ c.kind \in Gets /\ Loaded(x, c.kind, Empty)
    \/ /\ c.kind \notin Gets
       /\ calls' = cs
       /\ waiting' = WaitingAfter(c)
       /\ told' = IF c.at = "taken" THEN told \cup {<<"taken", c.ship>>} ELSE told
       /\ UNCHANGED <<stack, lists>>

ReceiveRefusal(x) ==
    /\ calls[x].at \in {"refused", "taken"}
    /\ Catch(x, calls[x], [calls EXCEPT ![x] = Idle])
    /\ UNCHANGED <<ship, notices>>

\* A fetch that fails: what it asked was not done, was done, or is done later.
Lose(x) ==
    LET c == calls[x] IN
    /\ "lost" \in hazards
    /\ c.owner # "nobody"
    /\ \/ Catch(x, [c EXCEPT !.at = "sent"], [calls EXCEPT ![x] = Idle])
       \/ /\ "late" \in hazards
          /\ c.at = "sent" /\ c.kind \notin Gets
          /\ Catch(x, c, [calls EXCEPT ![x].owner = "nobody"])
    /\ UNCHANGED <<ship, notices>>

Ready == "impatient" \in hazards \/ \A x \in Slots : calls[x].owner = "nobody"

\* The tile of DriverHome, and goBack.
Visit ==
    /\ Top(stack) = "home" /\ Len(stack) < Depth
    /\ Show(calls, Append(stack, <<"jobs">>))
    /\ UNCHANGED told

GoBack ==
    /\ Len(stack) > 1
    /\ Show(calls, SubSeq(stack, 1, Len(stack) - 1))
    /\ UNCHANGED told

\* A row of In progress, and what accept and the pull of the list send.
Open(s) ==
    /\ Top(stack) = "jobs" /\ ~waiting /\ Len(stack) < Depth
    /\ lists.active[s] # "none"
    /\ Show(calls, Append(stack, <<"job", s, lists.active[s]>>))
    /\ UNCHANGED told

TapAccept(s) ==
    /\ Top(stack) = "jobs" /\ ~waiting
    /\ s \in lists.jobs
    /\ \E x \in Free(calls) : calls' = [calls EXCEPT ![x] = Send("accept", s, NoCode)]
    /\ UNCHANGED phone

Refresh ==
    /\ Top(stack) = "jobs" /\ ~waiting
    /\ \E x \in Free(calls) : calls' = [calls EXCEPT ![x] = Load]
    /\ UNCHANGED phone

\* The codes in the lists that Notifications.tsx shows the seller and the buyer.
Listed == {c \in Codes : notices[c] < Limit}

\* act: pickup or deliver, as the row said when it was opened, with a code that
\* somebody reads out for it; one for another shipment is as good as mistyped.
Act ==
    LET s == stack[Len(stack)][2]
        kind == IF stack[Len(stack)][3] = "assigned" THEN "pickup" ELSE "deliver"
    IN
    /\ Top(stack) = "job" /\ ~waiting
    /\ \E code \in {c \in Listed : c[2] = s} \cup {NoCode}, x \in Free(calls) :
          calls' = [calls EXCEPT ![x] = Send(kind, s, code)]
    /\ waiting' = TRUE
    /\ UNCHANGED <<stack, lists, told>>

Driver ==
    /\ Ready
    /\ \/ Visit \/ GoBack \/ Refresh \/ Act
       \/ \E s \in Shipments : Open(s) \/ TapAccept(s)
    /\ UNCHANGED <<ship, notices>>

-----------------------------------------------------------------------------

Next ==
    /\ \/ \E x \in Slots : Serve(x) \/ Resume(x) \/ ReceiveRefusal(x) \/ Lose(x)
       \/ Driver
       \/ Desk
    /\ UNCHANGED hazards

Spec == Init /\ [][Next]_vars

-----------------------------------------------------------------------------
(* Properties *)

Settled == \A x \in Slots : calls[x].owner # "screen"

\* A buyer with goods on the way finds their OTP in the list, as long as it has
\* room for what k orders can bring in: up to 5 notices of each.
OtpInReach ==
    Limit > 5 * (Cardinality(Shipments) - 1) =>
       \A s \in Shipments : ship[s].status = "picked_up" =>
          <<"drop", s>> \in Listed

\* A shipment is in progress or on offer, not both, once Jobs has loaded and
\* unless two of its loads overlap.
ShownOnce ==
    Settled /\ "impatient" \notin hazards =>
       \A s \in lists.jobs : lists.active[s] = "none"

\* What the driver was told is so.  "Picked up" and "Delivered! Earnings credited."
\* are true, with whatever hazard; "Job already taken" names a job of another
\* driver, and what was picked up is shown for delivery, without any; nothing is
\* shown as one's own and on offer at once.
ToldTheTruth ==
    /\ ShownOnce
    /\ \A s \in Shipments :
       /\ <<"picked_up", s>> \in told =>
             ship[s].driver = "me" /\ ship[s].status \in {"picked_up", "delivered", "refunded"}
       /\ <<"delivered", s>> \in told =>
             ship[s].driver = "me" /\ ship[s].status \in {"delivered", "refunded"}
       /\ hazards = {} =>
             /\ <<"taken", s>> \in told => ship[s].driver # "me"
             /\ Settled /\ Top(stack) = "jobs" /\ ship[s].status = "picked_up"
                /\ <<"picked_up", s>> \in told => lists.active[s] = "picked_up"

\* The driver never ends at a screen with no way on.  The home stays below the
\* others, from where alone one signs out, unless a screen is left while it works;
\* a spinner has a call whose end stops it: no handler leaves one spinning, and none
\* stops that of another screen; and the OTP that ends a delivery can be found.
NoDeadEnd ==
    /\ OtpInReach
    /\ "impatient" \notin hazards => stack[1] = <<"home">>
    /\ waiting => \E x \in Slots :
          /\ calls[x].owner = "screen"
          /\ calls[x].kind \in IF Top(stack) = "jobs" THEN Gets ELSE {"pickup", "deliver"}
=============================================================================
