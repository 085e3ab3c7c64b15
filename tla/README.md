# KANNI: verification project

KANNI is a marketplace in which farmers list produce, buyers order it, drivers
carry it and an admin reviews listings and drivers. The program is a NestJS API
over PostgreSQL (`src/services/api`), a mobile app (`src/apps/mobile`) and an
admin page (`src/services/admin-web`). The database holds the state of the
market and the API its rules; the app adds the state of each phone. This
directory models the API and the parts of the app that wait for its answers:
TLA+ modules, TLC configurations, and proofs for TLAPS.

Run `tlc -config X.cfg MCM.tla` for a run and `tlapm M_proofs.tla` for the
proofs; `PROJECT.json` lists the runs, which lines each definition translates,
a mutation of the code that each property catches, the hazards and the theorems.

## 1. Inventory

| Part | State | Operations | Hard because | Correct when |
|---|---|---|---|---|
| Orders and escrow (`buyer`, `payments`, `common/order-cancel`, `admin`) | `listings`, `orders`, `order_items`, `payments` | createOrder, payOrder, cancelOrder, refundOrder | checkouts compete for stock; cancellation races the driver | units are conserved; money is in escrow exactly while a paid order is fulfilled |
| Direct delivery (`driver`) | `shipments`, `driver_profiles` | upsertProfile, verifyDriver, acceptJob, markPickedUp, markDelivered | one check runs before the transaction; handlers lock different rows first | the shipment is where the order says; the first driver keeps it |
| Settlement (`payout-runner`, `settlement`, `logistics-cost`, `money`) | `payouts`, `settlements` | capturePayment, refundPayment, runPayout, recordSettlement | several rows per delivery, a gateway that may fail some; each row rounded by itself | each payee has one row for a delivered order, nobody any other; the parts make up the charge |
| Batch runs (`driver`) | `batches`, `batch_metrics`, `shipments.batch_id` | createBatch, startBatch, batchPickup, batchDeliver | plans go stale; the last delivery settles everything; the direct endpoints do not look at batches | a batch is settled whole and once |
| Route planning (`batch-engine`) | none | planBatch | greedy loops with ties | a route can be driven and leaves nobody out |
| Transactions (`db.service`) | connections, row locks | tx | deadlock, dead connections, gateway calls inside a transaction | a handler is one step of the database; every request ends |
| Listings and review (`seller`, `admin`) | `listings.status`, `pricing`, `platform_settings` | createListing, review, updateSettings | status and settings are read before the transaction that relies on them | of one review, decisions are final and the price shown is paid; of two, after the last |
| Notifications | `notifications` | notify, markRead, markAllRead | sent inside and outside transactions | they say what happened to the money |
| Accounts (`auth`) | `users`, `otp_codes` | requestOtp, verifyOtp, setRole, setBlocked | check, then write | a role is set once |
| Ratings | `ratings` | rate | check, then insert | one per order and target |
| App: session (`api.ts`, `store.tsx`, `App.tsx`, Login, RoleSelect) | token and role, in memory and in SecureStore | signIn, setRole, signOut, restart | two writes, one of which nobody waits for; late answers | screen, token, role and account agree |
| App: buyer (`ListingDetail`, `MyOrders`, `RateOrder`) | what each screen shows | buy, cancel, submit, refresh | several calls in a row, any of which may be lost | nothing is left half done; the screen tells the truth |
| App: driver (`DriverHome`, `Jobs`, `ActiveJob`, `nav.tsx`) | two lists, the stack of screens, a spinner | load, accept, act, refresh, navigate | a screen's parameter outlives the row; an answer arrives at another screen than asked | lists and alerts are true; every screen leads on; the codes can be found |
| App: seller (`NewListing`, `MyListings`, `images.ts`; `uploads`) | a draft, two spinners; the files stored | addPhoto, submit, refresh | an upload in flight while the form changes; answers that reach another screen | a listing is the draft it was sent from |
| App: homes and profile forms (three roles) | a form filled by an answer; the profile's row | check, load, save | the form sends every field, filled or not | saving changes what was typed; the home leads on |
| Payment gateway | external | createIntent, capture, refund, payout | its effects survive a ROLLBACK | the database never claims what it did not do |
| Admin console, webhook | none of their own | calls to the API; a log line | | not modelled |

The handlers interact only through the database. `DbService.tx` gives each a
transaction at READ COMMITTED with explicit `FOR UPDATE` locks; requests of any
number of users run concurrently in one Node process and its connection pool.
The gateway is called from within those transactions. The app calls the API with
`fetch`, has no retry of its own, and acts on whatever answer arrives.

## 2. Modules

    EscrowContract          what the market promises about one order
      ^ refines         ^ refines
    OrderLifecycle      OrderTransactions      RoutePlan            ListingReview
      ^ extends         (the same handlers,      ^ extends          AppSession, ProfileForms
    BatchFulfilment      by statement)         SettlementAmounts    BuyerApp, DriverApp, SellerApp

* **OrderLifecycle**: one order after another from checkout to delivery,
  cancellation or refund. Each variable is a table, each action a handler with
  everything it calls; `requireVerifiedDriver`, which runs before the transaction
  of `acceptJob`, is a step of its own (`AcceptCheck`, then `AcceptJob` or
  `RejectAccept`). Payouts are counts of rows per payee and status, because
  no constraint of the table makes them unique. Amounts are SettlementAmounts'.
* **EscrowContract**: goods, money and payouts of an order, abstractly.
* **OrderTransactions**: why one action per transaction is right. The handlers of
  one order are sequences of statements run by sessions with row locks, READ
  COMMITTED visibility, deadlocks broken by the server, connections that die
  and gateway calls that fail, or succeed without an answer. What is
  committed implements the same `EscrowContract`.
* **BatchFulfilment** extends OrderLifecycle with batches. `createBatch` is a plan
  (`PlanBatch`) and a transaction (`CreateBatch`, `RejectPlan`). `batchDeliver`
  locks one shipment and counts the others as committed, so it is two steps,
  `BatchDeliverCount` and `BatchDeliverStop` or `BatchDeliverLast`.
* **RoutePlan**: `planRoute`, one loop iteration a step, over any distance table.
* **SettlementAmounts** extends RoutePlan with the money: what createOrder takes from
  a listing and charges, what a delivery pays, alone or with the batch whose route
  was planned, and what the ledger says. Money is in paise, a stored quantity in
  hundredths, a requested one in thousandths, since the DTO takes any decimal and
  each column rounds it for itself.
* **ListingReview**: createListing, review, settings, notices, and what an order pays.
  Reviews overlap as they like: the console (admin-web/index.html:433-438) disables the
  button that was clicked and nothing else, there may be several admins, and `review`
  takes no lock. Payouts and fees are as fine as a request may name them; what the
  columns keep of them is `Stored`, and the rounding of the price `BuyerPrices`.
* **AppSession**: sign-in, role selection and sign-out on each phone with its
  SecureStore, and behind them the handlers of `auth`, each a check and a write that
  may come after somebody else's: codes, attempts, roles, suspension.
* **BuyerApp**: the buyer's three async handlers and the list of orders.
* **DriverApp**: the driver's stack of screens, its async handlers and their calls
  in flight, the shipments behind them, and the notices through which the codes
  the driver must type reach the seller and the buyer. Other drivers, buyers and the
  admin are `Desk`. A notice is modelled by how many newer ones its owner has.
* **SellerApp**: NewListing, its photos and their files, and MyListings. A picture is
  known by the produce it shows, a file by its place in the directory.
* **ProfileForms**: the home of each role, which asks for the profile and leads to the
  hub or to onboarding, and the form, whose Save overwrites the row. Two fields
  stand for all: the one the home looks at, and one more.

Six modules have a variable that Init chooses and nothing changes: `interference`
(BatchFulfilment), `hazards` (BuyerApp, DriverApp, SellerApp, ProfileForms) and the
hazards of a `scene` (AppSession). It says what may happen in a behaviour. A property
that does not survive some of it names that as its premise, so one run shows
both what holds always and what holds unless a named cause is at work.

## 3. Runs

| Run | Question | Bounds, and why they are enough |
|---|---|---|
| `order_lifecycle` | Do stock, escrow, shipment, payouts, ledger and notices agree, and implement the contract? | 2 buyers, 2 farmers, 2 drivers, 2 orders over 2 listings. Carts below the MOQ, that sell a listing out, and of two farmers; any two compete. Each guard compares one order with one listing or driver, so two of each give every race. |
| `batch_fulfilment` | What do batches keep, alone and under interference? | 2 drivers, 2 orders, 2 batches: the smallest batch, and a rival plan for it; no, each and all of the three kinds of interference. |
| `order_statements` | Is one action per transaction right, and does every request end? | 3 sessions on one order: a ring needs two, the third waits or interferes. The order's rows are the only ones the handlers share. One driver stands for several, because who races whom is decided by sessions. |
| `plan_and_settlement` | Can each route be driven, and do goods and money add up to the paisa? | 4 orders of one listing, one asked for halfway between hundredths and one just below the next. Every order of every selection of them, 65 in all, on a road with ties and shared places; the four together are too heavy. |
| `listing_review` | Are decisions final and prices those shown? | 2 reviews, the fewest that overlap, on 3 listings: a payout that ends in half a paisa, one in less, and one in none, of which one can only be sold whole. 2 buyers, 2 margins, of which 0 leaves nothing to cover a paisa with, and a fee that the column rounds. |
| `app_session` | Do screen, token, role and account agree? | 2 people on one phone with nothing lost; 1 person on 2 phones with lost answers; 1 phone with lost answers, closed at any moment, and an impatient user; 1 user who mistypes and may be suspended; 1 who asks for a second code. 3 calls in flight: two phones and one given up. 2 attempts stand for 5: one wrong try that is not the last, one that is. One SecureStore write of each kind at a time. |
| `buyer_app` | Are purchases and reviews whole, and the screen true? | 2 orders, 2 units, 2 calls in flight, each combination of hazards. |
| `seller_app` | Is a listing what the seller put in, and the screen true? | 2 produce and a picture of each, 2 files, 2 rows, 2 drafts, 2 calls in flight: enough for a photo of the wrong produce, a draft sent twice, and an answer to another draft's screen. No hazard, each alone, and those that could add up. |
| `profile_forms` | Does Save change what was typed and nothing else, and does the home lead on? | Each role, fields blank or one of two values (one the driver's preset), 2 calls in flight: a load beside a save, or two saves. No hazard and each alone. |
| `driver_app` | Are lists and alerts true, does every screen lead on, can the codes be found? | 2 shipments of one buyer and one seller, 2 calls in flight, 3 screens deep, as deep as the app's own path. 6 notices stand for the code's 50: one more than the other order can bring in. No hazard, lost and late calls, an impatient driver: the last two are looked at apart, because what fails with either fails with both. |

Two runs end in a counterexample, each a disagreement with the repository's own
words (`findings` in PROJECT.json quotes them):

* `revived_order`: `startBatch` writes every order of its batch without reading
  their status, and puts a cancelled, refunded order back on the road. PRD.md:209
  says the system re-validates order status at the start of a run.
* `delivery_retried`: the id of a payouts row is the idempotency key and is made in
  the transaction, so a delivery that rolled back and is tried again pays again.

Other disagreements met on the way are premises of properties, not runs:

| In the model | What the code does then |
|---|---|
| `"direct" \in interference` | A batched order delivered through the direct endpoint is settled there and with its batch: `BatchPaysOnce` fails, and with it `SettledWholeAndOnce`. `startBatch` takes a job from the driver who accepted it. A driver with a direct job in a batch can complete another driver's batch. |
| `"cancel" \in interference` | `batchPickup` leaves the order in pickup_assigned, so goods on the truck can be cancelled and restocked. A cancelled stop counts in the total, so the rest of its batch is never settled. |
| `"race" \in interference` | Two `batchDeliver` transactions that overlap each count the other's stop as open. The batch stays in progress for good and nobody is paid: `ServedMeansSettled` fails. |
| `l \in contested`, ListingReview | Two reviews of a listing have been past the check of its status (admin.service.ts:243) at once: the later overwrites the earlier. A rejected listing goes on sale, one on sale is rejected and keeps its price, its seller has both notices. |
| `~Settled(l)`, ListingReview | While one of two such reviews is still to write, a price shown is not yet the price paid (`final` is FALSE), and a decision not yet the last. |
| `Payout[l] % 10 = 5`, ListingReview | Auto-approval prices the request's payout (seller.service.ts:84) and numeric(12,2) rounds what is stored: 1.005 at no margin is stored as 1.01 and sold at 1.00, until a review prices what is stored. |
| `BuyerPrice < PayoutPrice`, SettlementAmounts | Such a listing pays its farmer more than its buyers are charged. |
| `Fine # {}`, SettlementAmounts | A request with more than two decimals: the stock, the seller's payout and the charge are rounded apart. Up to a hundredth of a unit per order appears from nothing, a live listing may have none left, and the payout may exceed the charge. |
| an order refunded after delivery, SettlementAmounts | Its ledger row no longer counts, though its payouts stay made. |
| `"lost" \in hazards`, AppSession | The answer of `setRole` is lost: the phone asks again, every choice is refused. |
| `"closed"`, AppSession | The app restarts with the new token and the old role's home. |
| two phones of one account (`OnePhoneEach` excludes it), AppSession | A phone signed in before the role was set on the other asks for it again, and every choice is refused. |
| `"impatient"`, AppSession | A late answer signs in a phone whose user has signed out. |
| `"raced"`, AppSession | Two role calls both find no role; the second changes it. |
| `"resends"`, AppSession | Two codes are accepted, the later answer carries a token from before the role was chosen: the phone asks for the role again. |
| `"lost"`, BuyerApp | An unpaid order stays, holding its stock; the driver's review is missing for good and the app says thanks for it. |
| `"impatient"`, BuyerApp | Two overlapping rate calls both insert; the list goes back in time. |
| `"lost"`, DriverApp | A driver whose accept was carried out is told "Job already taken"; what was picked up is still offered for pickup. |
| `"impatient"`, DriverApp | After the back button `nav.replace` replaces the home or Jobs; of two overlapping loads the older may win, and a shipment is in both lists. |
| `"lost"`, SellerApp | A listing that was made is sent again and made twice, with the same stock. |
| `"impatient"`, SellerApp | A photo whose upload is under way is left out; the answer of a submit takes another form, or the home, away. |
| `"rethinks"`, SellerApp | Photos stay when other produce is chosen, and the listing shows them. |
| `"early"`, ProfileForms | A buyer or driver who saves before the form is filled overwrites the profile with blanks and presets. |
| `"lost"`, ProfileForms | A profile call that fails shows onboarding to a registered user, whose next save does the same. |
| `"hurries"`, `"elsewhere"`, ProfileForms | A form filled from an older row writes it back. |
| `Limit` small, DriverApp | The app shows the OTP nowhere but in a notice, and the list ends at 50: ten other orders of a buyer can push it out. |

Not premises of anything, and read off the code while modelling it: a gateway refund whose
transaction rolls back leaves the order paid (OrderTransactions, `CallGateway`);
an order may leave a live listing with less than its MOQ (ListingReview,
`CreateOrder`); a driver rejected, or whose capacity shrinks, between check and
transaction is assigned the job (`AcceptCheck`, `AcceptJob`); a plan over the
capacity is persisted with an empty route, started, and pays its driver 0
(SettlementAmounts, `estEarnings`), while the margin of an order may be negative
(`Split`); `planBatch` divides kilometres by 15 km/h, calls the hours minutes and
compares them with 360, so that every route below 5400 km passes for one of six
hours (RoutePlan, `feasible`); `updateSettings` has no validation (admin.controller.ts:20-24), so that only the console's
fields keep a default margin or fee from being negative, as ListingReview takes them;
createListing takes produce the catalogue has
deactivated, and the app announces a review also when the listing was approved at
once; the columns the app's forms do not have (photo, licence, RC, bank account) are
set to NULL by each save; files whose draft is abandoned are never removed; the
badge of `Hub.tsx` reads `r.count` of an answer whose field is `unread`.

Fairness. `order_statements`: SF of each session's next statement, because Node
runs every handler on and PostgreSQL queues waiters, so a statement that can run
again and again does; WF of the server's deadlock check; none for requests or
for failures. `plan_and_settlement`: WF of the planning loop, which is synchronous.
`app_session`: WF of the API, of the arrival of answers and of SecureStore;
`seller_app` and `profile_forms`: WF of the API and of answers, which arrive or fail,
since `fetch` settles each call; none for users. All other properties
are safety and need none. Deadlock is checked except in
`plan_and_settlement`, whose orders end.

## 4. Proofs

All theorems hold for every value of the constants that satisfies the named
ASSUMEs of the module: role sets apart, the CHECKs of the schema and the bounds of
the DTOs, statuses the provider's type admits, finitely many orders, calls and
shipments. TLC evaluates these assumptions in the runs. Hardly any property is
inductive by itself: what has to be added is the reason why it holds, and is named
below.

* **Sums.** `SumFunctionOnSet` is a recursive function over an order of the elements
  that nobody knows. `SumRemove`, that any element may be taken out first, is proved
  from a smallest set for which it fails (`MinimalSubset`), because the prover cannot
  use the library's induction theorems. All sums below rest on it.
* **BatchFulfilment_proofs**, first part: OrderLifecycle. `TypeOK` is not inductive: a
  notice goes to a user because the order has a buyer, and `acceptJob`, which never reads
  the order, knows that only through the shipment's stage. The invariant is `Core` = TypeOK
  and `OrdersFilled` and `ShipmentMatchesOrder` and `EscrowMatchesOrder`, with
  one lemma per handler. On top of it: `EndsAreFinal` and `CustodyIsStable` (what
  a step may not do), `PayoutsOnce` (delivery finds no row, because the shipment
  was picked up and so the order not delivered), `LedgerIsTrue`, `SoldIsEmpty`,
  `MoneyNoticesTrue`, `CarriersReviewed` (with `CarryInv`, what a request has
  checked stays checked), `RowsAlwaysAgree`, and `Refinement`: every step is a step of
  EscrowContract or none, handler by handler. `StockIsConserved` needs `StockInv`: an
  order that was not made has an empty cart, or making it could lose units.
* **BatchFulfilment_proofs**, second part: the batches, for any orders, batches and
  interference. `BatchTypeOK` is not inductive: `startBatch` writes rows without reading them, and
  settlement and cancellation then go by the order's buyer and cart. `OrdersExist`
  says that these are there whatever the order's status: a shipment means that its
  order was paid, a batch that it has a shipment. `BatchesFormed`, at least two
  shipments in a plan and a batch and none in an id not handed out yet, gives
  `BatchesKeepMembers`. `RunInv`
  gives `RunsKeepDriver`. `DeliveriesHold` says that what a delivery has read stays
  true until it commits, thanks to the row lock on its shipment: two that overlap
  cannot both be last, which is `CompletionIsTrue`, whatever interferes. `Story`
  tells for each order where it, its shipment, its money and its ledger stand,
  while it is neither cancelled nor carried directly once batched; with `RunInv` it
  is `BatchRowsAlwaysAgree`. `StopsLeft`, that a run has an open stop unless the
  delivery that completes it is under way, gives `ServedRunsSettle`. `PaidInv` says of
  each order and payee which rows there are before and after the delivery that
  completes its batch, and that the driver's is on the order this delivery is of;
  `BatchesPayOnce` sums them up, and `BatchesSettleWholeAndOnce` puts all of this together.
* **OrderTransactions_proofs**, for any number of sessions. A session that has passed a
  statement knows something: the locks it holds, what it has read, what it has written
  and not committed, what the gateway was told (`TxInv`, a formula per program and
  place in it). Nothing shows of that but at a COMMIT, and whoever commits has locked
  the order, and the shipment if there is one, so that no other session is past its
  first statement (`CommitterIsAlone`): nobody's knowledge is disturbed, and each COMMIT
  finds the rows as its program has read them. That gives `BooksStayTrue` and
  `TxsImplementContract`, statement by statement.
* **SettlementAmounts_proofs** has the proofs about RoutePlan too, which it extends and
  shares a run with. `RouteInv` adds to RouteIsServable that visited and served
  are the stops on the route and where the loops stand; it gives that a route can be
  driven. With `RouteCounted`, that every stop is one more member of these sets, it is
  `PlansAreRight`: a finished route has each pickup and drop and their number, and the
  load at any stop is a part of the whole, which fits. `AmountsInv` says that a
  listing's stock and the quantities of its orders drift apart by a rounding each at
  most, that each ledger row is the split of its order, and what the drivers have been
  paid more or less than the rows say; `GoodsAndMoneyAddUp` sums that over the orders.
* **Listings_proofs**, first part: ListingReview, for any number of reviews that overlap.
  `ReviewInv` speaks of each listing by itself, so a step is seen by what it does to one:
  `RowMoves`, `ReviewMoves` and `BuyerMoves` name all the ways there are, and each part of
  the invariant is checked against them. `OneDecides`: a listing that was never
  contested has at most one review past its check, and none once it is decided.
  `SettledStands`: no review begins on a decided listing, so once none is past its
  check the price stays, and with it what a screen showed as final. That a price
  covers the payout is arithmetic over both roundings (`PricesCover`). These give price
  paid = price shown, payouts covered, rejected listings untouched,
  true notices (`SellersAreTold`), final decisions and `ReviewTypes`.
* **Listings_proofs**, second part: SellerApp, whose names differ from ListingReview's
  so that one module can extend both. Files and rows are only added, so what a call in
  flight means for them stays true (`CallOK`). A form's pictures are those of its
  photos and of the uploads it waits for (`FormInv`), so a row that takes a draft's
  photos has all of them when nobody submits during an upload. Without loss a draft
  that is on its way is not listed yet, and after that has its answer coming (`OnceInv`);
  a seller who waits has one call in flight (`PatientInv`), and a list that arrives
  is the whole of it unless calls are lost or overlap (`CleanInv`).
* **AppSession_proofs**, first part: AppSession, for any phones, accounts and scenes.
  `SessionInv` says how what a phone shows, what SecureStore has and what is about to be
  written belong together (`PhoneInv`, and `KeptRole` unless the app may be closed), and
  adds a part for each premise: role calls taken one at a time find no role
  (`CallsInv`), a user who waits has one call in flight (`PatientInv`), and with one
  phone per account and nothing lost a token is as new as its account's role
  (`SignupInv`). The last failed at first for two phones of one account: `RoleAskedOnce`
  did not hold of them either, in a case no scene of the run had, and has the premise
  `OnePhoneEach` since.
* **AppSession_proofs**, second part: ProfileForms, for any values, calls and hazards. Types
  need that a profile on its way to the row has a name (`SavesInv`). The rest is about
  a calm user (`Calm`: no hazard, or for a seller at most `"early"`, which a form that waits for
  its load does not let through): the screen waits for one call, a save is never left
  behind (`WaitInv`), a form that is no longer loading shows for each field what was typed or
  what the row has (`FormInv`), and a driver's row has a capacity (`CapacityInv`), or the
  preset would take the place of a blank. So the UPSERT finds the row its form was filled
  from, though fields may be typed into while it is under way: `SavesChangeWhatWasTyped`.
* **BuyerApp_proofs**, for any orders, calls and hazards. A step is the API serving a
  call, the phone moving on, or somebody else; `StepKinds` says once what each can do.
  `BuyerInv` says what a call in flight means for its order and stays true of it while the
  order goes on (`CallsInv`), that what the list shows was so once (`ShownInv`), that the
  one call of a buyer who waits brings news (`PatientInv`: without this part a row
  could go back), and that with no call lost an unpaid order has
  its checkout and a single review its second one on the way (`HeardInv`, `PairInv`).
* **DriverApp_proofs**, for any shipments, calls and hazards. The API, whoever asks,
  only moves a shipment forward (`Grows`), and a call in flight means something for its
  shipment that no such move undoes (`CallOK`): an alert that rests on the answer is
  true whenever it comes. `PatientInv` is for the driver who waits, and
  `CleanInv` for calls that are not lost either: what is on offer is not one's own, and
  what was picked up is in the list. `OtpInv` bounds the notices newer than an OTP by
  the sum of what the other orders can have sent, at most 5 each, so that the codes can
  be found as long as the list has room for that; this is the one place with arithmetic over all
  shipments, and uses Sums. `DriverHasAWayOn` and `DriverIsToldTheTruth` follow.

Model-checked only: liveness (`RequestsEnd`, `PlanReturns`, `RoleLeadsHome` and the like:
fairness and ENABLED are beyond the prover), and what the two violated runs show.
Every safety property of the other runs is a theorem.

## 5. Not modelled, and why

Distances (haversine) and reputation averages: arithmetic without state. The
webhook, which logs; the admin console, a static page over the endpoints. The
catalogue rows and settings but those a price needs: single-statement writes. The
guards and adminLogin, which only read. markRead and markAllRead: flags
nothing else reads. Seeds and migrations: run once. Screens that only read (Browse,
Earnings, the bell). Expo push, wording and layout: no property is about them.
The app has no screen for batches; their endpoints are modelled.

## 6. Plan

Done, in this order: OrderLifecycle with its contract and proofs (the money),
BatchFulfilment (its riskiest extension), OrderTransactions (the atomicity the
first two assume), RoutePlan, ListingReview, AppSession, BuyerApp, DriverApp,
SellerApp, ProfileForms, SettlementAmounts, and the proofs of all of these. Left:

1. Catalogue CRUD beside createListing; Notices: markRead, markAllRead, the bell.
2. The drop OTP, which `markPickedUp` sends to the buyer and `batchPickup` does not,
   so that a batch stop asks for a code the buyer was not told.
