---------------------------- MODULE ListingReview ----------------------------
(***************************************************************************)
(* How a listing comes on sale, at what price, and what buyers pay for it: *)
(* createListing with its auto-approval, the admin's review, the platform  *)
(* settings, and the stock and the price an order takes from a listing.    *)
(*                                                                         *)
(* createListing and review read the state they decide on before the       *)
(* transaction that acts on it, so each is two steps here (three for a     *)
(* rejection, whose notice is not part of any transaction).  Nothing keeps *)
(* two reviews of a listing apart: reviews overlap here as they like.      *)
(*                                                                         *)
(* Prices are in paise, as the columns keep them.  What a request names is *)
(* finer: payouts and fees are in tenths of a paisa, margins per mille.    *)
(***************************************************************************)
EXTENDS Integers, FiniteSetsExt

CONSTANTS
    Listings,              \* listing ids that can be handed out (bound)
    Payout, Moq, Stock,    \* payoutPrice, moq and qty of the seller's request
    Buyers,
    Reviews,               \* review requests in progress at a time (bound)
    Margins, Fees,         \* margins and flat fees an admin may choose (bound)
    NoListing

\* The DTOs and the console's fields: no payout below a paisa, no negative margin.
ASSUME ReviewAssumption ==
    /\ Payout \in [Listings -> Nat] /\ \A l \in Listings : Payout[l] >= 10
    /\ Moq \in [Listings -> Nat \ {0}]
    /\ Stock \in [Listings -> Nat \ {0}]
    /\ Margins \subseteq Nat /\ Fees \subseteq Nat
    /\ NoListing \notin Listings

VARIABLES
    settings,    \* platform_settings: auto_approve and the default offer
    creating,    \* the settings a createListing request has read, a set of
                 \* at most one per listing
    listings,    \* listings: status ("none" when there is no row), qty_remaining
    prices,      \* pricing.buyer_price, 0 when there is no row
    reviewed,    \* the listings whose pricing.reviewed_by names an admin
    reviews,     \* review requests between their check and their last write
    told,        \* the notices a listing's seller was sent about it
    screens,     \* the listing a buyer has open and the price it shows
    bought,      \* the order of each buyer: listing, qty, unit_price, price shown
    contested    \* history: the listings two reviews have had past their check

vars == <<settings, creating, listings, prices, reviewed, reviews, told, screens,
          bought, contested>>

-----------------------------------------------------------------------------

\* payout_price of a listing's row, numeric(12,2).
Stored(l) == (Payout[l] + 5) \div 10

\* Mutant: the margin alone is taken for the whole price.
MarginAlone(payout, offer) == {(payout * offer.margin + offer.fee * 1000 + 5000) \div 10000}

\* computeBuyerPrice, rounded half up to whole paise; in binary floating point
\* some halves are a little less (1.005 * 100 = 100.4999...), and come out low.
BuyerPrices(payout, offer) ==
    LET exact == payout * (1000 + offer.margin) + offer.fee * 1000
    IN  {(exact + 5000) \div 10000, (exact + 4999) \div 10000}

Offers   == [margin : Margins, fee : Fees]
Settings == [auto : BOOLEAN, offer : [margin : Nat, fee : Nat]]
Idle     == [at |-> "idle", listing |-> NoListing]
NoScreen == [listing |-> NoListing, price |-> 0, final |-> FALSE]
NoOrder  == [listing |-> NoListing, qty |-> 0, price |-> 0, shown |-> 0, final |-> FALSE]
Order    == [listing : Listings, qty : Nat \ {0}, price : Nat, shown : Nat, final : BOOLEAN]

OnSale(l) == listings[l].status \in {"live", "sold"}

\* A review of the listing that will write its decision, whatever happens by then.
Deciding(r, l)  == reviews[r].at \in {"reject", "approve"} /\ reviews[r].listing = l

Decided(l) == listings[l].status \in {"live", "sold", "rejected"}

\* Decided, and no review is on its way to decide again.
Settled(l) == Decided(l) /\ \A r \in Reviews : ~Deciding(r, l)

TypeOK ==
    /\ settings \in Settings
    /\ creating \in [Listings -> SUBSET Settings]
    /\ listings \in [Listings ->
                       [status : {"none", "pending", "live", "sold", "rejected"},
                        left   : Nat]]
    /\ prices \in [Listings -> Nat]
    /\ reviewed \subseteq Listings
    /\ contested \subseteq Listings
    /\ reviews \in [Reviews -> {Idle}
                      \cup [at : {"reject", "notice"}, listing : Listings]
                      \cup [at : {"approve"}, listing : Listings, offer : Offers]]
    /\ told \in [Listings -> SUBSET {"listing_live", "listing_rejected"}]
    /\ screens \in [Buyers -> {NoScreen} \cup [listing : Listings, price : Nat, final : BOOLEAN]]
    /\ bought \in [Buyers -> {NoOrder} \cup Order]

\* The migration inserts the settings row with auto_approve off and 10 percent.
Init ==
    /\ settings = [auto |-> FALSE, offer |-> [margin |-> 100, fee |-> 0]]
    /\ creating = [l \in Listings |-> {}]
    /\ listings = [l \in Listings |-> [status |-> "none", left |-> 0]]
    /\ prices = [l \in Listings |-> 0]
    /\ reviewed = {}
    /\ contested = {}
    /\ reviews = [r \in Reviews |-> Idle]
    /\ told = [l \in Listings |-> {}]
    /\ screens = [b \in Buyers |-> NoScreen]
    /\ bought = [b \in Buyers |-> NoOrder]

-----------------------------------------------------------------------------
(* The seller's request and the settings *)

\* What a request does not name stays; the column rounds the fee to whole paise.
UpdateSettings(auto, margin, fee) ==
    /\ settings' = [auto |-> auto,
                    offer |-> [margin |-> margin, fee |-> 10 * ((fee + 5) \div 10)]]
    /\ UNCHANGED <<creating, listings, prices, reviewed, reviews, told, screens,
                   bought, contested>>

\* createListing up to its transaction.
ReadSettings(l) ==
    /\ listings[l].status = "none"
    /\ creating[l] = {}
    /\ Moq[l] <= Stock[l]
    /\ creating' = [creating EXCEPT ![l] = {settings}]
    /\ UNCHANGED <<settings, listings, prices, reviewed, reviews, told, screens,
                   bought, contested>>

\* The transaction of createListing, under the settings it has read.  It prices
\* the payout of the request, which the row keeps rounded.
InsertListing(l) ==
    \E read \in creating[l] :
       /\ creating' = [creating EXCEPT ![l] = {}]
       /\ listings' = [listings EXCEPT ![l] =
                         [status |-> IF read.auto THEN "live" ELSE "pending",
                          left   |-> Stock[l]]]
       /\ IF read.auto
          THEN /\ \E price \in BuyerPrices(Payout[l], read.offer) :
                     prices' = [prices EXCEPT ![l] = price]
               /\ told' = [told EXCEPT ![l] = @ \cup {"listing_live"}]
          ELSE UNCHANGED <<prices, told>>
       /\ UNCHANGED <<settings, reviewed, reviews, screens, bought, contested>>

-----------------------------------------------------------------------------
(* The admin's review *)

\* Mutant: the status is left to the queue the admin chose the listing from.
CheckPendingNever(l) == listings[l].status # "none"

CheckPending(l) == listings[l].status = "pending"

\* review up to its first write; the offer is the admin's.  The console leaves the
\* Reject button and the other cards live meanwhile, and admins may be several.
StartReview(r, l) ==
    /\ reviews[r] = Idle
    /\ CheckPending(l)
    /\ \/ reviews' = [reviews EXCEPT ![r] = [at |-> "reject", listing |-> l]]
       \/ \E offer \in Offers :
             reviews' = [reviews EXCEPT ![r] =
                           [at |-> "approve", listing |-> l, offer |-> offer]]
    /\ contested' = contested \cup {k \in {l} : \E s \in Reviews : Deciding(s, k)}
    /\ UNCHANGED <<settings, creating, listings, prices, reviewed, told, screens, bought>>

Reject(r) ==
    /\ reviews[r].at = "reject"
    /\ listings' = [listings EXCEPT ![reviews[r].listing].status = "rejected"]
    /\ reviews' = [reviews EXCEPT ![r] =
                     [at |-> "notice", listing |-> reviews[r].listing]]
    /\ UNCHANGED <<settings, creating, prices, reviewed, told, screens, bought, contested>>

\* The notice of a rejection is a statement of its own.
TellRejected(r) ==
    /\ reviews[r].at = "notice"
    /\ told' = [told EXCEPT ![reviews[r].listing] = @ \cup {"listing_rejected"}]
    /\ reviews' = [reviews EXCEPT ![r] = Idle]
    /\ UNCHANGED <<settings, creating, listings, prices, reviewed, screens, bought,
                   contested>>

\* The transaction writes the price, of the stored payout, and the status, whatever
\* they are by now.
Approve(r) ==
    /\ reviews[r].at = "approve"
    /\ LET l == reviews[r].listing IN
       /\ \E price \in BuyerPrices(10 * Stored(l), reviews[r].offer) :
             prices' = [prices EXCEPT ![l] = price]
       /\ reviewed' = reviewed \cup {l}
       /\ listings' = [listings EXCEPT ![l].status = "live"]
       /\ told' = [told EXCEPT ![l] = @ \cup {"listing_live"}]
    /\ reviews' = [reviews EXCEPT ![r] = Idle]
    /\ UNCHANGED <<settings, creating, screens, bought, contested>>

\* The API process dies, or the connection of these requests' statements ends.
Die ==
    /\ reviews' = [r \in Reviews |-> Idle]
    /\ creating' = [l \in Listings |-> {}]
    /\ UNCHANGED <<settings, listings, prices, reviewed, told, screens, bought, contested>>

-----------------------------------------------------------------------------
(* The buyers *)

\* listingDetail: shows a live listing, joined with its price.  Whether that price
\* was final then is history, as it is in the order.
OpenListing(b, l) ==
    /\ listings[l].status = "live"
    /\ prices[l] # 0
    /\ screens' = [screens EXCEPT ![b] =
                     [listing |-> l, price |-> prices[l], final |-> Settled(l)]]
    /\ UNCHANGED <<settings, creating, listings, prices, reviewed, reviews, told,
                   bought, contested>>

\* Mutant: the stock is compared with what the listing had at first.
InStockAtFirst(l, qty) == qty <= Stock[l]

InStock(l, qty) == qty <= listings[l].left

\* createOrder for the open listing; the request names no price.
CreateOrder(b, l, qty) ==
    /\ bought[b] = NoOrder
    /\ screens[b].listing = l
    /\ listings[l].status = "live"
    /\ prices[l] # 0
    /\ Moq[l] <= qty
    /\ InStock(l, qty)
    /\ bought' = [bought EXCEPT ![b] =
                    [listing |-> l, qty |-> qty, price |-> prices[l],
                     shown |-> screens[b].price, final |-> screens[b].final]]
    /\ listings' = [listings EXCEPT ![l] =
                      [status |-> IF @.left = qty THEN "sold" ELSE @.status,
                       left   |-> @.left - qty]]
    /\ screens' = [screens EXCEPT ![b] = NoScreen]
    /\ UNCHANGED <<settings, creating, prices, reviewed, reviews, told, contested>>

\* What cancelOrderTx does to the listing.
CancelOrder(b) ==
    LET l == bought[b].listing IN
    /\ bought[b] # NoOrder
    /\ listings' = [listings EXCEPT ![l] =
                      [status |-> IF @.status = "sold" THEN "live" ELSE @.status,
                       left   |-> @.left + bought[b].qty]]
    /\ bought' = [bought EXCEPT ![b] = NoOrder]
    /\ UNCHANGED <<settings, creating, prices, reviewed, reviews, told, screens, contested>>

Next ==
    \/ \E auto \in BOOLEAN,
          margin \in Margins \cup {settings.offer.margin},
          fee \in Fees \cup {settings.offer.fee} : UpdateSettings(auto, margin, fee)
    \/ \E l \in Listings : ReadSettings(l) \/ InsertListing(l)
    \/ \E r \in Reviews : \/ \E l \in Listings : StartReview(r, l)
                          \/ Reject(r)
                          \/ TellRejected(r)
                          \/ Approve(r)
    \/ Die
    \/ \E b \in Buyers : \/ \E l \in Listings : OpenListing(b, l)
                         \/ \E l \in Listings : \E qty \in 1 .. Stock[l] :
                               CreateOrder(b, l, qty)
                         \/ CancelOrder(b)

Spec == Init /\ [][Next]_vars

-----------------------------------------------------------------------------
(* Properties *)

\* A price that is shown while no review of the listing is past its check is the
\* price that is paid, although the order names none (buyer.service.ts:151) and
\* settings, other orders and new review requests go on in between.  A price shown
\* while a second review is past its check may be rewritten before the order.
PricePaidWasShown ==
    \A b \in Buyers : bought[b].final => bought[b].price = bought[b].shown

\* Auto-approval prices a payout that ends in half a paisa before the row rounds it
\* up: the price may be a paisa short then, until a review.
Covered(l, price) ==
    price >= Stored(l) \/ (Payout[l] % 10 = 5 /\ price = Stored(l) - 1)

\* Nobody buys below what the farmer is promised: what is on sale, and what was
\* bought, has a price that covers the stored payout after all roundings, but for
\* that paisa, and without exception once an admin has reviewed it.
PriceCoversPayout ==
    /\ \A l \in Listings : OnSale(l) =>
          Covered(l, prices[l]) /\ (l \in reviewed => prices[l] >= Stored(l))
    /\ \A b \in Buyers : bought[b] # NoOrder => Covered(bought[b].listing, bought[b].price)

\* Nothing is taken from a listing before it has a price; and a rejected listing
\* never had one, nor an order, unless two reviews of it overlapped.
RejectedIsUntouched ==
    \A l \in Listings :
       /\ prices[l] = 0 /\ listings[l].status # "none" =>
             listings[l].left = Stock[l] /\ \A b \in Buyers : bought[b].listing # l
       /\ listings[l].status = "rejected" /\ l \notin contested => prices[l] = 0

\* The seller of a listing on sale was told so.  No notice announces what did not
\* happen, or what has been undone, unless two reviews of the listing overlapped.
NoticesAreTrue ==
    \A l \in Listings :
       /\ OnSale(l) => "listing_live" \in told[l]
       /\ l \notin contested =>
             /\ "listing_live" \in told[l] => OnSale(l)
             /\ "listing_rejected" \in told[l] => listings[l].status = "rejected"

\* The catalogue is sound: nothing is for sale below its payout, nothing rejected
\* was ever for sale, and the sellers know which is which.
CatalogueIsSound == PriceCoversPayout /\ RejectedIsUntouched /\ NoticesAreTrue

\* admin.service.ts:243 answers a later review with "Listing is '...', not pending":
\* once no other review is past its check, or if none ever was beside the first, a
\* decision stands, and the price with it, whatever is asked for afterwards.
DecisionsAreFinal ==
    [][\A l \in Listings :
          Settled(l) \/ (Decided(l) /\ l \notin contested) =>
             /\ IF OnSale(l) THEN OnSale(l)' /\ prices'[l] = prices[l]
                            ELSE listings'[l].status = "rejected"
             /\ Settled(l)']_vars
=============================================================================
