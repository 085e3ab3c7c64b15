--------------------------- MODULE Listings_proofs ---------------------------
(***************************************************************************)
(* The two ends of a listing, each for every value of its constants.       *)
(* First the API's, ListingReview: reviews of a listing may overlap, and   *)
(* then the later write wins; what holds in spite of it (no price below    *)
(* the payout, no sale without a price, no price lost), and what holds of  *)
(* the listings on which no two reviews met, or of which no review is      *)
(* past its check. The steps are sorted by what they may do to one         *)
(* listing, one review and one buyer (RowMoves, ReviewMoves, BuyerMoves).  *)
(* Then the phone's, SellerApp: what is listed is what the seller put in,  *)
(* and what the seller is told and shown is so, for any calls in flight    *)
(* and any hazards. Each call means something for files and rows that      *)
(* stays true as they grow (CallOK), and the form counts the pictures      *)
(* that are on their way (FormInv). The two parts share no definition.     *)
(***************************************************************************)
EXTENDS ListingReview, SellerApp, FiniteSetTheorems, SequenceTheorems, TLAPS

-----------------------------------------------------------------------------
(* ListingReview: the invariant *)

\* A request between its read and its writes finds the row, or the room for it.
RequestsAreFresh ==
    /\ \A l \in Listings : creating[l] # {} => listings[l].status = "none"
    /\ \A r \in Reviews : reviews[r].at # "idle" =>
          listings[reviews[r].listing].status # "none"

\* A listing on sale has a price, one that waits has none; what has a price is
\* covered, and nothing is taken from what has none.
PricedWhenOnSale ==
    \A l \in Listings :
       /\ OnSale(l) => prices[l] # 0
       /\ listings[l].status \in {"none", "pending"} => prices[l] = 0
       /\ prices[l] = 0 => l \notin reviewed
       /\ prices[l] = 0 /\ listings[l].status # "none" => listings[l].left = Stock[l]
       /\ prices[l] # 0 => Covered(l, prices[l])
       /\ l \in reviewed => prices[l] >= Stored(l)

\* Without overlap one review decides, on a listing that waits for it.
OneDecides ==
    \A l \in Listings : l \notin contested =>
       /\ \A r, s \in Reviews : Deciding(r, l) /\ Deciding(s, l) => r = s
       /\ \A r \in Reviews : Deciding(r, l) => listings[l].status = "pending"
       /\ listings[l].status = "rejected" => prices[l] = 0

\* Screens show, and orders name, listings with a price; what was final still is.
ScreenIsCurrent(b) ==
    screens[b] # NoScreen =>
       /\ prices[screens[b].listing] # 0
       /\ screens[b].final => /\ Settled(screens[b].listing)
                              /\ screens[b].price = prices[screens[b].listing]
OrderIsPriced(b) ==
    bought[b] # NoOrder =>
       prices[bought[b].listing] # 0 /\ Covered(bought[b].listing, bought[b].price)
BuyersAreServed == \A b \in Buyers : ScreenIsCurrent(b) /\ OrderIsPriced(b)

\* Without overlap a review that is about to tell of a rejection has made it.
NoticesInv ==
    /\ NoticesAreTrue
    /\ \A r \in Reviews : reviews[r].at = "notice" /\ reviews[r].listing \notin contested =>
          listings[reviews[r].listing].status = "rejected"

ReviewInv ==
    /\ TypeOK
    /\ RequestsAreFresh
    /\ PricedWhenOnSale
    /\ OneDecides
    /\ BuyersAreServed
    /\ PricePaidWasShown
    /\ NoticesInv

\* Rounding never loses more than half a paisa of what a payout comes to.
LEMMA PriceAbovePayout ==
    ASSUME NEW payout \in Nat, NEW offer \in [margin : Nat, fee : Nat],
           NEW price \in BuyerPrices(payout, offer)
    PROVE  price \in Nat /\ price >= (1000 * payout + 4999) \div 10000
<1>. DEFINE added == payout * offer.margin
            exact == 1000 * payout + added + 1000 * offer.fee
<1>1. offer.margin \in Nat /\ offer.fee \in Nat
  OBVIOUS
<1>2. added \in Nat
  BY <1>1, SMT
<1>3. payout * (1000 + offer.margin) + offer.fee * 1000 = exact
  BY <1>1, SMT
<1>4. price = (exact + 5000) \div 10000 \/ price = (exact + 4999) \div 10000
  BY <1>3 DEF BuyerPrices
<1>. HIDE DEF added
<1>. QED
  BY <1>1, <1>2, <1>4, SMT

\* The price of an approval covers the stored payout, that of an auto-approval does
\* but for half a paisa, and neither is zero.
LEMMA PricesCover ==
    ASSUME NEW l \in Listings, NEW offer \in [margin : Nat, fee : Nat]
    PROVE  /\ Stored(l) \in Nat
           /\ \A price \in BuyerPrices(Payout[l], offer) :
                 price \in Nat \ {0} /\ Covered(l, price)
           /\ \A price \in BuyerPrices(10 * Stored(l), offer) :
                 price \in Nat \ {0} /\ price >= Stored(l) /\ Covered(l, price)
<1>1. Payout[l] \in Nat /\ Payout[l] >= 10
  BY ReviewAssumption
<1>2. Stored(l) \in Nat /\ Stored(l) > 0
  BY <1>1 DEF Stored
<1>3. ASSUME NEW price \in BuyerPrices(Payout[l], offer)
      PROVE  price \in Nat \ {0} /\ Covered(l, price)
  <2>1. price \in Nat /\ price >= (1000 * Payout[l] + 4999) \div 10000
    BY <1>1, PriceAbovePayout
  <2>. QED
    BY <1>1, <2>1, SMT DEF Covered, Stored
<1>4. ASSUME NEW price \in BuyerPrices(10 * Stored(l), offer)
      PROVE  price \in Nat \ {0} /\ price >= Stored(l) /\ Covered(l, price)
  <2>1. price \in Nat /\ price >= (1000 * (10 * Stored(l)) + 4999) \div 10000
    BY <1>2, PriceAbovePayout
  <2>. QED
    BY <1>2, <2>1, SMT DEF Covered
<1>. QED
  BY <1>2, <1>3, <1>4

\* The database starts empty.
LEMMA InitReview == Init => ReviewInv
<1>. SUFFICES ASSUME Init PROVE ReviewInv
  OBVIOUS
<1>1. TypeOK
  BY ReviewAssumption DEF Init, TypeOK, Settings, Idle, NoScreen, NoOrder
<1>2. RequestsAreFresh /\ PricedWhenOnSale /\ OneDecides
  BY DEF Init, RequestsAreFresh, PricedWhenOnSale, OneDecides, OnSale, Deciding, Idle
<1>3. BuyersAreServed /\ PricePaidWasShown /\ NoticesInv
  BY DEF Init, BuyersAreServed, ScreenIsCurrent, OrderIsPriced, PricePaidWasShown, NoticesInv,
         NoticesAreTrue, OnSale, NoScreen, NoOrder, Idle
<1>. QED
  BY <1>1, <1>2, <1>3 DEF ReviewInv

-----------------------------------------------------------------------------
(* ListingReview: types *)

\* Every handler of the catalogue writes rows of the columns' types.
LEMMA StepReviewTypes == TypeOK /\ [Next]_vars => TypeOK'
<1> SUFFICES ASSUME TypeOK, [Next]_vars PROVE TypeOK'
  OBVIOUS
<1> USE DEF TypeOK
<1>1. ASSUME UNCHANGED vars PROVE TypeOK'
  BY <1>1 DEF vars
<1>2. ASSUME NEW auto \in BOOLEAN,
             NEW margin \in Margins \cup {settings.offer.margin},
             NEW fee \in Fees \cup {settings.offer.fee}, UpdateSettings(auto, margin, fee)
      PROVE  TypeOK'
  <2>1. margin \in Nat /\ fee \in Nat
    BY ReviewAssumption DEF Settings
  <2>2. 10 * ((fee + 5) \div 10) \in Nat
    BY <2>1, SMT
  <2> QED
    BY <1>2, <2>1, <2>2 DEF UpdateSettings, Settings
<1>3. ASSUME NEW l \in Listings, ReadSettings(l) PROVE TypeOK'
  BY <1>3 DEF ReadSettings
<1>4. ASSUME NEW l \in Listings, InsertListing(l) PROVE TypeOK'
  <2>1. PICK read \in creating[l] :
           /\ creating' = [creating EXCEPT ![l] = {}]
           /\ listings' = [listings EXCEPT ![l] =
                             [status |-> IF read.auto THEN "live" ELSE "pending",
                              left   |-> Stock[l]]]
           /\ IF read.auto
              THEN /\ \E price \in BuyerPrices(Payout[l], read.offer) :
                         prices' = [prices EXCEPT ![l] = price]
                   /\ told' = [told EXCEPT ![l] = @ \cup {"listing_live"}]
              ELSE UNCHANGED <<prices, told>>
           /\ UNCHANGED <<settings, reviewed, reviews, screens, bought, contested>>
    BY <1>4 DEF InsertListing
  <2>2. creating[l] \in SUBSET Settings
    OBVIOUS
  <2>3. read.offer \in [margin : Nat, fee : Nat]
    BY <2>2 DEF Settings
  <2>4. \A price \in BuyerPrices(Payout[l], read.offer) : price \in Nat
    BY <2>3, PricesCover
  <2>5. Stock[l] \in Nat
    BY ReviewAssumption
  <2>6. prices' \in [Listings -> Nat] /\ told' \in [Listings -> SUBSET {"listing_live", "listing_rejected"}]
    BY <2>1, <2>4
  <2>7. listings' \in [Listings -> [status : {"none", "pending", "live", "sold", "rejected"},
                                    left   : Nat]]
    BY <2>1, <2>5
  <2> QED
    BY <2>1, <2>6, <2>7
<1>5. ASSUME NEW r \in Reviews, NEW l \in Listings, StartReview(r, l) PROVE TypeOK'
  BY <1>5 DEF StartReview
<1>6. ASSUME NEW r \in Reviews, Reject(r) PROVE TypeOK'
  <2>1. reviews[r].listing \in Listings
    BY <1>6 DEF Reject, Idle
  <2> QED
    BY <1>6, <2>1 DEF Reject
<1>7. ASSUME NEW r \in Reviews, TellRejected(r) PROVE TypeOK'
  BY <1>7 DEF TellRejected
<1>8. ASSUME NEW r \in Reviews, Approve(r) PROVE TypeOK'
  <2>1. reviews[r].listing \in Listings /\ reviews[r].offer \in [margin : Nat, fee : Nat]
    BY <1>8, ReviewAssumption DEF Approve, Idle, Offers
  <2>2. \A price \in BuyerPrices(10 * Stored(reviews[r].listing), reviews[r].offer) : price \in Nat
    BY <2>1, PricesCover
  <2> QED
    BY <1>8, <2>1, <2>2 DEF Approve
<1>9. ASSUME Die PROVE TypeOK'
  BY <1>9 DEF Die
<1>10. ASSUME NEW b \in Buyers, NEW l \in Listings, OpenListing(b, l) PROVE TypeOK'
  BY <1>10 DEF OpenListing, Settled, Decided
<1>11. ASSUME NEW b \in Buyers, NEW l \in Listings, NEW qty \in 1 .. Stock[l],
              CreateOrder(b, l, qty)
       PROVE  TypeOK'
  <2>1. qty \in Nat \ {0} /\ qty <= listings[l].left /\ listings[l].left - qty \in Nat
    BY <1>11, ReviewAssumption DEF CreateOrder, InStock
  <2>2. screens[b] # NoScreen
    BY <1>11, ReviewAssumption DEF CreateOrder, NoScreen
  <2>3. screens[b] \in [listing : Listings, price : Nat, final : BOOLEAN]
    BY <2>2
  <2> QED
    BY <1>11, <2>1, <2>3 DEF CreateOrder, Order
<1>12. ASSUME NEW b \in Buyers, CancelOrder(b) PROVE TypeOK'
  <2>1. bought[b].listing \in Listings /\ bought[b].qty \in Nat
    BY <1>12 DEF CancelOrder, Order
  <2> QED
    BY <1>12, <2>1 DEF CancelOrder
<1> QED
  BY <1>1, <1>2, <1>3, <1>4, <1>5, <1>6, <1>7, <1>8, <1>9, <1>10, <1>11, <1>12 DEF Next

-----------------------------------------------------------------------------
(* ListingReview: what one step may do to one listing, one review, one buyer *)

\* The price of a listing, who set it, and whether its seller was told it is live.
PriceStays(l) ==
    /\ prices'[l] = prices[l]
    /\ l \in reviewed' <=> l \in reviewed
    /\ "listing_live" \in told'[l] <=> "listing_live" \in told[l]

RowStays(l) == listings'[l] = listings[l] /\ PriceStays(l)
Inserted(l) ==
    /\ creating[l] # {} /\ creating'[l] = {}
    /\ listings'[l].left = Stock[l]
    /\ \/ listings'[l].status = "pending" /\ PriceStays(l)
       \/ /\ listings'[l].status = "live"
          /\ prices'[l] # 0 /\ Covered(l, prices'[l]) /\ (l \in reviewed' <=> l \in reviewed)
          /\ "listing_live" \in told'[l]
Rejected(l) ==
    /\ \E r \in Reviews : Deciding(r, l) /\ reviews'[r] = [at |-> "notice", listing |-> l]
    /\ listings'[l].status = "rejected" /\ listings'[l].left = listings[l].left
    /\ PriceStays(l)
Approved(l) ==
    /\ \E r \in Reviews : Deciding(r, l) /\ reviews'[r] = Idle
    /\ listings'[l].status = "live" /\ listings'[l].left = listings[l].left
    /\ prices'[l] # 0 /\ Covered(l, prices'[l]) /\ prices'[l] >= Stored(l)
    /\ "listing_live" \in told'[l]
Ordered(l) ==
    /\ listings[l].status = "live" /\ prices[l] # 0
    /\ listings'[l].status \in {"live", "sold"}
    /\ PriceStays(l)
Restocked(l) ==
    /\ \E b \in Buyers : bought[b] # NoOrder /\ bought[b].listing = l
    /\ \/ listings'[l].status = listings[l].status
       \/ listings[l].status = "sold" /\ listings'[l].status = "live"
    /\ PriceStays(l)

\* The row of a listing changes in one of these ways, or not at all.
LEMMA RowMoves ==
    ASSUME TypeOK, [Next]_vars, NEW l \in Listings
    PROVE  \/ RowStays(l) \/ Inserted(l) \/ Rejected(l) \/ Approved(l)
           \/ Ordered(l) \/ Restocked(l)
<1>. USE DEF TypeOK
<1>. DEFINE Goal == \/ RowStays(l) \/ Inserted(l) \/ Rejected(l) \/ Approved(l)
                    \/ Ordered(l) \/ Restocked(l)
<1>1. ASSUME UNCHANGED <<listings, prices, reviewed, told>> PROVE Goal
  BY <1>1 DEF RowStays, PriceStays
<1>2. ASSUME NEW auto, NEW margin, NEW fee, UpdateSettings(auto, margin, fee) PROVE Goal
  BY <1>1, <1>2 DEF UpdateSettings
<1>3. ASSUME NEW k \in Listings, ReadSettings(k) PROVE Goal
  BY <1>1, <1>3 DEF ReadSettings
<1>4. ASSUME NEW k \in Listings, InsertListing(k) PROVE Goal
  <2>1. PICK read \in creating[k] :
           /\ creating' = [creating EXCEPT ![k] = {}]
           /\ listings' = [listings EXCEPT ![k] =
                             [status |-> IF read.auto THEN "live" ELSE "pending",
                              left   |-> Stock[k]]]
           /\ IF read.auto
              THEN /\ \E price \in BuyerPrices(Payout[k], read.offer) :
                         prices' = [prices EXCEPT ![k] = price]
                   /\ told' = [told EXCEPT ![k] = @ \cup {"listing_live"}]
              ELSE UNCHANGED <<prices, told>>
           /\ UNCHANGED <<settings, reviewed, reviews, screens, bought, contested>>
    BY <1>4 DEF InsertListing
  <2>2. creating[k] \in SUBSET Settings
    OBVIOUS
  <2>3. read.offer \in [margin : Nat, fee : Nat]
    BY <2>2 DEF Settings
  <2>4. CASE k # l
    BY <2>1, <2>4 DEF RowStays, PriceStays
  <2>5. CASE k = l /\ read.auto
    <3>1. PICK price \in BuyerPrices(Payout[l], read.offer) :
             prices' = [prices EXCEPT ![l] = price]
      BY <2>1, <2>5
    <3>2. price # 0 /\ Covered(l, price)
      BY <2>3, PricesCover
    <3>3. prices'[l] = price
      BY <3>1
    <3>. QED
      BY <2>1, <2>5, <3>2, <3>3 DEF Inserted
  <2>6. CASE k = l /\ ~read.auto
    BY <2>1, <2>6 DEF Inserted, PriceStays
  <2>. QED
    BY <2>4, <2>5, <2>6
<1>5. ASSUME NEW r \in Reviews, NEW k \in Listings, StartReview(r, k) PROVE Goal
  BY <1>1, <1>5 DEF StartReview
<1>6. ASSUME NEW r \in Reviews, Reject(r) PROVE Goal
  BY <1>6 DEF Reject, RowStays, Rejected, PriceStays, Deciding
<1>7. ASSUME NEW r \in Reviews, TellRejected(r) PROVE Goal
  BY <1>7 DEF TellRejected, RowStays, PriceStays
<1>8. ASSUME NEW r \in Reviews, Approve(r) PROVE Goal
  <2>. DEFINE k == reviews[r].listing
  <2>1. k \in Listings /\ reviews[r].offer \in [margin : Nat, fee : Nat]
    BY <1>8, ReviewAssumption DEF Approve, Idle, Offers
  <2>2. PICK price \in BuyerPrices(10 * Stored(k), reviews[r].offer) :
           prices' = [prices EXCEPT ![k] = price]
    BY <1>8 DEF Approve
  <2>3. price # 0 /\ price >= Stored(k) /\ Covered(k, price)
    BY <2>1, PricesCover
  <2>4. /\ reviews[r].at = "approve"
        /\ reviewed' = reviewed \cup {k}
        /\ listings' = [listings EXCEPT ![k].status = "live"]
        /\ told' = [told EXCEPT ![k] = @ \cup {"listing_live"}]
        /\ reviews' = [reviews EXCEPT ![r] = Idle]
    BY <1>8 DEF Approve
  <2>5. Deciding(r, k)
    BY <2>4 DEF Deciding
  <2>. HIDE DEF k
  <2>6. CASE k # l
    BY <2>1, <2>2, <2>4, <2>6 DEF RowStays, PriceStays
  <2>7. CASE k = l
    BY <2>1, <2>2, <2>3, <2>4, <2>5, <2>7 DEF Approved
  <2>. QED
    BY <2>6, <2>7
<1>9. ASSUME Die PROVE Goal
  BY <1>1, <1>9 DEF Die
<1>10. ASSUME NEW b \in Buyers, NEW k \in Listings, OpenListing(b, k) PROVE Goal
  BY <1>1, <1>10 DEF OpenListing
<1>11. ASSUME NEW b \in Buyers, NEW k \in Listings, NEW qty \in 1 .. Stock[k],
              CreateOrder(b, k, qty)
       PROVE  Goal
  BY <1>11 DEF CreateOrder, RowStays, Ordered, PriceStays
<1>12. ASSUME NEW b \in Buyers, CancelOrder(b) PROVE Goal
  BY <1>12 DEF CancelOrder, RowStays, Restocked, PriceStays
<1>. QED
  BY <1>1, <1>2, <1>3, <1>4, <1>5, <1>6, <1>7, <1>8, <1>9, <1>10, <1>11, <1>12 DEF Next, vars

\* A review that takes a listing found it waiting, and marks it if it is not alone.
Taken(r, l) ==
    /\ listings[l].status = "pending" /\ UNCHANGED <<listings, prices>>
    /\ (l \notin contested') => \A s \in Reviews : ~Deciding(s, l)
    /\ \A s \in Reviews : s # r => reviews'[s] = reviews[s]

\* A request only ever moves on: it takes a listing, turns to its notice, or ends.
LEMMA ReviewMoves ==
    ASSUME TypeOK, [Next]_vars, NEW r \in Reviews
    PROVE  /\ contested \subseteq contested'
           /\ \/ reviews'[r] = reviews[r]
              \/ reviews'[r] = Idle
              \/ \E l \in Listings :
                    /\ reviews'[r].at \in {"reject", "approve"} /\ reviews'[r].listing = l
                    /\ Taken(r, l)
              \/ \E l \in Listings : /\ reviews'[r] = [at |-> "notice", listing |-> l]
                                     /\ listings'[l].status = "rejected"
<1>. USE DEF TypeOK
<1>. DEFINE Goal ==
       /\ contested \subseteq contested'
       /\ \/ reviews'[r] = reviews[r]
          \/ reviews'[r] = Idle
          \/ \E l \in Listings :
                /\ reviews'[r].at \in {"reject", "approve"} /\ reviews'[r].listing = l
                /\ Taken(r, l)
          \/ \E l \in Listings : /\ reviews'[r] = [at |-> "notice", listing |-> l]
                                 /\ listings'[l].status = "rejected"
<1>1. ASSUME UNCHANGED <<reviews, contested>> PROVE Goal
  BY <1>1
<1>2. ASSUME NEW auto, NEW margin, NEW fee, UpdateSettings(auto, margin, fee) PROVE Goal
  BY <1>1, <1>2 DEF UpdateSettings
<1>3. ASSUME NEW k \in Listings, ReadSettings(k) \/ InsertListing(k) PROVE Goal
  BY <1>1, <1>3 DEF ReadSettings, InsertListing
<1>4. ASSUME NEW q \in Reviews, NEW k \in Listings, StartReview(q, k) PROVE Goal
  <2>1. contested' = contested \cup {j \in {k} : \E s \in Reviews : Deciding(s, j)}
    BY <1>4 DEF StartReview
  <2>2. CASE q # r
    BY <1>4, <2>1, <2>2 DEF StartReview
  <2>3. CASE q = r
    <3>1. Taken(r, k)
      BY <1>4, <2>1, <2>3 DEF StartReview, CheckPending, Taken
    <3>2. reviews'[r] = [at |-> "reject", listing |-> k]
          \/ \E offer \in Offers : reviews'[r] = [at |-> "approve", listing |-> k, offer |-> offer]
      BY <1>4, <2>3 DEF StartReview
    <3>3. reviews'[r].at \in {"reject", "approve"} /\ reviews'[r].listing = k
      <4>1. CASE reviews'[r] = [at |-> "reject", listing |-> k]
        BY <4>1
      <4>2. CASE \E offer \in Offers :
                   reviews'[r] = [at |-> "approve", listing |-> k, offer |-> offer]
        BY <4>2
      <4>. QED
        BY <3>2, <4>1, <4>2
    <3>. QED
      BY <2>1, <3>1, <3>3
  <2>. QED
    BY <2>2, <2>3
<1>5. ASSUME NEW q \in Reviews, Reject(q) PROVE Goal
  <2>1. reviews[q].listing \in Listings
    BY <1>5 DEF Reject, Idle
  <2>. QED
    BY <1>5, <2>1 DEF Reject
<1>6. ASSUME NEW q \in Reviews, TellRejected(q) \/ Approve(q) PROVE Goal
  BY <1>6 DEF TellRejected, Approve
<1>7. ASSUME Die PROVE Goal
  BY <1>7 DEF Die
<1>8. ASSUME NEW b \in Buyers, NEW k \in Listings, OpenListing(b, k) PROVE Goal
  BY <1>1, <1>8 DEF OpenListing
<1>9. ASSUME NEW b \in Buyers, NEW k \in Listings, NEW qty \in 1 .. Stock[k],
             CreateOrder(b, k, qty)
      PROVE  Goal
  BY <1>1, <1>9 DEF CreateOrder
<1>10. ASSUME NEW b \in Buyers, CancelOrder(b) PROVE Goal
  BY <1>1, <1>10 DEF CancelOrder
<1>. QED
  BY <1>1, <1>2, <1>3, <1>4, <1>5, <1>6, <1>7, <1>8, <1>9, <1>10 DEF Next, vars

\* What a buyer has open is closed, or opened at today's price; what a buyer has
\* bought is cancelled, or bought at today's price from the open screen.
LEMMA BuyerMoves ==
    ASSUME TypeOK, [Next]_vars, NEW b \in Buyers
    PROVE  /\ \/ screens'[b] \in {screens[b], NoScreen}
              \/ \E l \in Listings :
                    /\ prices[l] # 0 /\ UNCHANGED <<listings, prices, reviews>>
                    /\ screens'[b] = [listing |-> l, price |-> prices[l], final |-> Settled(l)]
           /\ \/ bought'[b] \in {bought[b], NoOrder}
              \/ \E l \in Listings, qty \in Nat :
                    /\ prices[l] # 0 /\ screens[b].listing = l /\ UNCHANGED prices
                    /\ bought'[b] = [listing |-> l, qty |-> qty, price |-> prices[l],
                                     shown |-> screens[b].price, final |-> screens[b].final]
<1>. USE DEF TypeOK
<1>. DEFINE Look == \/ screens'[b] \in {screens[b], NoScreen}
                    \/ \E l \in Listings :
                          /\ prices[l] # 0 /\ UNCHANGED <<listings, prices, reviews>>
                          /\ screens'[b] = [listing |-> l, price |-> prices[l], final |-> Settled(l)]
            Buy  == \/ bought'[b] \in {bought[b], NoOrder}
                    \/ \E l \in Listings, qty \in Nat :
                          /\ prices[l] # 0 /\ screens[b].listing = l /\ UNCHANGED prices
                          /\ bought'[b] = [listing |-> l, qty |-> qty, price |-> prices[l],
                                           shown |-> screens[b].price, final |-> screens[b].final]
<1>1. ASSUME UNCHANGED <<screens, bought>> PROVE Look /\ Buy
  BY <1>1
<1>2. ASSUME NEW auto, NEW margin, NEW fee, UpdateSettings(auto, margin, fee) PROVE Look /\ Buy
  BY <1>1, <1>2 DEF UpdateSettings
<1>3. ASSUME NEW k \in Listings, ReadSettings(k) \/ InsertListing(k) PROVE Look /\ Buy
  BY <1>1, <1>3 DEF ReadSettings, InsertListing
<1>4. ASSUME NEW q \in Reviews, \/ \E k \in Listings : StartReview(q, k)
                                \/ Reject(q) \/ TellRejected(q) \/ Approve(q)
      PROVE  Look /\ Buy
  BY <1>1, <1>4 DEF StartReview, Reject, TellRejected, Approve
<1>5. ASSUME Die PROVE Look /\ Buy
  BY <1>1, <1>5 DEF Die
<1>6. ASSUME NEW c \in Buyers, NEW k \in Listings, OpenListing(c, k) PROVE Look /\ Buy
  BY <1>6 DEF OpenListing
<1>7. ASSUME NEW c \in Buyers, NEW k \in Listings, NEW qty \in 1 .. Stock[k],
             CreateOrder(c, k, qty)
      PROVE  Look /\ Buy
  <2>1. qty \in Nat
    BY ReviewAssumption
  <2>. QED
    BY <1>7, <2>1 DEF CreateOrder
<1>8. ASSUME NEW c \in Buyers, CancelOrder(c) PROVE Look /\ Buy
  BY <1>8 DEF CancelOrder
<1>. QED
  BY <1>1, <1>2, <1>3, <1>4, <1>5, <1>6, <1>7, <1>8 DEF Next, vars

-----------------------------------------------------------------------------
(* ListingReview: the invariant is kept *)

\* A listing without a row is priced and read by nobody; once it has a row, or a
\* price, it keeps one.
LEMMA StepFresh ==
    ASSUME ReviewInv, [Next]_vars
    PROVE  /\ RequestsAreFresh'
           /\ \A l \in Listings : prices[l] # 0 => prices'[l] # 0
<1>a. TypeOK /\ RequestsAreFresh
  BY DEF ReviewInv
<1>b. \A l \in Listings : \/ RowStays(l) \/ Inserted(l) \/ Rejected(l) \/ Approved(l)
                          \/ Ordered(l) \/ Restocked(l)
  BY <1>a, RowMoves
<1>c. \A l \in Listings : listings[l] \in [status : {"none", "pending", "live", "sold", "rejected"},
                                          left   : Nat]
  BY <1>a DEF TypeOK
<1>1. ASSUME NEW l \in Listings, listings[l].status # "none"
      PROVE  listings'[l].status # "none"
  BY <1>1, <1>b, <1>c DEF RowStays, Inserted, Rejected, Approved, Ordered, Restocked
<1>2. ASSUME NEW l \in Listings, prices[l] # 0
      PROVE  prices'[l] # 0
  BY <1>2, <1>b DEF RowStays, Inserted, Rejected, Approved, Ordered, Restocked, PriceStays
<1>3. ASSUME NEW l \in Listings, creating'[l] # {}
      PROVE  listings'[l].status = "none"
  <2>1. \/ creating[l] # {}
        \/ listings[l].status = "none" /\ UNCHANGED listings
    BY <1>a, <1>3
       DEF TypeOK, Next, vars, UpdateSettings, ReadSettings, InsertListing, StartReview, Reject,
           TellRejected, Approve, Die, OpenListing, CreateOrder, CancelOrder
  <2>2. CASE creating[l] # {}
    <3>1. listings[l].status = "none" /\ ~Inserted(l) /\ ~Rejected(l) /\ ~Approved(l)
      BY <1>a, <1>3, <2>2 DEF RequestsAreFresh, Inserted, Rejected, Approved, Deciding
    <3>. QED
      BY <1>b, <3>1 DEF RowStays, Ordered, Restocked
  <2>. QED
    BY <2>1, <2>2
<1>4. ASSUME NEW r \in Reviews, reviews'[r].at # "idle"
      PROVE  listings'[reviews'[r].listing].status # "none"
  <2>1. ASSUME reviews'[r] = reviews[r]
        PROVE  listings'[reviews'[r].listing].status # "none"
    <3>1. reviews[r].listing \in Listings
      BY <1>a, <1>4, <2>1 DEF TypeOK, Idle
    <3>. QED
      BY <1>a, <1>1, <1>4, <2>1, <3>1 DEF RequestsAreFresh
  <2>. QED
    <3>1. reviews'[r] # Idle
      BY <1>4 DEF Idle
    <3>2. ASSUME NEW l \in Listings, reviews'[r].listing = l, Taken(r, l)
          PROVE  listings'[reviews'[r].listing].status # "none"
      BY <3>2 DEF Taken
    <3>3. ASSUME NEW l \in Listings, reviews'[r] = [at |-> "notice", listing |-> l],
                 listings'[l].status = "rejected"
          PROVE  listings'[reviews'[r].listing].status # "none"
      BY <3>3
    <3>. QED
      BY <1>a, <2>1, <3>1, <3>2, <3>3, ReviewMoves
<1>. QED
  BY <1>2, <1>3, <1>4 DEF RequestsAreFresh

\* Prices cover what is stored, and what has none is whole.
LEMMA StepPriced == ReviewInv /\ [Next]_vars => PricedWhenOnSale'
<1>. SUFFICES ASSUME ReviewInv, [Next]_vars PROVE PricedWhenOnSale'
  OBVIOUS
<1>. USE DEF ReviewInv, PricedWhenOnSale, OnSale
<1>. SUFFICES ASSUME NEW l \in Listings
              PROVE  /\ OnSale(l)' => prices'[l] # 0
                     /\ listings'[l].status \in {"none", "pending"} => prices'[l] = 0
                     /\ prices'[l] = 0 => l \notin reviewed'
                     /\ prices'[l] = 0 /\ listings'[l].status # "none" =>
                           listings'[l].left = Stock[l]
                     /\ prices'[l] # 0 => Covered(l, prices'[l])
                     /\ l \in reviewed' => prices'[l] >= Stored(l)
  BY DEF Covered
<1>1. CASE RowStays(l)
  BY <1>1 DEF RowStays, PriceStays
<1>2. CASE Inserted(l)
  BY <1>2 DEF Inserted, PriceStays, RequestsAreFresh
<1>3. CASE Rejected(l)
  BY <1>3 DEF Rejected, PriceStays, RequestsAreFresh, Deciding, TypeOK
<1>4. CASE Approved(l)
  BY <1>4 DEF Approved, TypeOK
<1>5. CASE Ordered(l)
  BY <1>5 DEF Ordered, PriceStays
<1>6. CASE Restocked(l)
  BY <1>6 DEF Restocked, PriceStays, BuyersAreServed, OrderIsPriced
<1>. QED
  BY <1>1, <1>2, <1>3, <1>4, <1>5, <1>6, RowMoves

\* Whoever decides was there before, or has just found the listing waiting.
LEMMA DecidingMoves ==
    ASSUME TypeOK, [Next]_vars, NEW r \in Reviews, NEW l \in Listings, Deciding(r, l)'
    PROVE  \/ Deciding(r, l) /\ reviews'[r] = reviews[r]
           \/ Taken(r, l)
<1>1. reviews'[r].at \in {"reject", "approve"} /\ reviews'[r].listing = l
  BY DEF Deciding
<1>. QED
  <2>1. CASE reviews'[r] = reviews[r]
    BY <1>1, <2>1 DEF Deciding
  <2>2. CASE reviews'[r] = Idle
    BY <1>1, <2>2 DEF Idle
  <2>3. ASSUME NEW k \in Listings, reviews'[r].listing = k, Taken(r, k) PROVE Taken(r, l)
    BY <1>1, <2>3
  <2>4. ASSUME NEW k \in Listings, reviews'[r] = [at |-> "notice", listing |-> k] PROVE FALSE
    <3>1. reviews'[r].at = "notice"
      BY <2>4
    <3>. QED
      BY <1>1, <3>1
  <2>. QED
    BY <2>1, <2>2, <2>3, <2>4, ReviewMoves

\* Without overlap one review decides, on a listing that waits for it.
LEMMA StepOneDecides == ReviewInv /\ [Next]_vars => OneDecides'
<1>. SUFFICES ASSUME ReviewInv, [Next]_vars, NEW l \in Listings, l \notin contested'
              PROVE  /\ \A r, s \in Reviews : Deciding(r, l)' /\ Deciding(s, l)' => r = s
                     /\ \A r \in Reviews : Deciding(r, l)' => listings'[l].status = "pending"
                     /\ listings'[l].status = "rejected" => prices'[l] = 0
  BY DEF OneDecides
<1>. USE DEF ReviewInv
<1>1. l \notin contested
  BY DEF Next, vars, UpdateSettings, ReadSettings, InsertListing, StartReview, Reject,
         TellRejected, Approve, Die, OpenListing, CreateOrder, CancelOrder
<1>2. /\ \A r, s \in Reviews : Deciding(r, l) /\ Deciding(s, l) => r = s
      /\ \A r \in Reviews : Deciding(r, l) => listings[l].status = "pending"
      /\ listings[l].status = "rejected" => prices[l] = 0
  BY <1>1 DEF OneDecides
<1>b. \/ RowStays(l) \/ Inserted(l) \/ Rejected(l) \/ Approved(l)
      \/ Ordered(l) \/ Restocked(l)
  BY RowMoves
<1>c. listings[l] \in [status : {"none", "pending", "live", "sold", "rejected"}, left : Nat]
  BY DEF TypeOK
<1>3. ASSUME NEW r \in Reviews, NEW s \in Reviews, Deciding(r, l)', Deciding(s, l)'
      PROVE  r = s
  BY <1>2, <1>3, DecidingMoves DEF Taken, Deciding
<1>4. ASSUME NEW r \in Reviews, Deciding(r, l)'
      PROVE  listings'[l].status = "pending"
  <2>1. CASE Taken(r, l)
    BY <2>1 DEF Taken
  <2>2. CASE Deciding(r, l) /\ reviews'[r] = reviews[r]
    <3>1. listings[l].status = "pending" /\ \A s \in Reviews : Deciding(s, l) => s = r
      BY <1>2, <2>2
    <3>2. ~Rejected(l) /\ ~Approved(l)
      BY <1>4, <2>2, <3>1 DEF Rejected, Approved, Deciding, Idle
    <3>. QED
      BY <3>1, <3>2, RowMoves
         DEF RowStays, Inserted, Ordered, Restocked, RequestsAreFresh
  <2>. QED
    BY <1>4, <2>1, <2>2, DecidingMoves
<1>5. ASSUME listings'[l].status = "rejected"
      PROVE  prices'[l] = 0
  <2>1. Rejected(l) => prices[l] = 0
    BY <1>2 DEF Rejected, PricedWhenOnSale
  <2>. QED
    BY <1>2, <1>5, <2>1, <1>b, <1>c
       DEF RowStays, Inserted, Rejected, Approved, Ordered, Restocked, PriceStays
<1>. QED
  BY <1>3, <1>4, <1>5

\* What is decided and on no review's way stays decided, at its price.
LEMMA SettledStands ==
    ASSUME ReviewInv, [Next]_vars, NEW l \in Listings, Settled(l)
    PROVE  /\ Settled(l)'
           /\ prices'[l] = prices[l]
           /\ IF OnSale(l) THEN OnSale(l)' ELSE listings'[l].status = "rejected"
<1>. USE DEF ReviewInv
<1>1. /\ listings[l].status \in {"live", "sold", "rejected"}
      /\ \A r \in Reviews : ~Deciding(r, l)
  BY DEF Settled, Decided
<1>2. ~Inserted(l) /\ ~Rejected(l) /\ ~Approved(l)
  BY <1>1 DEF Inserted, Rejected, Approved, RequestsAreFresh
<1>3. /\ prices'[l] = prices[l]
      /\ IF OnSale(l) THEN OnSale(l)' ELSE listings'[l].status = "rejected"
  BY <1>1, <1>2, RowMoves DEF RowStays, Ordered, Restocked, PriceStays, OnSale
<1>4. \A r \in Reviews : ~Deciding(r, l)'
  BY <1>1, DecidingMoves DEF Taken
<1>. QED
  BY <1>1, <1>3, <1>4 DEF Settled, Decided, OnSale

\* What a screen shows as final is the price that is paid for it.
LEMMA StepBuyers == ReviewInv /\ [Next]_vars => BuyersAreServed' /\ PricePaidWasShown'
<1>. SUFFICES ASSUME ReviewInv, [Next]_vars, NEW b \in Buyers
              PROVE  /\ ScreenIsCurrent(b)' /\ OrderIsPriced(b)'
                     /\ bought'[b].final => bought'[b].price = bought'[b].shown
  BY DEF BuyersAreServed, PricePaidWasShown
<1>. USE DEF ReviewInv
<1>1. /\ screens[b] \in {NoScreen} \cup [listing : Listings, price : Nat, final : BOOLEAN]
      /\ bought[b] \in {NoOrder} \cup Order
      /\ ScreenIsCurrent(b) /\ OrderIsPriced(b)
  BY DEF TypeOK, BuyersAreServed
<1>2. \A l \in Listings : prices[l] # 0 => prices'[l] # 0
  BY StepFresh
<1>3. ScreenIsCurrent(b)'
  <2>1. ASSUME screens'[b] # NoScreen, screens'[b] = screens[b]
        PROVE  ScreenIsCurrent(b)'
    <3>1. PICK l \in Listings : screens[b].listing = l
      BY <1>1, <2>1
    <3>2. prices[l] # 0 /\ (screens[b].final => Settled(l) /\ screens[b].price = prices[l])
      BY <1>1, <2>1, <3>1 DEF ScreenIsCurrent
    <3>3. prices'[l] # 0 /\ (screens[b].final => Settled(l)' /\ screens[b].price = prices'[l])
      BY <1>2, <3>2, SettledStands
    <3>. QED
      BY <2>1, <3>1, <3>3 DEF ScreenIsCurrent
  <2>2. ASSUME NEW l \in Listings, prices[l] # 0, UNCHANGED <<listings, prices, reviews>>,
               screens'[b] = [listing |-> l, price |-> prices[l], final |-> Settled(l)]
        PROVE  ScreenIsCurrent(b)'
    <3>1. Settled(l)' <=> Settled(l)
      BY <2>2 DEF Settled, Decided, Deciding
    <3>2. /\ screens'[b].listing = l /\ screens'[b].price = prices[l]
          /\ screens'[b].final = Settled(l)
      BY <2>2
    <3>. QED
      BY <2>2, <3>1, <3>2, Zenon DEF ScreenIsCurrent
  <2>3. CASE screens'[b] = NoScreen
    BY <2>3 DEF ScreenIsCurrent, NoScreen
  <2>. QED
    BY <2>1, <2>2, <2>3, BuyerMoves
<1>4. OrderIsPriced(b)'
  <2>1. ASSUME bought'[b] # NoOrder, bought'[b] = bought[b]
        PROVE  OrderIsPriced(b)'
    BY <1>1, <1>2, <2>1 DEF OrderIsPriced, Order, Covered, Stored
  <2>2. ASSUME NEW l \in Listings, NEW qty \in Nat, prices[l] # 0,
               bought'[b] = [listing |-> l, qty |-> qty, price |-> prices[l],
                             shown |-> screens[b].price, final |-> screens[b].final]
        PROVE  OrderIsPriced(b)'
    BY <1>2, <2>2 DEF PricedWhenOnSale, OrderIsPriced, Covered, Stored
  <2>3. CASE bought'[b] = NoOrder
    BY <2>3 DEF OrderIsPriced, NoOrder
  <2>. QED
    BY <2>1, <2>2, <2>3, BuyerMoves
<1>5. ASSUME bought'[b].final
      PROVE  bought'[b].price = bought'[b].shown
  <2>1. CASE bought'[b] = bought[b]
    BY <1>5, <2>1 DEF PricePaidWasShown
  <2>2. CASE bought'[b] = NoOrder
    BY <2>2 DEF NoOrder
  <2>3. ASSUME NEW l \in Listings, NEW qty \in Nat, screens[b].listing = l,
               bought'[b] = [listing |-> l, qty |-> qty, price |-> prices[l],
                             shown |-> screens[b].price, final |-> screens[b].final]
        PROVE  bought'[b].price = bought'[b].shown
    <3>1. screens[b] # NoScreen
      BY <2>3, ReviewAssumption DEF NoScreen
    <3>2. screens[b].final
      BY <1>5, <2>3
    <3>. QED
      BY <1>1, <2>3, <3>1, <3>2 DEF ScreenIsCurrent
  <2>. QED
    BY <2>1, <2>2, <2>3, BuyerMoves
<1>. QED
  BY <1>3, <1>4, <1>5

\* The live notice is written with the status, and a rejection that nobody else
\* decides beside stands by the time its notice is written.
LEMMA StepNotices == ReviewInv /\ [Next]_vars => NoticesInv'
<1>. SUFFICES ASSUME ReviewInv, [Next]_vars PROVE NoticesInv'
  OBVIOUS
<1>. USE DEF ReviewInv, NoticesInv, NoticesAreTrue, OnSale
<1>0. contested \subseteq contested'
  BY DEF TypeOK, Next, vars, UpdateSettings, ReadSettings, InsertListing, StartReview, Reject,
         TellRejected, Approve, Die, OpenListing, CreateOrder, CancelOrder
<1>b. \A l \in Listings : \/ RowStays(l) \/ Inserted(l) \/ Rejected(l) \/ Approved(l)
                          \/ Ordered(l) \/ Restocked(l)
  BY RowMoves
<1>c. \A l \in Listings : listings[l] \in [status : {"none", "pending", "live", "sold", "rejected"},
                                          left   : Nat]
  BY DEF TypeOK
<1>1. ASSUME NEW l \in Listings, OnSale(l)' PROVE "listing_live" \in told'[l]
  BY <1>1, <1>b, <1>c
     DEF RowStays, Inserted, Rejected, Approved, Ordered, Restocked, PriceStays
<1>2. ASSUME NEW l \in Listings, l \notin contested', "listing_live" \in told'[l]
      PROVE  OnSale(l)'
  <2>1. Rejected(l) => listings[l].status = "pending"
    BY <1>0, <1>2 DEF Rejected, OneDecides
  <2>. QED
    BY <1>0, <1>2, <2>1, <1>b, <1>c
       DEF RowStays, Inserted, Rejected, Approved, Ordered, Restocked, PriceStays,
           RequestsAreFresh
<1>3. ASSUME NEW l \in Listings, l \notin contested', listings[l].status = "rejected"
      PROVE  listings'[l].status = "rejected"
  <2>1. Settled(l)
    BY <1>0, <1>3 DEF Settled, Decided, OneDecides
  <2>. QED
    BY <1>3, <2>1, SettledStands
<1>4. ASSUME NEW l \in Listings, "listing_rejected" \in told'[l]
      PROVE  \/ "listing_rejected" \in told[l]
             \/ \E r \in Reviews : reviews[r].at = "notice" /\ reviews[r].listing = l
  <2>1. ASSUME NEW r \in Reviews, TellRejected(r)
        PROVE  told'[l] = told[l] \/ (reviews[r].at = "notice" /\ reviews[r].listing = l)
    <3>1. told' = [told EXCEPT ![reviews[r].listing] = @ \cup {"listing_rejected"}]
          /\ reviews[r].at = "notice"
      BY <2>1 DEF TellRejected
    <3>. QED
      BY <3>1 DEF TypeOK
  <2>2. ASSUME NEW r \in Reviews, Approve(r)
        PROVE  "listing_rejected" \in told[l]
    BY <1>4, <2>2 DEF TypeOK, Approve
  <2>3. ASSUME NEW k \in Listings, InsertListing(k)
        PROVE  "listing_rejected" \in told[l]
    BY <1>4, <2>3 DEF TypeOK, InsertListing
  <2>4. CASE UNCHANGED told
    BY <1>4, <2>4
  <2>. QED
    BY <1>4, <2>1, <2>2, <2>3, <2>4
       DEF Next, vars, UpdateSettings, ReadSettings, StartReview, Reject, Die, OpenListing,
           CreateOrder, CancelOrder
<1>5. ASSUME NEW l \in Listings, l \notin contested', "listing_rejected" \in told'[l]
      PROVE  listings'[l].status = "rejected"
  BY <1>0, <1>3, <1>4, <1>5
<1>6. ASSUME NEW r \in Reviews, reviews'[r].at = "notice", reviews'[r].listing \notin contested'
      PROVE  listings'[reviews'[r].listing].status = "rejected"
  <2>1. ASSUME reviews'[r] = reviews[r]
        PROVE  listings'[reviews'[r].listing].status = "rejected"
    <3>1. reviews[r].listing \in Listings
      BY <1>6, <2>1 DEF TypeOK, Idle
    <3>. QED
      BY <1>0, <1>3, <1>6, <2>1, <3>1
  <2>. QED
    <3>1. reviews'[r] # Idle /\ reviews'[r].at \notin {"reject", "approve"}
      BY <1>6 DEF Idle
    <3>2. ASSUME NEW l \in Listings, reviews'[r] = [at |-> "notice", listing |-> l],
                 listings'[l].status = "rejected"
          PROVE  listings'[reviews'[r].listing].status = "rejected"
      BY <3>2
    <3>. QED
      BY <2>1, <3>1, <3>2, ReviewMoves
<1>. QED
  BY <1>1, <1>2, <1>5, <1>6

\* Every step keeps the invariant.
LEMMA StepReview == ReviewInv /\ [Next]_vars => ReviewInv'
  BY StepReviewTypes, StepFresh, StepPriced, StepOneDecides, StepBuyers, StepNotices DEF ReviewInv

-----------------------------------------------------------------------------
(* ListingReview: the theorems *)

\* However reviews of a listing overlap, no price goes below what is stored, none is
\* lost, and what was final when it was shown is so until it is paid.
THEOREM ReviewInvariant == Spec => []ReviewInv
<1>1. ReviewInv /\ [Next]_vars => ReviewInv'
  BY StepReview
<1>. QED
  BY InitReview, <1>1, PTL DEF Spec

\* The tables of the catalogue keep their types, however many reviews run at once.
THEOREM ReviewTypes == Spec => []TypeOK
<1>1. ReviewInv => TypeOK
  BY DEF ReviewInv
<1>. QED
  BY ReviewInvariant, <1>1, PTL

\* A price shown while no review of the listing is past its check is the price paid,
\* whatever new reviews, the settings and the other buyers do before the order.
THEOREM ShownPriceIsPaid == Spec => []PricePaidWasShown
<1>1. ReviewInv => PricePaidWasShown
  BY DEF ReviewInv
<1>. QED
  BY ReviewInvariant, <1>1, PTL

\* What is on sale, or bought, has a price that covers the farmer's stored payout,
\* but for the paisa that auto-approval may lose, however reviews overlap.
THEOREM PayoutIsCovered == Spec => []PriceCoversPayout
<1>1. ReviewInv => PriceCoversPayout
  BY DEF ReviewInv, PricedWhenOnSale, BuyersAreServed, OrderIsPriced, PriceCoversPayout
<1>. QED
  BY ReviewInvariant, <1>1, PTL

\* What never had a price has its whole stock and no order, and what one review
\* rejected never had a price.
THEOREM RejectedNeverSold == Spec => []RejectedIsUntouched
<1>1. ReviewInv => RejectedIsUntouched
  <2>. SUFFICES ASSUME ReviewInv, NEW l \in Listings
                PROVE  /\ prices[l] = 0 /\ listings[l].status # "none" =>
                             /\ listings[l].left = Stock[l]
                             /\ \A b \in Buyers : bought[b].listing # l
                       /\ listings[l].status = "rejected" /\ l \notin contested => prices[l] = 0
    BY DEF RejectedIsUntouched
  <2>1. prices[l] = 0 => \A b \in Buyers : bought[b].listing # l
    BY ReviewAssumption DEF ReviewInv, BuyersAreServed, OrderIsPriced, NoOrder
  <2>. QED
    BY <2>1 DEF ReviewInv, PricedWhenOnSale, OneDecides
<1>. QED
  BY ReviewInvariant, <1>1, PTL

\* A seller whose listing is on sale was told so, and without overlapping reviews of
\* it sellers hear of nothing else than what happened and stands.
THEOREM SellersAreTold == Spec => []NoticesAreTrue
<1>1. ReviewInv => NoticesAreTrue
  BY DEF ReviewInv, NoticesInv
<1>. QED
  BY ReviewInvariant, <1>1, PTL

\* Nothing is for sale below its payout, nothing rejected ever was for sale, and
\* the sellers know which is which, with the exceptions that the three parts name.
THEOREM CatalogueSound == Spec => []CatalogueIsSound
<1>1. PriceCoversPayout /\ RejectedIsUntouched /\ NoticesAreTrue => CatalogueIsSound
  BY DEF CatalogueIsSound
<1>. QED
  BY <1>1, PayoutIsCovered, RejectedNeverSold, SellersAreTold, PTL

\* A decision that no other review is on its way to overwrite stands, with its price.
THEOREM DecisionsStand == Spec => DecisionsAreFinal
<1>. DEFINE Final == \A l \in Listings :
                        Settled(l) \/ (Decided(l) /\ l \notin contested) =>
                           /\ IF OnSale(l) THEN OnSale(l)' /\ prices'[l] = prices[l]
                                          ELSE listings'[l].status = "rejected"
                           /\ Settled(l)'
<1>1. ReviewInv /\ [Next]_vars => [Final]_vars
  <2>. SUFFICES ASSUME ReviewInv, [Next]_vars PROVE Final
    OBVIOUS
  <2>1. \A l \in Listings : Decided(l) /\ l \notin contested => Settled(l)
    BY DEF ReviewInv, OneDecides, Settled, Decided
  <2>. QED
    BY <2>1, SettledStands
<1>. QED
  BY ReviewInvariant, <1>1, PTL DEF Spec, DecisionsAreFinal

-----------------------------------------------------------------------------
(* SellerApp: the invariant *)

\* The pictures of some files, and files of which each has a picture of its own.
Pics(fs, photos) == {fs[f] : f \in photos}
PhotosOK(fs, photos) ==
    photos \subseteq DOMAIN fs /\ \A f, g \in photos : fs[f] = fs[g] => f = g

\* A row, listed or on its way, is what the seller put in.
RowOK(hz, fs, row) ==
    /\ PhotosOK(fs, row.photos)
    /\ "impatient" \notin hz => Pics(fs, row.photos) = row.meant
    /\ "rethinks" \notin hz => \A f \in row.photos : Shows[fs[f]] = row.item

IsListed(rows, d) == \E l \in DOMAIN rows : rows[l].draft = d

\* What a call means while the files are fs, the listings rows, and d drafts made.
CallOK(hz, fs, rows, d, c) ==
    /\ c.owner = "none" => c = NoCall \/ c.at = "sent"
    /\ c.kind \in {"list", "catalog"} => c.at # "refused" \/ c = NoCall
    /\ c.kind = "list" => c.found \subseteq DOMAIN rows
    /\ c.kind = "catalog" /\ c.at = "answered" => c.found = Produce
    /\ c.kind = "upload" /\ c.at = "answered" =>
          \E k \in DOMAIN fs : c.photo = {k} /\ fs[k] = c.picture
    /\ c.kind = "upload" => c.picture \in Pictures
    /\ c.kind # "upload" => c.photo = {} /\ c.picture = NoPicture
    /\ c.kind = "create" =>
          /\ c.row \in Row /\ c.row.draft <= d /\ RowOK(hz, fs, c.row)
          /\ c.at = "answered" => IsListed(rows, c.row.draft)

CallsInv == \A x \in Slots : CallOK(hazards, files, listed, draft, calls[x])

ListedInv == \A l \in Made : listed[l].draft <= draft /\ RowOK(hazards, files, listed[l])

CountInv == Coming <= MaxListings

ConfirmedInv == \A d \in confirmed : IsListed(listed, d)

Stacks == {<<"home">>, <<"listings">>, <<"home", "new">>, <<"home", "listings">>}

ScreenInv ==
    /\ stack \in Stacks
    /\ \A x \in Slots : calls[x].owner = "screen" =>
          Top(stack) = IF calls[x].kind = "list" THEN "listings" ELSE "new"
    /\ IF Top(stack) = "new" THEN draft > 0 ELSE form = Blank

\* The calls of a kind the screen waits for.
Waiting(cs, kind) == {x \in Slots : cs[x].kind = kind /\ cs[x].owner = "screen"}

FormInv ==
    /\ PhotosOK(files, form.photos)
    /\ form.picked = Pics(files, form.photos) \cup {calls[x].picture : x \in Waiting(calls, "upload")}
    /\ "rethinks" \notin hazards /\ form.sel # NoProduce => \A p \in form.picked : Shows[p] = form.sel
    /\ \A x \in Waiting(calls, "upload") :
          form.uploading /\ calls[x].picture \notin Pics(files, form.photos)
    /\ \A x \in Waiting(calls, "create") : form.busy /\ calls[x].row.draft = draft
    /\ \A kind \in {"upload", "create"} : \A x, y \in Waiting(calls, kind) : x = y

OnceInv ==
    "lost" \notin hazards =>
       /\ \A x \in Slots : calls[x].owner = "none" => calls[x] = NoCall
       /\ \A k, l \in Made : listed[k].draft = listed[l].draft => k = l
       /\ \A x \in Slots : calls[x].kind = "create" /\ calls[x].at = "sent" =>
             /\ ~IsListed(listed, calls[x].row.draft)
             /\ \A y \in Slots : calls[y].kind = "create" /\ calls[y].at = "sent"
                                 /\ calls[y].row.draft = calls[x].row.draft => y = x
       /\ Top(stack) = "new" =>
             /\ \A x \in Slots : calls[x].kind = "create" /\ calls[x].row.draft = draft =>
                   calls[x].owner = "screen"
             /\ IsListed(listed, draft) => \E x \in Waiting(calls, "create") : calls[x].at = "answered"

PatientInv ==
    "impatient" \notin hazards =>
       /\ stack[1] = "home"
       /\ \A x \in Slots : calls[x].owner # "left"
       /\ \A x, y \in Slots : calls[x].owner = "screen" /\ calls[y].owner = "screen" => x = y
       /\ Top(stack) = "new" => draft \notin confirmed

CleanInv ==
    hazards \cap {"lost", "impatient"} = {} =>
       /\ \A x \in Waiting(calls, "list") : calls[x].at = "answered" => calls[x].found = Made
       /\ Top(stack) = "listings" /\ Waiting(calls, "list") = {} => shown = Made

SellerInv ==
    /\ SellerTypeOK /\ CallsInv /\ ListedInv /\ CountInv /\ ConfirmedInv
    /\ ScreenInv /\ FormInv /\ OnceInv /\ PatientInv /\ CleanInv
-----------------------------------------------------------------------------
(* The seller's phone: rows and calls *)

\* The parts of the state.
LEMMA SellerFields ==
    ASSUME SellerTypeOK
    PROVE  /\ \A x \in Slots : calls[x] \in Call
           /\ DOMAIN files = 1 .. Len(files) /\ DOMAIN listed = 1 .. Len(listed)
           /\ Len(files) \in Nat /\ Len(listed) \in Nat
           /\ \A k \in DOMAIN files : files[k] \in Pictures
           /\ \A l \in DOMAIN listed : listed[l] \in Row
           /\ DOMAIN files \subseteq Paths /\ DOMAIN listed \subseteq 1 .. MaxListings
           /\ draft \in Nat /\ Slots \subseteq Nat
<1>1. MaxFiles \in Nat /\ MaxListings \in Nat /\ MaxCalls \in Nat /\ MaxDrafts \in Nat
  BY SellerAppAssumption
<1>2. files \in Seq(Pictures) /\ listed \in Seq(Row)
  BY DEF SellerTypeOK
<1>3. /\ DOMAIN files = 1 .. Len(files) /\ DOMAIN listed = 1 .. Len(listed)
      /\ Len(files) \in Nat /\ Len(listed) \in Nat
      /\ \A k \in DOMAIN files : files[k] \in Pictures
      /\ \A l \in DOMAIN listed : listed[l] \in Row
  BY <1>2
<1> QED
  BY <1>1, <1>3 DEF SellerTypeOK, Paths, Slots

\* An empty slot.
LEMMA NoCallIsCall ==
    /\ NoCall \in Call
    /\ NoCall.kind = "list" /\ NoCall.at = "refused" /\ NoCall.owner = "none" /\ NoCall.row = NoRow
    /\ NoCall.picture = NoPicture /\ NoCall.photo = {} /\ NoCall.found = {}
BY DEF NoCall, Call

\* What a screen sends.
LEMMA SendIsCall ==
    ASSUME NEW kind \in {"catalog", "upload", "create", "list"}
    PROVE  /\ Send(kind) \in Call
           /\ Send(kind).kind = kind /\ Send(kind).at = "sent" /\ Send(kind).owner = "screen"
           /\ Send(kind).row = NoRow /\ Send(kind).picture = NoPicture
           /\ Send(kind).photo = {} /\ Send(kind).found = {}
BY NoCallIsCall DEF Send, NoCall, Call

\* Nothing is taken from a sequence that grows.
Grows(s, t) == DOMAIN s \subseteq DOMAIN t /\ \A i \in DOMAIN s : t[i] = s[i]

\* A sequence grows by an element at its end.
LEMMA AppendGrows ==
    ASSUME NEW S, NEW s \in Seq(S), NEW e \in S
    PROVE  /\ Append(s, e) \in Seq(S) /\ Len(Append(s, e)) = Len(s) + 1
           /\ DOMAIN Append(s, e) = DOMAIN s \cup {Len(s) + 1}
           /\ Append(s, e)[Len(s) + 1] = e
           /\ Grows(s, Append(s, e))
<1>1. /\ Append(s, e) \in Seq(S) /\ Len(Append(s, e)) = Len(s) + 1
      /\ Append(s, e)[Len(s) + 1] = e
      /\ \A i \in 1 .. Len(s) : Append(s, e)[i] = s[i]
  OBVIOUS
<1>2. DOMAIN s = 1 .. Len(s) /\ DOMAIN Append(s, e) = 1 .. Len(s) + 1 /\ Len(s) \in Nat
  BY <1>1
<1> QED
  BY <1>1, <1>2 DEF Grows

\* Files that are stored later change nothing of a row.
LEMMA RowKept ==
    ASSUME NEW hz, NEW fs, NEW fs2, Grows(fs, fs2), NEW row, RowOK(hz, fs, row)
    PROVE  RowOK(hz, fs2, row)
BY DEF RowOK, PhotosOK, Pics, Grows

\* Nor do listings made later unlist a draft.
LEMMA ListedKept ==
    ASSUME NEW rows, NEW rows2, Grows(rows, rows2), NEW d, IsListed(rows, d)
    PROVE  IsListed(rows2, d)
BY DEF IsListed, Grows

\* What a call means stays true.
LEMMA CallKept ==
    ASSUME NEW hz, NEW fs, NEW fs2, Grows(fs, fs2), NEW rows, NEW rows2, Grows(rows, rows2),
           NEW d \in Nat, NEW d2 \in Nat, d <= d2, NEW c \in Call, CallOK(hz, fs, rows, d, c)
    PROVE  CallOK(hz, fs2, rows2, d2, c)
<1>1. c.kind = "list" => c.found \subseteq DOMAIN rows2
  BY DEF CallOK, Grows
<1>2. c.kind = "upload" /\ c.at = "answered" =>
         \E k \in DOMAIN fs2 : c.photo = {k} /\ fs2[k] = c.picture
  BY DEF CallOK, Grows
<1>3. c.kind = "create" =>
         /\ c.row \in Row /\ c.row.draft <= d2 /\ RowOK(hz, fs2, c.row)
         /\ c.at = "answered" => IsListed(rows2, c.row.draft)
  <2> SUFFICES ASSUME c.kind = "create"
               PROVE  /\ c.row \in Row /\ c.row.draft <= d2 /\ RowOK(hz, fs2, c.row)
                      /\ c.at = "answered" => IsListed(rows2, c.row.draft)
    OBVIOUS
  <2>1. c.row \in Row /\ c.row.draft <= d /\ RowOK(hz, fs, c.row)
    BY DEF CallOK
  <2>2. c.row.draft \in Nat
    BY <2>1, SellerAppAssumption DEF Row
  <2>3. c.at = "answered" => IsListed(rows, c.row.draft)
    BY DEF CallOK
  <2> QED
    BY <2>1, <2>2, <2>3, RowKept, ListedKept
<1> QED
  BY <1>1, <1>2, <1>3 DEF CallOK

\* An empty slot means nothing.
LEMMA NoCallOK == ASSUME NEW hz, NEW fs, NEW rows, NEW d PROVE CallOK(hz, fs, rows, d, NoCall)
BY NoCallIsCall DEF CallOK

\* Nor does a call of which nothing has come back mean anything but what was sent.
LEMMA SentOK ==
    ASSUME NEW hz, NEW fs, NEW rows, NEW d, NEW kind \in {"catalog", "list"}
    PROVE  CallOK(hz, fs, rows, d, Send(kind))
BY SendIsCall DEF CallOK

\* Sending takes an empty slot.
LEMMA WithTakesOne ==
    ASSUME NEW cs, NEW c, NEW cs2 \in With(cs, c)
    PROVE  \E y \in Slots : cs[y] = NoCall /\ cs2 = [cs EXCEPT ![y] = c]
BY DEF With

-----------------------------------------------------------------------------
(* Serving a call *)

\* The answer to a call: none if the phone has given up.
LEMMA SellerAnswers ==
    ASSUME SellerTypeOK, NEW x \in Slots, NEW c \in Call,
           c.owner = calls[x].owner, c.kind = calls[x].kind,
           c.row = calls[x].row, c.picture = calls[x].picture,
           NEW at \in {"answered", "refused"},
           calls' = [calls EXCEPT ![x] = IF c.owner = "none" THEN NoCall ELSE [c EXCEPT !.at = at]]
    PROVE  /\ \A z \in Slots : z # x => calls'[z] = calls[z]
           /\ calls' \in [Slots -> Call]
           /\ calls[x].owner = "none" => calls'[x] = NoCall
           /\ calls[x].owner # "none" =>
                 /\ calls'[x] = [c EXCEPT !.at = at]
                 /\ calls'[x].at = at /\ calls'[x].owner = calls[x].owner
                 /\ calls'[x].kind = calls[x].kind /\ calls'[x].row = calls[x].row
                 /\ calls'[x].picture = calls[x].picture
                 /\ calls'[x].photo = c.photo /\ calls'[x].found = c.found
<1>1. [c EXCEPT !.at = at] \in Call
  BY DEF Call
<1>2. calls \in [Slots -> Call]
  BY DEF SellerTypeOK
<1> QED
  BY <1>1, <1>2, NoCallIsCall DEF Call

\* What serving a call does to the rows and to the call.
Serving(x) ==
    /\ calls[x].at = "sent"
    /\ UNCHANGED <<hazards, stack, form, shown, draft, confirmed>>
    /\ Grows(files, files') /\ Grows(listed, listed')
    /\ files' \in Seq(Pictures) /\ Len(files') <= MaxFiles
    /\ \/ listed' = listed
       \/ /\ calls[x].kind = "create" /\ listed' = Append(listed, calls[x].row)
          /\ calls'[x].at = "answered" \/ calls'[x] = NoCall
    /\ calls' \in [Slots -> Call]
    /\ \A z \in Slots : z # x => calls'[z] = calls[z]
    /\ calls[x].owner = "none" => calls'[x] = NoCall
    /\ calls[x].owner # "none" =>
          /\ calls'[x].at \in {"answered", "refused"} /\ calls'[x].owner = calls[x].owner
          /\ calls'[x].kind = calls[x].kind /\ calls'[x].row = calls[x].row
          /\ calls'[x].picture = calls[x].picture
          /\ calls[x].kind = "list" => calls'[x].found = DOMAIN listed
          /\ calls[x].kind = "create" /\ listed' = listed => calls'[x].at = "refused"
    /\ CallOK(hazards, files', listed', draft, calls'[x])

\* Storing a file, or refusing it.
LEMMA UploadServes ==
    ASSUME SellerTypeOK, CallsInv, NEW x \in Slots, Serve(x), UNCHANGED hazards,
           calls[x].kind = "upload", Upload(x, calls[x])
    PROVE  Serving(x)
<1>0. /\ calls[x].at = "sent" /\ UNCHANGED <<hazards, stack, form, shown, draft, confirmed>>
      /\ files \in Seq(Pictures) /\ Len(files) \in Nat /\ Len(files) <= MaxFiles
      /\ MaxFiles \in Nat /\ calls[x] \in Call /\ calls[x].picture \in Pictures
      /\ Grows(listed, listed) /\ Grows(files, files)
  BY SellerFields, SellerAppAssumption DEF Serve, SellerTypeOK, CallsInv, CallOK, Grows
<1>1. CASE Len(files) < MaxFiles /\ files' = Append(files, calls[x].picture)
           /\ Answer(x, [calls[x] EXCEPT !.photo = {Len(files) + 1}]) /\ UNCHANGED listed
  <2> DEFINE c == [calls[x] EXCEPT !.photo = {Len(files) + 1}]
  <2>1. /\ c \in Call /\ c.photo = {Len(files) + 1} /\ c.owner = calls[x].owner
        /\ c.kind = calls[x].kind /\ c.row = calls[x].row /\ c.picture = calls[x].picture
    BY <1>0, <1>1 DEF Call, Paths
  <2>2. calls' = [calls EXCEPT ![x] = IF c.owner = "none" THEN NoCall ELSE [c EXCEPT !.at = "answered"]]
    BY <1>1 DEF Answer
  <2> HIDE DEF c
  <2>3. /\ \A z \in Slots : z # x => calls'[z] = calls[z]
        /\ calls' \in [Slots -> Call]
        /\ calls[x].owner = "none" => calls'[x] = NoCall
        /\ calls[x].owner # "none" =>
              /\ calls'[x].at = "answered" /\ calls'[x].owner = calls[x].owner
              /\ calls'[x].kind = calls[x].kind /\ calls'[x].row = calls[x].row
              /\ calls'[x].picture = calls[x].picture
              /\ calls'[x].photo = c.photo
    BY <2>1, <2>2, SellerAnswers
  <2>4. /\ files' \in Seq(Pictures) /\ Len(files') = Len(files) + 1 /\ Grows(files, files')
        /\ Len(files) + 1 \in DOMAIN files' /\ files'[Len(files) + 1] = calls[x].picture
    BY <1>0, <1>1, AppendGrows
  <2>5. CallOK(hazards, files', listed', draft, calls'[x])
    <3>1. CASE calls[x].owner = "none"
      BY <3>1, <2>3, NoCallOK
    <3>2. CASE calls[x].owner # "none"
      BY <3>2, <2>1, <2>3, <2>4, <1>0 DEF CallOK
    <3> QED
      BY <3>1, <3>2
  <2> QED
    BY <1>0, <1>1, <2>3, <2>4, <2>5 DEF Serving
<1>2. CASE Refuse(x, calls[x]) /\ UNCHANGED <<files, listed>>
  <2>2. calls' = [calls EXCEPT ![x] = IF calls[x].owner = "none" THEN NoCall
                                      ELSE [calls[x] EXCEPT !.at = "refused"]]
    BY <1>2 DEF Refuse
  <2>3. /\ \A z \in Slots : z # x => calls'[z] = calls[z]
        /\ calls' \in [Slots -> Call]
        /\ calls[x].owner = "none" => calls'[x] = NoCall
        /\ calls[x].owner # "none" =>
              /\ calls'[x].at = "refused" /\ calls'[x].owner = calls[x].owner
              /\ calls'[x].kind = calls[x].kind /\ calls'[x].row = calls[x].row
              /\ calls'[x].picture = calls[x].picture
    BY <1>0, <2>2, SellerAnswers
  <2>5. CallOK(hazards, files', listed', draft, calls'[x])
    <3>1. CASE calls[x].owner = "none"
      BY <3>1, <2>3, NoCallOK
    <3>2. CASE calls[x].owner # "none"
      BY <3>2, <2>3, <1>0, <1>2 DEF CallOK
    <3> QED
      BY <3>1, <3>2
  <2> QED
    BY <1>0, <1>2, <2>3, <2>5 DEF Serving
<1> QED
  BY <1>1, <1>2 DEF Upload

\* Inserting a listing, or refusing it.
LEMMA CreateServes ==
    ASSUME SellerTypeOK, CallsInv, NEW x \in Slots, Serve(x), UNCHANGED hazards,
           calls[x].kind = "create", CreateListing(x, calls[x])
    PROVE  Serving(x)
<1>0. /\ calls[x].at = "sent" /\ UNCHANGED <<hazards, stack, form, shown, draft, confirmed, files>>
      /\ files \in Seq(Pictures) /\ Len(files) <= MaxFiles /\ calls[x] \in Call
      /\ listed \in Seq(Row) /\ calls[x].row \in Row
      /\ Grows(listed, listed) /\ Grows(files, files) /\ draft \in Nat
      /\ CallOK(hazards, files, listed, draft, calls[x])
  BY SellerFields DEF Serve, CreateListing, SellerTypeOK, CallsInv, CallOK, Grows
<1>1. CASE listed' = Append(listed, calls[x].row) /\ Answer(x, calls[x])
  <2>2. calls' = [calls EXCEPT ![x] = IF calls[x].owner = "none" THEN NoCall
                                      ELSE [calls[x] EXCEPT !.at = "answered"]]
    BY <1>1 DEF Answer
  <2>3. /\ \A z \in Slots : z # x => calls'[z] = calls[z]
        /\ calls' \in [Slots -> Call]
        /\ calls[x].owner = "none" => calls'[x] = NoCall
        /\ calls[x].owner # "none" =>
              /\ calls'[x].at = "answered" /\ calls'[x].owner = calls[x].owner
              /\ calls'[x].kind = calls[x].kind /\ calls'[x].row = calls[x].row
              /\ calls'[x].picture = calls[x].picture /\ calls'[x].photo = calls[x].photo
    BY <1>0, <2>2, SellerAnswers
  <2>4. /\ Grows(listed, listed') /\ IsListed(listed', calls[x].row.draft) /\ listed' # listed
    <3>1. /\ Grows(listed, listed') /\ DOMAIN listed' = DOMAIN listed \cup {Len(listed) + 1}
          /\ listed'[Len(listed) + 1] = calls[x].row /\ Len(listed') = Len(listed) + 1
          /\ Len(listed) \in Nat
      BY <1>0, <1>1, AppendGrows
    <3> QED
      BY <3>1 DEF IsListed
  <2>5. CallOK(hazards, files', listed', draft, calls'[x])
    <3>1. CASE calls[x].owner = "none"
      BY <3>1, <2>3, NoCallOK
    <3>2. CASE calls[x].owner # "none"
      BY <3>2, <2>3, <2>4, <1>0, <1>1 DEF CallOK
    <3> QED
      BY <3>1, <3>2
  <2> QED
    BY <1>0, <1>1, <2>3, <2>4, <2>5 DEF Serving
<1>2. CASE Refuse(x, calls[x]) /\ UNCHANGED listed
  <2>2. calls' = [calls EXCEPT ![x] = IF calls[x].owner = "none" THEN NoCall
                                      ELSE [calls[x] EXCEPT !.at = "refused"]]
    BY <1>2 DEF Refuse
  <2>3. /\ \A z \in Slots : z # x => calls'[z] = calls[z]
        /\ calls' \in [Slots -> Call]
        /\ calls[x].owner = "none" => calls'[x] = NoCall
        /\ calls[x].owner # "none" =>
              /\ calls'[x].at = "refused" /\ calls'[x].owner = calls[x].owner
              /\ calls'[x].kind = calls[x].kind /\ calls'[x].row = calls[x].row
              /\ calls'[x].picture = calls[x].picture /\ calls'[x].photo = calls[x].photo
    BY <1>0, <2>2, SellerAnswers
  <2>5. CallOK(hazards, files', listed', draft, calls'[x])
    <3>1. CASE calls[x].owner = "none"
      BY <3>1, <2>3, NoCallOK
    <3>2. CASE calls[x].owner # "none"
      BY <3>2, <2>3, <1>0, <1>2 DEF CallOK
    <3> QED
      BY <3>1, <3>2
  <2> QED
    BY <1>0, <1>2, <2>3, <2>5 DEF Serving
<1> QED
  BY <1>1, <1>2 DEF CreateListing

\* Reading the catalogue, or the seller's listings.
LEMMA ReadServes ==
    ASSUME SellerTypeOK, CallsInv, NEW x \in Slots, Serve(x), UNCHANGED hazards,
           \/ calls[x].kind = "catalog" /\ Catalog(x, calls[x])
           \/ calls[x].kind = "list" /\ MyListings(x, calls[x])
    PROVE  Serving(x)
<1>0. /\ calls[x].at = "sent" /\ UNCHANGED <<hazards, stack, form, shown, draft, confirmed>>
      /\ files \in Seq(Pictures) /\ Len(files) <= MaxFiles /\ calls[x] \in Call
      /\ Grows(listed, listed) /\ Grows(files, files) /\ DOMAIN listed \subseteq 1 .. MaxListings
      /\ calls[x].photo = {} /\ calls[x].picture = NoPicture
  BY SellerFields DEF Serve, SellerTypeOK, CallsInv, CallOK, Grows
<1> DEFINE rows == IF calls[x].kind = "catalog" THEN Produce ELSE DOMAIN listed
           c == [calls[x] EXCEPT !.found = rows]
<1>1. UNCHANGED <<files, listed>> /\ Answer(x, c)
  BY DEF Catalog, MyListings
<1>2. /\ c \in Call /\ c.found = rows /\ c.owner = calls[x].owner /\ c.photo = calls[x].photo
      /\ c.kind = calls[x].kind /\ c.row = calls[x].row /\ c.picture = calls[x].picture
  BY <1>0 DEF Call
<1>3. calls' = [calls EXCEPT ![x] = IF c.owner = "none" THEN NoCall ELSE [c EXCEPT !.at = "answered"]]
  BY <1>1 DEF Answer
<1> HIDE DEF c
<1>4. /\ \A z \in Slots : z # x => calls'[z] = calls[z]
      /\ calls' \in [Slots -> Call]
      /\ calls[x].owner = "none" => calls'[x] = NoCall
      /\ calls[x].owner # "none" =>
            /\ calls'[x].at = "answered" /\ calls'[x].owner = calls[x].owner
            /\ calls'[x].kind = calls[x].kind /\ calls'[x].row = calls[x].row
            /\ calls'[x].picture = calls[x].picture /\ calls'[x].photo = calls[x].photo
            /\ calls'[x].found = rows
  BY <1>2, <1>3, SellerAnswers
<1>5. CallOK(hazards, files', listed', draft, calls'[x])
  <2>1. CASE calls[x].owner = "none"
    BY <2>1, <1>4, NoCallOK
  <2>2. CASE calls[x].owner # "none"
    BY <2>2, <1>4, <1>0, <1>1 DEF CallOK
  <2> QED
    BY <2>1, <2>2
<1> QED
  BY <1>0, <1>1, <1>4, <1>5 DEF Serving

\* Whatever the API serves, rows only come to be, and the call keeps what it is.
LEMMA ServeServes ==
    ASSUME SellerTypeOK, CallsInv, NEW x \in Slots, Serve(x), UNCHANGED hazards
    PROVE  Serving(x)
BY UploadServes, CreateServes, ReadServes DEF Serve

-----------------------------------------------------------------------------
(* The end of a call *)

\* What the phone does when a call ends, but for the answer of createListing.
Ending(x) ==
    /\ calls[x].owner # "none"
    /\ UNCHANGED <<hazards, files, listed, stack, draft, confirmed>>
    /\ calls' \in [Slots -> Call]
    /\ \A z \in Slots : z # x => calls'[z] = calls[z]
    /\ \/ calls'[x] = NoCall
       \/ "lost" \in hazards /\ calls[x].at = "sent" /\ calls'[x] = [calls[x] EXCEPT !.owner = "none"]
    /\ calls[x].kind = "create" /\ "lost" \notin hazards => calls[x].at = "refused"
    /\ calls[x].owner # "screen" => UNCHANGED <<form, shown>>
    /\ form' \in Form /\ form'.sel = form.sel
    /\ form'.cats = form.cats \/ (calls[x].kind = "catalog" /\ form'.cats = Produce)
    /\ calls[x].kind # "upload" =>
          form'.photos = form.photos /\ form'.picked = form.picked /\ form'.uploading = form.uploading
    /\ calls[x].kind = "upload" /\ calls[x].owner = "screen" =>
          \/ form'.photos = form.photos /\ form'.picked = form.picked \ {calls[x].picture}
          \/ /\ form'.picked = form.picked
             /\ \E k \in DOMAIN files : files[k] = calls[x].picture /\ form'.photos = form.photos \cup {k}
    /\ calls[x].kind # "create" => form'.busy = form.busy
    /\ calls[x].kind # "list" => shown' = shown
    /\ shown' = shown \/ shown' \subseteq DOMAIN listed
    /\ calls[x].kind = "list" /\ calls[x].owner = "screen" /\ "lost" \notin hazards =>
          calls[x].at = "answered" /\ shown' = calls[x].found

\* A form without a picture stays so when a spinner stops.
LEMMA StoppedForm ==
    ASSUME NEW c \in Call, NEW f \in Form
    PROVE  /\ Stopped(c, f) \in Form
           /\ Stopped(c, f).sel = f.sel /\ Stopped(c, f).cats = f.cats
           /\ Stopped(c, f).photos = f.photos /\ Stopped(c, f).picked = f.picked
           /\ c.kind # "upload" => Stopped(c, f).uploading = f.uploading
           /\ c.kind # "create" => Stopped(c, f).busy = f.busy
<1>1. CASE c.kind = "upload"
  BY <1>1 DEF Stopped, Form
<1>2. CASE c.kind = "create"
  BY <1>2 DEF Stopped, Form
<1>3. CASE c.kind \notin {"upload", "create"}
  BY <1>3 DEF Stopped, Form
<1> QED
  BY <1>1, <1>2, <1>3

\* A refusal, or an answer that is lost.
LEMMA CatchEnds ==
    ASSUME SellerTypeOK, CallsInv, NEW x \in Slots, ReceiveRefusal(x) \/ Lose(x), UNCHANGED hazards
    PROVE  Ending(x)
<1> DEFINE c == calls[x]
           f == [form EXCEPT !.picked = @ \ {c.picture}]
<1>1. /\ c \in Call /\ calls \in [Slots -> Call] /\ form \in Form /\ CallOK(hazards, files, listed, draft, c)
      /\ c.owner # "none" /\ Catch(c)
  BY SellerFields DEF SellerTypeOK, CallsInv, ReceiveRefusal, Lose
<1>2. UNCHANGED <<hazards, files, listed, stack, draft, confirmed>>
  BY <1>1 DEF Catch
<1>3. /\ f \in Form /\ f.sel = form.sel /\ f.cats = form.cats /\ f.photos = form.photos
      /\ f.uploading = form.uploading /\ f.busy = form.busy /\ f.picked = form.picked \ {c.picture}
  BY <1>1 DEF Form
<1>4. IF c.owner = "screen"
      THEN form' = Stopped(c, f) /\ shown' = IF c.kind = "list" THEN {} ELSE shown
      ELSE UNCHANGED <<form, shown>>
  BY <1>1 DEF Catch
<1>5. c.kind # "upload" => f.picked = form.picked
  BY <1>1, <1>3, SellerAppAssumption DEF CallOK, Form
<1> HIDE DEF f
<1>6. /\ calls' \in [Slots -> Call]
      /\ \A z \in Slots : z # x => calls'[z] = calls[z]
      /\ \/ calls'[x] = NoCall
         \/ "lost" \in hazards /\ c.at = "sent" /\ calls'[x] = [c EXCEPT !.owner = "none"]
  <2>1. CASE calls' = [calls EXCEPT ![x] = NoCall]
    BY <2>1, <1>1, NoCallIsCall
  <2>2. CASE "lost" \in hazards /\ c.at = "sent" /\ calls' = [calls EXCEPT ![x].owner = "none"]
    <3>1. [c EXCEPT !.owner = "none"] \in Call
      BY <1>1 DEF Call
    <3> QED
      BY <2>2, <3>1, <1>1
  <2> QED
    BY <2>1, <2>2 DEF ReceiveRefusal, Lose
<1>7. /\ c.kind = "create" /\ "lost" \notin hazards => c.at = "refused"
      /\ c.kind = "list" => "lost" \in hazards
  BY <1>1, NoCallIsCall DEF ReceiveRefusal, Lose, CallOK
<1>8. CASE c.owner # "screen"
  BY <1>1, <1>2, <1>4, <1>6, <1>7, <1>8 DEF Ending
<1>9. CASE c.owner = "screen"
  <2>1. /\ form' \in Form /\ form'.sel = form.sel /\ form'.cats = form.cats
        /\ form'.photos = form.photos /\ form'.picked = form.picked \ {c.picture}
        /\ c.kind # "upload" => form'.picked = form.picked /\ form'.uploading = form.uploading
        /\ c.kind # "create" => form'.busy = form.busy
    <3>1. c \in Call /\ f \in Form /\ form' = Stopped(c, f)
      BY <1>1, <1>3, <1>4, <1>9
    <3> HIDE DEF c
    <3>2. /\ form' \in Form
          /\ form'.sel = f.sel /\ form'.cats = f.cats
          /\ form'.photos = f.photos /\ form'.picked = f.picked
          /\ c.kind # "upload" => form'.uploading = f.uploading
          /\ c.kind # "create" => form'.busy = f.busy
      BY <3>1, StoppedForm
    <3> QED
      BY <3>2, <1>3, <1>5
  <2>2. /\ c.kind # "list" => shown' = shown
        /\ shown' = shown \/ shown' \subseteq DOMAIN listed
    BY <1>4, <1>9
  <2> QED
    BY <1>1, <1>2, <1>6, <1>7, <1>9, <2>1, <2>2 DEF Ending
<1> QED
  BY <1>8, <1>9

\* An answer that moves nobody to another screen.
LEMMA ResumeEnds ==
    ASSUME SellerTypeOK, CallsInv, NEW x \in Slots, Resume(x), calls[x].kind # "create",
           UNCHANGED hazards
    PROVE  Ending(x)
<1> DEFINE c == calls[x]
           f == [form EXCEPT !.cats = IF c.kind = "catalog" THEN c.found ELSE @,
                             !.photos = @ \cup c.photo]
<1>1. /\ c \in Call /\ calls \in [Slots -> Call] /\ form \in Form /\ CallOK(hazards, files, listed, draft, c)
      /\ c.at = "answered" /\ DOMAIN files \subseteq Paths
  BY SellerFields DEF SellerTypeOK, CallsInv, Resume
<1>2. c.owner # "none"
  BY <1>1, NoCallIsCall DEF CallOK
<1>3. /\ calls' = [calls EXCEPT ![x] = NoCall]
      /\ UNCHANGED <<hazards, files, listed, stack, draft, confirmed>>
      /\ form' = IF c.owner = "screen" THEN Stopped(c, f) ELSE form
      /\ shown' = IF c.kind = "list" /\ c.owner = "screen" THEN c.found ELSE shown
  BY DEF Resume
<1>4. /\ calls' \in [Slots -> Call] /\ calls'[x] = NoCall
      /\ \A z \in Slots : z # x => calls'[z] = calls[z]
  BY <1>1, <1>3, NoCallIsCall
<1>5. c.kind = "list" => c.found \subseteq DOMAIN listed
  BY <1>1 DEF CallOK
<1>6. CASE c.owner # "screen"
  BY <1>1, <1>2, <1>3, <1>4, <1>6 DEF Ending
<1>7. CASE c.owner = "screen"
  <2>1. c.kind = "catalog" => c.found = Produce
    BY <1>1 DEF CallOK
  <2>2. c.kind # "upload" => c.photo = {}
    BY <1>1 DEF CallOK
  <2>3. c.kind = "upload" => \E k \in DOMAIN files : files[k] = c.picture /\ c.photo = {k}
    BY <1>1 DEF CallOK
  <2>4. /\ f \in Form /\ f.sel = form.sel /\ f.photos = form.photos \cup c.photo
        /\ f.cats = form.cats \/ (c.kind = "catalog" /\ f.cats = Produce)
        /\ f.uploading = form.uploading /\ f.busy = form.busy /\ f.picked = form.picked
    <3>1. c.photo \subseteq Paths
      BY <1>1 DEF Call
    <3> QED
      BY <1>1, <2>1, <3>1 DEF Form
  <2> HIDE DEF f
  <2>5. /\ form' \in Form /\ form'.sel = form.sel /\ form'.photos = form.photos \cup c.photo
        /\ form'.cats = form.cats \/ (c.kind = "catalog" /\ form'.cats = Produce)
        /\ form'.picked = form.picked
        /\ c.kind # "upload" => form'.uploading = form.uploading
        /\ c.kind # "create" => form'.busy = form.busy
    BY <1>1, <1>3, <1>7, <2>4, StoppedForm
  <2> QED
    BY <1>1, <1>2, <1>3, <1>4, <1>5, <1>7, <2>2, <2>3, <2>5 DEF Ending
<1> QED
  BY <1>6, <1>7

-----------------------------------------------------------------------------
(* Going to another screen, and sending *)

LeftBehind(c) == IF c.owner = "screen" THEN [c EXCEPT !.owner = "left"] ELSE c

Asks(screen) == IF screen = "new" THEN "catalog" ELSE "list"

\* The screen st is mounted, with the calls cs, while the one before is left.
Moving(cs, st) ==
    /\ stack' = st /\ form' = Blank /\ shown' = {}
    /\ calls' \in [Slots -> Call]
    /\ \/ Top(st) = "home" /\ \A z \in Slots : calls'[z] = LeftBehind(cs[z])
       \/ /\ Top(st) \in {"new", "listings"}
          /\ \E y \in Slots :
                /\ cs[y] = NoCall /\ calls'[y] = Send(Asks(Top(st)))
                /\ \A z \in Slots : z # y => calls'[z] = LeftBehind(cs[z])

\* A call that is left is a call, and nothing but its owner changes.
LEMMA LeftIsCall ==
    ASSUME NEW c \in Call
    PROVE  /\ LeftBehind(c) \in Call /\ LeftBehind(c).owner # "screen"
           /\ LeftBehind(c).kind = c.kind /\ LeftBehind(c).at = c.at /\ LeftBehind(c).row = c.row
           /\ LeftBehind(c).picture = c.picture /\ LeftBehind(c).photo = c.photo
           /\ LeftBehind(c).found = c.found
           /\ c.owner # "screen" => LeftBehind(c) = c
           /\ LeftBehind(c).owner = "none" <=> c.owner = "none"
           /\ LeftBehind(c) = NoCall <=> c = NoCall
<1>1. CASE c.owner = "screen"
  <2>1. LeftBehind(c) = [c EXCEPT !.owner = "left"]
    BY <1>1 DEF LeftBehind
  <2> HIDE DEF LeftBehind
  <2>2. /\ LeftBehind(c) \in Call /\ LeftBehind(c).owner = "left"
        /\ LeftBehind(c).kind = c.kind /\ LeftBehind(c).at = c.at /\ LeftBehind(c).row = c.row
        /\ LeftBehind(c).picture = c.picture /\ LeftBehind(c).photo = c.photo
        /\ LeftBehind(c).found = c.found
    BY <2>1 DEF Call
  <2> QED
    BY <1>1, <2>2, NoCallIsCall
<1>2. CASE c.owner # "screen"
  BY <1>2 DEF LeftBehind
<1> QED
  BY <1>1, <1>2

\* What it means does not change either.
LEMMA LeftOK ==
    ASSUME NEW hz, NEW fs, NEW rows, NEW d, NEW c \in Call, CallOK(hz, fs, rows, d, c)
    PROVE  CallOK(hz, fs, rows, d, LeftBehind(c))
BY LeftIsCall DEF CallOK

\* A step to another screen is such a move.
LEMMA GoToMoves ==
    ASSUME SellerTypeOK, NEW cs \in [Slots -> Call], NEW st, GoTo(cs, st), Top(st) # Top(stack),
           Top(st) \in {"home", "new", "listings"}
    PROVE  Moving(cs, st)
<1> DEFINE left == [z \in Slots |-> IF cs[z].owner # "screen" THEN cs[z]
                                    ELSE [cs[z] EXCEPT !.owner = "left"]]
           asks == [new |-> "catalog", listings |-> "list"]
<1>1. /\ stack' = st /\ form' = Blank /\ shown' = {}
      /\ IF Top(st) = "home" THEN calls' = left
         ELSE calls' \in With(left, Send(asks[Top(st)]))
  BY DEF GoTo
<1>2. /\ left \in [Slots -> Call]
      /\ \A z \in Slots : left[z] = LeftBehind(cs[z]) /\ (left[z] = NoCall <=> cs[z] = NoCall)
  <2>1. \A z \in Slots : left[z] = LeftBehind(cs[z])
    BY DEF LeftBehind
  <2>2. \A z \in Slots : LeftBehind(cs[z]) \in Call /\ (LeftBehind(cs[z]) = NoCall <=> cs[z] = NoCall)
    BY LeftIsCall
  <2> QED
    BY <2>1, <2>2
<1>3. Top(st) # "home" => asks[Top(st)] = Asks(Top(st))
  BY DEF Asks
<1> HIDE DEF left, asks
<1>4. CASE Top(st) = "home"
  BY <1>1, <1>2, <1>4 DEF Moving
<1>5. CASE Top(st) # "home"
  <2>1. PICK y \in Slots : left[y] = NoCall /\ calls' = [left EXCEPT ![y] = Send(Asks(Top(st)))]
    BY <1>1, <1>3, <1>5, WithTakesOne
  <2>2. Send(Asks(Top(st))) \in Call
    BY SendIsCall DEF Asks
  <2> QED
    BY <1>1, <1>2, <1>5, <2>1, <2>2 DEF Moving
<1> QED
  BY <1>4, <1>5

\* Sequences of one and of two screens.
LEMMA OneScreen == ASSUME NEW S, NEW s \in Seq(S), NEW a, Len(s) = 1, s[1] = a PROVE s = <<a>>
<1>1. <<a>> \in Seq({a} \cup S) /\ Len(<<a>>) = 1 /\ <<a>>[1] = a /\ s \in Seq({a} \cup S)
  OBVIOUS
<1>2. \A i \in 1 .. Len(s) : s[i] = <<a>>[i]
  BY <1>1
<1> QED
  BY <1>1, <1>2, SeqEqual

\* A sequence of length two is the pair of its elements: a stack two screens deep.
LEMMA TwoScreens ==
    ASSUME NEW S, NEW s \in Seq(S), NEW a, NEW b, Len(s) = 2, s[1] = a, s[2] = b
    PROVE  s = <<a, b>>
<1>1. /\ <<a, b>> \in Seq({a, b} \cup S) /\ Len(<<a, b>>) = 2 /\ s \in Seq({a, b} \cup S)
      /\ <<a, b>>[1] = a /\ <<a, b>>[2] = b
  OBVIOUS
<1>2. \A i \in 1 .. Len(s) : s[i] = <<a, b>>[i]
  BY <1>1
<1> QED
  BY <1>1, <1>2, SeqEqual

\* An append to none and to one.
LEMMA ScreensAppended == \A a, b : Append(<<>>, a) = <<a>> /\ Append(<<a>>, b) = <<a, b>>
<1> TAKE a, b
<1>1. Append(<<>>, a) \in Seq({a}) /\ Len(Append(<<>>, a)) = 1 /\ Append(<<>>, a)[1] = a
  OBVIOUS
<1>2. <<a>> \in Seq({a, b}) /\ Len(<<a>>) = 1 /\ <<a>>[1] = a
  OBVIOUS
<1>3. /\ Append(<<a>>, b) \in Seq({a, b}) /\ Len(Append(<<a>>, b)) = 2
      /\ Append(<<a>>, b)[1] = a /\ Append(<<a>>, b)[2] = b
  BY <1>2, AppendProperties
<1>4. Append(<<>>, a) = <<a>>
  BY <1>1, OneScreen
<1>5. Append(<<a>>, b) = <<a, b>>
  <2> DEFINE s == Append(<<a>>, b)
  <2>1. s \in Seq({a, b}) /\ Len(s) = 2 /\ s[1] = a /\ s[2] = b
    BY <1>3
  <2> HIDE DEF s
  <2>2. s = <<a, b>>
    BY <2>1, TwoScreens
  <2> QED
    BY <2>2 DEF s
<1> QED
  BY <1>4, <1>5

\* Of two screens the back button leaves the first.
LEMMA PairPopped == \A name : SubSeq(<<"home", name>>, 1, Len(<<"home", name>>) - 1) = <<"home">>
<1> TAKE name
<1> DEFINE s == <<"home", name>>
           t == SubSeq(s, 1, 1)
<1>1. s \in Seq({"home", name}) /\ Len(s) = 2 /\ s[1] = "home" /\ \A i \in 1 .. 1 : s[i] \in {"home"}
  OBVIOUS
<1> HIDE DEF s
<1>2. /\ t \in Seq({"home"}) /\ Len(t) = IF 1 <= 1 THEN 1 - 1 + 1 ELSE 0
      /\ \A i \in 1 .. 1 - 1 + 1 : t[i] = s[1 + i - 1]
  BY <1>1, SubSeqProperties
<1> HIDE DEF t
<1>3. Len(t) = 1 /\ t[1] = "home"
  BY <1>1, <1>2
<1>4. t = <<"home">>
  BY <1>2, <1>3, OneScreen
<1>5. Len(s) - 1 = 1
  BY <1>1
<1> QED
  BY <1>4, <1>5 DEF s, t

\* The stacks of screens: what is on top, and below it.
LEMMA StackForms ==
    ASSUME NEW st \in Stacks
    PROVE  /\ Top(st) \in {"home", "new", "listings"}
           /\ Len(st) \in 1 .. 2
           /\ \A i \in 1 .. Len(st) : st[i] \in {"home", "new", "listings"}
           /\ st[1] = "home" \/ st = <<"listings">>
           /\ st = <<"home">> => Top(st) = "home"
           /\ Len(st) > 1 => SubSeq(st, 1, Len(st) - 1) = <<"home">> /\ Top(st) # "home"
           /\ Len(st) = 1 => SubSeq(st, 1, Len(st) - 1) = <<>>
           /\ Top(st) = "new" => Len(st) > 1
           /\ Len(st) = 1 \/ Len(st) > 1
<1>1. CASE st = <<"home">>
  BY <1>1 DEF Top
<1>2. CASE st = <<"listings">>
  BY <1>2 DEF Top
<1>3. CASE st = <<"home", "new">>
  BY <1>3, PairPopped DEF Top
<1>4. CASE st = <<"home", "listings">>
  BY <1>4, PairPopped DEF Top
<1> QED
  BY <1>1, <1>2, <1>3, <1>4 DEF Stacks

\* What is on top of the stacks a step makes.
LEMMA NewStacks ==
    /\ Top(<<"home">>) = "home" /\ <<"home">> \in Stacks
    /\ Top(<<"listings">>) = "listings" /\ <<"listings">> \in Stacks
    /\ \A name \in {"new", "listings"} : 
          /\ Top(<<"home", name>>) = name /\ <<"home", name>>[1] = "home"
          /\ <<"home", name>> \in Stacks
BY DEF Stacks, Top

\* Opening a screen from the home.
LEMMA OpenMoves ==
    ASSUME SellerTypeOK, stack \in Stacks, NEW name \in {"new", "listings"}, Open(name)
    PROVE  /\ Moving(calls, <<"home", name>>) /\ Top(stack) = "home"
           /\ "impatient" \notin hazards => Quiet
           /\ draft' = IF name = "new" THEN draft + 1 ELSE draft
           /\ name = "new" => draft < MaxDrafts
           /\ UNCHANGED <<files, listed, confirmed>>
<1>1. calls \in [Slots -> Call] /\ stack = <<"home">> /\ GoTo(calls, <<"home", name>>)
  BY DEF SellerTypeOK, Open
<1>2. Top(stack) = "home" /\ Top(<<"home", name>>) = name
  BY <1>1, NewStacks
<1>3. Moving(calls, <<"home", name>>)
  BY <1>1, <1>2, GoToMoves
<1> QED
  BY <1>2, <1>3 DEF Open, Ready

\* The back button.
LEMMA GoBackMoves ==
    ASSUME SellerTypeOK, stack \in Stacks, GoBack
    PROVE  /\ Moving(calls, <<"home">>) /\ Top(stack) # "home"
           /\ "impatient" \notin hazards => Quiet
           /\ UNCHANGED <<files, listed, draft, confirmed>>
<1>1. calls \in [Slots -> Call] /\ Len(stack) > 1 /\ GoTo(calls, SubSeq(stack, 1, Len(stack) - 1))
  BY DEF SellerTypeOK, GoBack
<1>2. SubSeq(stack, 1, Len(stack) - 1) = <<"home">> /\ Top(stack) # "home"
  BY <1>1, StackForms
<1>3. Moving(calls, <<"home">>)
  BY <1>1, <1>2, NewStacks, GoToMoves
<1> QED
  BY <1>2, <1>3 DEF GoBack, Ready

\* The answer of createListing: "Listed!", and on to the list.
Listing(x, cs, st) ==
    /\ calls[x].at = "answered" /\ calls[x].kind = "create" /\ calls[x].owner # "none"
    /\ UNCHANGED <<files, listed, draft>>
    /\ confirmed' = confirmed \cup {calls[x].row.draft}
    /\ cs \in [Slots -> Call] /\ cs[x] = NoCall /\ \A z \in Slots : z # x => cs[z] = calls[z]
    /\ st \in Stacks /\ Top(st) = "listings" /\ (Top(stack) = "new" => st[1] = "home")
    /\ stack' = st
    /\ IF Top(stack) = "listings" THEN calls' = cs /\ UNCHANGED <<form, shown>>
       ELSE Moving(cs, st)

\* The answer of createListing is such a step.
LEMMA ResumeLists ==
    ASSUME SellerTypeOK, CallsInv, stack \in Stacks, NEW x \in Slots, Resume(x),
           calls[x].kind = "create"
    PROVE  \E cs, st : Listing(x, cs, st)
<1> DEFINE cs == [calls EXCEPT ![x] = NoCall]
           st == Append(SubSeq(stack, 1, Len(stack) - 1), "listings")
<1>1. /\ calls[x].at = "answered" /\ calls[x].kind = "create" /\ calls[x].owner # "none"
      /\ UNCHANGED <<files, listed, draft>>
      /\ confirmed' = confirmed \cup {calls[x].row.draft}
      /\ GoTo(cs, st)
  BY NoCallIsCall DEF Resume, Replace, CallsInv, CallOK
<1>2. cs \in [Slots -> Call] /\ cs[x] = NoCall /\ \A z \in Slots : z # x => cs[z] = calls[z]
  BY NoCallIsCall DEF SellerTypeOK
<1>3. st \in Stacks /\ Top(st) = "listings" /\ (Top(stack) = "new" => st[1] = "home")
  <2>1. CASE Len(stack) = 1
    <3>1. SubSeq(stack, 1, Len(stack) - 1) = <<>> /\ Top(stack) # "new"
      BY <2>1, StackForms
    <3>2. st = <<"listings">>
      BY <3>1, ScreensAppended
    <3> QED
      BY <3>1, <3>2, NewStacks
  <2>2. CASE Len(stack) > 1
    <3>1. SubSeq(stack, 1, Len(stack) - 1) = <<"home">>
      BY <2>2, StackForms
    <3>2. st = <<"home", "listings">>
      BY <3>1, ScreensAppended
    <3> QED
      BY <3>2, NewStacks
  <2> QED
    BY <2>1, <2>2, StackForms
<1> HIDE DEF cs, st
<1>4. IF Top(stack) = "listings" THEN calls' = cs /\ UNCHANGED <<form, shown>>
      ELSE Moving(cs, st)
  <2>1. CASE Top(stack) = "listings"
    BY <1>1, <1>3, <2>1 DEF GoTo
  <2>2. CASE Top(stack) # "listings"
    BY <1>1, <1>2, <1>3, <2>2, GoToMoves
  <2> QED
    BY <2>1, <2>2
<1>5. stack' = st
  BY <1>1 DEF GoTo
<1>6. Listing(x, cs, st)
  BY <1>1, <1>2, <1>3, <1>4, <1>5 DEF Listing
<1> QED
  BY <1>6

-----------------------------------------------------------------------------
(* Each kind of step keeps the invariant *)

SentCreates(cs) == {z \in Slots : cs[z].kind = "create" /\ cs[z].at = "sent"}

\* The calls are finitely many.
LEMMA SlotsCount ==
    ASSUME NEW S \in SUBSET Slots
    PROVE  /\ IsFiniteSet(S) /\ Cardinality(S) \in Nat
           /\ \A T \in SUBSET S : Cardinality(T) <= Cardinality(S)
           /\ \A z \in Slots : Cardinality(S \ {z}) = IF z \in S THEN Cardinality(S) - 1 ELSE Cardinality(S)
           /\ \A z \in Slots : Cardinality(S \cup {z}) = IF z \in S THEN Cardinality(S) ELSE Cardinality(S) + 1
<1>1. IsFiniteSet(Slots)
  BY SellerAppAssumption, FS_Interval DEF Slots
<1>2. IsFiniteSet(S)
  BY <1>1, FS_Subset
<1> QED
  BY <1>2, FS_CardinalityType, FS_Subset, FS_RemoveElement, FS_AddElement

\* While nothing is sent, what comes does not grow.
LEMMA FewerComing ==
    ASSUME SellerTypeOK, CountInv, listed' = listed, SentCreates(calls') \subseteq SentCreates(calls)
    PROVE  CountInv'
<1>1. SentCreates(calls) \subseteq Slots
  BY DEF SentCreates
<1>2. Cardinality(SentCreates(calls')) <= Cardinality(SentCreates(calls))
  BY <1>1, SlotsCount
<1>3. Cardinality(SentCreates(calls)) \in Nat /\ Cardinality(SentCreates(calls')) \in Nat
  BY <1>1, SlotsCount
<1>4. /\ Coming = Len(listed) + Cardinality(SentCreates(calls))
      /\ Coming' = Len(listed') + Cardinality(SentCreates(calls'))
  BY DEF Coming, SentCreates
<1> QED
  BY <1>2, <1>3, <1>4, SellerFields, SellerAppAssumption DEF CountInv

\* A call that is served becomes a row at most, which was coming.
LEMMA ServedComing ==
    ASSUME SellerTypeOK, CallsInv, CountInv, NEW x \in Slots, Serving(x)
    PROVE  CountInv' /\ listed' \in Seq(Row) /\ Len(listed') <= MaxListings
<1>1. /\ calls[x].at = "sent" /\ calls'[x].at # "sent"
      /\ \A z \in Slots : z # x => calls'[z] = calls[z]
  BY NoCallIsCall DEF Serving
<1>2. SentCreates(calls') = SentCreates(calls) \ {x}
  BY <1>1 DEF SentCreates
<1>3. SentCreates(calls) \subseteq Slots
  BY DEF SentCreates
<1>4. /\ Coming = Len(listed) + Cardinality(SentCreates(calls))
      /\ Coming' = Len(listed') + Cardinality(SentCreates(calls'))
  BY DEF Coming, SentCreates
<1>5. Cardinality(SentCreates(calls)) \in Nat /\ Len(listed) \in Nat /\ listed \in Seq(Row)
      /\ MaxListings \in Nat /\ Len(listed) <= MaxListings
  BY <1>3, SlotsCount, SellerFields, SellerAppAssumption DEF SellerTypeOK
<1>6. CASE listed' = listed
  BY <1>2, <1>5, <1>6, FewerComing
<1>7. CASE calls[x].kind = "create" /\ listed' = Append(listed, calls[x].row)
  <2>1. x \in SentCreates(calls)
    BY <1>1, <1>7 DEF SentCreates
  <2>2. Cardinality(SentCreates(calls')) = Cardinality(SentCreates(calls)) - 1
    BY <1>2, <1>3, <2>1, SlotsCount
  <2>3. calls[x].row \in Row
    BY <1>7 DEF CallsInv, CallOK
  <2>4. listed' \in Seq(Row) /\ Len(listed') = Len(listed) + 1
    BY <1>5, <1>7, <2>3, AppendGrows
  <2>5. Cardinality(SentCreates(calls')) \in Nat
    BY <1>2, <1>3, SlotsCount
  <2> QED
    BY <1>4, <1>5, <2>2, <2>4, <2>5 DEF CountInv
<1> QED
  BY <1>6, <1>7 DEF Serving

\* The spinners of a screen depend on the calls it waits for only.
LEMMA SameWaiting ==
    ASSUME SellerTypeOK, NEW x \in Slots, Serving(x)
    PROVE  /\ \A kind : Waiting(calls', kind) = Waiting(calls, kind)
           /\ \A z \in Slots : calls'[z].owner = calls[z].owner
           /\ \A z \in Slots : calls[z].owner = "screen" =>
                 /\ calls'[z].kind = calls[z].kind /\ calls'[z].row = calls[z].row
                 /\ calls'[z].picture = calls[z].picture
<1>1. \A z \in Slots : calls'[z].owner = calls[z].owner
  BY NoCallIsCall DEF Serving
<1>2. \A z \in Slots : calls[z].owner = "screen" =>
         /\ calls'[z].kind = calls[z].kind /\ calls'[z].row = calls[z].row
         /\ calls'[z].picture = calls[z].picture
  BY DEF Serving
<1> QED
  BY <1>1, <1>2 DEF Waiting

\* Serving a call.
LEMMA ServingKeeps ==
    ASSUME SellerInv, NEW x \in Slots, Serving(x)
    PROVE  SellerInv'
<1> USE DEF SellerInv
<1>1. /\ UNCHANGED <<hazards, stack, form, shown, draft, confirmed>>
      /\ Grows(files, files') /\ Grows(listed, listed')
      /\ calls' \in [Slots -> Call] /\ \A z \in Slots : z # x => calls'[z] = calls[z]
      /\ listed' \in Seq(Row) /\ Len(listed') <= MaxListings /\ CountInv'
      /\ files' \in Seq(Pictures) /\ Len(files') <= MaxFiles
      /\ draft \in Nat
  BY ServedComing, SellerFields DEF Serving
<1>2. SellerTypeOK'
  BY <1>1 DEF SellerTypeOK, Grows
<1>3. CallsInv'
  <2>1. ASSUME NEW z \in Slots PROVE CallOK(hazards, files', listed', draft, calls'[z])
    <3>1. CASE z = x
      BY <3>1 DEF Serving
    <3>2. CASE z # x
      <4>1. CallOK(hazards, files, listed, draft, calls[z]) /\ calls[z] \in Call
        BY SellerFields DEF CallsInv
      <4> QED
        BY <1>1, <3>2, <4>1, CallKept
    <3> QED
      BY <3>1, <3>2
  <2> QED
    BY <1>1, <2>1 DEF CallsInv
<1>4. ListedInv'
  <2>1. ASSUME NEW l \in DOMAIN listed'
        PROVE  listed'[l].draft <= draft /\ RowOK(hazards, files', listed'[l])
    <3>1. CASE l \in DOMAIN listed
      BY <1>1, <3>1, RowKept DEF ListedInv, Made, Grows
    <3>2. CASE l \notin DOMAIN listed
      <4>1. calls[x].kind = "create" /\ listed' = Append(listed, calls[x].row)
        BY <3>2 DEF Serving
      <4>2. /\ calls[x].row \in Row /\ calls[x].row.draft <= draft
            /\ RowOK(hazards, files, calls[x].row)
        BY <4>1 DEF CallsInv, CallOK
      <4>3. listed'[l] = calls[x].row
        BY <3>2, <4>1, <4>2, AppendGrows DEF SellerTypeOK
      <4> QED
        BY <1>1, <4>2, <4>3, RowKept
    <3> QED
      BY <3>1, <3>2
  <2> QED
    BY <1>1, <2>1 DEF ListedInv, Made
<1>5. ConfirmedInv'
  BY <1>1, ListedKept DEF ConfirmedInv
<1>6. ScreenInv'
  BY <1>1, SameWaiting DEF ScreenInv
<1>7. FormInv'
  <2>1. /\ PhotosOK(files', form.photos) /\ Pics(files', form.photos) = Pics(files, form.photos)
    BY <1>1 DEF FormInv, PhotosOK, Pics, Grows
  <2>2. \A kind : Waiting(calls', kind) = Waiting(calls, kind)
    BY SameWaiting
  <2>3. \A kind : \A z \in Waiting(calls, kind) :
           calls'[z].picture = calls[z].picture /\ calls'[z].row = calls[z].row
    BY SameWaiting DEF Waiting
  <2>4. {calls'[z].picture : z \in Waiting(calls, "upload")}
           = {calls[z].picture : z \in Waiting(calls, "upload")}
    BY <2>3
  <2> QED
    BY <1>1, <2>1, <2>2, <2>3, <2>4 DEF FormInv
<1>8. OnceInv'
  <2> SUFFICES ASSUME "lost" \notin hazards PROVE OnceInv'
    BY <1>1 DEF OnceInv
  <2>1. \A z \in Slots : calls'[z].owner = "none" => calls'[z] = NoCall
    BY <1>1, SameWaiting DEF OnceInv, Serving
  <2>2. CASE listed' = listed
    <3>1. ASSUME NEW z \in Slots, calls'[z].kind = "create", calls'[z].at = "sent"
          PROVE  calls'[z] = calls[z]
      BY <3>1, <1>1, NoCallIsCall DEF Serving
    <3>2. Top(stack) = "new" =>
             /\ \A z \in Slots : calls'[z].kind = "create" /\ calls'[z].row.draft = draft =>
                   calls'[z].owner = "screen"
             /\ IsListed(listed, draft) =>
                   \E z \in Waiting(calls', "create") : calls'[z].at = "answered"
      <4>1. \A z \in Slots : calls'[z].kind = "create" =>
               calls[z].kind = "create" /\ calls'[z].row = calls[z].row
        BY <1>1, NoCallIsCall DEF Serving
      <4>2. \A z \in Waiting(calls, "create") : calls[z].at = "answered" =>
               z \in Waiting(calls', "create") /\ calls'[z].at = "answered"
        BY <1>1, SameWaiting DEF Serving, Waiting
      <4> QED
        BY <4>1, <4>2, SameWaiting DEF OnceInv
    <3> QED
      BY <1>1, <2>1, <2>2, <3>1, <3>2 DEF OnceInv, Made
  <2>3. CASE listed' # listed
    <3>1. /\ calls[x].kind = "create" /\ calls[x].at = "sent"
          /\ listed' = Append(listed, calls[x].row) /\ calls[x].row \in Row
          /\ calls'[x].at = "answered" \/ calls'[x] = NoCall
      BY <2>3 DEF Serving, CallsInv, CallOK
    <3>2. /\ DOMAIN listed' = DOMAIN listed \cup {Len(listed) + 1}
          /\ listed'[Len(listed) + 1] = calls[x].row
          /\ \A l \in DOMAIN listed : listed'[l] = listed[l]
      BY <3>1, <1>1, AppendGrows DEF SellerTypeOK, Grows
    <3>3. \A d : IsListed(listed', d) <=> IsListed(listed, d) \/ d = calls[x].row.draft
      BY <3>2 DEF IsListed
    <3>4. ~IsListed(listed, calls[x].row.draft)
      BY <3>1 DEF OnceInv
    <3>5. \A k, l \in DOMAIN listed' : listed'[k].draft = listed'[l].draft => k = l
      BY <3>2, <3>4 DEF OnceInv, Made, IsListed
    <3>6. calls'[x].at # "sent"
      BY <3>1, NoCallIsCall
    <3>7. \A z \in Slots : calls'[z].kind = "create" /\ calls'[z].at = "sent" =>
             /\ ~IsListed(listed', calls'[z].row.draft)
             /\ \A y \in Slots : calls'[y].kind = "create" /\ calls'[y].at = "sent"
                                 /\ calls'[y].row.draft = calls'[z].row.draft => y = z
      BY <1>1, <3>1, <3>3, <3>6 DEF OnceInv
    <3>8. Top(stack) = "new" =>
             /\ \A z \in Slots : calls'[z].kind = "create" /\ calls'[z].row.draft = draft =>
                   calls'[z].owner = "screen"
             /\ IsListed(listed', draft) =>
                   \E z \in Waiting(calls', "create") : calls'[z].at = "answered"
      <4>1. \A z \in Slots : calls'[z].kind = "create" =>
               calls[z].kind = "create" /\ calls'[z].row = calls[z].row
        BY <1>1, NoCallIsCall DEF Serving
      <4>2. ASSUME Top(stack) = "new", calls[x].row.draft = draft
            PROVE  x \in Waiting(calls', "create") /\ calls'[x].at = "answered"
        <5>1. x \in Waiting(calls, "create")
          BY <3>1, <4>2 DEF OnceInv, Waiting
        <5>2. calls[x].owner # "none"
          BY <5>1 DEF Waiting
        <5> QED
          BY <5>1, <5>2, <3>1, SameWaiting, NoCallIsCall DEF Serving, Waiting
      <4>3. \A z \in Waiting(calls, "create") : calls[z].at = "answered" =>
               z \in Waiting(calls', "create") /\ calls'[z].at = "answered"
        BY <1>1, <3>1, SameWaiting DEF Waiting
      <4> QED
        BY <3>3, <4>1, <4>2, <4>3, SameWaiting DEF OnceInv
    <3> QED
      BY <1>1, <2>1, <3>5, <3>7, <3>8 DEF OnceInv, Made
  <2> QED
    BY <2>2, <2>3
<1>9. PatientInv'
  BY <1>1, SameWaiting DEF PatientInv
<1>10. CleanInv'
  <2> SUFFICES ASSUME hazards \cap {"lost", "impatient"} = {} PROVE CleanInv'
    BY <1>1 DEF CleanInv
  <2>1. CASE listed' = listed
    <3>1. ASSUME NEW z \in Waiting(calls', "list"), calls'[z].at = "answered"
          PROVE  calls'[z].found = DOMAIN listed
      <4>1. z \in Waiting(calls, "list") /\ z \in Slots
        BY SameWaiting DEF Waiting
      <4>2. CASE z = x
        BY <4>1, <4>2 DEF Serving, Waiting
      <4>3. CASE z # x
        BY <1>1, <3>1, <4>1, <4>3 DEF CleanInv, Made
      <4> QED
        BY <4>2, <4>3
    <3> QED
      BY <1>1, <2>1, <3>1, SameWaiting DEF CleanInv, Made
  <2>2. CASE listed' # listed
    <3>1. calls[x].kind = "create" /\ calls[x].at = "sent" /\ calls[x].owner = "screen"
      <4>1. calls[x].kind = "create" /\ calls[x].at = "sent"
        BY <2>2 DEF Serving
      <4>2. calls[x].owner # "none" /\ calls[x].owner # "left" /\ calls[x] \in Call
        BY <4>1, NoCallIsCall, SellerFields DEF OnceInv, PatientInv
      <4> QED
        BY <4>1, <4>2 DEF Call
    <3>2. Top(stack) = "new"
      BY <3>1 DEF ScreenInv
    <3>3. Waiting(calls', "list") = {}
      BY <3>2, SameWaiting DEF ScreenInv, Waiting
    <3> QED
      BY <1>1, <3>2, <3>3 DEF CleanInv
  <2> QED
    BY <2>1, <2>2
<1> QED
  BY <1>1, <1>2, <1>3, <1>4, <1>5, <1>6, <1>7, <1>8, <1>9, <1>10

\* The end of a call: fewer calls, and a form in which a spinner has stopped.
LEMMA EndedCalls ==
    ASSUME SellerInv, NEW x \in Slots, Ending(x)
    PROVE  /\ calls'[x].owner = "none" /\ calls'[x].at \in {"refused", "sent"}
           /\ \A z \in Slots :
                 \/ calls'[z] = NoCall
                 \/ /\ calls'[z].at = calls[z].at /\ calls'[z].kind = calls[z].kind
                    /\ calls'[z].row = calls[z].row
           /\ \A kind : Waiting(calls', kind) = Waiting(calls, kind) \ {x}
           /\ \A z \in Slots : CallOK(hazards, files, listed, draft, calls'[z])
           /\ SentCreates(calls') \subseteq SentCreates(calls)
<1>1. /\ calls[x] \in Call /\ CallOK(hazards, files, listed, draft, calls[x])
      /\ \A z \in Slots : CallOK(hazards, files, listed, draft, calls[z])
  BY SellerFields DEF SellerInv, CallsInv
<1>2. \A z \in Slots : z # x => calls'[z] = calls[z]
  BY DEF Ending
<1>3. CASE calls'[x] = NoCall
  <2>1. CallOK(hazards, files, listed, draft, calls'[x])
    BY <1>3, NoCallOK
  <2> QED
    BY <1>1, <1>2, <1>3, <2>1, NoCallIsCall DEF Waiting, SentCreates
<1>4. CASE calls[x].at = "sent" /\ calls'[x] = [calls[x] EXCEPT !.owner = "none"]
  <2>1. /\ calls'[x].owner = "none" /\ calls'[x].at = "sent"
        /\ calls'[x].kind = calls[x].kind /\ calls'[x].row = calls[x].row
        /\ calls'[x].picture = calls[x].picture /\ calls'[x].photo = calls[x].photo
        /\ calls'[x].found = calls[x].found
    BY <1>1, <1>4 DEF Call
  <2>2. CallOK(hazards, files, listed, draft, calls'[x])
    BY <1>1, <1>4, <2>1 DEF CallOK
  <2>3. \A z \in Slots : CallOK(hazards, files, listed, draft, calls'[z])
    BY <1>1, <1>2, <2>2
  <2>4. \A kind : Waiting(calls', kind) = Waiting(calls, kind) \ {x}
    BY <1>2, <2>1 DEF Waiting
  <2>5. \A z \in Slots : calls'[z].at = calls[z].at /\ calls'[z].kind = calls[z].kind
                         /\ calls'[z].row = calls[z].row
    BY <1>2, <1>4, <2>1
  <2>6. SentCreates(calls') \subseteq SentCreates(calls)
    BY <2>5 DEF SentCreates
  <2> QED
    BY <2>1, <2>3, <2>4, <2>5, <2>6
<1> QED
  BY <1>3, <1>4 DEF Ending

\* The form at the end of a call it waits for.
LEMMA EndedForm ==
    ASSUME SellerInv, NEW x \in Slots, Ending(x)
    PROVE  FormInv'
<1> USE DEF SellerInv
<1>1. /\ UNCHANGED <<hazards, files, draft>> /\ \A z \in Slots : z # x => calls'[z] = calls[z]
      /\ \A kind : Waiting(calls', kind) = Waiting(calls, kind) \ {x}
      /\ form' \in Form /\ form \in Form /\ form'.sel = form.sel
  BY EndedCalls DEF Ending, SellerTypeOK
<1>2. \A kind : \A z \in Waiting(calls, kind) \ {x} : z \in Slots /\ calls'[z] = calls[z]
  BY <1>1 DEF Waiting
<1>3. CASE calls[x].owner # "screen"
  <2>1. form' = form
    BY <1>3 DEF Ending
  <2>2. \A kind : Waiting(calls, kind) \ {x} = Waiting(calls, kind)
    BY <1>3 DEF Waiting
  <2>3. {calls'[z].picture : z \in Waiting(calls, "upload")}
           = {calls[z].picture : z \in Waiting(calls, "upload")}
    BY <1>2, <2>2
  <2> QED
    BY <1>1, <1>2, <2>1, <2>2, <2>3 DEF FormInv
<1>4. CASE calls[x].owner = "screen" /\ calls[x].kind # "upload"
  <2>1. form'.photos = form.photos /\ form'.picked = form.picked /\ form'.uploading = form.uploading
    BY <1>4 DEF Ending
  <2>2. Waiting(calls, "upload") \ {x} = Waiting(calls, "upload")
    BY <1>4 DEF Waiting
  <2>3. {calls'[z].picture : z \in Waiting(calls, "upload")}
           = {calls[z].picture : z \in Waiting(calls, "upload")}
    BY <1>2, <2>2
  <2>4. \A z \in Waiting(calls, "create") \ {x} : form'.busy /\ calls'[z].row.draft = draft
    <3>1. CASE calls[x].kind = "create"
      <4>1. Waiting(calls, "create") \ {x} = {}
        BY <1>4, <3>1 DEF FormInv, Waiting
      <4> QED
        BY <4>1
    <3>2. CASE calls[x].kind # "create"
      BY <1>2, <3>2 DEF FormInv, Ending
    <3> QED
      BY <3>1, <3>2
  <2>5. \A z \in Waiting(calls, "upload") :
           form'.uploading /\ calls'[z].picture \notin Pics(files, form'.photos)
    BY <1>2, <2>1, <2>2 DEF FormInv
  <2> QED
    BY <1>1, <2>1, <2>2, <2>3, <2>4, <2>5 DEF FormInv
<1>5. CASE calls[x].owner = "screen" /\ calls[x].kind = "upload"
  <2>1. Waiting(calls, "upload") = {x} /\ Waiting(calls', "upload") = {}
    BY <1>1, <1>5 DEF FormInv, Waiting
  <2>2. /\ form.picked = Pics(files, form.photos) \cup {calls[x].picture}
        /\ calls[x].picture \notin Pics(files, form.photos)
    BY <2>1 DEF FormInv
  <2>3. \/ form'.photos = form.photos /\ form'.picked = form.picked \ {calls[x].picture}
        \/ /\ form'.picked = form.picked
           /\ \E k \in DOMAIN files : files[k] = calls[x].picture /\ form'.photos = form.photos \cup {k}
    BY <1>5 DEF Ending
  <2>4. PhotosOK(files, form'.photos) /\ form'.picked = Pics(files, form'.photos)
    <3>1. CASE form'.photos = form.photos /\ form'.picked = form.picked \ {calls[x].picture}
      BY <2>2, <3>1 DEF FormInv
    <3>2. ASSUME NEW k \in DOMAIN files, files[k] = calls[x].picture,
                 form'.photos = form.photos \cup {k}, form'.picked = form.picked
          PROVE  PhotosOK(files, form'.photos) /\ form'.picked = Pics(files, form'.photos)
      BY <2>2, <3>2 DEF FormInv, PhotosOK, Pics
    <3> QED
      BY <2>3, <3>1, <3>2
  <2>5. form'.picked \subseteq form.picked
    BY <2>3
  <2>6. \A z \in Waiting(calls', "create") : form'.busy /\ calls'[z].row.draft = draft
    <3>1. form'.busy = form.busy
      BY <1>5 DEF Ending
    <3> QED
      BY <1>1, <1>2, <3>1 DEF FormInv
  <2>7. \A kind \in {"upload", "create"} : \A y, z \in Waiting(calls', kind) : y = z
    BY <1>1 DEF FormInv
  <2>8. {calls'[z].picture : z \in Waiting(calls', "upload")} = {}
    BY <2>1
  <2>9. "rethinks" \notin hazards /\ form'.sel # NoProduce =>
           \A p \in form'.picked : Shows[p] = form'.sel
    BY <1>1, <2>5 DEF FormInv
  <2> QED
    BY <1>1, <2>1, <2>4, <2>6, <2>7, <2>8, <2>9 DEF FormInv
<1> QED
  BY <1>3, <1>4, <1>5

\* The end of a call, the other parts.
LEMMA EndingKeeps ==
    ASSUME SellerInv, NEW x \in Slots, Ending(x)
    PROVE  SellerInv'
<1> USE DEF SellerInv
<1>1. /\ UNCHANGED <<hazards, files, listed, stack, draft, confirmed>>
      /\ calls' \in [Slots -> Call] /\ \A z \in Slots : z # x => calls'[z] = calls[z]
      /\ form' \in Form /\ form'.sel = form.sel
      /\ calls'[x].owner = "none" /\ calls[x].owner # "none"
  BY EndedCalls DEF Ending
<1>2. SellerTypeOK'
  <2>1. form'.sel # NoProduce => form'.sel \in form'.cats
    BY <1>1 DEF SellerTypeOK, Ending, Form
  <2>2. shown' \subseteq DOMAIN listed
    BY DEF SellerTypeOK, Ending
  <2> QED
    BY <1>1, <2>1, <2>2 DEF SellerTypeOK
<1>3. CallsInv'
  BY <1>1, EndedCalls DEF CallsInv
<1>4. ListedInv' /\ ConfirmedInv'
  BY <1>1 DEF ListedInv, ConfirmedInv, Made
<1>5. CountInv'
  BY <1>1, EndedCalls, FewerComing
<1>6. ScreenInv'
  <2>1. \A z \in Slots : calls'[z].owner = "screen" => calls'[z] = calls[z]
    BY <1>1
  <2>2. Top(stack) # "new" => form' = form
    <3> SUFFICES ASSUME Top(stack) # "new" PROVE form' = form
      OBVIOUS
    <3>1. calls[x].owner = "screen" => calls[x].kind = "list"
      BY DEF ScreenInv
    <3>2. CASE calls[x].owner # "screen"
      BY <3>2 DEF Ending
    <3>3. CASE calls[x].kind = "list"
      <4>1. /\ form'.photos = form.photos /\ form'.picked = form.picked
            /\ form'.uploading = form.uploading /\ form'.busy = form.busy /\ form'.cats = form.cats
            /\ form'.sel = form.sel
        BY <3>3 DEF Ending
      <4>2. form \in Form /\ form' \in Form
        BY <1>1 DEF SellerTypeOK
      <4> QED
        BY <4>1, <4>2 DEF Form
    <3> QED
      BY <3>1, <3>2, <3>3
  <2> QED
    BY <1>1, <2>1, <2>2 DEF ScreenInv
<1>7. FormInv'
  BY EndedForm
<1>8. OnceInv'
  <2> SUFFICES ASSUME "lost" \notin hazards PROVE OnceInv'
    BY <1>1 DEF OnceInv
  <2>1. calls'[x] = NoCall /\ (calls[x].kind = "create" => calls[x].at = "refused")
    BY DEF Ending
  <2>2. \A z \in Waiting(calls, "create") : calls[z].at = "answered" =>
           z \in Waiting(calls', "create") /\ calls'[z].at = "answered"
    BY <1>1, <2>1 DEF Waiting
  <2>3. \A z \in Slots : calls'[z].kind = "create" => calls'[z] = calls[z]
    BY <1>1, <2>1, NoCallIsCall
  <2> QED
    BY <1>1, <2>1, <2>2, <2>3 DEF OnceInv, Made
<1>9. PatientInv'
  BY <1>1 DEF PatientInv
<1>10. CleanInv'
  <2> SUFFICES ASSUME hazards \cap {"lost", "impatient"} = {} PROVE CleanInv'
    BY <1>1 DEF CleanInv
  <2>1. \A z \in Waiting(calls', "list") : calls'[z].at = "answered" => calls'[z].found = DOMAIN listed
    BY <1>1 DEF CleanInv, Waiting, Made
  <2>2. ASSUME Top(stack) = "listings", Waiting(calls', "list") = {}
        PROVE  shown' = DOMAIN listed
    <3>1. Waiting(calls, "list") \ {x} = {}
      BY <2>2, EndedCalls
    <3>2. CASE calls[x].kind = "list" /\ calls[x].owner = "screen"
      BY <3>2 DEF CleanInv, Ending, Waiting, Made
    <3>3. CASE ~(calls[x].kind = "list" /\ calls[x].owner = "screen")
      <4>1. shown' = shown
        BY <3>3 DEF Ending
      <4>2. Waiting(calls, "list") = {}
        BY <3>1, <3>3 DEF Waiting
      <4> QED
        BY <2>2, <4>1, <4>2 DEF CleanInv, Made
    <3> QED
      BY <3>2, <3>3
  <2> QED
    BY <1>1, <2>1, <2>2 DEF CleanInv, Made
<1> QED
  BY <1>2, <1>3, <1>4, <1>5, <1>6, <1>7, <1>8, <1>9, <1>10

\* A step to another screen, which a patient user takes when nothing is under way.
Moved(cs, st) ==
    /\ Moving(cs, st)
    /\ UNCHANGED <<hazards, files, listed>>
    /\ cs \in [Slots -> Call] /\ \A z \in Slots : cs[z] = calls[z] \/ cs[z] = NoCall
    /\ st \in Stacks
    /\ "impatient" \notin hazards => st[1] = "home" /\ \A z \in Slots : cs[z].owner # "screen"
    /\ draft' \in 0 .. MaxDrafts /\ draft' = IF Top(st) = "new" THEN draft + 1 ELSE draft
    /\ confirmed' \subseteq 1 .. MaxDrafts /\ \A d \in confirmed' : IsListed(listed, d)

\* Only the new screen waits, for what it asks.
LEMMA MovedCalls ==
    ASSUME NEW cs, NEW st, Moved(cs, st)
    PROVE  /\ \A z \in Slots :
                 \/ calls'[z] = LeftBehind(cs[z]) /\ calls'[z].owner # "screen"
                 \/ Top(st) \in {"new", "listings"} /\ calls'[z] = Send(Asks(Top(st)))
           /\ \A y, z \in Slots : calls'[y].owner = "screen" /\ calls'[z].owner = "screen" => y = z
           /\ Top(st) = "listings" => Waiting(calls', "list") # {}
           /\ \A kind \in {"upload", "create"} : Waiting(calls', kind) = {}
           /\ SentCreates(calls') \subseteq SentCreates(calls)
<1>1. \A z \in Slots : cs[z] \in Call
  BY DEF Moved
<1>2. \A z \in Slots : /\ LeftBehind(cs[z]).owner # "screen" /\ LeftBehind(cs[z]).kind = cs[z].kind
                       /\ LeftBehind(cs[z]).at = cs[z].at
  BY <1>1, LeftIsCall
<1>3. Top(st) \in {"new", "listings"} =>
         /\ Send(Asks(Top(st))).owner = "screen" /\ Send(Asks(Top(st))).kind \in {"catalog", "list"}
         /\ Send(Asks(Top(st))).at = "sent"
         /\ Top(st) = "listings" => Send(Asks(Top(st))).kind = "list"
  BY SendIsCall DEF Asks
<1>4. \A z \in Slots : cs[z].kind = "create" => cs[z] = calls[z]
  BY NoCallIsCall DEF Moved
<1>5. CASE Top(st) = "home" /\ \A z \in Slots : calls'[z] = LeftBehind(cs[z])
  <2>1. \A kind : Waiting(calls', kind) = {}
    BY <1>2, <1>5 DEF Waiting
  <2>2. SentCreates(calls') \subseteq SentCreates(calls)
    BY <1>2, <1>4, <1>5 DEF SentCreates
  <2> QED
    BY <1>2, <1>5, <2>1, <2>2
<1>6. ASSUME Top(st) \in {"new", "listings"}, NEW y \in Slots,
             calls'[y] = Send(Asks(Top(st))), \A z \in Slots : z # y => calls'[z] = LeftBehind(cs[z])
      PROVE  /\ \A z \in Slots :
                 \/ calls'[z] = LeftBehind(cs[z]) /\ calls'[z].owner # "screen"
                 \/ Top(st) \in {"new", "listings"} /\ calls'[z] = Send(Asks(Top(st)))
             /\ \A w, z \in Slots : calls'[w].owner = "screen" /\ calls'[z].owner = "screen" => w = z
             /\ Top(st) = "listings" => Waiting(calls', "list") # {}
             /\ \A kind \in {"upload", "create"} : Waiting(calls', kind) = {}
             /\ SentCreates(calls') \subseteq SentCreates(calls)
  <2>1. \A z \in Slots : calls'[z].owner = "screen" => z = y
    BY <1>2, <1>6
  <2>2. SentCreates(calls') \subseteq SentCreates(calls)
    BY <1>2, <1>3, <1>4, <1>6 DEF SentCreates
  <2>3. Top(st) = "listings" => y \in Waiting(calls', "list")
    BY <1>3, <1>6 DEF Waiting
  <2>4. \A kind \in {"upload", "create"} : Waiting(calls', kind) = {}
    BY <1>3, <1>6, <2>1 DEF Waiting
  <2> QED
    BY <1>2, <1>6, <2>1, <2>2, <2>3, <2>4
<1> QED
  BY <1>5, <1>6 DEF Moved, Moving

\* Going to another screen.
LEMMA MovedKeeps ==
    ASSUME SellerInv, NEW cs, NEW st, Moved(cs, st)
    PROVE  SellerInv'
<1> USE DEF SellerInv
<1>1. /\ UNCHANGED <<hazards, files, listed>>
      /\ calls' \in [Slots -> Call] /\ stack' = st /\ form' = Blank /\ shown' = {}
      /\ st \in Stacks
      /\ draft \in Nat /\ draft' \in 0 .. MaxDrafts /\ draft' \in Nat /\ draft <= draft'
      /\ draft' = IF Top(st) = "new" THEN draft + 1 ELSE draft
  BY SellerFields, SellerAppAssumption DEF Moved, Moving
<1>2. SellerTypeOK'
  <2>1. form' \in Form /\ form'.sel = NoProduce
    BY <1>1 DEF Blank, Form
  <2> QED
    BY <1>1, <2>1, StackForms DEF SellerTypeOK, Moved
<1>3. CallsInv'
  <2>1. ASSUME NEW z \in Slots PROVE CallOK(hazards, files, listed, draft', calls'[z])
    <3>1. CASE calls'[z] = LeftBehind(cs[z])
      <4>1. cs[z] \in Call /\ CallOK(hazards, files, listed, draft, cs[z])
        BY NoCallOK DEF Moved, CallsInv
      <4>2. CallOK(hazards, files, listed, draft, calls'[z])
        BY <3>1, <4>1, LeftOK
      <4>3. Grows(files, files) /\ Grows(listed, listed)
        BY DEF Grows
      <4> QED
        BY <1>1, <4>2, <4>3, CallKept
    <3>2. CASE calls'[z] = Send(Asks(Top(st)))
      BY <3>2, SentOK DEF Asks
    <3> QED
      BY <3>1, <3>2, MovedCalls
  <2> QED
    BY <1>1, <2>1 DEF CallsInv
<1>4. ListedInv'
  <2>1. \A l \in DOMAIN listed : listed[l].draft \in Nat
    BY SellerFields, SellerAppAssumption DEF Row
  <2> QED
    BY <1>1, <2>1 DEF ListedInv, Made
<1>5. ConfirmedInv'
  BY <1>1 DEF ConfirmedInv, Moved
<1>6. CountInv'
  BY <1>1, MovedCalls, FewerComing
<1>7. ScreenInv'
  <2>1. ASSUME NEW z \in Slots, calls'[z].owner = "screen"
        PROVE  Top(st) = IF calls'[z].kind = "list" THEN "listings" ELSE "new"
    <3>1. Top(st) \in {"new", "listings"} /\ calls'[z] = Send(Asks(Top(st)))
      BY <2>1, MovedCalls
    <3> QED
      BY <3>1, SendIsCall DEF Asks
  <2> QED
    BY <1>1, <2>1 DEF ScreenInv
<1>8. FormInv'
  <2>1. /\ PhotosOK(files, {}) /\ Pics(files, {}) = {}
        /\ form'.photos = {} /\ form'.picked = {} /\ form'.sel = NoProduce
    BY <1>1 DEF PhotosOK, Pics, Blank
  <2>2. \A kind \in {"upload", "create"} : Waiting(calls', kind) = {}
    BY MovedCalls
  <2> QED
    BY <1>1, <2>1, <2>2 DEF FormInv
<1>9. OnceInv'
  <2> SUFFICES ASSUME "lost" \notin hazards PROVE OnceInv'
    BY <1>1 DEF OnceInv
  <2>1. ASSUME NEW z \in Slots
        PROVE  /\ calls'[z].owner = "none" => calls'[z] = NoCall
               /\ calls'[z].kind = "create" =>
                     /\ calls[z].kind = "create" /\ calls'[z].at = calls[z].at
                     /\ calls'[z].row = calls[z].row
    <3>1. cs[z] \in Call /\ (cs[z] = calls[z] \/ cs[z] = NoCall)
      BY DEF Moved
    <3>2. CASE calls'[z] = LeftBehind(cs[z])
      BY <3>1, <3>2, LeftIsCall, NoCallIsCall DEF OnceInv
    <3>3. CASE calls'[z] = Send(Asks(Top(st))) /\ Top(st) \in {"new", "listings"}
      BY <3>3, SendIsCall DEF Asks
    <3> QED
      BY <3>2, <3>3, MovedCalls
  <2>2. ASSUME Top(st) = "new"
        PROVE  /\ \A z \in Slots : calls'[z].kind = "create" => calls'[z].row.draft # draft'
               /\ ~IsListed(listed, draft')
    <3>1. \A l \in DOMAIN listed : listed[l].draft \in Nat /\ listed[l].draft <= draft
      BY SellerFields, SellerAppAssumption DEF Row, ListedInv, Made
    <3>2. \A z \in Slots : calls[z].kind = "create" =>
             calls[z].row.draft \in Nat /\ calls[z].row.draft <= draft
      BY SellerAppAssumption DEF CallsInv, CallOK, Row
    <3> QED
      BY <1>1, <2>1, <2>2, <3>1, <3>2 DEF IsListed
  <2> QED
    BY <1>1, <2>1, <2>2 DEF OnceInv, Made
<1>10. PatientInv'
  <2> SUFFICES ASSUME "impatient" \notin hazards PROVE PatientInv'
    BY <1>1 DEF PatientInv
  <2>1. ASSUME NEW z \in Slots PROVE calls'[z].owner # "left"
    <3>1. CASE calls'[z] = LeftBehind(cs[z])
      <4>1. cs[z].owner # "screen" /\ (cs[z] = calls[z] \/ cs[z] = NoCall)
        BY DEF Moved
      <4> QED
        BY <3>1, <4>1, NoCallIsCall DEF LeftBehind, PatientInv
    <3>2. CASE Top(st) \in {"new", "listings"} /\ calls'[z] = Send(Asks(Top(st)))
      BY <3>2, SendIsCall DEF Asks
    <3> QED
      BY <3>1, <3>2, MovedCalls
  <2>2. Top(st) = "new" => draft' \notin confirmed'
    <3> SUFFICES ASSUME Top(st) = "new", draft' \in confirmed' PROVE FALSE
      OBVIOUS
    <3>1. IsListed(listed, draft')
      BY DEF Moved
    <3>2. \A l \in DOMAIN listed : listed[l].draft \in Nat /\ listed[l].draft <= draft
      BY SellerFields, SellerAppAssumption DEF Row, ListedInv, Made
    <3> QED
      BY <1>1, <3>1, <3>2 DEF IsListed
  <2>3. st[1] = "home"
    BY DEF Moved
  <2> QED
    BY <1>1, <2>1, <2>2, <2>3, MovedCalls DEF PatientInv
<1>11. CleanInv'
  <2>1. \A z \in Waiting(calls', "list") : calls'[z].at # "answered"
    <3> TAKE z \in Waiting(calls', "list")
    <3>1. Top(st) \in {"new", "listings"} /\ calls'[z] = Send(Asks(Top(st)))
      BY MovedCalls DEF Waiting
    <3> QED
      BY <3>1, SendIsCall DEF Asks
  <2> QED
    BY <1>1, <2>1, MovedCalls DEF CleanInv
<1> QED
  BY <1>2, <1>3, <1>4, <1>5, <1>6, <1>7, <1>8, <1>9, <1>10, <1>11

\* "Listed!" and the list, which may be on the screen already.
LEMMA ListingKeeps ==
    ASSUME SellerInv, UNCHANGED hazards, NEW x \in Slots, NEW cs, NEW st, Listing(x, cs, st)
    PROVE  SellerInv'
<1> USE DEF SellerInv
<1>1. /\ UNCHANGED <<hazards, files, listed, draft>>
      /\ calls[x].at = "answered" /\ calls[x].kind = "create" /\ calls[x].owner # "none"
      /\ cs \in [Slots -> Call] /\ cs[x] = NoCall /\ \A z \in Slots : z # x => cs[z] = calls[z]
      /\ st \in Stacks /\ Top(st) = "listings" /\ stack' = st
      /\ calls[x] \in Call
  BY SellerFields DEF Listing
<1>2. /\ confirmed' \subseteq 1 .. MaxDrafts /\ \A d \in confirmed' : IsListed(listed, d)
  <2>1. calls[x].row \in Row /\ IsListed(listed, calls[x].row.draft)
    BY <1>1 DEF CallsInv, CallOK
  <2>2. confirmed' = confirmed \cup {calls[x].row.draft}
    BY DEF Listing
  <2> QED
    BY <2>1, <2>2 DEF Row, SellerTypeOK, ConfirmedInv
<1>3. CASE Top(stack) = "listings"
  <2>1. calls' = cs /\ UNCHANGED <<form, shown>>
    BY <1>3 DEF Listing
  <2>2. "impatient" \in hazards
    <3>1. calls[x].owner # "screen"
      BY <1>1, <1>3 DEF ScreenInv
    <3>2. calls[x].owner = "left"
      BY <1>1, <3>1 DEF Call
    <3> QED
      BY <3>2 DEF PatientInv
  <2>3. SellerTypeOK'
    BY <1>1, <1>2, <2>1, StackForms DEF SellerTypeOK
  <2>4. CallsInv'
    BY <1>1, <2>1, NoCallOK DEF CallsInv
  <2>5. ListedInv' /\ ConfirmedInv'
    BY <1>1, <1>2 DEF ListedInv, ConfirmedInv, Made
  <2>6. SentCreates(calls') \subseteq SentCreates(calls)
    BY <1>1, <2>1, NoCallIsCall DEF SentCreates
  <2>7. CountInv'
    BY <1>1, <2>6, FewerComing
  <2>8. ScreenInv'
    BY <1>1, <1>3, <2>1, NoCallIsCall DEF ScreenInv
  <2>9. FormInv'
    <3>1. \A kind : Waiting(calls', kind) = Waiting(calls, kind)
      <4>1. calls[x].owner # "screen"
        BY <1>1, <1>3 DEF ScreenInv
      <4> QED
        BY <1>1, <2>1, <4>1, NoCallIsCall DEF Waiting
    <3>2. Waiting(calls, "upload") = {} /\ Waiting(calls, "create") = {}
      BY <1>3 DEF ScreenInv, Waiting
    <3>3. {calls'[z].picture : z \in Waiting(calls', "upload")}
             = {calls[z].picture : z \in Waiting(calls, "upload")}
      BY <3>1, <3>2
    <3> QED
      BY <1>1, <2>1, <3>1, <3>2, <3>3 DEF FormInv
  <2>10. OnceInv'
    <3> SUFFICES ASSUME "lost" \notin hazards PROVE OnceInv'
      BY <1>1 DEF OnceInv
    <3>1. \A z \in Slots : calls'[z] = calls[z] \/ calls'[z] = NoCall
      BY <1>1, <2>1
    <3> QED
      BY <1>1, <3>1, NoCallIsCall DEF OnceInv, Made
  <2>11. PatientInv' /\ CleanInv'
    BY <1>1, <2>2 DEF PatientInv, CleanInv
  <2> QED
    BY <2>3, <2>4, <2>5, <2>7, <2>8, <2>9, <2>10, <2>11
<1>4. CASE Top(stack) # "listings"
  <2>1. Moving(cs, st)
    BY <1>4 DEF Listing
  <2>2. "impatient" \notin hazards => st[1] = "home" /\ \A z \in Slots : cs[z].owner # "screen"
    <3> SUFFICES ASSUME "impatient" \notin hazards
                 PROVE  st[1] = "home" /\ \A z \in Slots : cs[z].owner # "screen"
      OBVIOUS
    <3>1. calls[x].owner = "screen"
      BY <1>1 DEF Call, PatientInv
    <3>2. Top(stack) = "new"
      BY <1>1, <3>1 DEF ScreenInv
    <3>3. \A z \in Slots : z # x => calls[z].owner # "screen"
      BY <3>1 DEF PatientInv
    <3> QED
      BY <1>1, <3>2, <3>3, NoCallIsCall DEF Listing
  <2>3. Moved(cs, st)
    <3>1. draft' \in 0 .. MaxDrafts /\ draft' = draft
      BY <1>1 DEF SellerTypeOK
    <3> QED
      BY <1>1, <1>2, <2>1, <2>2, <3>1 DEF Moved
  <2> QED
    BY <2>3, MovedKeeps
<1> QED
  BY <1>3, <1>4

\* The tiles of the home, and the back button.
LEMMA ScreensKeep ==
    ASSUME SellerInv, UNCHANGED hazards,
           GoBack \/ \E name \in {"new", "listings"} : Open(name)
    PROVE  SellerInv'
<1> USE DEF SellerInv
<1>1. /\ stack \in Stacks /\ calls \in [Slots -> Call] /\ draft \in 0 .. MaxDrafts
      /\ confirmed \subseteq 1 .. MaxDrafts /\ \A d \in confirmed : IsListed(listed, d)
      /\ MaxDrafts \in Nat
  BY SellerAppAssumption DEF ScreenInv, SellerTypeOK, ConfirmedInv
<1>2. CASE GoBack
  <2>1. /\ Moving(calls, <<"home">>) /\ ("impatient" \notin hazards => Quiet)
        /\ UNCHANGED <<files, listed, draft, confirmed>>
    BY <1>1, <1>2, GoBackMoves
  <2>2. <<"home">>[1] = "home" /\ Top(<<"home">>) = "home" /\ <<"home">> \in Stacks
    BY NewStacks
  <2>3. Moved(calls, <<"home">>)
    BY <1>1, <2>1, <2>2 DEF Moved, Quiet
  <2> QED
    BY <2>3, MovedKeeps
<1>3. ASSUME NEW name \in {"new", "listings"}, Open(name) PROVE SellerInv'
  <2>1. /\ Moving(calls, <<"home", name>>) /\ ("impatient" \notin hazards => Quiet)
        /\ UNCHANGED <<files, listed, confirmed>>
        /\ draft' = IF name = "new" THEN draft + 1 ELSE draft
        /\ name = "new" => draft < MaxDrafts
    BY <1>1, <1>3, OpenMoves
  <2>2. /\ <<"home", name>>[1] = "home" /\ Top(<<"home", name>>) = name
        /\ <<"home", name>> \in Stacks
    BY NewStacks
  <2>3. draft' \in 0 .. MaxDrafts
    BY <1>1, <2>1
  <2>4. Moved(calls, <<"home", name>>)
    BY <1>1, <2>1, <2>2, <2>3 DEF Moved, Quiet
  <2> QED
    BY <2>4, MovedKeeps
<1> QED
  BY <1>2, <1>3

\* Choosing produce, and going back to the grid.
LEMMA ChoosingKeeps ==
    ASSUME SellerInv, UNCHANGED hazards, BackToGrid \/ \E i \in Produce : Choose(i)
    PROVE  SellerInv'
<1> USE DEF SellerInv
<1>1. PICK i \in Produce \cup {NoProduce} :
         /\ form' = [form EXCEPT !.sel = i]
         /\ i # NoProduce => i \in form.cats
         /\ "rethinks" \notin hazards /\ i # NoProduce => \A p \in form.picked : Shows[p] = i
  BY DEF BackToGrid, Choose
<1>2. UNCHANGED <<hazards, files, listed, calls, stack, shown, draft, confirmed>>
  BY DEF BackToGrid, Choose
<1>3. /\ form' \in Form /\ form'.sel = i /\ form'.cats = form.cats /\ form'.photos = form.photos
      /\ form'.picked = form.picked /\ form'.uploading = form.uploading /\ form'.busy = form.busy
  BY <1>1 DEF SellerTypeOK, Form
<1>4. Top(stack) = "new"
  <2>1. CASE BackToGrid
    <3>1. form.sel # NoProduce
      BY <2>1 DEF BackToGrid
    <3> QED
      BY <3>1 DEF ScreenInv, Blank
  <2>2. CASE \E j \in Produce : Choose(j)
    BY <2>2 DEF Choose
  <2> QED
    BY <2>1, <2>2
<1>5. SellerTypeOK'
  BY <1>1, <1>2, <1>3 DEF SellerTypeOK
<1>6. CallsInv' /\ ListedInv' /\ CountInv' /\ ConfirmedInv'
  BY <1>2 DEF CallsInv, ListedInv, CountInv, Coming, ConfirmedInv, Made
<1>7. ScreenInv'
  BY <1>2, <1>4 DEF ScreenInv
<1>8. FormInv'
  BY <1>1, <1>2, <1>3 DEF FormInv
<1>9. OnceInv' /\ PatientInv' /\ CleanInv'
  BY <1>2 DEF OnceInv, PatientInv, CleanInv, Made
<1> QED
  BY <1>5, <1>6, <1>7, <1>8, <1>9

\* A call that is sent, into an empty slot.
Sending(y, c) ==
    /\ y \in Slots /\ calls[y] = NoCall /\ calls' = [calls EXCEPT ![y] = c]
    /\ c \in Call /\ c.at = "sent" /\ c.owner = "screen"
    /\ CallOK(hazards, files, listed, draft, c)
    /\ UNCHANGED <<hazards, files, listed, stack, shown, draft, confirmed>>
    /\ "impatient" \notin hazards => Quiet
    /\ Top(stack) = IF c.kind = "list" THEN "listings" ELSE "new"

\* What does not depend on what is sent.
LEMMA SendingKeeps ==
    ASSUME SellerInv, NEW y, NEW c, Sending(y, c)
    PROVE  /\ calls' \in [Slots -> Call] /\ CallsInv' /\ ListedInv' /\ ConfirmedInv'
           /\ PatientInv' /\ CleanInv'
           /\ \A kind : Waiting(calls', kind) =
                 IF kind = c.kind THEN Waiting(calls, kind) \cup {y} ELSE Waiting(calls, kind)
           /\ calls'[y] = c /\ \A z \in Slots : z # y => calls'[z] = calls[z]
           /\ \A kind : y \notin Waiting(calls, kind)
           /\ \A z \in Slots : calls'[z].owner = "screen" =>
                 Top(stack) = IF calls'[z].kind = "list" THEN "listings" ELSE "new"
<1> USE DEF SellerInv
<1>1. /\ UNCHANGED <<hazards, files, listed, stack, shown, draft, confirmed>>
      /\ calls' \in [Slots -> Call] /\ calls'[y] = c /\ \A z \in Slots : z # y => calls'[z] = calls[z]
      /\ y \in Slots /\ calls[y] = NoCall /\ c \in Call /\ c.at = "sent" /\ c.owner = "screen"
      /\ CallOK(hazards, files, listed, draft, c)
  BY DEF Sending, SellerTypeOK
<1>2. CallsInv' /\ ListedInv' /\ ConfirmedInv'
  BY <1>1 DEF CallsInv, ListedInv, ConfirmedInv, Made
<1>3. /\ \A kind : Waiting(calls', kind) =
            IF kind = c.kind THEN Waiting(calls, kind) \cup {y} ELSE Waiting(calls, kind)
      /\ \A kind : y \notin Waiting(calls, kind)
  BY <1>1, NoCallIsCall DEF Waiting
<1>4. PatientInv'
  BY <1>1 DEF PatientInv, Sending, Quiet
<1>5. \A z \in Slots : calls'[z].owner = "screen" =>
         Top(stack) = IF calls'[z].kind = "list" THEN "listings" ELSE "new"
  BY <1>1 DEF ScreenInv, Sending
<1>6. CleanInv'
  <2>1. CASE c.kind = "list"
    <3>1. Waiting(calls', "list") = Waiting(calls, "list") \cup {y}
      BY <1>3, <2>1
    <3> QED
      BY <1>1, <3>1 DEF CleanInv, Waiting, Made
  <2>2. CASE c.kind # "list"
    <3>1. Waiting(calls', "list") = Waiting(calls, "list") /\ y \notin Waiting(calls, "list")
      BY <1>3, <2>2
    <3> QED
      BY <1>1, <3>1 DEF CleanInv, Waiting, Made
  <2> QED
    BY <2>1, <2>2
<1> QED
  BY <1>1, <1>2, <1>3, <1>4, <1>5, <1>6

\* Nothing is listed more often by a call that lists nothing.
LEMMA SendingLessKeeps ==
    ASSUME SellerInv, NEW y, NEW c, Sending(y, c), c.kind # "create"
    PROVE  CountInv' /\ OnceInv'
<1> USE DEF SellerInv
<1>1. /\ UNCHANGED <<hazards, files, listed, stack, shown, draft, confirmed>>
      /\ calls'[y] = c /\ \A z \in Slots : z # y => calls'[z] = calls[z]
      /\ Waiting(calls', "create") = Waiting(calls, "create") /\ y \notin Waiting(calls, "create")
      /\ c.owner = "screen"
  BY SendingKeeps DEF Sending
<1>2. SentCreates(calls') \subseteq SentCreates(calls)
  BY <1>1 DEF SentCreates
<1>3. CountInv'
  BY <1>1, <1>2, FewerComing
<1>4. OnceInv'
  <2> SUFFICES ASSUME "lost" \notin hazards PROVE OnceInv'
    BY <1>1 DEF OnceInv
  <2>1. \A z \in Slots : calls'[z].kind = "create" => z # y /\ calls'[z] = calls[z]
    BY <1>1
  <2>2. \A z \in Waiting(calls', "create") : calls'[z] = calls[z]
    BY <1>1 DEF Waiting
  <2> QED
    BY <1>1, <2>1, <2>2 DEF OnceInv, Made
<1> QED
  BY <1>3, <1>4

\* Pulling the list down.
LEMMA RefreshKeeps == ASSUME SellerInv, UNCHANGED hazards, Refresh PROVE SellerInv'
<1> USE DEF SellerInv
<1>1. PICK y \in Slots : calls[y] = NoCall /\ calls' = [calls EXCEPT ![y] = Send("list")]
  BY WithTakesOne DEF Refresh
<1> DEFINE c == Send("list")
<1>2. c \in Call /\ c.kind = "list" /\ c.at = "sent" /\ c.owner = "screen" /\ c.picture = NoPicture
  BY SendIsCall
<1>3. CallOK(hazards, files, listed, draft, c)
  BY SentOK
<1>4. UNCHANGED <<files, listed, stack, form, shown, draft, confirmed>> /\ Top(stack) = "listings"
  BY DEF Refresh
<1> HIDE DEF c
<1>5. Sending(y, c)
  BY <1>1, <1>2, <1>3, <1>4 DEF Refresh, Ready, Sending, c
<1>6. CountInv' /\ OnceInv'
  BY <1>2, <1>5, SendingLessKeeps
<1>7. /\ calls' \in [Slots -> Call] /\ CallsInv' /\ ListedInv' /\ ConfirmedInv'
      /\ PatientInv' /\ CleanInv'
      /\ \A z \in Slots : calls'[z].owner = "screen" =>
            Top(stack) = IF calls'[z].kind = "list" THEN "listings" ELSE "new"
  BY <1>5, SendingKeeps
<1>8. SellerTypeOK' /\ ScreenInv'
  BY <1>4, <1>7 DEF SellerTypeOK, ScreenInv
<1>9. FormInv'
  <2>1. /\ \A kind \in {"upload", "create"} : Waiting(calls', kind) = Waiting(calls, kind)
        /\ \A z \in Slots : z # y => calls'[z] = calls[z]
        /\ \A kind : y \notin Waiting(calls, kind)
    BY <1>2, <1>5, SendingKeeps
  <2>2. \A kind : \A z \in Waiting(calls, kind) : calls'[z] = calls[z]
    BY <2>1 DEF Waiting
  <2>3. {calls'[z].picture : z \in Waiting(calls, "upload")}
           = {calls[z].picture : z \in Waiting(calls, "upload")}
    BY <2>2
  <2> QED
    BY <1>4, <2>1, <2>2, <2>3 DEF FormInv
<1> QED
  BY <1>6, <1>7, <1>8, <1>9

\* A photo, of a picture that is not there yet.
LEMMA AddPhotoKeeps ==
    ASSUME SellerInv, UNCHANGED hazards, NEW p \in Pictures, AddPhoto(p)
    PROVE  SellerInv'
<1> USE DEF SellerInv
<1> DEFINE c == [Send("upload") EXCEPT !.picture = p]
<1>1. PICK y \in Slots : calls[y] = NoCall /\ calls' = [calls EXCEPT ![y] = c]
  BY WithTakesOne DEF AddPhoto
<1>2. c \in Call /\ c.kind = "upload" /\ c.at = "sent" /\ c.owner = "screen" /\ c.picture = p
  BY SendIsCall DEF Call
<1> HIDE DEF c
<1>3. CallOK(hazards, files, listed, draft, c)
  BY <1>2 DEF CallOK
<1>4. /\ UNCHANGED <<files, listed, stack, shown, draft, confirmed>>
      /\ form.sel = Shows[p] /\ ~form.uploading /\ p \notin form.picked
      /\ form' = [form EXCEPT !.uploading = TRUE, !.picked = @ \cup {p}]
      /\ form \in Form
  BY DEF AddPhoto, SellerTypeOK
<1>5. Top(stack) = "new"
  <2>1. form.sel # NoProduce
    BY <1>4, SellerAppAssumption
  <2> QED
    BY <2>1 DEF ScreenInv, Blank
<1>6. /\ form' \in Form /\ form'.sel = form.sel /\ form'.cats = form.cats
      /\ form'.photos = form.photos /\ form'.picked = form.picked \cup {p}
      /\ form'.uploading = TRUE /\ form'.busy = form.busy
  BY <1>4 DEF Form
<1>7. Sending(y, c)
  BY <1>1, <1>2, <1>3, <1>4, <1>5 DEF AddPhoto, Ready, Sending
<1>8. CountInv' /\ OnceInv'
  BY <1>2, <1>7, SendingLessKeeps
<1>9. /\ calls' \in [Slots -> Call] /\ CallsInv' /\ ListedInv' /\ ConfirmedInv'
      /\ PatientInv' /\ CleanInv'
      /\ \A z \in Slots : calls'[z].owner = "screen" =>
            Top(stack) = IF calls'[z].kind = "list" THEN "listings" ELSE "new"
  BY <1>7, SendingKeeps
<1>10. SellerTypeOK' /\ ScreenInv'
  BY <1>4, <1>5, <1>6, <1>9 DEF SellerTypeOK, ScreenInv
<1>11. FormInv'
  <2>1. /\ Waiting(calls', "create") = Waiting(calls, "create")
        /\ Waiting(calls', "upload") = Waiting(calls, "upload") \cup {y}
        /\ calls'[y] = c /\ \A z \in Slots : z # y => calls'[z] = calls[z]
        /\ \A kind : y \notin Waiting(calls, kind)
    BY <1>2, <1>7, SendingKeeps
  <2>2. \A z \in Waiting(calls, "create") : calls'[z] = calls[z]
    BY <2>1 DEF Waiting
  <2>3. Waiting(calls, "upload") = {}
    BY <1>4 DEF FormInv
  <2>4. {calls'[z].picture : z \in Waiting(calls', "upload")} = {p}
    BY <1>2, <2>1, <2>3
  <2>5. form.picked = Pics(files, form.photos)
    BY <2>3 DEF FormInv
  <2>6. "rethinks" \notin hazards /\ form'.sel # NoProduce => \A q \in form'.picked : Shows[q] = form'.sel
    BY <1>4, <1>6 DEF FormInv
  <2>7. \A z \in Waiting(calls', "upload") :
           form'.uploading /\ calls'[z].picture \notin Pics(files, form'.photos)
    BY <1>2, <1>4, <1>6, <2>1, <2>3, <2>5
  <2>8. \A kind \in {"upload", "create"} : \A w, z \in Waiting(calls', kind) : w = z
    BY <2>1, <2>3 DEF FormInv
  <2>9. \A z \in Waiting(calls', "create") : form'.busy /\ calls'[z].row.draft = draft
    BY <1>6, <2>1, <2>2 DEF FormInv
  <2>10. PhotosOK(files, form'.photos) /\ form'.picked = Pics(files, form'.photos) \cup {p}
    BY <1>6, <2>5 DEF FormInv
  <2> QED
    BY <1>4, <2>4, <2>6, <2>7, <2>8, <2>9, <2>10 DEF FormInv
<1> QED
  BY <1>8, <1>9, <1>10, <1>11

\* What is sent is what was put in: all of it, when nothing is under way.
LEMMA SubmittedRow ==
    ASSUME SellerInv, Submit,
           NEW row, row = [draft |-> draft, item |-> form.sel, photos |-> form.photos,
                           meant |-> form.picked]
    PROVE  row \in Row /\ row.draft = draft /\ RowOK(hazards, files, row)
<1> USE DEF SellerInv
<1>1. form \in Form /\ form.sel # NoProduce /\ draft \in 0 .. MaxDrafts /\ MaxDrafts \in Nat
  BY SellerAppAssumption DEF Submit, SellerTypeOK
<1>2. draft > 0
  BY <1>1 DEF ScreenInv, Blank
<1>3. /\ form.sel \in Produce /\ form.photos \in SUBSET Paths /\ form.picked \in SUBSET Pictures
      /\ draft \in 1 .. MaxDrafts
  BY <1>1, <1>2 DEF Form
<1>4. /\ row.draft = draft /\ row.item = form.sel /\ row.photos = form.photos
      /\ row.meant = form.picked
  OBVIOUS
<1>5. row \in Row
  BY <1>3 DEF Row
<1>6. PhotosOK(files, form.photos) /\ Pics(files, form.photos) \subseteq form.picked
  BY DEF FormInv
<1>7. "impatient" \notin hazards => form.picked = Pics(files, form.photos)
  <2> SUFFICES ASSUME "impatient" \notin hazards PROVE form.picked = Pics(files, form.photos)
    OBVIOUS
  <2>1. Waiting(calls, "upload") = {}
    BY DEF Submit, Ready, Quiet, Waiting
  <2> QED
    BY <2>1 DEF FormInv
<1>8. "rethinks" \notin hazards => \A f \in form.photos : Shows[files[f]] = form.sel
  BY <1>1, <1>6 DEF FormInv, Pics
<1> QED
  BY <1>4, <1>5, <1>6, <1>7, <1>8 DEF RowOK

\* Sending the listing.
LEMMA SubmitKeeps == ASSUME SellerInv, UNCHANGED hazards, Submit PROVE SellerInv'
<1> USE DEF SellerInv
<1> DEFINE row == [draft |-> draft, item |-> form.sel, photos |-> form.photos,
                   meant |-> form.picked]
           c == [Send("create") EXCEPT !.row = row]
<1>0. row \in Row /\ row.draft = draft /\ RowOK(hazards, files, row)
  BY SubmittedRow
<1>1. PICK y \in Slots : calls[y] = NoCall /\ calls' = [calls EXCEPT ![y] = c]
  BY WithTakesOne DEF Submit
<1> HIDE DEF row
<1>2. /\ c \in Call /\ c.kind = "create" /\ c.at = "sent" /\ c.owner = "screen" /\ c.row = row
      /\ c.picture = NoPicture /\ c.photo = {}
  BY <1>0, SendIsCall DEF Call
<1> HIDE DEF c
<1>3. CallOK(hazards, files, listed, draft, c)
  BY <1>0, <1>2, SellerFields DEF CallOK
<1>4. /\ UNCHANGED <<files, listed, stack, shown, draft, confirmed>>
      /\ form.sel # NoProduce /\ ~form.busy /\ Coming < MaxListings
      /\ form' = [form EXCEPT !.busy = TRUE]
      /\ form \in Form
  BY DEF Submit, SellerTypeOK
<1>5. Top(stack) = "new"
  BY <1>4 DEF ScreenInv, Blank
<1>6. /\ form' \in Form /\ form'.sel = form.sel /\ form'.cats = form.cats
      /\ form'.photos = form.photos /\ form'.picked = form.picked
      /\ form'.uploading = form.uploading /\ form'.busy = TRUE
  BY <1>4 DEF Form
<1>7. Sending(y, c)
  BY <1>1, <1>2, <1>3, <1>4, <1>5 DEF Submit, Ready, Sending
<1>8. /\ calls' \in [Slots -> Call] /\ CallsInv' /\ ListedInv' /\ ConfirmedInv'
      /\ PatientInv' /\ CleanInv'
      /\ \A z \in Slots : calls'[z].owner = "screen" =>
            Top(stack) = IF calls'[z].kind = "list" THEN "listings" ELSE "new"
  BY <1>7, SendingKeeps
<1>9. /\ Waiting(calls', "upload") = Waiting(calls, "upload")
      /\ Waiting(calls', "create") = Waiting(calls, "create") \cup {y}
      /\ calls'[y] = c /\ \A z \in Slots : z # y => calls'[z] = calls[z]
      /\ \A kind : y \notin Waiting(calls, kind)
  BY <1>2, <1>7, SendingKeeps
<1>10. SellerTypeOK' /\ ScreenInv'
  BY <1>4, <1>5, <1>6, <1>8 DEF SellerTypeOK, ScreenInv
<1>11. Waiting(calls, "create") = {}
  BY <1>4 DEF FormInv
<1>12. FormInv'
  <2>1. \A z \in Waiting(calls, "upload") : calls'[z] = calls[z]
    BY <1>9 DEF Waiting
  <2>2. {calls'[z].picture : z \in Waiting(calls, "upload")}
           = {calls[z].picture : z \in Waiting(calls, "upload")}
    BY <2>1
  <2>3. \A z \in Waiting(calls', "create") : form'.busy /\ calls'[z].row.draft = draft
    BY <1>0, <1>2, <1>6, <1>9, <1>11
  <2>4. \A kind \in {"upload", "create"} : \A w, z \in Waiting(calls', kind) : w = z
    BY <1>9, <1>11 DEF FormInv
  <2>5. \A z \in Waiting(calls', "upload") :
           form'.uploading /\ calls'[z].picture \notin Pics(files, form'.photos)
    BY <1>6, <1>9, <2>1 DEF FormInv
  <2> QED
    BY <1>4, <1>6, <1>9, <2>2, <2>3, <2>4, <2>5 DEF FormInv
<1>13. CountInv'
  <2>1. SentCreates(calls') = SentCreates(calls) \cup {y} /\ y \notin SentCreates(calls)
    BY <1>1, <1>2, <1>9, NoCallIsCall DEF SentCreates
  <2>2. SentCreates(calls) \subseteq Slots
    BY DEF SentCreates
  <2>3. /\ Cardinality(SentCreates(calls')) = Cardinality(SentCreates(calls)) + 1
        /\ Cardinality(SentCreates(calls)) \in Nat
    <3> DEFINE S == SentCreates(calls)
    <3>1. S \in SUBSET Slots /\ y \in Slots /\ y \notin S
      BY <1>1, <2>1, <2>2
    <3> HIDE DEF S
    <3>2. Cardinality(S \cup {y}) = Cardinality(S) + 1 /\ Cardinality(S) \in Nat
      BY <3>1, SlotsCount
    <3> QED
      BY <2>1, <3>2 DEF S
  <2>4. /\ Coming = Len(listed) + Cardinality(SentCreates(calls))
        /\ Coming' = Len(listed') + Cardinality(SentCreates(calls'))
    BY DEF Coming, SentCreates
  <2>5. listed' = listed /\ Len(listed) \in Nat /\ MaxListings \in Nat /\ Coming < MaxListings
    BY <1>4, SellerFields, SellerAppAssumption
  <2> QED
    BY <2>3, <2>4, <2>5 DEF CountInv
<1>14. OnceInv'
  <2> SUFFICES ASSUME "lost" \notin hazards PROVE OnceInv'
    BY DEF OnceInv
  <2>1. ~IsListed(listed, draft)
    BY <1>5, <1>11 DEF OnceInv
  <2>2. \A z \in Slots : calls[z].kind = "create" => calls[z].row.draft # draft
    BY <1>5, <1>11 DEF OnceInv, Waiting
  <2>3. calls'[y].row.draft = draft /\ calls'[y].owner = "screen" /\ calls'[y] = c
    BY <1>0, <1>2, <1>9
  <2>4. \A z \in Slots : calls'[z].owner = "none" => calls'[z] = NoCall
    BY <1>9, <2>3 DEF OnceInv
  <2>5. \A z \in Slots : calls'[z].kind = "create" /\ calls'[z].at = "sent" =>
           /\ ~IsListed(listed, calls'[z].row.draft)
           /\ \A w \in Slots : calls'[w].kind = "create" /\ calls'[w].at = "sent"
                               /\ calls'[w].row.draft = calls'[z].row.draft => w = z
    BY <1>9, <2>1, <2>2, <2>3 DEF OnceInv
  <2>6. \A z \in Slots : calls'[z].kind = "create" /\ calls'[z].row.draft = draft =>
           calls'[z].owner = "screen"
    BY <1>9, <2>2, <2>3
  <2> QED
    BY <1>4, <2>1, <2>4, <2>5, <2>6 DEF OnceInv, Made
<1> QED
  BY <1>8, <1>10, <1>12, <1>13, <1>14

-----------------------------------------------------------------------------
(* What the seller's phone keeps *)

\* A seller who has just signed in.
LEMMA InitSeller == SellerInit => SellerInv
<1> SUFFICES ASSUME SellerInit PROVE SellerInv
  OBVIOUS
<1>1. /\ hazards \in HazardCases /\ files = <<>> /\ listed = <<>>
      /\ stack = <<"home">> /\ form = Blank /\ shown = {} /\ draft = 0 /\ confirmed = {}
      /\ calls \in [Slots -> Call] /\ \A x \in Slots : calls[x] = NoCall
      /\ MaxFiles \in Nat /\ MaxListings \in Nat /\ MaxDrafts \in Nat
  BY NoCallIsCall, SellerAppAssumption DEF SellerInit
<1>2. /\ files \in Seq(Pictures) /\ listed \in Seq(Row)
      /\ Len(files) = 0 /\ Len(listed) = 0 /\ DOMAIN files = {} /\ DOMAIN listed = {}
  BY <1>1
<1>3. Top(stack) = "home" /\ stack \in Stacks /\ stack[1] = "home"
  BY <1>1, NewStacks
<1>4. Blank \in Form /\ Blank.sel = NoProduce /\ Blank.photos = {} /\ Blank.picked = {}
  BY DEF Blank, Form
<1>5. \A kind : Waiting(calls, kind) = {}
  BY <1>1, NoCallIsCall DEF Waiting
<1>6. SellerTypeOK
  BY <1>1, <1>2, <1>3, <1>4, StackForms DEF SellerTypeOK
<1>7. CallsInv
  BY <1>1, NoCallOK DEF CallsInv
<1>8. ListedInv /\ ConfirmedInv
  BY <1>1, <1>2 DEF ListedInv, ConfirmedInv, Made
<1>9. CountInv
  <2>1. SentCreates(calls) = {}
    BY <1>1, NoCallIsCall DEF SentCreates
  <2>2. Coming = Len(listed) + Cardinality(SentCreates(calls))
    BY DEF Coming, SentCreates
  <2>3. Cardinality(SentCreates(calls)) = 0
    BY <2>1, FS_EmptySet
  <2>4. Len(listed) = 0
    BY <1>2
  <2> QED
    BY <1>1, <2>2, <2>3, <2>4 DEF CountInv
<1>10. ScreenInv
  BY <1>1, <1>3, NoCallIsCall DEF ScreenInv
<1>11. FormInv
  BY <1>1, <1>4, <1>5 DEF FormInv, PhotosOK, Pics
<1>12. OnceInv /\ PatientInv /\ CleanInv
  BY <1>1, <1>2, <1>3, <1>5, NoCallIsCall DEF OnceInv, PatientInv, CleanInv, Made, IsListed
<1> QED
  BY <1>6, <1>7, <1>8, <1>9, <1>10, <1>11, <1>12 DEF SellerInv

\* Whatever the seller does and the API answers, in whatever order and however much
\* of it is lost: a call in flight means what it says of files and listings, the form
\* holds what was put in, and a screen waits for calls of its own.
THEOREM SellerInvariant == SellerSpec => []SellerInv
<1>1. SellerInit => SellerInv
  BY InitSeller
<1>2. SellerInv /\ [SellerNext]_sellerVars => SellerInv'
  <2> SUFFICES ASSUME SellerInv, [SellerNext]_sellerVars
               PROVE  SellerInv'
    OBVIOUS
  <2>0. SellerTypeOK /\ CallsInv /\ stack \in Stacks
    BY DEF SellerInv, ScreenInv
  <2>1. ASSUME SellerNext, UNCHANGED hazards PROVE SellerInv'
    <3>1. ASSUME NEW x \in Slots, Serve(x) PROVE SellerInv'
      BY <2>0, <2>1, <3>1, ServeServes, ServingKeeps
    <3>2. ASSUME NEW x \in Slots, Resume(x) PROVE SellerInv'
      <4>1. CASE calls[x].kind = "create"
        BY <2>0, <2>1, <3>2, <4>1, ResumeLists, ListingKeeps
      <4>2. CASE calls[x].kind # "create"
        BY <2>0, <2>1, <3>2, <4>2, ResumeEnds, EndingKeeps
      <4> QED
        BY <4>1, <4>2
    <3>3. ASSUME NEW x \in Slots, ReceiveRefusal(x) \/ Lose(x) PROVE SellerInv'
      BY <2>0, <2>1, <3>3, CatchEnds, EndingKeeps
    <3>4. CASE GoBack \/ \E name \in {"new", "listings"} : Open(name)
      BY <2>1, <3>4, ScreensKeep
    <3>5. CASE BackToGrid \/ \E i \in Produce : Choose(i)
      BY <2>1, <3>5, ChoosingKeeps
    <3>6. ASSUME NEW p \in Pictures, AddPhoto(p) PROVE SellerInv'
      BY <2>1, <3>6, AddPhotoKeeps
    <3>7. CASE Submit
      BY <2>1, <3>7, SubmitKeeps
    <3>8. CASE Refresh
      BY <2>1, <3>8, RefreshKeeps
    <3> QED
      BY <2>1, <3>1, <3>2, <3>3, <3>4, <3>5, <3>6, <3>7, <3>8 DEF SellerNext
  <2>2. CASE UNCHANGED sellerVars
    BY <2>2 DEF sellerVars, SellerInv, SellerTypeOK, CallsInv, ListedInv, CountInv, Coming,
       ConfirmedInv, ScreenInv, FormInv, OnceInv, PatientInv, CleanInv, Made
  <2> QED
    BY <2>1, <2>2 DEF SellerNext
<1> QED
  BY <1>1, <1>2, PTL DEF SellerSpec

\* Files, rows, calls and the form keep their types, and no more is listed than asked.
THEOREM SellerTypes == SellerSpec => []SellerTypeOK
<1>1. SellerInv => SellerTypeOK
  BY DEF SellerInv
<1> QED
  BY <1>1, SellerInvariant, PTL

\* A listing is what the seller put in, whatever calls go wrong, but for what each
\* hazard does: photos that exist, each once, all of them, of its produce; listed once.
THEOREM ListingsStayTrue == SellerSpec => []ListingsAreTheDrafts
<1>1. ASSUME SellerInv
      PROVE  ListingsAreTheDrafts
  <2>1. ASSUME NEW l \in Made
        PROVE  LET photos == listed[l].photos
                   row    == listed[l]
               IN  /\ photos \subseteq DOMAIN files
                   /\ \A f, g \in photos : files[f] = files[g] => f = g
                   /\ "impatient" \notin hazards => {files[f] : f \in photos} = row.meant
                   /\ "rethinks" \notin hazards => \A f \in photos : Shows[files[f]] = row.item
                   /\ "lost" \notin hazards => \A k \in Made : listed[k].draft = row.draft => k = l
    <3>1. RowOK(hazards, files, listed[l])
      BY <1>1 DEF SellerInv, ListedInv
    <3>2. "lost" \notin hazards => \A k \in Made : listed[k].draft = listed[l].draft => k = l
      BY <1>1 DEF SellerInv, OnceInv
    <3> QED
      BY <3>1, <3>2 DEF RowOK, PhotosOK, Pics
  <2> QED
    BY <2>1 DEF ListingsAreTheDrafts
<1> QED
  BY <1>1, SellerInvariant, PTL

\* "Listed!" is said of what is listed, the list shows all of it to a seller who waits
\* and loses nothing, and one who waits keeps the home and the form in hand.
THEOREM ListedStaysShown == SellerSpec => []ListedIsShown
<1>1. ASSUME SellerInv
      PROVE  ListedIsShown
  <2>1. \A d \in confirmed : \E l \in Made : listed[l].draft = d
    BY <1>1 DEF SellerInv, ConfirmedInv, IsListed, Made
  <2>2. Quiet /\ Top(stack) = "listings" /\ hazards \cap {"lost", "impatient"} = {} => shown = Made
    BY <1>1 DEF SellerInv, CleanInv, Waiting, Quiet
  <2>3. "impatient" \notin hazards => stack[1] = "home" /\ (draft \in confirmed => Top(stack) # "new")
    BY <1>1 DEF SellerInv, PatientInv
  <2> QED
    BY <2>1, <2>2, <2>3 DEF ListedIsShown
<1> QED
  BY <1>1, SellerInvariant, PTL
=============================================================================
