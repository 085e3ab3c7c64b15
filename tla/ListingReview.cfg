\* Two sellers' listings, two reviews at a time; the request l3 is refused for its MOQ.
CONSTANTS
  l1 = l1  l2 = l2  l3 = l3  b1 = b1  b2 = b2  r1 = r1  r2 = r2
  Listings = {l1, l2, l3}
  Payout <- ThreePayout
  Moq <- ThreeMoq
  Stock <- ThreeStock
  Buyers = {b1, b2}
  Reviews = {r1, r2}
  Margins = {0, 100}
  Fees = {5}
  NoListing = NoListing
SPECIFICATION Spec
SYMMETRY Symmetry
INVARIANTS TypeOK PricePaidWasShown CatalogueIsSound
PROPERTIES DecisionsAreFinal
