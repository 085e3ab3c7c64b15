\* Two produce, a picture of each, two drafts.
CONSTANTS
  tomato = tomato  okra = okra  p1 = p1  p2 = p2
  Produce = {tomato, okra}
  NoProduce = NoProduce
  Pictures = {p1, p2}
  Shows <- ShowsProduce
  NoPicture = NoPicture
  MaxFiles = 2
  MaxListings = 2
  MaxCalls = 2
  MaxDrafts = 2
  HazardCases <- SomeCases
SPECIFICATION SellerSpec
INVARIANTS SellerTypeOK ListingsAreTheDrafts ListedIsShown
PROPERTIES SpinnersStop
