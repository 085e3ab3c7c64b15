\* Two values and none, two calls at a time.
CONSTANTS
  blank = blank  v1 = v1  v2 = v2
  Values = {blank, v1, v2}
  Blank = blank
  Preset = v1
  MaxRequests = 2
  HazardCases <- EachCase
SPECIFICATION ProfileSpec
INVARIANT ProfileTypeOK
PROPERTIES SaveChangesWhatWasTyped HomeLeadsOn
