\* A client lists rows while others insert and change them.
SPECIFICATION PSpec
CONSTANTS
  Values = {"captured", "failed"}
  Limits = {0, 1, 2, 4}
  DefaultLimit = 3
  MaxLimit = 3
  MaxRows = 5
INVARIANTS ListingIsComplete ListingIsOrdered
PROPERTIES ListingEnds
CHECK_DEADLOCK FALSE
