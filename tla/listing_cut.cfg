SPECIFICATION Spec
CONSTANTS
  Kinds = {"user"}
  MaxSubs = 1
  MaxEvents = 1
  MaxSeats = 1
  Callers = {c1}
  ListingFails = TRUE
PROPERTY FailureNeverDowngrades
CHECK_DEADLOCK FALSE
