SPECIFICATION SuiteSpec
CONSTANTS
  c1 = c1
  c2 = c2
  u1 = u1
  u2 = u2
  u3 = u3
  o1 = o1
  o2 = o2
  none = none
  Users = {u1, u2, u3}
  Orgs = {o1, o2}
  Founder <- Founders
  Roster <- Rosters
  MaxSeats = 2
  Callers = {c1, c2}
  MaxCalls = 3
 
PROPERTIES SeatsRespected RepairsSettle  SummariesSettle JobsEnd StaysOnline RunningIsListed PinReleased
CHECK_DEADLOCK FALSE
