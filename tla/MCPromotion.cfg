SPECIFICATION MCSpec
CONSTANTS
  Networks = {"n1"}
  Addresses = {"h1"}
  Discovered = {"d1", "d2"}
  Devices = {"x1", "x2"}
  Rules = {"u1", "u2"}
  Requests = {"p", "q"}
  MaxScans = 1
  MaxCrashes = 1
CHECK_DEADLOCK FALSE
INVARIANT PromotedAreNamed
PROPERTY OldRowsLeave
