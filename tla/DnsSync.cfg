\* One zone, one name with two values, two devices that may have it, a request
\* beside the worker, and one failing call.
SPECIFICATION Spec
CONSTANTS
  Reqs = {"p"}
  Worker = "worker"
  Recs = {"r1", "r2"}
  Names = {"h"}
  Values = {"1", "2"}
  Devices = {"d1", "d2"}
  MaxRequests = 3
  MaxFaults = 1
CHECK_DEADLOCK FALSE
INVARIANT SyncedWasPublished
 
