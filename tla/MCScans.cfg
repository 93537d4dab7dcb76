SPECIFICATION MCSpec
CONSTANTS
  Scans = {"s1"}
  Cancels = {"c1"}
  NHosts = 3
  Workers = 2
CHECK_DEADLOCK FALSE
INVARIANTS FoundIsExact NoDuplicateUnlessBoth
PROPERTIES OverIsOver ScanEnds
