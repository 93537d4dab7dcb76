SPECIFICATION MCSpec
CONSTANTS
  Width = 3
  Base = 2
  MaxIPs = 4
  Rids = {"r1", "r2"}
  Procs = {"t1", "t2"}
  MaxRetries = 2
  MaxNow = 1
CHECK_DEADLOCK FALSE
INVARIANTS FindsFirstUnused HeatmapIsRange
PROPERTIES LoopEnds CreateIsAnswered
