SPECIFICATION MCSpec
CONSTANTS
  d1 = d1  d2 = d2  d3 = d3  e1 = e1  e2 = e2  x = x  y = y  n1 = n1  n2 = n2
  wide = wide  apart = apart
  k1 = k1  k2 = k2  p1 = p1  q1 = q1  q2 = q2  None = None  Gone = Gone
  Overlap <- MCOverlap
  Devices = {d1, d2, d3}
  IPs = {x, y}
  Networks = {n1, n2}
  Subnets = {wide, apart}
  Cids = {k1, k2}
  Procs = {p1}
  MaxSame = 1
  PageLimit = 3
  Wired = TRUE
CHECK_DEADLOCK FALSE
SYMMETRY MCSymmetry
INVARIANTS OneActiveWhenAlone 
  
