CONSTANTS
  n1 = n1  p1 = p1  d1 = d1
  r1 = r1  r2 = r2  t1 = t1  t2 = t2
  Networks = {n1}
  Pools = {p1}
  Devices = {d1}
  Rids = {r1, r2}
  Procs = {t1, t2}
  NoPool = NoPool
  NoRid = NoRid
  MaxIP = 2
  Ranges <- MCRanges
  MaxAddrs = 1
  MaxRetries = 2
  MaxNow = 1
SYMMETRY MCSymmetry
SPECIFICATION Spec
CHECK_DEADLOCK FALSE
INVARIANT OneActivePerIP
PROPERTIES NewReservationFits ImplementsLedger
