CONSTANTS
  n1 = n1  p1 = p1  d1 = d1
  r1 = r1  r2 = r2  t1 = t1  t2 = t2
  Networks = {n1}
  Pools = {p1}
  Devices = {}
  Rids = {r1, r2}
  Procs = {t1}
  NoPool = NoPool
  NoRid = NoRid
  MaxIP = 3
  Ranges <- MCRanges
  MaxAddrs = 1
  MaxRetries = 5
  MaxNow = 0
SPECIFICATION Spec
INVARIANT GivesUpOnlyWhenFull
CHECK_DEADLOCK FALSE
