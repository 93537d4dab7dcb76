SPECIFICATION Spec
CONSTANTS
  Reqs = {p, q}
  Datacenters = {c1, c2}
  Networks = {"n1"}
  Pools = {"o1"}
  Devices = {d, e}
  Circuits = {"k1"}
  Mappings = {"m1"}
  Tags = {"t"}
  MaxRequests = 3
SYMMETRY Sym
CHECK_DEADLOCK FALSE
INVARIANTS ReferencesResolve 
 
