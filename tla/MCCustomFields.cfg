SPECIFICATION MCSpec
SYMMETRY Sym
CONSTANTS
  FieldReqs = {p, q}
  Devices = {"d"}
  Fields = {f, g}
  FieldKeys = {"a", "b"}
  Options = {"red", "blue"}
  MaxFieldRequests = 5
  ZoneReqs = {p, q}
  Providers = {i, j}
  Zones = {y, z}
  ZoneNames = {a, b}
  Networks = {"w"}
  MaxZoneRequests = 4
CHECK_DEADLOCK FALSE
INVARIANTS NeverAnOldValue ClientsAreCurrent
PROPERTY UpdateKeepsFields
