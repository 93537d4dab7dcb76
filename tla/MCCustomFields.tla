--------------------------- MODULE MCCustomFields ---------------------------
(* Two tables of definitions that other rows depend on, one of them per        *)
(* behaviour: CustomFields runs, or DnsZones does, and the variables of the    *)
(* other stay as they began.                                                   *)
EXTENDS FieldTables, ZoneTables, TLC

VARIABLE which

fVars == <<defs, dev, val, given, fReq, fCount>>
zVars == <<prov, cache, zones, net, overlap, zReq, zCount>>

MCInit == which \in {"fields", "zones"} /\ F!Init /\ Z!Init

MCNext ==
  /\ UNCHANGED which
  /\ \/ which = "fields" /\ F!Next /\ UNCHANGED zVars
     \/ which = "zones" /\ Z!Next /\ UNCHANGED fVars

MCSpec == MCInit /\ [][MCNext]_<<which, fVars, zVars>>

Sym == UNION {Permutations(FieldReqs), Permutations(Fields), Permutations(ZoneReqs),
              Permutations(Providers), Permutations(Zones), Permutations(ZoneNames)}
=============================================================================
