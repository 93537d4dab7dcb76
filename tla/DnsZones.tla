------------------------------ MODULE DnsZones ------------------------------
(* DNS providers, the cache of provider clients, and zones.  Every check of a  *)
(* handler is a statement of its own, before the statement that writes; the    *)
(* constraints of the tables are what is left when requests overlap.  Records  *)
(* and the traffic with the DNS server are in DnsSync.                         *)
EXTENDS Naturals

CONSTANTS Reqs, Providers, Zones, Names, Networks,
          MaxRequests    \* bound on the requests of a behaviour

VARIABLES prov,      \* dns_provider_configs
          cache,     \* providerCache: the secret a cached client was made with
          zone,      \* dns_zones
          net,       \* networks
          overlap,   \* history: providers whose updates overlapped one another
                     \* or the making of a client
          req, count

vars == <<prov, cache, zone, net, overlap, req, count>>

None == "none"
NoProv == [st |-> "fresh", name |-> None, type |-> None, ver |-> 0]
NoZone == [st |-> "fresh", name |-> None, prov |-> None, net |-> None, ptr |-> None]
Idle == [pc |-> "idle", id |-> None, row |-> NoProv, new |-> FALSE]

GetDNSProvider(i) == prov[i]
GetDNSZone(z) == zone[z]
ProviderNamed(n) == {i \in Providers : prov[i].st = "live" /\ prov[i].name = n}
ZoneNamed(n) == {z \in Zones : zone[z].st = "live" /\ zone[z].name = n}
GetDNSZonesByProvider(i) == {z \in Zones : zone[z].st = "live" /\ zone[z].prov = i}

\* A request begins: its checks are done, what it read is kept.
Begin(p, what, x, row, new) ==
    /\ req[p] = Idle /\ count < MaxRequests /\ count' = count + 1
    /\ req' = [req EXCEPT ![p] = [pc |-> what, id |-> x, row |-> row, new |-> new]]
At(p, what) == req[p].pc = what
End(p) == req' = [req EXCEPT ![p] = Idle] /\ UNCHANGED count
Goto(p, what) == req' = [req EXCEPT ![p].pc = what] /\ UNCHANGED count

-----------------------------------------------------------------------------
(* Providers.  `ver` stands for the endpoint and the token.                    *)

CreateProvider(p, i) == \E n \in Names, t \in {"technitium", "bind"} :
    /\ prov[i].st = "fresh" /\ ProviderNamed(n) = {}
    /\ \A q \in Reqs : req[q].id # i
    /\ Begin(p, "createProvider", i, [st |-> "live", name |-> n, type |-> t, ver |-> count + 1], FALSE)
createDNSProvider(p, i) == CreateProvider(p, i) /\ UNCHANGED <<prov, cache, zone, net, overlap>>
createDNSProviderInTx(i, row) ==
    prov' = IF ProviderNamed(row.name) = {} THEN [prov EXCEPT ![i] = row] ELSE prov
CreateDNSProvider(p) ==
    /\ At(p, "createProvider") /\ End(p)
    /\ createDNSProviderInTx(req[p].id, req[p].row)
    /\ UNCHANGED <<cache, zone, net, overlap>>

\* Mutant: a new secret does not drop the cached client.
UpdateProviderKeep(p, i, n, t, new) ==
    /\ GetDNSProvider(i).st = "live" /\ ProviderNamed(n) \subseteq {i}
    /\ Begin(p, "updateProvider", i, [st |-> "live", name |-> n, type |-> t,
                                      ver |-> IF new THEN count + 1 ELSE prov[i].ver], new)
    /\ UNCHANGED cache
\* The row as read, with the fields that are given; a new endpoint or token
\* drops the cached client, a new name or type does not.
UpdateProvider(p, i, n, t, new) ==
    /\ GetDNSProvider(i).st = "live" /\ ProviderNamed(n) \subseteq {i}
    /\ Begin(p, "updateProvider", i, [st |-> "live", name |-> n, type |-> t,
                                      ver |-> IF new THEN count + 1 ELSE prov[i].ver], new)
    /\ cache' = IF new THEN [cache EXCEPT ![i] = 0] ELSE cache
updateDNSProvider(p, i) == \E n \in Names, t \in {"technitium", "bind"}, new \in BOOLEAN :
    UpdateProvider(p, i, n, t, new) /\ UNCHANGED <<prov, zone, net, overlap>>
\* The tool always gives a name and a type.
handleDNSProviderSave(p, i) == createDNSProvider(p, i) \/ updateDNSProvider(p, i)
UpdateDNSProvider(p) ==
    LET i == req[p].id
        writes == prov[i].st = "live" /\ ProviderNamed(req[p].row.name) \subseteq {i}
    IN  /\ At(p, "updateProvider") /\ End(p)
        /\ prov' = IF writes THEN [prov EXCEPT ![i] = req[p].row] ELSE prov
        /\ overlap' = IF writes /\ ~req[p].new /\ req[p].row.ver # prov[i].ver
                      THEN overlap \cup {i} ELSE overlap
        /\ UNCHANGED <<cache, zone, net>>

\* DeleteProvider: no zone may use it; the DELETE cascades; the cache entry goes.
DeleteProvider(p, i) ==
    /\ prov[i].st = "live" /\ GetDNSZonesByProvider(i) = {}
    /\ Begin(p, "deleteProvider", i, NoProv, FALSE)
deleteDNSProvider(p, i) == DeleteProvider(p, i) /\ UNCHANGED <<prov, cache, zone, net, overlap>>
\* FOREIGN KEY (provider_id) ... ON DELETE CASCADE.
CascadeZones(i) == [z \in Zones |-> IF z \in GetDNSZonesByProvider(i)
                                    THEN [NoZone EXCEPT !.st = "gone"] ELSE zone[z]]
DeleteDNSProvider(p) ==
    LET i == req[p].id
    IN  /\ At(p, "deleteProvider")
        /\ IF prov[i].st = "live"
           THEN /\ prov' = [prov EXCEPT ![i] = [NoProv EXCEPT !.st = "gone"]]
                /\ zone' = CascadeZones(i) /\ Goto(p, "dropClient")
           ELSE UNCHANGED <<prov, zone>> /\ End(p)
        /\ UNCHANGED <<cache, net, overlap>>
DropClient(p) ==
    /\ At(p, "dropClient") /\ End(p)
    /\ cache' = [cache EXCEPT ![req[p].id] = 0]
    /\ UNCHANGED <<prov, zone, net, overlap>>

\* getProvider on a miss: the configuration is read, then a client is cached.
\* Every sync, import and test of a provider begins here.
testDNSProvider(p, i) ==
    /\ cache[i] = 0 /\ prov[i].st = "live" /\ prov[i].type = "technitium"
    /\ Begin(p, "client", i, prov[i], FALSE)
    /\ UNCHANGED <<prov, cache, zone, net, overlap>>
getProvider(p) ==
    LET i == req[p].id
    IN  /\ At(p, "client") /\ End(p)
        /\ cache' = [cache EXCEPT ![i] = req[p].row.ver]
        /\ overlap' = IF \/ prov[i].ver # req[p].row.ver
                         \/ \E q \in Reqs : At(q, "updateProvider") /\ req[q].id = i
                      THEN overlap \cup {i} ELSE overlap
        /\ UNCHANGED <<prov, zone, net>>

-----------------------------------------------------------------------------
(* Zones.                                                                      *)

ZoneRefs(row) == /\ row.prov \in Providers /\ prov[row.prov].st = "live"
                 /\ row.net # None => net[row.net] = "live"

CreateZone(p, z) ==
    \E n \in Names, i \in Providers, w \in Networks \cup {None}, t \in Names \cup {None} :
        LET row == [st |-> "live", name |-> n, prov |-> i, net |-> w, ptr |-> t]
        IN  /\ zone[z].st = "fresh" /\ ZoneNamed(n) = {} /\ ZoneRefs(row)
            /\ \A q \in Reqs : req[q].id # z
            /\ Begin(p, "createZone", z, row, FALSE)
createDNSZone(p, z) == CreateZone(p, z) /\ UNCHANGED <<prov, cache, zone, net, overlap>>
createDNSZoneInTx(z, row) ==
    zone' = IF ZoneNamed(row.name) = {} /\ ZoneRefs(row) THEN [zone EXCEPT ![z] = row] ELSE zone
CreateDNSZone(p) ==
    /\ At(p, "createZone") /\ End(p)
    /\ createDNSZoneInTx(req[p].id, req[p].row)
    /\ UNCHANGED <<prov, cache, net, overlap>>

UpdateZone(p, z, n, w, t) ==
    /\ GetDNSZone(z).st = "live" /\ ZoneNamed(n) \subseteq {z}
    /\ w \notin {None, GetDNSZone(z).net} => net[w] = "live"
    /\ Begin(p, "updateZone", z, [GetDNSZone(z) EXCEPT !.name = n, !.net = w, !.ptr = t], FALSE)
updateDNSZone(p, z) == \E n \in Names, w \in Networks \cup {None}, t \in Names \cup {zone[z].ptr} :
    UpdateZone(p, z, n, w, t) /\ UNCHANGED <<prov, cache, zone, net, overlap>>
\* The tool gives a name, and cannot take the network away.
handleDNSZoneSave(p, z) ==
    \/ createDNSZone(p, z)
    \/ \E n \in Names, w \in Networks \cup {zone[z].net}, t \in Names \cup {zone[z].ptr} :
         UpdateZone(p, z, n, w, t) /\ UNCHANGED <<prov, cache, zone, net, overlap>>
UpdateDNSZone(p) ==
    LET z == req[p].id
        row == req[p].row
    IN  /\ At(p, "updateZone") /\ End(p)
        /\ zone' = IF /\ zone[z].st = "live" /\ ZoneRefs(row)
                      /\ ZoneNamed(row.name) \subseteq {z}
                   THEN [zone EXCEPT ![z] = row] ELSE zone
        /\ UNCHANGED <<prov, cache, net, overlap>>

\* DeleteZone: the zone, then the zone its ptr_zone names when it has the same
\* provider as the zone had when it was read.
DeleteZone(p, z) ==
    GetDNSZone(z).st = "live" /\ Begin(p, "deleteZone", z, GetDNSZone(z), FALSE)
deleteDNSZone(p, z) == DeleteZone(p, z) /\ UNCHANGED <<prov, cache, zone, net, overlap>>
deleteDNSZoneInTx(z) == zone' = [zone EXCEPT ![z] = [NoZone EXCEPT !.st = "gone"]]
DeleteDNSZone(p) ==
    LET z == req[p].id
    IN  /\ At(p, "deleteZone")
        /\ IF zone[z].st = "live"
           THEN /\ deleteDNSZoneInTx(z)
                /\ IF req[p].row.ptr = None THEN End(p) ELSE Goto(p, "findPTRZone")
           ELSE UNCHANGED zone /\ End(p)
        /\ UNCHANGED <<prov, cache, net, overlap>>
FindPTRZone(p) ==
    LET found == {z \in ZoneNamed(req[p].row.ptr) : zone[z].prov = req[p].row.prov}
    IN  /\ At(p, "findPTRZone")
        /\ IF found = {} THEN End(p)
           ELSE \E z \in found : /\ req' = [req EXCEPT ![p].pc = "deletePTRZone", ![p].id = z]
                                 /\ UNCHANGED count
        /\ UNCHANGED <<prov, cache, zone, net, overlap>>
DeletePTRZone(p) ==
    LET z == req[p].id
    IN  /\ At(p, "deletePTRZone") /\ End(p)
        /\ IF zone[z].st = "live" THEN deleteDNSZoneInTx(z) ELSE UNCHANGED zone
        /\ UNCHANGED <<prov, cache, net, overlap>>

\* deleteNetworkInTx; FOREIGN KEY (network_id) ... ON DELETE SET NULL.
deleteNetwork(w) ==
    /\ net[w] = "live" /\ net' = [net EXCEPT ![w] = "gone"]
    /\ count < MaxRequests /\ count' = count + 1
    /\ zone' = [z \in Zones |-> IF zone[z].net = w THEN [zone[z] EXCEPT !.net = None] ELSE zone[z]]
    /\ UNCHANGED <<prov, cache, overlap, req>>

-----------------------------------------------------------------------------
Init ==
    /\ prov = [i \in Providers |-> NoProv] /\ cache = [i \in Providers |-> 0]
    /\ zone = [z \in Zones |-> NoZone] /\ net = [w \in Networks |-> "live"]
    /\ overlap = {} /\ req = [p \in Reqs |-> Idle] /\ count = 0
Next ==
    \/ \E p \in Reqs :
         \/ \E i \in Providers : \/ createDNSProvider(p, i) \/ updateDNSProvider(p, i)
                                 \/ handleDNSProviderSave(p, i)
                                 \/ deleteDNSProvider(p, i) \/ testDNSProvider(p, i)
         \/ \E z \in Zones : \/ createDNSZone(p, z) \/ updateDNSZone(p, z) \/ deleteDNSZone(p, z)
                             \/ handleDNSZoneSave(p, z)
         \/ CreateDNSProvider(p) \/ UpdateDNSProvider(p) \/ DeleteDNSProvider(p) \/ DropClient(p)
         \/ getProvider(p) \/ CreateDNSZone(p) \/ UpdateDNSZone(p)
         \/ DeleteDNSZone(p) \/ FindPTRZone(p) \/ DeletePTRZone(p)
    \/ \E w \in Networks : deleteNetwork(w)
Spec == Init /\ [][Next]_vars

-----------------------------------------------------------------------------
(* Properties.                                                                 *)

\* A cached client has the endpoint and token of the stored provider, unless
\* updates of the provider overlapped or a client was made during one.
ClientsAreCurrent == \A i \in Providers :
    prov[i].st = "live" /\ cache[i] # 0 /\ i \notin overlap
    /\ ~(\E p \in Reqs : At(p, "updateProvider") /\ req[p].id = i) => cache[i] = prov[i].ver
=============================================================================
