------------------------------ MODULE Inventory ------------------------------
(* The inventory: datacenters, networks, devices with their addresses and      *)
(* tags, relationships, circuits and NAT mappings.  Handlers that patch a row  *)
(* read it in one step and write the whole row back in another; the deletion   *)
(* of a datacenter is three statements outside a transaction; everything else  *)
(* is one transaction.  A storage operator returns what its statements leave   *)
(* behind, also when one of them fails: a single request rolls that back, a    *)
(* bulk request commits it.  The pool and reservation endpoints are in Ipam,   *)
(* custom field values in CustomFields, permissions in Access.                 *)
EXTENDS Naturals, Sequences

CONSTANTS Reqs, Datacenters, Networks, Pools, Devices, Circuits, Mappings, Tags,
          MaxRequests    \* bound on the requests of a behaviour

VARIABLES db,      \* the tables
          req,     \* requests between two of their steps
          count,   \* requests begun
          report   \* the last BulkResult: what was asked and who succeeded

vars == <<db, req, count, report>>

None == "none"
\* NULL is no identifier.
ASSUME NullAssumption == None \notin Datacenters \cup Networks \cup Pools \cup Devices

Statuses == {"active", "maintenance"}
\* The addresses requests give; a device has at most one here.
Addresses == [net : Networks, pool : Pools \cup {None}]

Live(d, table, x) == x # None /\ d[table][x].st = "live"
\* A foreign key column is NULL or names a row.
Ref(d, table, x) == x = None \/ Live(d, table, x)
Blank == [dc  |-> [st |-> "fresh", name |-> None],
          net |-> [st |-> "fresh", dc |-> None],
          pool |-> [st |-> "fresh", net |-> None],
          dev |-> [st |-> "fresh", dc |-> None, addrs |-> {}, tags |-> {},
                   status |-> None],
          cir |-> [st |-> "fresh", devs |-> {}, dcs |-> {}],
          nat |-> [st |-> "fresh", dev |-> None, dc |-> None, net |-> None]]
Gone(table) == [Blank[table] EXCEPT !.st = "gone"]
Failed(d) == [ok |-> FALSE, db |-> d]
Done(d) == [ok |-> TRUE, db |-> d]

-----------------------------------------------------------------------------
(* Devices in the store.                                                       *)

GetDevice(x) == db.dev[x]

insertDeviceAddresses(d, x, as) ==
    IF \A a \in as : Ref(d, "net", a.net) /\ Ref(d, "pool", a.pool)
    THEN Done([d EXCEPT !.dev[x].addrs = as])
    ELSE Failed(d)

insertDeviceTags(d, x, ts) == Done([d EXCEPT !.dev[x].tags = ts])

insertDeviceRows(d, x, in) ==
    LET addressed == insertDeviceAddresses(d, x, in.addrs)
    IN  IF addressed.ok THEN insertDeviceTags(addressed.db, x, in.tags) ELSE addressed

createDeviceInTx(d, x, in) ==
    IF Live(d, "dev", x) \/ ~Ref(d, "dc", in.dc) THEN Failed(d)
    ELSE insertDeviceRows(
           [d EXCEPT !.dev[x] = [st |-> "live", dc |-> in.dc, addrs |-> {}, tags |-> {},
                                 status |-> IF in.status = None THEN "active" ELSE in.status]],
           x, in)

\* The row, then its addresses and tags deleted and inserted anew.
updateDeviceInTx(d, x, in) ==
    IF ~Live(d, "dev", x) \/ ~Ref(d, "dc", in.dc) THEN Failed(d)
    ELSE insertDeviceRows(
           [d EXCEPT !.dev[x] = [st |-> "live", dc |-> in.dc, addrs |-> {}, tags |-> {},
                                 status |-> IF in.status = None THEN @.status ELSE in.status]],
           x, in)

\* Mutant: circuits go with a device they end at (ON DELETE CASCADE).
deleteDeviceInTxCascade(d, x) ==
    IF ~Live(d, "dev", x) THEN Failed(d)
    ELSE Done([d EXCEPT
           !.dev[x] = Gone("dev"), !.rel = {r \in @ : x \notin {r.parent, r.child}},
           !.cir = [c \in Circuits |-> IF x \in @[c].devs THEN Gone("cir") ELSE @[c]],
           !.nat = [m \in Mappings |-> IF @[m].dev = x THEN [@[m] EXCEPT !.dev = None] ELSE @[m]]])
\* Addresses, tags and relationships go with the device; circuits and NAT
\* mappings lose the reference.
deleteDeviceInTx(d, x) ==
    IF ~Live(d, "dev", x) THEN Failed(d)
    ELSE Done([d EXCEPT
           !.dev[x] = Gone("dev"), !.rel = {r \in @ : x \notin {r.parent, r.child}},
           !.cir = [c \in Circuits |-> [d.cir[c] EXCEPT !.devs = @ \ {x}]],
           !.nat = [m \in Mappings |-> IF @[m].dev = x THEN [@[m] EXCEPT !.dev = None] ELSE @[m]]])

-----------------------------------------------------------------------------
(* Networks, datacenters, relationships, circuits and mappings in the store.   *)

createNetworkInTx(d, n, dc) ==
    IF Live(d, "net", n) \/ ~Ref(d, "dc", dc) THEN Failed(d)
    ELSE Done([d EXCEPT !.net[n] = [st |-> "live", dc |-> dc]])

UpdateNetwork(d, n, dc) ==
    IF ~Live(d, "net", n) \/ ~Ref(d, "dc", dc) THEN Failed(d)
    ELSE Done([d EXCEPT !.net[n].dc = dc])

PoolsOf(d, n) == {p \in Pools : Live(d, "pool", p) /\ d.pool[p].net = n}
\* UPDATE addresses SET network_id = NULL.
UnlinkAddresses(d, n) ==
    [d EXCEPT !.dev = [x \in Devices |-> [d.dev[x] EXCEPT !.addrs =
        {IF a.net = n THEN [a EXCEPT !.net = None] ELSE a : a \in @}]]]
\* Addresses still name their pool: the DELETE of a pool in use fails.
deleteNetworkInTx(d, n) ==
    LET unlinked == UnlinkAddresses(d, n)
        gone == PoolsOf(d, n)
    IN  IF ~Live(d, "net", n) THEN Failed(d)
        ELSE IF \E x \in Devices : \E a \in d.dev[x].addrs : a.pool \in gone
        THEN Failed(unlinked)
        ELSE Done([unlinked EXCEPT
               !.net[n] = Gone("net"),
               !.pool = [p \in Pools |-> IF p \in gone THEN Gone("pool") ELSE @[p]],
               !.nat = [m \in Mappings |-> IF @[m].net = n THEN [@[m] EXCEPT !.net = None]
                                           ELSE @[m]]])

CreateDatacenter(d, c, name) ==
    IF Live(d, "dc", c) THEN Failed(d)
    ELSE Done([d EXCEPT !.dc[c] = [st |-> "live", name |-> name]])
UpdateDatacenter(d, c, name) ==
    IF ~Live(d, "dc", c) THEN Failed(d) ELSE Done([d EXCEPT !.dc[c].name = name])

\* The three statements of DeleteDatacenter.
UnlinkDevices(d, c) ==
    [d EXCEPT !.dev = [x \in Devices |-> IF @[x].dc = c THEN [@[x] EXCEPT !.dc = None]
                                         ELSE @[x]]]
Dependent(d, c) == {x \in Devices : Live(d, "dev", x) /\ d.dev[x].dc = c}
\* Mutant: foreign keys are not enforced.
DeleteDatacenterRowAny(d, c) == Done([d EXCEPT !.dc[c] = Gone("dc")])
\* Devices and networks restrict the deletion, circuits and mappings do not.
DeleteDatacenterRow(d, c) ==
    IF Dependent(d, c) # {} \/ \E n \in Networks : Live(d, "net", n) /\ d.net[n].dc = c
    THEN Failed(d)
    ELSE Done([d EXCEPT
           !.dc[c] = Gone("dc"),
           !.cir = [k \in Circuits |-> [d.cir[k] EXCEPT !.dcs = @ \ {c}]],
           !.nat = [m \in Mappings |-> IF @[m].dc = c THEN [@[m] EXCEPT !.dc = None] ELSE @[m]]])

AddRelationship(d, x, y, note) ==
    IF ~Live(d, "dev", x) \/ ~Live(d, "dev", y) THEN Failed(d)
    ELSE Done([d EXCEPT !.rel = {r \in @ : <<r.parent, r.child>> # <<x, y>>}
                                \cup {[parent |-> x, child |-> y, notes |-> note]}])
RemoveRelationship(d, x, y) ==
    Done([d EXCEPT !.rel = {r \in @ : <<r.parent, r.child>> # <<x, y>>}])
UpdateRelationshipNotes(d, x, y, note) ==
    Done([d EXCEPT !.rel = {IF <<r.parent, r.child>> = <<x, y>>
                            THEN [r EXCEPT !.notes = note] ELSE r : r \in @}])

CircuitRefs(d, in) == /\ \A x \in in.devs : Live(d, "dev", x)
                      /\ \A c \in in.dcs : Live(d, "dc", c)
CreateCircuit(d, k, in) ==
    IF Live(d, "cir", k) \/ ~CircuitRefs(d, in) THEN Failed(d)
    ELSE Done([d EXCEPT !.cir[k] = [st |-> "live", devs |-> in.devs, dcs |-> in.dcs]])
GetCircuit(k) == db.cir[k]
UpdateCircuit(d, k, in) ==
    IF ~Live(d, "cir", k) \/ ~CircuitRefs(d, in) THEN Failed(d)
    ELSE Done([d EXCEPT !.cir[k] = in])
DeleteCircuit(d, k) ==
    IF ~Live(d, "cir", k) THEN Failed(d) ELSE Done([d EXCEPT !.cir[k] = Gone("cir")])

MappingRefs(d, in) == Ref(d, "dev", in.dev) /\ Ref(d, "dc", in.dc) /\ Ref(d, "net", in.net)
CreateNATMapping(d, m, in) ==
    IF Live(d, "nat", m) \/ ~MappingRefs(d, in) THEN Failed(d)
    ELSE Done([d EXCEPT !.nat[m] = [st |-> "live", dev |-> in.dev, dc |-> in.dc, net |-> in.net]])
GetNATMapping(m) == db.nat[m]
UpdateNATMapping(d, m, in) ==
    IF ~Live(d, "nat", m) \/ ~MappingRefs(d, in) THEN Failed(d)
    ELSE Done([d EXCEPT !.nat[m] = in])
DeleteNATMapping(d, m) ==
    IF ~Live(d, "nat", m) THEN Failed(d) ELSE Done([d EXCEPT !.nat[m] = Gone("nat")])

-----------------------------------------------------------------------------
(* Requests.  A request of one transaction either commits or changes nothing;  *)
(* a refused one is not represented.                                           *)

Idle == [pc |-> "idle", id |-> None, row |-> Blank.dc]
NoReport == [op |-> None, done |-> {}, in |-> Blank.dev]

Start == count < MaxRequests /\ count' = count + 1
Commit(result) == result.ok /\ db' = result.db /\ UNCHANGED req /\ report' = NoReport
\* The handler has read a row, patched it, and will write it back.
Hold(p, what, x, row) ==
    /\ req[p] = Idle
    /\ req' = [req EXCEPT ![p] = [pc |-> what, id |-> x, row |-> row]]
    /\ UNCHANGED <<db, report>>
\* The write back; when it is refused the request answers an error.
Finish(p, result) ==
    /\ req' = [req EXCEPT ![p] = Idle]
    /\ db' = IF result.ok THEN result.db ELSE db
    /\ report' = NoReport /\ UNCHANGED count

DeviceBodies == [dc : Datacenters \cup {None}, status : {None}, tags : {Tags},
                 addrs : {{}} \cup {{a} : a \in Addresses}]

DeviceCreate(x, in) == Commit(createDeviceInTx(db, x, in))
\* The store generates the id of a device.
createDevice(x) == \E in \in DeviceBodies : db.dev[x].st = "fresh" /\ Start /\ DeviceCreate(x, in)
DeviceDelete(x) == Commit(deleteDeviceInTx(db, x))
deleteDevice(x) == Start /\ DeviceDelete(x)
\* The device as read with the fields the body names replaced.
Patched(x) ==
    LET row == GetDevice(x)
    IN  {row} \cup {[row EXCEPT !.dc = c] : c \in Datacenters \cup {None}}
              \cup {[row EXCEPT !.status = s] : s \in Statuses}
              \cup {[row EXCEPT !.tags = t] : t \in SUBSET Tags}
              \cup {[row EXCEPT !.addrs = a] : a \in {b.addrs : b \in DeviceBodies}}
updateDevice(p, x) == /\ Live(db, "dev", x) /\ Start
                      /\ \E row \in Patched(x) : Hold(p, "device", x, row)
DeviceUpdate(p) == /\ req[p].pc = "device"
                   /\ Finish(p, updateDeviceInTx(db, req[p].id, req[p].row))

NetworkCreate(n, dc) == Commit(createNetworkInTx(db, n, dc))
createNetwork(n) == \E dc \in Datacenters \cup {None} :
                        db.net[n].st = "fresh" /\ Start /\ NetworkCreate(n, dc)
updateNetwork(p, n) == /\ Live(db, "net", n) /\ Start
                       /\ \E dc \in Datacenters \cup {None} :
                            Hold(p, "network", n, [db.net[n] EXCEPT !.dc = dc])
NetworkUpdate(p) == /\ req[p].pc = "network"
                    /\ Finish(p, UpdateNetwork(db, req[p].id, req[p].row.dc))
NetworkDelete(n) == Commit(deleteNetworkInTx(db, n))
deleteNetwork(n) == Start /\ NetworkDelete(n)

DatacenterCreate(c, name) == Commit(CreateDatacenter(db, c, name))
createDatacenter(c) == db.dc[c].st = "fresh" /\ Start /\ DatacenterCreate(c, "first")
updateDatacenter(p, c) == /\ Live(db, "dc", c) /\ Start
                          /\ Hold(p, "datacenter", c, [db.dc[c] EXCEPT !.name = "second"])
DatacenterUpdate(p) == /\ req[p].pc = "datacenter"
                       /\ Finish(p, UpdateDatacenter(db, req[p].id, req[p].row.name))
\* The checks; the UPDATE of the devices, when the count was not zero; the DELETE.
deleteDatacenter(p, c) ==
    /\ Live(db, "dc", c) /\ Start
    /\ Hold(p, IF Dependent(db, c) # {} THEN "unlink" ELSE "delete", c, Blank.dc)
DatacenterUnlink(p) ==
    /\ req[p].pc = "unlink"
    /\ db' = UnlinkDevices(db, req[p].id)
    /\ req' = [req EXCEPT ![p].pc = "delete"]
    /\ report' = NoReport /\ UNCHANGED count
DatacenterDelete(p) == /\ req[p].pc = "delete"
                       /\ Finish(p, DeleteDatacenterRow(db, req[p].id))

RelationshipAdd(x, y, note) == Commit(AddRelationship(db, x, y, note))
addRelationship(x, y) == Start /\ RelationshipAdd(x, y, "n")
Related(x, y) == \E r \in db.rel : r.parent = x /\ r.child = y
removeRelationship(x, y) == Related(x, y) /\ Start /\ Commit(RemoveRelationship(db, x, y))
updateRelationshipNotes(x, y) ==
    Related(x, y) /\ Start /\ Commit(UpdateRelationshipNotes(db, x, y, ""))

CircuitBodies == [devs : {{x} : x \in Devices}, dcs : {{c} : c \in Datacenters}]
CircuitCreate(k, in) == Commit(CreateCircuit(db, k, in))
createCircuit(k) == \E in \in CircuitBodies :
                        db.cir[k].st = "fresh" /\ Start /\ CircuitCreate(k, in)
\* CircuitService.Update reads the row and applies the fields that are given.
CircuitUpdate(p, k) ==
    \/ \E s \in SUBSET Devices : Hold(p, "circuit", k, [GetCircuit(k) EXCEPT !.devs = s])
    \/ \E s \in SUBSET Datacenters : Hold(p, "circuit", k, [GetCircuit(k) EXCEPT !.dcs = s])
updateCircuit(p, k) == Live(db, "cir", k) /\ Start /\ CircuitUpdate(p, k)
CircuitWrite(p) == /\ req[p].pc = "circuit"
                   /\ Finish(p, UpdateCircuit(db, req[p].id, req[p].row))
deleteCircuit(k) == Start /\ Commit(DeleteCircuit(db, k))

MappingBodies == [dev : Devices, dc : Datacenters, net : Networks]
NATCreate(m, in) == Commit(CreateNATMapping(db, m, in))
createNATMapping(m) == \E in \in MappingBodies :
                           db.nat[m].st = "fresh" /\ Start /\ NATCreate(m, in)
NATUpdate(p, m) ==
    LET row == GetNATMapping(m)
    IN  \/ \E x \in Devices \cup {None} : Hold(p, "nat", m, [row EXCEPT !.dev = x])
        \/ \E c \in Datacenters \cup {None} : Hold(p, "nat", m, [row EXCEPT !.dc = c])
        \/ \E n \in Networks \cup {None} : Hold(p, "nat", m, [row EXCEPT !.net = n])
updateNATMapping(p, m) == Live(db, "nat", m) /\ Start /\ NATUpdate(p, m)
NATWrite(p) == /\ req[p].pc = "nat"
               /\ Finish(p, UpdateNATMapping(db, req[p].id, req[p].row))
deleteNATMapping(m) == Start /\ Commit(DeleteNATMapping(db, m))

-----------------------------------------------------------------------------
(* The tools of the MCP server: an empty id creates.                           *)

\* The network of the request is written without being read: a datacenter it
\* does not name is no longer the network's.
handleNetworkSave(n) ==
    \/ createNetwork(n)
    \/ \E dc \in Datacenters \cup {None} : Start /\ Commit(UpdateNetwork(db, n, dc))
handleDatacenterSave(c) ==
    \/ createDatacenter(c)
    \/ \E name \in {"first", "second"} : Start /\ Commit(UpdateDatacenter(db, c, name))
\* Neither update can name a device, a datacenter or a network.
handleCircuitSave(p, k) ==
    \/ createCircuit(k)
    \/ Live(db, "cir", k) /\ Start /\ Hold(p, "circuit", k, GetCircuit(k))
handleNATSave(p, m) ==
    \/ createNATMapping(m)
    \/ Live(db, "nat", m) /\ Start /\ Hold(p, "nat", m, GetNATMapping(m))
handleAddRelationship(x, y) == addRelationship(x, y)

-----------------------------------------------------------------------------
(* Bulk requests: one transaction that is committed whatever the items did.    *)

\* A batch has one item or two; it may name a row twice.
Batches(S) == S \X (S \cup {None})
\* Mutant: an item that failed is counted as a success too.
BulkItemCounted(acc, x, result) ==
    IF x = None THEN acc ELSE [db |-> result.db, done |-> acc.done \cup {x}]
\* One turn of the loop: what the item left is kept, a success is counted.
BulkItem(acc, x, result) ==
    IF x = None THEN acc
    ELSE [db |-> result.db, done |-> IF result.ok THEN acc.done \cup {x} ELSE acc.done]
BulkCommit(op, in, acc) ==
    /\ Start /\ db' = acc.db /\ UNCHANGED req
    /\ report' = [op |-> op, done |-> acc.done, in |-> in]
NothingYet == [db |-> db, done |-> {}]

\* An unknown device fails on the foreign key and is counted as a success.
AddTags(d, x, ts) ==
    IF Live(d, "dev", x) THEN Done([d EXCEPT !.dev[x].tags = @ \cup ts]) ELSE Done(d)
RemoveTags(d, x, ts) == Done([d EXCEPT !.dev[x].tags = @ \ ts])

\* The loops, each turn on what the one before left behind.
BulkCreateDevices(xs, in) ==
    LET Item(acc, x) == BulkItem(acc, x, createDeviceInTx(acc.db, x, in))
    IN  Item(Item(NothingYet, xs[1]), xs[2])
BulkUpdateDevices(xs, in) ==
    LET Item(acc, x) == BulkItem(acc, x, updateDeviceInTx(acc.db, x, in))
    IN  Item(Item(NothingYet, xs[1]), xs[2])
BulkDeleteDevices(xs) ==
    LET Item(acc, x) == BulkItem(acc, x, deleteDeviceInTx(acc.db, x))
    IN  Item(Item(NothingYet, xs[1]), xs[2])
BulkAddTags(xs, ts) ==
    LET Item(acc, x) == BulkItem(acc, x, AddTags(acc.db, x, ts))
    IN  Item(Item(NothingYet, xs[1]), xs[2])
BulkRemoveTags(xs, ts) ==
    LET Item(acc, x) == BulkItem(acc, x, RemoveTags(acc.db, x, ts))
    IN  Item(Item(NothingYet, xs[1]), xs[2])
BulkCreateNetworks(ns, dc) ==
    LET Item(acc, n) == BulkItem(acc, n, createNetworkInTx(acc.db, n, dc))
    IN  Item(Item(NothingYet, ns[1]), ns[2])
BulkDeleteNetworks(ns) ==
    LET Item(acc, n) == BulkItem(acc, n, deleteNetworkInTx(acc.db, n))
    IN  Item(Item(NothingYet, ns[1]), ns[2])

bulkCreateDevices == \E x \in Devices, in \in DeviceBodies :
    db.dev[x].st = "fresh" /\ BulkCommit("create", in, BulkCreateDevices(<<x, None>>, in))
bulkUpdateDevices == \E xs \in Batches(Devices), in \in DeviceBodies :
    BulkCommit("update", in, BulkUpdateDevices(xs, in))
bulkDeleteDevices == \E xs \in Batches(Devices) :
    BulkCommit("delete", Blank.dev, BulkDeleteDevices(xs))
bulkAddTags == \E xs \in Batches(Devices) :
    BulkCommit("tag", Blank.dev, BulkAddTags(xs, Tags))
bulkRemoveTags == \E xs \in Batches(Devices) :
    BulkCommit("untag", Blank.dev, BulkRemoveTags(xs, Tags))
bulkCreateNetworks == \E n \in Networks, dc \in Datacenters \cup {None} :
    db.net[n].st = "fresh" /\ BulkCommit("networks", Blank.dev, BulkCreateNetworks(<<n, None>>, dc))
bulkDeleteNetworks == \E ns \in Batches(Networks) :
    BulkCommit("unnetwork", Blank.dev, BulkDeleteNetworks(ns))

-----------------------------------------------------------------------------
\* A new database has the default datacenter and nothing else; one in use has
\* devices in it that everything else refers to.
Empty(c) ==
    [dc |-> [x \in Datacenters |-> IF x = c THEN [st |-> "live", name |-> "first"] ELSE Blank.dc],
     net |-> [n \in Networks |-> Blank.net], pool |-> [p \in Pools |-> Blank.pool],
     dev |-> [x \in Devices |-> Blank.dev], rel |-> {},
     cir |-> [k \in Circuits |-> Blank.cir], nat |-> [m \in Mappings |-> Blank.nat]]
InUse(c, n, x, dc, as) ==
    [Empty(c) EXCEPT
       !.net = [@ EXCEPT ![n] = [st |-> "live", dc |-> dc]],
       !.pool = [p \in Pools |-> [st |-> "live", net |-> n]],
       !.dev = [y \in Devices |-> [st |-> "live", dc |-> c, addrs |-> as, tags |-> {},
                                   status |-> "active"]],
       !.rel = {[parent |-> x, child |-> y, notes |-> ""] : y \in Devices \ {x}},
       !.cir = [k \in Circuits |-> [st |-> "live", devs |-> Devices, dcs |-> {c}]],
       !.nat = [m \in Mappings |-> [st |-> "live", dev |-> x, dc |-> c, net |-> n]]]
Init ==
    /\ req = [p \in Reqs |-> Idle] /\ count = 0 /\ report = NoReport
    /\ \E c \in Datacenters, n \in Networks, x \in Devices :
         \/ db = Empty(c)
         \/ \E dc \in {c, None}, as \in {{}} \cup {{a} : a \in Addresses} :
              /\ \A a \in as : a.net = n
              /\ db = InUse(c, n, x, dc, as)

\* A datacenter is created at start-up when there is none.
ensureDefaultDatacenter(d) ==
    IF \E c \in Datacenters : Live(d, "dc", c) THEN {d}
    ELSE {[d EXCEPT !.dc[c] = [st |-> "live", name |-> "first"]] :
            c \in {c \in Datacenters : d.dc[c].st = "fresh"}}
\* The server stops between two statements and starts again.
Restart == /\ req # [p \in Reqs |-> Idle] \/ \A c \in Datacenters : ~Live(db, "dc", c)
           /\ db' \in ensureDefaultDatacenter(db)
           /\ req' = [p \in Reqs |-> Idle] /\ report' = NoReport /\ UNCHANGED count

DeviceSteps == \E x \in Devices :
    \/ createDevice(x) \/ deleteDevice(x)
    \/ \E p \in Reqs : updateDevice(p, x)
    \/ \E y \in Devices : \/ addRelationship(x, y) \/ removeRelationship(x, y)
                           \/ updateRelationshipNotes(x, y)
PlaceSteps ==
    \/ \E n \in Networks : createNetwork(n) \/ deleteNetwork(n) \/ \E p \in Reqs : updateNetwork(p, n)
    \/ \E c \in Datacenters : \/ createDatacenter(c)
                              \/ \E p \in Reqs : updateDatacenter(p, c) \/ deleteDatacenter(p, c)
LinkSteps ==
    \/ \E k \in Circuits : createCircuit(k) \/ deleteCircuit(k) \/ \E p \in Reqs : updateCircuit(p, k)
    \/ \E m \in Mappings : \/ createNATMapping(m) \/ deleteNATMapping(m)
                           \/ \E p \in Reqs : updateNATMapping(p, m)
BulkSteps == \/ bulkCreateDevices \/ bulkUpdateDevices \/ bulkDeleteDevices \/ bulkAddTags
             \/ bulkRemoveTags \/ bulkCreateNetworks \/ bulkDeleteNetworks
ToolSteps == \/ \E n \in Networks : handleNetworkSave(n)
             \/ \E c \in Datacenters : handleDatacenterSave(c)
             \/ \E p \in Reqs, k \in Circuits : handleCircuitSave(p, k)
             \/ \E p \in Reqs, m \in Mappings : handleNATSave(p, m)
             \/ \E x, y \in Devices : handleAddRelationship(x, y)
WriteSteps == \E p \in Reqs :
    \/ DeviceUpdate(p) \/ NetworkUpdate(p) \/ DatacenterUpdate(p) \/ DatacenterUnlink(p)
    \/ DatacenterDelete(p) \/ CircuitWrite(p) \/ NATWrite(p)

Next == DeviceSteps \/ PlaceSteps \/ LinkSteps \/ BulkSteps \/ ToolSteps \/ WriteSteps \/ Restart
Spec == Init /\ [][Next]_vars

-----------------------------------------------------------------------------
(* Properties.                                                                 *)

\* Whatever order deletions, stale write-backs, half-done datacenter deletions
\* and half-failed bulk requests come in, every reference of a live row names
\* a live row (the foreign keys and the clean-up the storage code does itself).
ReferencesResolve ==
    /\ \A x \in Devices : Live(db, "dev", x) =>
         /\ Ref(db, "dc", db.dev[x].dc)
         /\ \A a \in db.dev[x].addrs : Ref(db, "net", a.net) /\ Ref(db, "pool", a.pool)
    /\ \A n \in Networks : Live(db, "net", n) => Ref(db, "dc", db.net[n].dc)
    /\ \A p \in Pools : Live(db, "pool", p) => Live(db, "net", db.pool[p].net)
    /\ \A r \in db.rel : Live(db, "dev", r.parent) /\ Live(db, "dev", r.child)
    /\ \A k \in Circuits : Live(db, "cir", k) => CircuitRefs(db, db.cir[k])
    /\ \A m \in Mappings : Live(db, "nat", m) => MappingRefs(db, db.nat[m])

\* An item a bulk create, update or delete counts as a success is really done
\* when the request answers, whatever the other items of the batch did
\* (BulkItem; the tag requests count every item and are left out).
BulkReportsHold ==
    \A x \in report.done :
        /\ report.op = "delete" => db.dev[x].st = "gone"
        /\ report.op \in {"create", "update"} =>
             /\ db.dev[x].st = "live" /\ db.dev[x].dc = report.in.dc
             /\ db.dev[x].addrs = report.in.addrs /\ db.dev[x].tags = report.in.tags

Lost(table) == {x \in DOMAIN db[table] : db[table][x].st = "live" /\ db[table][x].st # db'[table][x].st}
\* A deletion reaches its own kind of row and no other: circuits, NAT mappings,
\* devices and networks outlive what they refer to, pools go with their network
\* only, and a network that goes takes no address of a device with it.
DeletesReachTheirOwn ==
    [][/\ \A t, u \in {"dc", "net", "dev", "cir", "nat"} : Lost(t) # {} /\ Lost(u) # {} => t = u
       /\ \A p \in Lost("pool") : db.pool[p].net \in Lost("net")
       /\ Lost("net") # {} => \A x \in Devices :
            (db'.dev[x].addrs = {}) = (db.dev[x].addrs = {})]_vars

=============================================================================
