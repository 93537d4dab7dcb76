------------------------------ MODULE DnsSync ------------------------------
(* The address records of one zone and the DNS server they are published on.   *)
(* Requests and the background worker push records one call at a time, keep    *)
(* the row they read while they wait, and write the whole row back.  A call    *)
(* to the server may fail; a failed lookup is taken for a missing record.      *)
(* The type of a record is part of its name, devices have one address and it   *)
(* is in the zone's network.  Providers and zone names are in DnsZones.        *)
EXTENDS Naturals, FiniteSets

CONSTANTS Reqs, Worker, Recs, Names, Values, Devices,
          MaxRequests,   \* bound on the requests of a behaviour
          MaxFaults      \* bound on the failing calls to the DNS server

VARIABLES zone,    \* the row of dns_zones
          rec,     \* dns_records
          dev,     \* devices, with host name and address
          srv,     \* the DNS server: the values it has for each name
          ever,    \* history: the values it ever had
          req,     \* requests and the worker, between two of their steps
          count, faults

vars == <<zone, rec, dev, srv, ever, req, count, faults>>
Procs == Reqs \cup {Worker}

None == "none"
NoRec == [st |-> "fresh", name |-> None, val |-> None, status |-> None,
          dev |-> None, addr |-> None]
Live(r) == rec[r].st = "live"
Rows == {r \in Recs : Live(r)}
NoRow == [id |-> None, row |-> NoRec]
Idle == [pc |-> "idle", cur |-> NoRow, todo |-> {}, from |-> "one", auto |-> FALSE,
         after |-> NoRow]

-----------------------------------------------------------------------------
(* The store.                                                                  *)

GetDNSRecord(r) == [id |-> r, row |-> rec[r]]
GetDNSRecordByName(n) == {r \in Rows : rec[r].name = n}
ListDNSRecords == {GetDNSRecord(r) : r \in Rows}
ForeignKeys(row) == /\ zone.st = "live"
                    /\ \A x \in {row.dev, row.addr} \ {None} : dev[x].st = "live"
\* The whole row is written; UNIQUE(zone_id, name, type).
UpdateDNSRecord(cur) ==
    Live(cur.id) /\ ForeignKeys(cur.row) /\ GetDNSRecordByName(cur.row.name) \subseteq {cur.id}
CreateDNSRecord(row) == ForeignKeys(row) /\ GetDNSRecordByName(row.name) = {}
createDNSRecordInTx(r, row) == rec[r].st = "fresh" /\ rec' = [rec EXCEPT ![r] = row]
DropRecords == [r \in Recs |-> IF Live(r) THEN [NoRec EXCEPT !.st = "gone"] ELSE rec[r]]

-----------------------------------------------------------------------------
(* Steps of a process.                                                         *)

At(p, what) == req[p].pc = what
Goto(p, new) == req' = [req EXCEPT ![p] = new]
Begin(p, new) == /\ p \in Reqs /\ req[p] = Idle /\ count < MaxRequests
                 /\ count' = count + 1 /\ Goto(p, new)
\* What a process does when it is done with a record: the next one of its list,
\* the zone row, the record PromoteRecord still has to link, or nothing.
Continue(p) ==
    LET q == req[p]
    IN  IF q.from \in {"zone", "import"} /\ q.todo # {}
        THEN {[q EXCEPT !.pc = IF q.from = "zone" THEN "get" ELSE "look",
                        !.cur = c, !.todo = @ \ {c}] : c \in q.todo}
        ELSE IF q.from = "zone" THEN {[Idle EXCEPT !.pc = "zone", !.auto = q.auto]}
        ELSE IF q.after # NoRow THEN {[Idle EXCEPT !.pc = "write", !.from = "link", !.cur = q.after]}
        ELSE {Idle}
Advance(p) == \E new \in Continue(p) : Goto(p, new)
\* SyncRecord failed: a record of its own is marked, one of a list is counted.
Failing(p) == IF req[p].from = "zone" THEN Advance(p) ELSE Goto(p, [req[p] EXCEPT !.pc = "fail"])
Fault == faults < MaxFaults /\ faults' = faults + 1

ServerGet(n) == srv[n]
\* SyncRecord: GetRecord on the server, an answer or an error.  For a value that
\* differs TechnitiumClient.UpdateRecord asks once more (in the same step), adds
\* the value and then deletes the name and type, which leaves neither value.
SyncRecord(p) ==
    LET n == req[p].cur.row.name
        To(what) == Goto(p, [req[p] EXCEPT !.pc = what])
    IN  /\ At(p, "get")
        /\ IF zone.st # "live" THEN Failing(p) /\ UNCHANGED faults
           ELSE \/ Fault /\ To("add")
                \/ ServerGet(n) = {} /\ To("add") /\ UNCHANGED faults
                \/ \E v \in ServerGet(n) :
                     To(IF v = req[p].cur.row.val THEN "mark" ELSE "replace") /\ UNCHANGED faults
        /\ UNCHANGED <<zone, rec, dev, srv, ever, count>>
ServerAdd(p) ==
    LET row == req[p].cur.row
    IN  /\ At(p, "add") \/ At(p, "replace")
        /\ \/ Fault /\ Failing(p) /\ UNCHANGED <<srv, ever>>
           \/ /\ srv' = [srv EXCEPT ![row.name] = @ \cup {row.val}]
              /\ ever' = [ever EXCEPT ![row.name] = @ \cup {row.val}]
              /\ Goto(p, [req[p] EXCEPT !.pc = IF @ = "add" THEN "mark" ELSE "remove"])
              /\ UNCHANGED faults
        /\ UNCHANGED <<zone, rec, dev, count>>
\* A delete at the server; DeleteRecord and UpdateRecord go on when it fails.
ServerDelete(p) ==
    /\ At(p, "remove") \/ At(p, "unpublish")
    /\ \/ Fault /\ UNCHANGED srv
       \/ srv' = [srv EXCEPT ![req[p].cur.row.name] = {}] /\ UNCHANGED faults
    /\ Goto(p, [req[p] EXCEPT !.pc = IF @ = "remove" THEN "mark" ELSE "delete"])
    /\ UNCHANGED <<zone, rec, dev, ever, count>>
MarkSynced(p) ==
    LET cur == [req[p].cur EXCEPT !.row.status = "synced"]
    IN  /\ At(p, "mark")
        /\ IF UpdateDNSRecord(cur) THEN rec' = [rec EXCEPT ![cur.id] = cur.row] /\ Advance(p)
           ELSE UNCHANGED rec /\ Failing(p)
        /\ UNCHANGED <<zone, dev, srv, ever, count, faults>>
MarkFailed(p) ==
    LET cur == [req[p].cur EXCEPT !.row.status = "failed"]
    IN  /\ At(p, "fail") /\ Advance(p)
        /\ rec' = IF UpdateDNSRecord(cur) THEN [rec EXCEPT ![cur.id] = cur.row] ELSE rec
        /\ UNCHANGED <<zone, dev, srv, ever, count, faults>>

-----------------------------------------------------------------------------
(* Records.                                                                    *)

\* Mutant: a changed record keeps its sync status.
PendingKept(row) == row
Pending(row) == [row EXCEPT !.status = "pending"]

UpdateRecord(p, r, row) == Begin(p, [Idle EXCEPT !.pc = "write", !.cur = [id |-> r, row |-> Pending(row)]])
updateDNSRecord(p, r) ==
    /\ Live(r)
    /\ \/ \E v \in Values : UpdateRecord(p, r, [rec[r] EXCEPT !.val = v])
       \/ \E n \in Names : UpdateRecord(p, r, [rec[r] EXCEPT !.name = n])
       \/ \E x \in Devices : dev[x].st = "live" /\ UpdateRecord(p, r, [rec[r] EXCEPT !.dev = x])
    /\ UNCHANGED <<zone, rec, dev, srv, ever, faults>>
\* The write of UpdateRecord, LinkRecord and PromoteRecord; UpdateRecord goes on
\* to publish the record when the zone, read again, says so.
WriteRecord(p) ==
    LET q == req[p]
    IN  /\ At(p, "write")
        /\ IF UpdateDNSRecord(q.cur)
           THEN /\ rec' = [rec EXCEPT ![q.cur.id] = q.cur.row]
                /\ IF q.from = "one" /\ zone.auto THEN Goto(p, [q EXCEPT !.pc = "get"]) ELSE Advance(p)
           ELSE UNCHANGED rec /\ Advance(p)
        /\ UNCHANGED <<zone, dev, srv, ever, count, faults>>

\* The MCP tool saves a record of no device.
handleDNSRecordSave(p) == \E n \in Names, v \in Values :
    /\ Begin(p, [Idle EXCEPT !.pc = "create", !.cur.row =
          [NoRec EXCEPT !.st = "live", !.name = n, !.val = v, !.status = "pending"]])
    /\ UNCHANGED <<zone, rec, dev, srv, ever, faults>>
\* CreateRecord: the zone and the device are checked; a record of the name is
\* updated instead.
CreateRecord(p) ==
    LET want == req[p].cur.row
        found == GetDNSRecordByName(want.name)
    IN  /\ At(p, "create")
        /\ IF zone.st # "live" \/ (want.dev # None /\ dev[want.dev].st # "live") THEN Advance(p)
           ELSE IF found = {} THEN Goto(p, [req[p] EXCEPT !.pc = "insert", !.auto = zone.auto])
           ELSE \E r \in found :
                  Goto(p, [req[p] EXCEPT !.pc = "write",
                     !.cur = [id |-> r, row |-> Pending([rec[r] EXCEPT
                       !.val = want.val, !.dev = IF want.dev = None THEN @ ELSE want.dev])]])
        /\ UNCHANGED <<zone, rec, dev, srv, ever, count, faults>>
InsertRecord(p) ==
    LET q == req[p]
    IN  /\ At(p, "insert")
        /\ IF CreateDNSRecord(q.cur.row)
           THEN \E r \in Recs :
                  /\ createDNSRecordInTx(r, q.cur.row)
                  /\ IF q.auto THEN Goto(p, [q EXCEPT !.pc = "get", !.cur.id = r, !.auto = FALSE])
                     ELSE Advance(p)
           ELSE UNCHANGED rec /\ Advance(p)
        /\ UNCHANGED <<zone, dev, srv, ever, count, faults>>

\* A synced record is deleted at the server first.
DeleteRecord(p, r) ==
    Begin(p, [Idle EXCEPT !.pc = IF rec[r].status = "synced" THEN "unpublish" ELSE "delete",
                          !.cur = GetDNSRecord(r)])
deleteDNSRecord(p, r) == Live(r) /\ DeleteRecord(p, r) /\ UNCHANGED <<zone, rec, dev, srv, ever, faults>>
DeleteDNSRecord(p) ==
    LET r == req[p].cur.id
    IN  /\ At(p, "delete") /\ Goto(p, Idle)
        /\ rec' = IF Live(r) THEN [rec EXCEPT ![r] = [NoRec EXCEPT !.st = "gone"]] ELSE rec
        /\ UNCHANGED <<zone, dev, srv, ever, count, faults>>

LinkRecord(p, r, x) == \E a \in {None, x} :
    Begin(p, [Idle EXCEPT !.pc = "write", !.from = "link",
                          !.cur = [id |-> r, row |-> [rec[r] EXCEPT !.dev = x, !.addr = a]]])
linkDNSRecord(p, r, x) ==
    /\ Live(r) /\ rec[r].dev = None /\ dev[x].st = "live" /\ LinkRecord(p, r, x)
    /\ UNCHANGED <<zone, rec, dev, srv, ever, faults>>

-----------------------------------------------------------------------------
(* The zone: synchronisation, import, update, deletion.                        *)

\* Mutant: only pending records are pushed.
SyncZonePending ==
    [Idle EXCEPT !.from = "zone", !.auto = zone.auto,
                 !.todo = {c \in ListDNSRecords : c.row.status = "pending"}]
\* Every record of the zone is pushed, whatever its status.
SyncZone == [Idle EXCEPT !.from = "zone", !.auto = zone.auto, !.todo = ListDNSRecords]
StartList(p, new) == IF new.todo = {} THEN {[new EXCEPT !.pc = IF @ = "get" THEN "zone" ELSE "idle"]}
                     ELSE {[new EXCEPT !.cur = c, !.todo = @ \ {c}] : c \in new.todo}
syncDNSZone(p) == /\ zone.st = "live"
                  /\ \E new \in StartList(p, [SyncZone EXCEPT !.pc = "get"]) : Begin(p, new)
                  /\ UNCHANGED <<zone, rec, dev, srv, ever, faults>>
\* The worker's tick, for zones with auto_sync.
syncZones(p) == /\ p = Worker /\ req[p] = Idle /\ zone.st = "live" /\ zone.auto
                /\ \E new \in StartList(p, [SyncZone EXCEPT !.pc = "get"]) : Goto(p, new)
                /\ UNCHANGED <<zone, rec, dev, srv, ever, count, faults>>
\* SyncZone and UpdateZone write the zone as they read it.
UpdateDNSZone(p) == /\ At(p, "zone") /\ Goto(p, Idle)
                    /\ zone' = IF zone.st = "live" THEN [zone EXCEPT !.auto = req[p].auto] ELSE zone
                    /\ UNCHANGED <<rec, dev, srv, ever, count, faults>>
updateDNSZone(p) == /\ zone.st = "live"
                    /\ Begin(p, [Idle EXCEPT !.pc = "zone", !.auto = ~zone.auto])
                    /\ UNCHANGED <<zone, rec, dev, srv, ever, faults>>
\* DeleteZone: the records, then the zone with the records it has by then.
deleteDNSZone(p) == /\ zone.st = "live" /\ Begin(p, [Idle EXCEPT !.pc = "dropZone"])
                    /\ rec' = DropRecords
                    /\ UNCHANGED <<zone, dev, srv, ever, faults>>
DeleteDNSZone(p) == /\ At(p, "dropZone") /\ Goto(p, Idle)
                    /\ zone' = [st |-> "gone", auto |-> FALSE] /\ rec' = DropRecords
                    /\ UNCHANGED <<dev, srv, ever, count, faults>>

\* The device with the address a record has, and no device otherwise.
matchDeviceForRecord(v) ==
    LET found == {x \in Devices : dev[x].st = "live" /\ dev[x].ip = v}
    IN  IF found = {} THEN {None} ELSE found
ImportFromDNS == {[id |-> None, row |-> [st |-> "live", name |-> n, val |-> v, status |-> "synced",
                                         dev |-> x, addr |-> x]] :
                    n \in Names, v \in Values, x \in Devices \cup {None}}
\* The list of the server with the devices found for it.
importDNSZone(p) ==
    /\ zone.st = "live"
    /\ \E match \in [Values -> Devices \cup {None}] :
         /\ \A v \in Values : match[v] \in matchDeviceForRecord(v)
         /\ \E new \in StartList(p, [Idle EXCEPT !.pc = "look", !.from = "import",
                !.todo = {c \in ImportFromDNS : c.row.val \in srv[c.row.name] /\ c.row.dev = match[c.row.val]}]) :
              Begin(p, new)
    /\ UNCHANGED <<zone, rec, dev, srv, ever, faults>>
\* One record of the list: skipped, updated or created.
ImportLook(p) ==
    LET want == req[p].cur.row
        found == GetDNSRecordByName(want.name)
    IN  /\ At(p, "look")
        /\ IF found = {} THEN Goto(p, [req[p] EXCEPT !.pc = "importNew"])
           ELSE \E r \in found :
                  IF rec[r].val = want.val THEN Advance(p)
                  ELSE LET row == IF rec[r].dev = None THEN [rec[r] EXCEPT !.dev = want.dev, !.addr = want.addr]
                                  ELSE rec[r]
                       IN  Goto(p, [req[p] EXCEPT !.pc = "importWrite", !.cur =
                              [id |-> r, row |-> [row EXCEPT !.val = want.val, !.status = "synced"]]])
        /\ UNCHANGED <<zone, rec, dev, srv, ever, count, faults>>
ImportWrite(p) ==
    LET cur == req[p].cur
    IN  /\ \/ /\ At(p, "importWrite")
              /\ rec' = IF UpdateDNSRecord(cur) THEN [rec EXCEPT ![cur.id] = cur.row] ELSE rec
           \/ /\ At(p, "importNew")
              /\ IF CreateDNSRecord(cur.row)
                 THEN \E r \in Recs : createDNSRecordInTx(r, cur.row)
                 ELSE UNCHANGED rec
        /\ Advance(p)
        /\ UNCHANGED <<zone, dev, srv, ever, count, faults>>

-----------------------------------------------------------------------------
(* Devices.                                                                    *)

\* The zones with auto_sync: the zone or none.
ListDNSZones == {z \in {zone} : z.st = "live" /\ z.auto}
\* After a device is stored: its record, when the zone is synchronised.
syncDeviceDNS(d, new) ==
    IF ListDNSZones # {}
    THEN [new EXCEPT !.pc = "create",
            !.cur = [id |-> None, row |-> [st |-> "live", name |-> dev'[d].host, val |-> dev'[d].ip,
                                           status |-> "pending", dev |-> d, addr |-> None]]]
    ELSE IF new.after = NoRow THEN Idle
    ELSE [Idle EXCEPT !.pc = "write", !.from = "link", !.cur = new.after]
createDevice(p, x) == \E n \in Names, v \in Values :
    /\ dev[x].st = "fresh" /\ dev' = [dev EXCEPT ![x] = [st |-> "live", host |-> n, ip |-> v]]
    /\ Begin(p, syncDeviceDNS(x, Idle))
    /\ UNCHANGED <<zone, rec, srv, ever, faults>>
\* The addresses are deleted and inserted: records lose address_id (SET NULL).
updateDevice(p, x) == \E n \in Names, v \in Values :
    /\ dev[x].st = "live" /\ dev' = [dev EXCEPT ![x] = [st |-> "live", host |-> n, ip |-> v]]
    /\ rec' = [r \in Recs |-> IF rec[r].addr = x THEN [rec[r] EXCEPT !.addr = None] ELSE rec[r]]
    /\ Begin(p, syncDeviceDNS(x, Idle))
    /\ UNCHANGED <<zone, srv, ever, faults>>
deleteDevice(p, x) ==
    /\ dev[x].st = "live" /\ dev' = [dev EXCEPT ![x].st = "gone"]
    /\ rec' = [r \in Recs |-> IF rec[r].dev = x \/ rec[r].addr = x
                               THEN [rec[r] EXCEPT !.dev = IF @ = x THEN None ELSE @,
                                                   !.addr = IF @ = x THEN None ELSE @]
                               ELSE rec[r]]
    /\ Begin(p, Idle)
    /\ UNCHANGED <<zone, srv, ever, faults>>
\* PromoteRecord: the record as read, a device made from it, and the record
\* linked to the device once the device's own records are done.
PromoteRecord(p, r) ==
    Begin(p, [Idle EXCEPT !.pc = "promote", !.cur = GetDNSRecord(r)])
promoteDNSRecord(p, r) == /\ Live(r) /\ rec[r].dev = None /\ PromoteRecord(p, r)
                          /\ UNCHANGED <<zone, rec, dev, srv, ever, faults>>
PromoteDevice(p) == \E x \in Devices :
    LET cur == req[p].cur
    IN  /\ At(p, "promote") /\ dev[x].st = "fresh"
        /\ dev' = [dev EXCEPT ![x] = [st |-> "live", host |-> cur.row.name, ip |-> cur.row.val]]
        /\ Goto(p, syncDeviceDNS(x, [Idle EXCEPT !.after = [cur EXCEPT !.row.dev = x, !.row.addr = x]]))
        /\ UNCHANGED <<zone, rec, srv, ever, count, faults>>

-----------------------------------------------------------------------------
\* One device, and possibly a record that was imported or saved for no device.
Init ==
    LET r1 == CHOOSE r \in Recs : TRUE
        d1 == CHOOSE x \in Devices : TRUE
        v1 == CHOOSE v \in Values : TRUE
        saved == [st : {"live"}, name : Names, val : Values, status : {"pending"}, dev : {None}, addr : {None}]
    IN  /\ zone = [st |-> "live", auto |-> TRUE]
        /\ \E row \in {NoRec} \cup saved : rec = [r \in Recs |-> IF r = r1 THEN row ELSE NoRec]
        /\ \E n \in Names :
             dev = [x \in Devices |-> IF x = d1 THEN [st |-> "live", host |-> n, ip |-> v1]
                                      ELSE [st |-> "fresh", host |-> None, ip |-> None]]
        /\ srv \in [Names -> {{}, {v1}}]
        /\ ever = srv
        /\ req = [p \in Procs |-> Idle] /\ count = 0 /\ faults = 0

Step(p) ==
    \/ SyncRecord(p) \/ ServerAdd(p) \/ ServerDelete(p)
    \/ MarkSynced(p) \/ MarkFailed(p) \/ WriteRecord(p) \/ CreateRecord(p) \/ InsertRecord(p)
    \/ DeleteDNSRecord(p) \/ UpdateDNSZone(p) \/ DeleteDNSZone(p)
    \/ ImportLook(p) \/ ImportWrite(p) \/ PromoteDevice(p)
Request(p) ==
    \/ \E r \in Recs : \/ updateDNSRecord(p, r) \/ deleteDNSRecord(p, r) \/ promoteDNSRecord(p, r)
                       \/ \E x \in Devices : linkDNSRecord(p, r, x)
    \/ handleDNSRecordSave(p) \/ syncDNSZone(p) \/ updateDNSZone(p) \/ deleteDNSZone(p) \/ importDNSZone(p)
    \/ \E x \in Devices : createDevice(p, x) \/ updateDevice(p, x) \/ deleteDevice(p, x)
Next == \/ \E p \in Reqs : Request(p)
        \/ \E p \in Procs : Step(p)
        \/ syncZones(Worker)
\* Goroutines run, and the worker's ticker keeps ticking.
Fairness == WF_vars(syncZones(Worker)) /\ \A p \in Procs : WF_vars(Step(p))
Spec == Init /\ [][Next]_vars /\ Fairness

-----------------------------------------------------------------------------
(* Properties.                                                                 *)

\* A record that says it is synced has a value the server really had under
\* that name: status and value are always written together, and every change
\* of the value makes the record pending.
SyncedWasPublished == \A r \in Rows : rec[r].status = "synced" => rec[r].val \in ever[rec[r].name]

\* Once requests and failures are over, every record of a synchronised zone is
\* on the server and stays there, although an update of the server deletes the
\* value it has just added: the next round pushes every record again.
Converges == <>[](zone.auto => \A r \in Rows : rec[r].val \in srv[rec[r].name])
=============================================================================
