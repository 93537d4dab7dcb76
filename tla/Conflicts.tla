----------------------------- MODULE Conflicts ------------------------------
(***************************************************************************)
(* Conflict records: duplicate addresses of devices and overlapping        *)
(* networks, found by the check that follows a device write or by an       *)
(* explicit detection, and put right by Resolve.                           *)
(*                                                                         *)
(* Every statement is an action; a request remembers in req[p] what it has *)
(* read.  Only the addresses of a device and the subnet of a network are   *)
(* kept.  A conflict is about a key: an address, or a pair of networks.    *)
(***************************************************************************)
EXTENDS Integers, FiniteSets, FiniteSetsExt, Functions

CONSTANTS Devices, IPs, Networks, Subnets,
          Overlap,    \* pairs {s, t} of overlapping subnets, {s} for s and itself
          Cids,       \* identifiers of conflict records (bounds their number)
          Procs,      \* requests in flight
          MaxSame,    \* address rows with one IP that a device may have
          PageLimit,  \* rows of a list query (model.DefaultPageSize)
          Wired,      \* whether setConflictService was called (the server does not)
          None, Gone

ASSUME ConflictsAssumption ==
  MaxSame \in Nat \ {0} /\ PageLimit \in Nat \ {0} /\ Wired \in BOOLEAN

VARIABLES dev,        \* devices: "fresh", "live" or "gone"
          addr,       \* addr[d][ip]: rows of addresses with device d and ip
          net,        \* net[n]: the subnet of network n; None before it exists, Gone after
          conflict,   \* the table conflicts
          req,        \* requests in flight
          reported    \* history: keys for which a record was ever created

vars == <<dev, addr, net, conflict, req, reported>>

Rows == [IPs -> 0 .. MaxSame]
NoRows == [ip \in IPs |-> 0]
Pairs == {ns \in {{m, n} : m, n \in Networks} : Cardinality(ns) = 2}
Keys == IPs \cup Pairs
NoConflict == [st |-> "fresh", key |-> None, devs |-> {}]
Idle == [pc |-> "idle", left |-> NoRows, key |-> None, devs |-> {}, todo |-> {},
         cid |-> None, keep |-> None, rows |-> NoRows, found |-> {}]

Live(d) == dev[d] = "live"
Exists(c) == conflict[c].st \in {"active", "resolved"}
About(key) == {c \in Cids : Exists(c) /\ conflict[c].key = key}
ActiveAbout(key) == {c \in About(key) : conflict[c].st = "active"}
Holders(ip) == {d \in Devices : addr[d][ip] > 0}
Page(S) == kSubset(IF Cardinality(S) < PageLimit THEN Cardinality(S) ELSE PageLimit, S)

Init ==
  /\ dev = [d \in Devices |-> "fresh"]
  /\ addr = [d \in Devices |-> NoRows]
  /\ net = [n \in Networks |-> None]
  /\ conflict = [c \in Cids |-> NoConflict]
  /\ req = [p \in Procs |-> Idle]
  /\ reported = {}

tables == <<dev, addr, net, conflict, reported>>
Become(p, r) == req' = [req EXCEPT ![p] = r]

GetConflict(c) == conflict[c]
\* The active records of overlaps: a page of the newest; the order matters only
\* past PageLimit records.
ListConflicts == Page({c \in Cids : conflict[c].st = "active" /\ conflict[c].key \in Pairs})
getDeviceAddresses(d) == addr[d]

\* CreateConflict inserts a record whether or not the key has one.
CreateConflict(c, key, devs) ==
  /\ conflict[c].st = "fresh"
  /\ conflict' = [conflict EXCEPT ![c] = [st |-> "active", key |-> key, devs |-> devs]]
  /\ reported' = reported \cup {key}

\* UpdateConflictStatus: no row, no error.
UpdateConflictStatus(c, st) ==
  conflict' = [conflict EXCEPT ![c].st = IF Exists(c) THEN st ELSE @]
-----------------------------------------------------------------------------
(* DeviceService.Create and Update, then checkForIPConflicts.  The rows of *)
(* an update are those of the request, or those the handler read earlier:  *)
(* any rows.                                                               *)

\* Without a ConflictService the check returns at once.
StartCheck(p, rows) ==
  Become(p, IF Wired THEN [Idle EXCEPT !.pc = "check", !.left = rows] ELSE Idle)

CreateDevice(p, d, rows) ==
  /\ req[p].pc = "idle" /\ dev[d] = "fresh"
  /\ dev' = [dev EXCEPT ![d] = "live"]
  /\ addr' = [addr EXCEPT ![d] = rows]
  /\ StartCheck(p, rows)
  /\ UNCHANGED <<net, conflict, reported>>

UpdateDevice(p, d, rows) ==
  /\ req[p].pc = "idle" /\ Live(d)
  /\ addr' = [addr EXCEPT ![d] = rows]
  /\ StartCheck(p, rows)
  /\ UNCHANGED <<dev, net, conflict, reported>>

\* The next address of the device, and what follows it in the loop.
NextIP(p, ip) == [Idle EXCEPT !.pc = "check", !.left = [req[p].left EXCEPT ![ip] = @ - 1]]

\* Mutant: the records of the address are not looked at.
CheckNothing(p, ip) ==
  /\ req[p].pc = "check" /\ req[p].left[ip] > 0
  /\ Become(p, [NextIP(p, ip) EXCEPT !.pc = "list", !.key = ip])
  /\ UNCHANGED tables

\* GetConflictsByIP: a record of any status ends the check of the address.
CheckIP(p, ip) ==
  /\ req[p].pc = "check" /\ req[p].left[ip] > 0
  /\ Become(p, IF About(ip) = {} THEN [NextIP(p, ip) EXCEPT !.pc = "list", !.key = ip]
                                 ELSE NextIP(p, ip))
  /\ UNCHANGED tables

CheckDone(p) ==
  /\ req[p].pc = "check" /\ req[p].left = NoRows
  /\ Become(p, Idle)
  /\ UNCHANGED tables

\* Mutant: the list leaves a device out.
ListOthers(p) ==
  /\ req[p].pc = "list"
  /\ \E d \in Devices, page \in Page({e \in Devices : Live(e)}) :
       Become(p, [req[p] EXCEPT !.pc = "load", !.todo = page \ {d}])
  /\ UNCHANGED tables

\* ListDevices reads one page of devices, by name, ...
ListDevices(p) ==
  /\ req[p].pc = "list"
  /\ \E page \in Page({d \in Devices : Live(d)}) :
       Become(p, [req[p] EXCEPT !.pc = "load", !.todo = page])
  /\ UNCHANGED tables

\* ... then the addresses of each, one query per device.
LoadAddresses(p, d) ==
  /\ req[p].pc = "load" /\ d \in req[p].todo
  /\ Become(p, [req[p] EXCEPT !.todo = @ \ {d},
                              !.devs = IF getDeviceAddresses(d)[req[p].key] > 0 THEN @ \cup {d} ELSE @])
  /\ UNCHANGED tables

ReportDuplicate(p) ==
  /\ req[p].pc = "load" /\ req[p].todo = {}
  /\ Become(p, [Idle EXCEPT !.pc = "check", !.left = req[p].left])
  /\ IF Cardinality(req[p].devs) > 1
     THEN \E c \in Cids : CreateConflict(c, req[p].key, req[p].devs)
     ELSE UNCHANGED <<conflict, reported>>
  /\ UNCHANGED <<dev, addr, net>>

\* DeleteDevice; the rows of addresses go with the device.
DeleteDevice(p, d) ==
  /\ req[p].pc = "idle" /\ Live(d)
  /\ dev' = [dev EXCEPT ![d] = "gone"]
  /\ addr' = [addr EXCEPT ![d] = NoRows]
  /\ UNCHANGED <<net, conflict, req, reported>>

\* BulkCreateDevices, BulkUpdateDevices and PromoteDevice write devices
\* without the check.
WriteUnchecked(p, d, rows) ==
  /\ req[p].pc = "idle" /\ dev[d] # "gone"
  /\ dev' = [dev EXCEPT ![d] = "live"]
  /\ addr' = [addr EXCEPT ![d] = rows]
  /\ UNCHANGED <<net, conflict, req, reported>>
-----------------------------------------------------------------------------
(* Resolve *)

\* GetConflict.  The address and the devices of a record never change, so
\* the second GetConflict adds nothing.
Resolve(p, c, keep) ==
  /\ req[p].pc = "idle" /\ Exists(c)
  /\ LET row == GetConflict(c) IN
     Become(p, [Idle EXCEPT !.pc = "strip", !.cid = c, !.key = row.key, !.keep = keep,
                  !.todo = IF keep = None \/ row.key \notin IPs THEN {} ELSE row.devs \ {keep}])
  /\ UNCHANGED tables

\* GetDevice and the removal of the address; a missing device is skipped.
GetDevice(p, d) ==
  /\ req[p].pc = "strip" /\ d \in req[p].todo
  /\ Become(p, IF Live(d)
               THEN [req[p] EXCEPT !.pc = "write", !.devs = {d},
                                   !.rows = [getDeviceAddresses(d) EXCEPT ![req[p].key] = 0]]
               ELSE [req[p] EXCEPT !.todo = @ \ {d}])
  /\ UNCHANGED tables

\* UpdateDevice of the whole row; a device deleted meanwhile ends the request.
WriteStripped(p) ==
  /\ req[p].pc = "write"
  /\ \E d \in req[p].devs :
       IF Live(d)
       THEN /\ addr' = [addr EXCEPT ![d] = req[p].rows]
            /\ Become(p, [req[p] EXCEPT !.pc = "strip", !.devs = {}, !.todo = @ \ {d},
                                        !.rows = NoRows])
       ELSE Become(p, Idle) /\ UNCHANGED addr
  /\ UNCHANGED <<dev, net, conflict, reported>>

\* Mutant: the record is resolved before the devices are changed.
MarkResolvedEarly(p) ==
  /\ req[p].pc = "strip"
  /\ UpdateConflictStatus(req[p].cid, "resolved")
  /\ Become(p, Idle)
  /\ UNCHANGED <<dev, addr, net, reported>>

MarkResolved(p) ==
  /\ req[p].pc = "strip" /\ req[p].todo = {}
  /\ UpdateConflictStatus(req[p].cid, "resolved")
  /\ Become(p, Idle)
  /\ UNCHANGED <<dev, addr, net, reported>>

DeleteConflict(p, c) ==
  /\ req[p].pc = "idle" /\ Exists(c)
  /\ conflict' = [conflict EXCEPT ![c].st = "gone"]
  /\ UNCHANGED <<dev, addr, net, req, reported>>
-----------------------------------------------------------------------------
(* DetectDuplicateIPs and DetectOverlappingSubnets *)

\* FindDuplicateIPs groups rows of addresses, not devices.
FindDuplicateIPs ==
  {<<ip, Holders(ip)>> : ip \in {i \in IPs : SumFunction([d \in Devices |-> addr[d][i]]) > 1}}

FindOverlappingSubnets ==
  {<<ns, {}>> : ns \in {ms \in Pairs : {net[n] : n \in ms} \in Overlap}}

Detect(p, found) ==
  /\ req[p].pc = "idle"
  /\ Become(p, [Idle EXCEPT !.pc = "detect", !.found = found])
  /\ UNCHANGED tables

DetectDuplicateIPs(p) == Detect(p, FindDuplicateIPs)
DetectOverlappingSubnets(p) == Detect(p, FindOverlappingSubnets)

NextFound(p, f) == [Idle EXCEPT !.pc = "detect", !.found = req[p].found \ {f}]
ToCreate(p, f) == [NextFound(p, f) EXCEPT !.pc = "insert", !.key = f[1], !.devs = f[2]]

\* Mutant: resolved records are refreshed too.
ConsultAll(p, f) ==
  /\ req[p].pc = "detect" /\ f \in req[p].found /\ f[1] \in IPs
  /\ Become(p, IF About(f[1]) = {} THEN ToCreate(p, f)
               ELSE [NextFound(p, f) EXCEPT !.pc = "refresh", !.todo = About(f[1])])
  /\ UNCHANGED tables

\* A duplicate: a record of any status is enough, the active ones are
\* written again with the status just read.
ConsultByIP(p, f) ==
  /\ req[p].pc = "detect" /\ f \in req[p].found /\ f[1] \in IPs
  /\ Become(p, IF About(f[1]) = {} THEN ToCreate(p, f)
               ELSE [NextFound(p, f) EXCEPT !.pc = "refresh", !.todo = ActiveAbout(f[1])])
  /\ UNCHANGED tables

Refresh(p) ==
  /\ req[p].pc = "refresh"
  /\ IF req[p].todo = {} THEN Become(p, [req[p] EXCEPT !.pc = "detect"]) /\ UNCHANGED conflict
     ELSE \E c \in req[p].todo :
            /\ UpdateConflictStatus(c, "active")
            /\ Become(p, [req[p] EXCEPT !.todo = @ \ {c}])
  /\ UNCHANGED <<dev, addr, net, reported>>

\* Mutant: the pair is looked for among the resolved records.
ConsultResolved(p, f) ==
  /\ req[p].pc = "detect" /\ f \in req[p].found /\ f[1] \in Pairs
  /\ Become(p, IF \E c \in About(f[1]) : conflict[c].st = "resolved" THEN NextFound(p, f)
                                                                     ELSE ToCreate(p, f))
  /\ UNCHANGED tables

\* An overlap: only active records count, on one page of them.
ConsultActive(p, f) ==
  /\ req[p].pc = "detect" /\ f \in req[p].found /\ f[1] \in Pairs
  /\ \E page \in ListConflicts :
       Become(p, IF \E c \in page : conflict[c].key = f[1] THEN NextFound(p, f)
                                                           ELSE ToCreate(p, f))
  /\ UNCHANGED tables

InsertFound(p) ==
  /\ req[p].pc = "insert"
  /\ \E c \in Cids : CreateConflict(c, req[p].key, req[p].devs)
  /\ Become(p, [Idle EXCEPT !.pc = "detect", !.found = req[p].found])
  /\ UNCHANGED <<dev, addr, net>>

DetectDone(p) ==
  /\ req[p].pc = "detect" /\ req[p].found = {}
  /\ Become(p, Idle)
  /\ UNCHANGED tables

\* CreateNetwork, UpdateNetwork and DeleteNetwork look for no overlap.
WriteNetwork(p, n, s) ==
  /\ req[p].pc = "idle"
  /\ net[n] # Gone /\ (net[n] = None => s # Gone)
  /\ net' = [net EXCEPT ![n] = s]
  /\ UNCHANGED <<dev, addr, conflict, req, reported>>

\* The server stops: the requests are lost, the tables stay.
Crash ==
  /\ req' = [p \in Procs |-> Idle]
  /\ UNCHANGED tables
-----------------------------------------------------------------------------
Check(p) ==
  \/ \E ip \in IPs : CheckIP(p, ip)
  \/ CheckDone(p)
  \/ ListDevices(p)
  \/ \E d \in Devices : LoadAddresses(p, d)
  \/ ReportDuplicate(p)

Detection(p) ==
  \/ DetectDuplicateIPs(p)
  \/ \E f \in req[p].found : ConsultByIP(p, f) \/ ConsultActive(p, f)
  \/ Refresh(p)
  \/ InsertFound(p)
  \/ DetectDone(p)

Resolution(p) ==
  \/ \E c \in Cids, keep \in Devices \cup {None} : Resolve(p, c, keep)
  \/ \E d \in Devices : GetDevice(p, d)
  \/ WriteStripped(p)
  \/ MarkResolved(p)

DeviceWrite(p) == \E d \in Devices, rows \in Rows : CreateDevice(p, d, rows) \/ UpdateDevice(p, d, rows)

DeviceNext ==
  \E p \in Procs :
    \/ DeviceWrite(p) \/ Check(p) \/ Detection(p)
    \/ \E d \in Devices : DeleteDevice(p, d)
    \/ \E c \in Cids : DeleteConflict(p, c)

Next ==
  \/ DeviceNext
  \/ \E p \in Procs :
       \/ Resolution(p)
       \/ \E d \in Devices, rows \in Rows : WriteUnchecked(p, d, rows)
       \/ \E n \in Networks, s \in Subnets \cup {Gone} : WriteNetwork(p, n, s)
       \/ DetectOverlappingSubnets(p)
  \/ Crash

Spec == Init /\ [][Next]_vars
-----------------------------------------------------------------------------
\* Requests follow one another when there is one at a time.
InTurn == \A p, q \in DOMAIN req : p = q

\* The checks of one address after another (device.go, conflict.go): of
\* requests that follow one another, a key has at most one active record,
\* wherever the server crashed.  (Two checks that overlap make two.)
OneActiveWhenAlone == InTurn => \A key \in Keys : Cardinality(ActiveAbout(key)) <= 1

\* Detection refreshes records that are still active: a resolved record is
\* never made active again.
ResolvedStaysResolved ==
  [][\A c \in Cids : conflict[c].st = "resolved" => conflict'[c].st # "active"]_vars

\* Resolve marks the record after the devices: when a request that keeps a
\* device resolves its record, no other device named by it has the address,
\* whatever crashed or failed before.
CarriedOut ==
  \A p \in Procs : \A c \in Cids :
    LET ip == conflict[c].key
        keep == req[p].keep IN
    /\ req[p].pc = "strip" /\ req[p].cid = c /\ keep # None /\ ip \in IPs
    /\ conflict[c].st = "active" /\ conflict'[c].st = "resolved"
    => \A d \in conflict[c].devs \ {keep} : addr'[d][ip] = 0

\* It holds of requests that follow one another.
ResolvedIsCarriedOutAlone == [][InTurn => CarriedOut]_vars

\* The check runs after the write: when every request has ended, an address
\* of two devices has been reported, in whatever order the writes and the
\* checks of other requests came.
NoMissedDuplicate ==
  (\A p \in Procs : req[p].pc = "idle") =>
    \A ip \in IPs : Cardinality(Holders(ip)) > 1 => ip \in reported
=============================================================================
