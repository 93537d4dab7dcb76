----------------------------- MODULE Promotion ------------------------------
(***************************************************************************)
(* What becomes of a discovered host: the rows of discovered_devices that  *)
(* scans create and refresh, their promotion to devices of the inventory,  *)
(* the rules that make the scheduler scan a network, and the clean-up that *)
(* ends each of its passes.                                                *)
(*                                                                         *)
(* A host is looked up and then written, a promotion reads the row, makes  *)
(* the device and then links it, and an update of a rule reads it first:   *)
(* other requests, the scheduler and a crash come between.  How the        *)
(* goroutines of one scan work together is the subject of module Scans.    *)
(***************************************************************************)
EXTENDS Integers, FiniteSets

CONSTANTS Networks, Hosts, Discovered, Devices, Rules, Requests,
          MaxScans, MaxCrashes   \* bounds on the scans and crashes of a behaviour

VARIABLES net,       \* networks: "live" or "gone"
          dd,        \* rows of discovered_devices
          dev,       \* devices made by promotion: "fresh", "live", "gone"
          rule,      \* rows of discovery_rules
          req,       \* requests in flight
          scanRow,   \* networks that rows of discovery_scans refer to
          scanning,  \* networks whose scan goroutine runs
          host,      \* the host it is recording
          pass,      \* runScheduledScans: where it is, the rules left
          nscans, ncrashes,
          parted     \* history: devices whose link a request or a crash took away

vars == <<net, dd, dev, rule, req, scanRow, scanning, host, pass, nscans, ncrashes, parted>>

Idle == [pc |-> "idle"]
NoPass == [pc |-> "idle", todo |-> {}]
NewRow == [st |-> "fresh", ip |-> "none", net |-> "none", to |-> {}, old |-> FALSE]
NewRule == [st |-> "fresh", net |-> "none", on |-> FALSE]

Init ==
  /\ net = [n \in Networks |-> "live"]
  /\ dd = [d \in Discovered |-> NewRow]
  /\ dev = [x \in Devices |-> "fresh"]
  /\ rule = [u \in Rules |-> NewRule]
  /\ req = [p \in Requests |-> Idle]
  /\ scanRow = {} /\ scanning = {}
  /\ host = Idle /\ pass = NoPass
  /\ nscans = 0 /\ ncrashes = 0 /\ parted = {}

\* Identifiers are taken in a fixed order: only their being new matters.
NewId(S, fresh) == CHOOSE i \in S : i \in fresh

Rows == {d \in Discovered : dd[d].st = "live"}
LiveRules == {u \in Rules : rule[u].st = "live"}
LinkedTo(d) == dd[d].to
-----------------------------------------------------------------------------
(* Storage *)

GetNetwork(n) == net[n] = "live"

GetDiscoveredDeviceByIP(n, ip) == {d \in Rows : dd[d].net = n /\ dd[d].ip = ip}

CreateDiscoveredDevice(n, ip) ==
  IF net[n] # "live" THEN UNCHANGED dd
  ELSE LET d == NewId(Discovered, {e \in Discovered : dd[e].st = "fresh"})
       IN  dd' = [dd EXCEPT ![d] = [NewRow EXCEPT !.st = "live", !.ip = ip, !.net = n]]

\* Mutant: the row is written as it was read, the link with it.
UpdateDiscoveredDeviceWhole(d, seen) ==
  dd' = IF d \in Rows THEN [dd EXCEPT ![d].old = FALSE, ![d].to = seen.to] ELSE dd

\* Every column but the two of the promotion.
UpdateDiscoveredDevice(d, seen) ==
  dd' = IF d \in Rows THEN [dd EXCEPT ![d].old = FALSE, ![d].ip = seen.ip] ELSE dd

DeleteDiscoveredRows(D) ==
  /\ dd' = [d \in Discovered |-> IF d \in D THEN [NewRow EXCEPT !.st = "gone"] ELSE dd[d]]
  /\ parted' = parted \cup UNION {LinkedTo(d) : d \in D}

DeleteDiscoveredDevice(d) == d \in Rows /\ DeleteDiscoveredRows({d})

DeleteDiscoveredDevicesByNetwork(N) == DeleteDiscoveredRows({d \in Rows : dd[d].net \in N})

CleanupOldDiscoveries ==
  dd' = [d \in Discovered |->
           IF d \in Rows /\ dd[d].old /\ dd[d].to = {}
           THEN [NewRow EXCEPT !.st = "gone"] ELSE dd[d]]

\* The row must exist and, by its foreign key, so must the device.  A row
\* that is already linked is linked anew.
PromoteDiscoveredDevice(d, x) ==
  IF d \in Rows /\ dev[x] = "live"
  THEN dd' = [dd EXCEPT ![d].to = {x}] /\ parted' = parted \cup (LinkedTo(d) \ {x})
  ELSE parted' = parted \cup {x} /\ UNCHANGED dd

\* No foreign key of discovered_devices, discovery_rules or discovery_scans
\* gives way: a row that refers to it keeps the device or the network.
DeleteDevice(x) ==
  /\ dev[x] = "live" /\ \A d \in Rows : x \notin dd[d].to
  /\ dev' = [dev EXCEPT ![x] = "gone"]

DeleteNetwork(n) ==
  /\ net[n] = "live" /\ n \notin scanRow
  /\ \A d \in Rows : dd[d].net # n
  /\ \A u \in LiveRules : rule[u].net # n
  /\ net' = [net EXCEPT ![n] = "gone"]

\* Upsert by network: the rule of the network keeps its identifier.
SaveDiscoveryRule(u, n, on) ==
  LET same == {v \in LiveRules : rule[v].net = n} IN
  /\ net[n] = "live"
  /\ rule' = IF same = {}
             THEN [rule EXCEPT ![u] = [st |-> "live", net |-> n, on |-> on]]
             ELSE [v \in Rules |-> IF v \in same THEN [rule[v] EXCEPT !.on = on] ELSE rule[v]]

DeleteDiscoveryRule(u) == u \in LiveRules /\ rule' = [rule EXCEPT ![u] = [NewRule EXCEPT !.st = "gone"]]

CreateDiscoveryScan(n) == net[n] = "live" /\ scanRow' = scanRow \cup {n}
-----------------------------------------------------------------------------
(* Scans *)

\* UnifiedScanner.Scan: the row of the scan, then its goroutine.
Scan(n) ==
  /\ nscans < MaxScans
  /\ CreateDiscoveryScan(n)
  /\ scanning' = scanning \cup {n}
  /\ nscans' = nscans + 1

DiscoveryStartScan(n) == GetNetwork(n) /\ Scan(n)

startScan(n) ==
  /\ DiscoveryStartScan(n)
  /\ UNCHANGED <<net, dd, dev, rule, req, host, pass, ncrashes, parted>>

\* A host answered: its row is looked up ...
FoundHost(n, ip) ==
  LET found == GetDiscoveredDeviceByIP(n, ip) IN
  /\ host = Idle /\ n \in scanning
  /\ found # {} \/ \E d \in Discovered : dd[d].st = "fresh"
  /\ host' = [pc |-> "save", net |-> n, ip |-> ip, row |-> found,
              seen |-> IF found = {} THEN NewRow ELSE dd[CHOOSE d \in found : TRUE]]
  /\ UNCHANGED <<net, dd, dev, rule, req, scanRow, scanning, pass, nscans, ncrashes, parted>>

\* ... then created, or refreshed.
SaveHost ==
  /\ host.pc = "save"
  /\ IF host.row = {} THEN CreateDiscoveredDevice(host.net, host.ip)
     ELSE UpdateDiscoveredDevice(CHOOSE d \in host.row : TRUE, host.seen)
  /\ host' = Idle
  /\ UNCHANGED <<net, dev, rule, req, scanRow, scanning, pass, nscans, ncrashes, parted>>

EndScan(n) ==
  /\ n \in scanning /\ host = Idle
  /\ scanning' = scanning \ {n}
  /\ UNCHANGED <<net, dd, dev, rule, req, scanRow, host, pass, nscans, ncrashes, parted>>

DeleteDiscoveryScan(n) == n \in scanRow \ scanning /\ scanRow' = scanRow \ {n}

deleteDiscoveryScan(n) ==
  /\ DeleteDiscoveryScan(n)
  /\ UNCHANGED <<net, dd, dev, rule, req, scanning, host, pass, nscans, ncrashes, parted>>
-----------------------------------------------------------------------------
(* Requests *)

Go(p, r) == req' = [req EXCEPT ![p] = r]

Arrives(r) ==
  LET idle == {p \in Requests : req[p] = Idle} IN
  idle # {} /\ Go(NewId(Requests, idle), r)

GetDiscoveredDevice(d) == d \in Rows
GetDiscoveryRule(u) == u \in LiveRules

\* DiscoveryService.PromoteDevice: reads the row ...
DiscoveryPromoteDevice(d) == GetDiscoveredDevice(d) /\ Arrives([pc |-> "create", row |-> d])

promoteDevice(d) ==
  /\ DiscoveryPromoteDevice(d)
  /\ UNCHANGED <<net, dd, dev, rule, scanRow, scanning, host, pass, nscans, ncrashes, parted>>

\* ... makes the device out of what it read ...
CreatePromoted(p) ==
  LET fresh == {x \in Devices : dev[x] = "fresh"}
      x == NewId(Devices, fresh)
  IN
  /\ req[p].pc = "create" /\ fresh # {}
  /\ dev' = [dev EXCEPT ![x] = "live"]
  /\ Go(p, [pc |-> "link", row |-> req[p].row, dev |-> x])
  /\ UNCHANGED <<net, dd, rule, scanRow, scanning, host, pass, nscans, ncrashes, parted>>

\* ... and links the two.
LinkPromoted(p) ==
  /\ req[p].pc = "link"
  /\ PromoteDiscoveredDevice(req[p].row, req[p].dev)
  /\ Go(p, Idle)
  /\ UNCHANGED <<net, dev, rule, scanRow, scanning, host, pass, nscans, ncrashes>>

deleteDiscoveredDevice(d) ==
  /\ DeleteDiscoveredDevice(d)
  /\ UNCHANGED <<net, dev, rule, req, scanRow, scanning, host, pass, nscans, ncrashes>>

\* Of one network or, without a parameter, of all.
DiscoveryDeleteDevicesByNetwork ==
  \E N \in {{n} : n \in Networks} \cup {Networks} : DeleteDiscoveredDevicesByNetwork(N)

deleteDiscoveredDevicesByNetwork ==
  /\ DiscoveryDeleteDevicesByNetwork
  /\ UNCHANGED <<net, dev, rule, req, scanRow, scanning, host, pass, nscans, ncrashes>>

deleteDevice(x) ==
  /\ DeleteDevice(x)
  /\ UNCHANGED <<net, dd, rule, req, scanRow, scanning, host, pass, nscans, ncrashes, parted>>

deleteNetwork(n) ==
  /\ DeleteNetwork(n)
  /\ UNCHANGED <<dd, dev, rule, req, scanRow, scanning, host, pass, nscans, ncrashes, parted>>

CreateRule(n, on) ==
  LET fresh == {u \in Rules : rule[u].st = "fresh"} IN
  fresh # {} /\ SaveDiscoveryRule(NewId(Rules, fresh), n, on)

createDiscoveryRule(n, on) ==
  /\ CreateRule(n, on)
  /\ UNCHANGED <<net, dd, dev, req, scanRow, scanning, host, pass, nscans, ncrashes, parted>>

\* GetRule, then the whole rule with what the request changes in it.
updateDiscoveryRule(u) ==
  /\ GetDiscoveryRule(u)
  /\ Arrives([pc |-> "rule", rule |-> u, net |-> rule[u].net])
  /\ UNCHANGED <<net, dd, dev, rule, scanRow, scanning, host, pass, nscans, ncrashes, parted>>

UpdateRule(p, on) ==
  /\ req[p].pc = "rule"
  /\ IF net[req[p].net] = "live" THEN SaveDiscoveryRule(req[p].rule, req[p].net, on) ELSE UNCHANGED rule
  /\ Go(p, Idle)
  /\ UNCHANGED <<net, dd, dev, scanRow, scanning, host, pass, nscans, ncrashes, parted>>

deleteDiscoveryRule(u) ==
  /\ DeleteDiscoveryRule(u)
  /\ UNCHANGED <<net, dd, dev, req, scanRow, scanning, host, pass, nscans, ncrashes, parted>>
-----------------------------------------------------------------------------
(* Scheduler.runScheduledScans, on every tick *)

ListDiscoveryRules == {rule[u].net : u \in {v \in LiveRules : rule[v].on}}

\* Mutant: without rules there is nothing to do.
ListRulesOrReturn ==
  /\ pass = NoPass
  /\ pass' = IF LiveRules = {} THEN NoPass ELSE [pc |-> "scan", todo |-> ListDiscoveryRules]
  /\ UNCHANGED <<net, dd, dev, rule, req, scanRow, scanning, host, nscans, ncrashes, parted>>

ListRules ==
  /\ pass = NoPass
  /\ pass' = [pc |-> "scan", todo |-> ListDiscoveryRules]
  /\ UNCHANGED <<net, dd, dev, rule, req, scanRow, scanning, host, nscans, ncrashes, parted>>

\* A network that is gone, or a scan that cannot start, is passed over.
ScanRule(n) ==
  /\ pass.pc = "scan" /\ n \in pass.todo
  /\ IF GetNetwork(n) /\ nscans < MaxScans THEN Scan(n) ELSE UNCHANGED <<scanRow, scanning, nscans>>
  /\ pass' = [pass EXCEPT !.todo = @ \ {n}]
  /\ UNCHANGED <<net, dd, dev, rule, req, host, ncrashes, parted>>

EndPass ==
  /\ pass.pc = "scan" /\ pass.todo = {}
  /\ CleanupOldDiscoveries
  /\ pass' = NoPass
  /\ UNCHANGED <<net, dev, rule, req, scanRow, scanning, host, nscans, ncrashes, parted>>

runScheduledScans == ListRules \/ EndPass \/ \E n \in Networks : ScanRule(n)
-----------------------------------------------------------------------------
\* Time passes: the host was last seen more than DiscoveryCleanupDays ago.
Grow(d) ==
  /\ d \in Rows /\ ~dd[d].old
  /\ dd' = [dd EXCEPT ![d].old = TRUE]
  /\ UNCHANGED <<net, dev, rule, req, scanRow, scanning, host, pass, nscans, ncrashes, parted>>

\* The server stops and starts again.
Crash ==
  /\ ncrashes < MaxCrashes
  /\ ncrashes' = ncrashes + 1
  /\ scanning # {} \/ \E p \in Requests : req[p] # Idle
  /\ req' = [p \in Requests |-> Idle]
  /\ scanning' = {} /\ host' = Idle /\ pass' = NoPass
  /\ parted' = parted \cup {req[p].dev : p \in {q \in Requests : req[q].pc = "link"}}
  /\ UNCHANGED <<net, dd, dev, rule, scanRow, nscans>>

Requested ==
  \/ \E d \in Discovered : promoteDevice(d) \/ deleteDiscoveredDevice(d)
  \/ \E p \in Requests : CreatePromoted(p) \/ LinkPromoted(p)
  \/ deleteDiscoveredDevicesByNetwork
  \/ \E x \in Devices : deleteDevice(x)
  \/ \E n \in Networks : deleteNetwork(n) \/ startScan(n) \/ deleteDiscoveryScan(n)
  \/ \E n \in Networks, on \in BOOLEAN : createDiscoveryRule(n, on)
  \/ \E p \in Requests, on \in BOOLEAN : UpdateRule(p, on)
  \/ \E u \in Rules : updateDiscoveryRule(u) \/ deleteDiscoveryRule(u)

Next ==
  \/ Requested
  \/ \E n \in Networks, ip \in Hosts : FoundHost(n, ip)
  \/ SaveHost
  \/ \E n \in Networks : EndScan(n)
  \/ runScheduledScans
  \/ \E d \in Discovered : Grow(d)
  \/ Crash

Spec == Init /\ [][Next]_vars

\* The scheduler's ticker fires again and again and its pass is one
\* sequential loop, in which Scan returns once the goroutine is started.
FairSpec == Spec /\ WF_vars(runScheduledScans)
-----------------------------------------------------------------------------
(* Properties *)

\* Every device made by a promotion is named by its discovered row, unless
\* a request deleted or re-linked the row, or a crash or the loss of the row
\* came before the link.  In particular a scan that looked the host up
\* before its promotion and writes it after does not undo the promotion, and
\* no clean-up takes the row.
PromotedAreNamed ==
  \A x \in Devices :
    dev[x] = "live" =>
      \/ \E d \in Rows : x \in dd[d].to
      \/ \E p \in Requests : req[p].pc = "link" /\ req[p].dev = x
      \/ x \in parted

\* A host that was promoted to nothing and is not seen again leaves the
\* table: each pass ends in the clean-up, whatever the rules and networks.
OldRowsLeave ==
  \A d \in Discovered :
    (d \in Rows /\ dd[d].old /\ dd[d].to = {}) ~> (d \notin Rows \/ ~dd[d].old \/ dd[d].to # {})
=============================================================================
