-------------------------------- MODULE Ipam --------------------------------
(***************************************************************************)
(* IP address management: networks, pools, the addresses of devices and    *)
(* the reservations of pool addresses.                                     *)
(*                                                                         *)
(* The database is SQLite behind one connection, so a statement or a       *)
(* transaction is one atomic step.  A service call made of several of them *)
(* is a request that a process carries from step to step, keeping what it  *)
(* read: other requests run in between.                                    *)
(***************************************************************************)
EXTENDS Integers, FiniteSets

CONSTANTS Networks, Pools, Devices, Rids, Procs,
          NoPool,       \* an address that belongs to no pool
          NoRid,        \* a request that is about no reservation
          MaxIP,        \* addresses are 0..MaxIP; the space is circular
          Ranges,       \* <<start, end>> pairs given to pools
          MaxAddrs,     \* bound: addresses of one device
          MaxRetries,   \* attempts of an automatic assignment (5 in the code)
          MaxNow        \* bound: the clock

IPs == 0 .. MaxIP
Times == 0 .. MaxNow
Dates == 0 .. MaxNow - 1 \* later ones differ in nothing from Never within the bound
Never == MaxNow + 1     \* expires_at IS NULL

ASSUME NoPoolAssumption == NoPool \notin Pools /\ NoRid \notin Rids
ASSUME BoundsAssumption ==
  /\ MaxIP \in Nat /\ MaxNow \in Nat /\ MaxAddrs \in Nat
  /\ MaxRetries \in Nat \ {0}
  /\ Networks # {}
ASSUME RangesAssumption == Ranges \subseteq IPs \X IPs

VARIABLES network,  \* network[n]: "fresh", "live" or "gone"
          pool,     \* rows of network_pools
          device,   \* device[d]: "fresh", "live" or "gone"
          addrs,    \* rows of addresses
          resv,     \* rows of reservations
          now,      \* the clock
          req       \* req[p]: the service call process p is in, and what it read

vars == <<network, pool, device, addrs, resv, now, req>>

\* An identifier is fresh until a row gets it, and never used again: the
\* code draws UUIDs.
RowStatus == {"fresh", "live", "gone"}
ResvStatus == {"active", "expired", "claimed", "released"}
Row == [pool : Pools \cup {NoPool}, ip : IPs,
        status : ResvStatus \cup {"fresh", "gone"}, expires : Dates \cup {Never}]
Address == [dev : Devices, ip : IPs, pool : Pools \cup {NoPool}]
\* "range", "used" and "insert" are the steps of an attempt of Create,
\* "contention" is the answer after the last one.
Creating == {"range", "used", "insert"}
Request == [pc : Creating \cup {"idle", "contention", "write", "delete"},
            pool : Pools \cup {NoPool}, ip : IPs, range : (IPs \X IPs),
            attempt : 0 .. MaxRetries, rid : Rids \cup {NoRid}, row : Row]

NoRow == [pool |-> NoPool, ip |-> 0, status |-> "fresh", expires |-> Never]
Idle == [pc |-> "idle", pool |-> NoPool, ip |-> 0, range |-> <<0, 0>>,
         attempt |-> 0, rid |-> NoRid, row |-> NoRow]

Init ==
  /\ network = [n \in Networks |-> "fresh"]
  /\ pool = [p \in Pools |-> [status |-> "fresh", net |-> CHOOSE n \in Networks : TRUE,
                              range |-> <<0, 0>>]]
  /\ device = [d \in Devices |-> "fresh"]
  /\ addrs = {}
  /\ resv = [r \in Rids |-> NoRow]
  /\ now = 0
  /\ req = [p \in Procs |-> Idle]
-----------------------------------------------------------------------------
(* Queries *)

Live(p) == p \in Pools /\ pool[p].status = "live"
Exists(r) == resv[r].status \in ResvStatus
Active(r) == resv[r].status = "active"

Holding(p, ip) == {r \in Rids : Active(r) /\ resv[r].pool = p /\ resv[r].ip = ip}
UsedIPs(p) == {a.ip : a \in {b \in addrs : b.pool = p}}

ipInRange(ip, range) == range[1] <= ip /\ ip <= range[2]

\* The addresses the scan of GetNextAvailableIP looks at, as offsets from
\* the start: it stops after the first successor beyond the end.
Scanned(range) ==
  {k \in 0 .. MaxIP : \A j \in 1 .. k : (range[1] + j) % (MaxIP + 1) <= range[2]}

Candidates(range, used) ==
  {k \in Scanned(range) : (range[1] + k) % (MaxIP + 1) \notin used}

FirstUnused(range, used) ==
  LET c == Candidates(range, used)
  IN  (range[1] + (CHOOSE k \in c : \A j \in c : k <= j)) % (MaxIP + 1)

\* The status the heatmap of a pool gives an address of its range.
HeatmapStatus(p, ip) ==
  IF ip \in UsedIPs(p) THEN "used"
  ELSE IF Holding(p, ip) # {} THEN "reserved" ELSE "available"

Available(p) == {ip \in IPs : ipInRange(ip, pool[p].range) /\ HeatmapStatus(p, ip) = "available"}
-----------------------------------------------------------------------------
(* Storage of reservations *)

\* Mutant: the index is missing.
NoUniqueIndex(r, p, ip) == TRUE

\* The partial unique index over (pool_id, ip_address) WHERE status = 'active'.
UniqueActive(r, p, ip) == Holding(p, ip) \subseteq {r}

\* Mutant: the addresses of devices are not looked at.
InUseByReservation(p, ip) == Holding(p, ip) # {}

InUse(p, ip) == ip \in UsedIPs(p) \/ Holding(p, ip) # {}

CreateReservation(r, p, ip, expires) ==
  /\ resv[r].status = "fresh"
  /\ Live(p)
  /\ ipInRange(ip, pool[p].range)
  /\ ~InUse(p, ip)
  /\ UniqueActive(r, p, ip)
  /\ resv' = [resv EXCEPT ![r] = [pool |-> p, ip |-> ip, status |-> "active",
                                  expires |-> expires]]

\* One UPDATE by id: nothing happens when the row is gone or when the index
\* refuses the new status.
UpdateReservation(r, status, expires) ==
  resv' = IF Exists(r) /\ (status = "active" => UniqueActive(r, resv[r].pool, resv[r].ip))
          THEN [resv EXCEPT ![r].status = status, ![r].expires = expires]
          ELSE resv

DeleteReservation(r) ==
  resv' = [resv EXCEPT ![r].status = IF Exists(r) THEN "gone" ELSE @]

\* ON DELETE CASCADE from network_pools to reservations.
CascadeReservations(P) ==
  resv' = [r \in Rids |-> IF Exists(r) /\ resv[r].pool \in P
                          THEN [resv[r] EXCEPT !.status = "gone"] ELSE resv[r]]
-----------------------------------------------------------------------------
(* ReservationService *)

\* Bound: a Create starts only while an identifier is left for it.
IdLeft == Cardinality({r \in Rids : resv[r].status = "fresh"})
          > Cardinality({p \in Procs : req[p].pc \in Creating})

Goto(p, r) == req' = [req EXCEPT ![p] = r]
Answer(p) == Goto(p, Idle)
dbOthers == <<network, pool, device, addrs, now>>

\* Create with an address: the checks and the insert are one transaction.
CreateExplicit(p, pl, ip, expires) ==
  /\ req[p].pc = "idle"
  /\ IdLeft
  /\ \E r \in Rids : CreateReservation(r, pl, ip, expires)
  /\ UNCHANGED <<dbOthers, req>>

\* Create without an address: up to MaxRetries attempts.
CreateBegin(p, pl, expires) ==
  /\ req[p].pc = "idle"
  /\ IdLeft
  /\ Goto(p, [Idle EXCEPT !.pc = "range", !.pool = pl,
                          !.row = [NoRow EXCEPT !.expires = expires]])
  /\ UNCHANGED <<dbOthers, resv>>

\* GetNextAvailableIP reads the pool ...
ReadRange(p) ==
  /\ req[p].pc = "range"
  /\ IF Live(req[p].pool)
     THEN Goto(p, [req[p] EXCEPT !.pc = "used", !.range = pool[req[p].pool].range])
     ELSE Answer(p)
  /\ UNCHANGED <<dbOthers, resv>>

\* ... then the addresses devices use in it, and picks.
PickIP(p) ==
  /\ req[p].pc = "used"
  /\ LET used == UsedIPs(req[p].pool)
     IN  IF Candidates(req[p].range, used) = {}
         THEN Answer(p)
         ELSE Goto(p, [req[p] EXCEPT !.pc = "insert", !.ip = FirstUnused(req[p].range, used)])
  /\ UNCHANGED <<dbOthers, resv>>

\* Mutant: a collision does not count as an attempt.
InsertPickedForever(p) ==
  LET q == req[p] IN
  /\ q.pc = "insert"
  /\ \/ /\ \E r \in Rids : CreateReservation(r, q.pool, q.ip, q.row.expires)
        /\ Answer(p)
     \/ /\ InUse(q.pool, q.ip)
        /\ Goto(p, [q EXCEPT !.pc = "range"])
        /\ UNCHANGED resv
  /\ UNCHANGED dbOthers

\* The insert of an attempt succeeds, finds the address taken and goes
\* round again, or fails for good (pool gone, address out of its range).
InsertPicked(p) ==
  LET q == req[p] IN
  /\ q.pc = "insert"
  /\ \/ /\ \E r \in Rids : CreateReservation(r, q.pool, q.ip, q.row.expires)
        /\ Answer(p)
     \/ /\ Live(q.pool) /\ ipInRange(q.ip, pool[q.pool].range) /\ InUse(q.pool, q.ip)
        /\ Goto(p, [q EXCEPT !.attempt = @ + 1,
                             !.pc = IF q.attempt + 1 < MaxRetries THEN "range"
                                    ELSE "contention"])
        /\ UNCHANGED resv
     \/ /\ ~(Live(q.pool) /\ ipInRange(q.ip, pool[q.pool].range))
        /\ Answer(p)
        /\ UNCHANGED resv
  /\ UNCHANGED dbOthers

AnswerContention(p) ==
  /\ req[p].pc = "contention"
  /\ Answer(p)
  /\ UNCHANGED <<dbOthers, resv>>

\* Update, Release and Claim read the row, change the copy and write it back.
BeginWrite(p, r, status, expires) ==
  /\ req[p].pc = "idle"
  /\ Goto(p, [Idle EXCEPT !.pc = "write", !.rid = r,
                          !.row = [resv[r] EXCEPT !.status = status, !.expires = expires]])
  /\ UNCHANGED <<dbOthers, resv>>

BeginUpdate(p, r, expires) == Active(r) /\ BeginWrite(p, r, "active", expires)
BeginRelease(p, r) == Exists(r) /\ BeginWrite(p, r, "released", resv[r].expires)
BeginClaim(p, r) == Active(r) /\ BeginWrite(p, r, "claimed", resv[r].expires)

WriteBack(p) ==
  /\ req[p].pc = "write"
  /\ UpdateReservation(req[p].rid, req[p].row.status, req[p].row.expires)
  /\ Answer(p)
  /\ UNCHANGED dbOthers

BeginDelete(p, r) ==
  /\ req[p].pc = "idle"
  /\ Exists(r)
  /\ Goto(p, [Idle EXCEPT !.pc = "delete", !.rid = r])
  /\ UNCHANGED <<dbOthers, resv>>

EndDelete(p) ==
  /\ req[p].pc = "delete"
  /\ DeleteReservation(req[p].rid)
  /\ Answer(p)
  /\ UNCHANGED dbOthers

ExpireReservations ==
  /\ resv' = [r \in Rids |-> IF Active(r) /\ resv[r].expires < now
                             THEN [resv[r] EXCEPT !.status = "expired"] ELSE resv[r]]
  /\ UNCHANGED <<dbOthers, req>>
-----------------------------------------------------------------------------
(* Networks, pools and devices: each one transaction of the storage *)

CreateNetwork(n) ==
  /\ network[n] = "fresh"
  /\ network' = [network EXCEPT ![n] = "live"]
  /\ UNCHANGED <<pool, device, addrs, resv, now, req>>

CreateNetworkPool(p, n, range) ==
  /\ pool[p].status = "fresh" /\ network[n] = "live"
  /\ pool' = [pool EXCEPT ![p] = [status |-> "live", net |-> n, range |-> range]]
  /\ UNCHANGED <<network, device, addrs, resv, now, req>>

\* The range may move away from addresses in use and from reservations.
UpdateNetworkPool(p, range) ==
  /\ Live(p)
  /\ pool' = [pool EXCEPT ![p].range = range]
  /\ UNCHANGED <<network, device, addrs, resv, now, req>>

DeleteNetworkPool(p) ==
  /\ Live(p)
  /\ addrs' = {IF a.pool = p THEN [a EXCEPT !.pool = NoPool] ELSE a : a \in addrs}
  /\ pool' = [pool EXCEPT ![p].status = "gone"]
  /\ CascadeReservations({p})
  /\ UNCHANGED <<network, device, now, req>>

\* Addresses are unlinked from the network but not from its pools, so the
\* foreign key of addresses.pool_id refuses the deletion while one is left.
DeleteNetwork(n) ==
  LET P == {p \in Pools : Live(p) /\ pool[p].net = n} IN
  /\ network[n] = "live"
  /\ \A a \in addrs : a.pool \notin P
  /\ network' = [network EXCEPT ![n] = "gone"]
  /\ pool' = [p \in Pools |-> IF p \in P THEN [pool[p] EXCEPT !.status = "gone"] ELSE pool[p]]
  /\ CascadeReservations(P)
  /\ UNCHANGED <<device, addrs, now, req>>

\* The addresses a request gives a device; the foreign key wants live pools.
AddressSets(d) ==
  {A \in SUBSET [dev : {d}, ip : IPs, pool : {p \in Pools : Live(p)} \cup {NoPool}] :
     Cardinality(A) <= MaxAddrs}

CreateDevice(d) ==
  /\ device[d] = "fresh"
  /\ device' = [device EXCEPT ![d] = "live"]
  /\ \E A \in AddressSets(d) : addrs' = addrs \cup A
  /\ UNCHANGED <<network, pool, resv, now, req>>

UpdateDevice(d) ==
  /\ device[d] = "live"
  /\ \E A \in AddressSets(d) : addrs' = {a \in addrs : a.dev # d} \cup A
  /\ UNCHANGED <<network, pool, device, resv, now, req>>

DeleteDevice(d) ==
  /\ device[d] = "live"
  /\ device' = [device EXCEPT ![d] = "gone"]
  /\ addrs' = {a \in addrs : a.dev # d}
  /\ UNCHANGED <<network, pool, resv, now, req>>

Tick ==
  /\ now < MaxNow
  /\ now' = now + 1
  /\ UNCHANGED <<network, pool, device, addrs, resv, req>>

\* The server stops: requests are lost, committed rows are not.
Crash ==
  /\ \E p \in Procs : req[p].pc # "idle"
  /\ req' = [p \in Procs |-> Idle]
  /\ UNCHANGED <<dbOthers, resv>>
-----------------------------------------------------------------------------
Steps(p) ==
  \/ ReadRange(p) \/ PickIP(p) \/ InsertPicked(p) \/ AnswerContention(p)
  \/ WriteBack(p) \/ EndDelete(p)

Calls(p) ==
  \/ \E pl \in Pools, e \in Dates \cup {Never} :
       \/ CreateBegin(p, pl, e)
       \/ \E ip \in IPs : CreateExplicit(p, pl, ip, e)
  \/ \E r \in Rids :
       \/ \E e \in Dates \cup {resv[r].expires} : BeginUpdate(p, r, e)
       \/ BeginRelease(p, r)
       \/ BeginDelete(p, r)

Inventory ==
  \/ \E n \in Networks : CreateNetwork(n) \/ DeleteNetwork(n)
  \/ \E p \in Pools :
       \/ \E range \in Ranges :
            \/ UpdateNetworkPool(p, range)
            \/ \E n \in Networks : CreateNetworkPool(p, n, range)
       \/ DeleteNetworkPool(p)
  \/ \E d \in Devices : CreateDevice(d) \/ UpdateDevice(d) \/ DeleteDevice(d)

\* What the server does.  It never calls Claim nor ExpireExpired.
ServerNext ==
  \/ \E p \in Procs : Steps(p) \/ Calls(p)
  \/ Inventory
  \/ Tick
  \/ Crash

\* The whole interface of the service.
Next ==
  \/ ServerNext
  \/ \E p \in Procs, r \in Rids : BeginClaim(p, r)
  \/ ExpireReservations

Fairness == \A p \in Procs : WF_vars(Steps(p))

Spec == Init /\ [][Next]_vars
FairSpec == Spec /\ Fairness
-----------------------------------------------------------------------------
(* Properties *)

\* Every table and every request in flight has the shape the code gives it.
TypeOK ==
  /\ network \in [Networks -> RowStatus]
  /\ pool \in [Pools -> [status : RowStatus, net : Networks, range : IPs \X IPs]]
  /\ device \in [Devices -> RowStatus]
  /\ addrs \subseteq Address
  /\ resv \in [Rids -> Row]
  /\ now \in Times
  /\ req \in [Procs -> Request]

\* However requests interleave, an address of a pool has at most one active
\* reservation: a creation that picked an address somebody took meanwhile,
\* and a write-back of a copy read before the row was released and the
\* address reserved again, are both refused.
OneActivePerIP ==
  \A r, s \in Rids :
    Active(r) /\ Active(s) /\ resv[r].pool = resv[s].pool /\ resv[r].ip = resv[s].ip
      => r = s

\* Deleting a network, a pool or a device while requests about it are in
\* flight leaves no reservation, address or pool that points to a deleted row.
NoDanglingRow ==
  /\ \A r \in Rids : Exists(r) => Live(resv[r].pool)
  /\ \A a \in addrs : device[a.dev] = "live" /\ (a.pool # NoPool => Live(a.pool))
  /\ \A p \in Pools : Live(p) => network[pool[p].net] = "live"

\* A reservation is written only for an address that, at the moment of the
\* commit, lies in the pool's range, is used by no device of the pool and is
\* reserved by nobody, however long ago the request picked the address.
NewReservationFits ==
  [][\A r \in Rids :
       resv[r].status = "fresh" /\ resv'[r].status # "fresh" =>
         LET p == resv'[r].pool  ip == resv'[r].ip
         IN  /\ Live(p)
             /\ ipInRange(ip, pool[p].range)
             /\ HeatmapStatus(p, ip) = "available"]_vars

\* An automatic assignment is answered after finitely many attempts, also
\* when every attempt finds its address taken.
CreateIsAnswered == \A p \in Procs : req[p].pc \in Creating ~> req[p].pc \notin Creating

\* The tables implement the ledger of exclusive holders.
Ledger == INSTANCE IpLedger WITH
  Keys <- Pools \X IPs,
  NoKey <- <<NoPool, 0>>,
  key <- [r \in Rids |-> <<resv[r].pool, resv[r].ip>>],
  holders <- {r \in Rids : Active(r)}

ImplementsLedger == Ledger!LedgerSpec
-----------------------------------------------------------------------------
(* What the documentation or a comment says and the code does not do *)

\* docs/reservations.md: "If `ip_address` is omitted, the next available IP
\* is automatically assigned."  An automatic assignment gives up only when
\* the heatmap of the pool shows no available address.
GivesUpOnlyWhenFull ==
  \A p \in Procs :
    req[p].pc = "contention" /\ Live(req[p].pool) => Available(req[p].pool) = {}
=============================================================================
