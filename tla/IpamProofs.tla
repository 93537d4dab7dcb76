----------------------------- MODULE IpamProofs -----------------------------
(***************************************************************************)
(* Theorems about Ipam, for any number of networks, pools, devices,        *)
(* addresses, reservations and requests in flight, and about PoolScan, for *)
(* addresses of any width and base.                                        *)
(***************************************************************************)
EXTENDS Ipam, PoolLoops, Sequences, WellFoundedInduction, TLAPS

\* A nonempty set of natural numbers has a least element.
LEMMA LeastElement ==
  ASSUME NEW S \in SUBSET Nat, S # {}
  PROVE  \E k \in S : \A j \in S : k <= j
<1> DEFINE Less == {ss \in Nat \X Nat : ss[1] < ss[2]}
<1>1. OpToRel(<, Nat) = Less
  BY Zenon DEF OpToRel
<1>2. IsWellFoundedOn(Less, Nat)
  BY Zenon, <1>1, NatLessThanWellFounded
<1>3. PICK k \in S : \A j \in S : ~(<<j, k>> \in Less)
  <2> HIDE DEF Less
  <2> QED BY Zenon, <1>2, WFMin
<1>4. ASSUME NEW j \in S PROVE k <= j
  <2>1. j \in Nat /\ k \in Nat
    OBVIOUS
  <2>2. <<j, k>> \in Less <=> j < k
    BY Zenon, <2>1
  <2> HIDE DEF Less
  <2>3. ~(j < k)
    BY Zenon, <1>3, <2>2
  <2> QED
    BY <2>1, <2>3
<1> QED
  BY Zenon, <1>4

\* The address an attempt picks is an address, not used by a device of the
\* pool when the attempt read them.
LEMMA FirstUnusedIsUnused ==
  ASSUME NEW range \in IPs \X IPs, NEW used, Candidates(range, used) # {}
  PROVE  /\ FirstUnused(range, used) \in IPs
         /\ FirstUnused(range, used) \notin used
<1> DEFINE c == Candidates(range, used)
           k == CHOOSE k \in c : \A j \in c : k <= j
<1>1. c \subseteq Nat
  BY BoundsAssumption DEF Candidates, Scanned
<1>2. \E i \in c : \A j \in c : i <= j
  BY Zenon, <1>1, LeastElement
<1>3. k \in c
  BY Zenon, <1>2
<1>4. k \in Nat /\ (range[1] + k) % (MaxIP + 1) \notin used
  BY Zenon, <1>1, <1>3 DEF Candidates
<1>5. (range[1] + k) % (MaxIP + 1) \in IPs
  BY <1>4, BoundsAssumption DEF IPs
<1> QED
  BY Zenon, <1>4, <1>5 DEF FirstUnused
-----------------------------------------------------------------------------
(* Type correctness *)

\* The rest states of a request and of a reservation row are of their types.
LEMMA IdleType == Idle \in Request /\ NoRow \in Row
<1>1. 0 \in IPs /\ 0 \in 0 .. MaxRetries /\ <<0, 0>> \in IPs \X IPs
  BY BoundsAssumption DEF IPs
<1>2. NoRow \in Row
  BY Zenon, <1>1 DEF NoRow, Row
<1> QED
  BY Zenon, <1>1, <1>2 DEF Idle, Request

\* A freshly migrated database has the right type.
LEMMA InitType == Init => TypeOK
<1> SUFFICES ASSUME Init PROVE TypeOK
  OBVIOUS
<1>1. (CHOOSE n \in Networks : TRUE) \in Networks
  BY Zenon, BoundsAssumption
<1>2. 0 \in Times /\ <<0, 0>> \in IPs \X IPs
  BY BoundsAssumption DEF IPs, Times
<1> QED
  BY Zenon, <1>1, <1>2, IdleType DEF Init, TypeOK, RowStatus

\* The statements on the reservations table keep its rows well-formed.
LEMMA ResvType ==
  ASSUME resv \in [Rids -> Row], NEW r \in Rids
  PROVE  /\ \A p, ip, e : CreateReservation(r, p, ip, e) /\ ip \in IPs /\ e \in Dates \cup {Never}
                             => resv' \in [Rids -> Row]
         /\ \A st \in ResvStatus, e \in Dates \cup {Never} :
              UpdateReservation(r, st, e) => resv' \in [Rids -> Row]
         /\ DeleteReservation(r) => resv' \in [Rids -> Row]
<1>1. ASSUME NEW p, NEW ip, NEW e, CreateReservation(r, p, ip, e), ip \in IPs,
             e \in Dates \cup {Never}
      PROVE  resv' \in [Rids -> Row]
  BY Zenon, <1>1 DEF CreateReservation, Live, Row, ResvStatus
<1>2. ASSUME NEW st \in ResvStatus, NEW e \in Dates \cup {Never}, UpdateReservation(r, st, e)
      PROVE  resv' \in [Rids -> Row]
  BY <1>2, ZenonT(30) DEF UpdateReservation, Row, ResvStatus
<1>3. ASSUME DeleteReservation(r) PROVE resv' \in [Rids -> Row]
  BY <1>3 DEF DeleteReservation, Row, ResvStatus
<1> QED
  BY Zenon, <1>1, <1>2, <1>3

\* Deleting the reservations of some pools (ON DELETE CASCADE) leaves rows.
LEMMA CascadeType ==
  ASSUME resv \in [Rids -> Row], NEW P, CascadeReservations(P)
  PROVE  resv' \in [Rids -> Row]
  BY Zenon DEF CascadeReservations, Row

\* A request that is about to write a row back, or to delete one, names a
\* reservation, and the status it writes is one of the four of the code.  A
\* request that is creating has attempts left.
RequestOK ==
  \A p \in Procs :
    /\ req[p].pc = "write" => req[p].rid \in Rids /\ req[p].row.status \in ResvStatus
    /\ req[p].pc = "delete" => req[p].rid \in Rids
    /\ req[p].pc \in Creating => req[p].attempt < MaxRetries

\* A request that moves on to a well-formed state stays well-formed.
LEMMA GotoType ==
  ASSUME req \in [Procs -> Request], RequestOK, NEW p \in Procs, NEW q \in Request, Goto(p, q),
         q.pc = "write" => q.rid \in Rids /\ q.row.status \in ResvStatus,
         q.pc = "delete" => q.rid \in Rids,
         q.pc \in Creating => q.attempt < MaxRetries
  PROVE  req' \in [Procs -> Request] /\ RequestOK'
<1>1. \A x \in Procs : req'[x] = IF x = p THEN q ELSE req[x]
  BY Zenon DEF Goto
<1>2. req' \in [Procs -> Request]
  BY Zenon DEF Goto
<1> QED
  BY Zenon, <1>1, <1>2, Zenon DEF RequestOK

\* A request that answers its caller stays well-formed.
LEMMA AnswerType ==
  ASSUME req \in [Procs -> Request], RequestOK, NEW p \in Procs, Answer(p)
  PROVE  req' \in [Procs -> Request] /\ RequestOK'
<1>1. Idle.pc = "idle" /\ Idle.pc \notin Creating
  BY Zenon DEF Idle, Creating
<1> QED
  BY Zenon, <1>1, IdleType, GotoType DEF Answer

\* The steps of a request in flight.
LEMMA StepsType ==
  ASSUME TypeOK, RequestOK, NEW p \in Procs, Steps(p)
  PROVE  TypeOK' /\ RequestOK'
<1> DEFINE q == req[p]
<1>q. q \in Request /\ resv \in [Rids -> Row] /\ req \in [Procs -> Request]
  BY Zenon DEF TypeOK
<1> USE DEF dbOthers
<1>1. CASE ReadRange(p)
  <2>1. CASE Live(q.pool)
    <3> DEFINE n == [q EXCEPT !.pc = "used", !.range = pool[q.pool].range]
    <3>1. pool[q.pool].range \in IPs \X IPs
      BY Zenon, <2>1 DEF Live, TypeOK
    <3>2. n \in Request /\ n.pc = "used" /\ n.attempt < MaxRetries
      BY Zenon, <3>1, <1>1, <1>q DEF Request, Creating, RequestOK, ReadRange
    <3>3. Goto(p, n)
      BY Zenon, <1>1, <2>1 DEF ReadRange
    <3> HIDE DEF n
    <3>4. req' \in [Procs -> Request] /\ RequestOK'
      BY Zenon, <3>2, <3>3, <1>q, GotoType
    <3> QED
      BY Zenon, <1>1, <3>4 DEF ReadRange, TypeOK
  <2>2. CASE ~Live(q.pool)
    BY Zenon, <1>1, <2>2, <1>q, AnswerType DEF ReadRange, TypeOK
  <2> QED
    BY Zenon, <2>1, <2>2
<1>2. CASE PickIP(p)
  <2> DEFINE used == UsedIPs(q.pool)
  <2>1. CASE Candidates(q.range, used) # {}
    <3> DEFINE n == [q EXCEPT !.pc = "insert", !.ip = FirstUnused(q.range, used)]
    <3>0. q.range \in IPs \X IPs
      BY Zenon, <1>q DEF Request
    <3>1. FirstUnused(q.range, used) \in IPs
      BY Zenon, <2>1, <3>0, FirstUnusedIsUnused
    <3>2. n \in Request /\ n.pc = "insert" /\ n.attempt < MaxRetries
      BY Zenon, <3>1, <1>2, <1>q DEF Request, Creating, RequestOK, PickIP
    <3>3. Goto(p, n)
      BY Zenon, <1>2, <2>1 DEF PickIP
    <3> HIDE DEF n
    <3>4. req' \in [Procs -> Request] /\ RequestOK'
      BY Zenon, <3>2, <3>3, <1>q, GotoType
    <3> QED
      BY Zenon, <1>2, <3>4 DEF PickIP, TypeOK
  <2>2. CASE Candidates(q.range, used) = {}
    BY Zenon, <1>2, <2>2, <1>q, AnswerType DEF PickIP, TypeOK
  <2> QED
    BY Zenon, <2>1, <2>2
<1>3. CASE InsertPicked(p)
  <2>0. q.ip \in IPs /\ q.row.expires \in Dates \cup {Never}
    BY Zenon, <1>q DEF Request, Row
  <2>1. CASE (\E r \in Rids : CreateReservation(r, q.pool, q.ip, q.row.expires)) /\ Answer(p)
    BY Zenon, <1>3, <2>0, <2>1, <1>q, ResvType, AnswerType DEF InsertPicked, TypeOK
  <2>2. CASE Goto(p, [q EXCEPT !.attempt = @ + 1,
                               !.pc = IF q.attempt + 1 < MaxRetries THEN "range" ELSE "contention"])
             /\ UNCHANGED resv
    <3> DEFINE n == [q EXCEPT !.attempt = @ + 1,
                              !.pc = IF q.attempt + 1 < MaxRetries THEN "range" ELSE "contention"]
    <3>1. q.attempt \in 0 .. MaxRetries /\ q.attempt < MaxRetries
      BY Zenon, <1>3, <1>q DEF InsertPicked, RequestOK, Creating, Request
    <3>2. q.attempt + 1 \in 0 .. MaxRetries
      BY <3>1, BoundsAssumption
    <3>3. n \in Request
      BY Zenon, <3>2, <1>q DEF Request, Creating
    <3>4. n.pc \notin {"write", "delete"} /\ (n.pc \in Creating => n.attempt < MaxRetries)
      BY Zenon, <3>1, <1>q DEF Request, Creating
    <3>5. Goto(p, n)
      BY Zenon, <2>2
    <3> HIDE DEF n
    <3>6. req' \in [Procs -> Request] /\ RequestOK'
      BY Zenon, <3>3, <3>4, <3>5, <1>q, GotoType
    <3> QED
      BY Zenon, <1>3, <2>2, <3>6 DEF InsertPicked, TypeOK
  <2>3. CASE Answer(p) /\ UNCHANGED resv
    BY Zenon, <1>3, <2>3, <1>q, AnswerType DEF InsertPicked, TypeOK
  <2> QED
    BY Zenon, <1>3, <2>1, <2>2, <2>3 DEF InsertPicked
<1>4. CASE AnswerContention(p)
  BY Zenon, <1>4, <1>q, AnswerType DEF AnswerContention, TypeOK
<1>5. CASE WriteBack(p)
  <2>1. q.rid \in Rids /\ q.row.status \in ResvStatus /\ q.row.expires \in Dates \cup {Never}
    BY Zenon, <1>5, <1>q DEF WriteBack, RequestOK, Request, Row
  <2>2. resv' \in [Rids -> Row]
    BY Zenon, <1>5, <2>1, <1>q, ResvType DEF WriteBack
  <2> QED
    BY Zenon, <1>5, <2>2, <1>q, AnswerType DEF WriteBack, TypeOK
<1>6. CASE EndDelete(p)
  <2>1. resv' \in [Rids -> Row]
    BY Zenon, <1>6, <1>q, ResvType DEF EndDelete, RequestOK
  <2> QED
    BY Zenon, <1>6, <2>1, <1>q, AnswerType DEF EndDelete, TypeOK
<1> QED
  BY Zenon, <1>1, <1>2, <1>3, <1>4, <1>5, <1>6 DEF Steps

\* Reading a reservation and preparing its row for the write keeps the types.
LEMMA BeginWriteType ==
  ASSUME TypeOK, RequestOK, NEW p \in Procs, NEW r \in Rids, NEW st \in ResvStatus,
         NEW e \in Dates \cup {Never}, BeginWrite(p, r, st, e)
  PROVE  TypeOK' /\ RequestOK'
<1> DEFINE row == [resv[r] EXCEPT !.status = st, !.expires = e]
           n == [Idle EXCEPT !.pc = "write", !.rid = r, !.row = row]
<1>1. row \in Row /\ row.status = st
  BY Zenon DEF TypeOK, Row, ResvStatus
<1> HIDE DEF row
<1>2. n \in Request /\ n.pc = "write" /\ n.rid = r /\ n.row = row
  BY Zenon, <1>1, IdleType DEF Request, Idle
<1>3. Goto(p, n)
  BY Zenon DEF BeginWrite, row
<1> HIDE DEF n
<1>4. n.pc \notin Creating
  BY Zenon, <1>2 DEF Creating
<1>5. req' \in [Procs -> Request] /\ RequestOK'
  BY Zenon, <1>1, <1>2, <1>3, <1>4, GotoType DEF TypeOK
<1> QED
  BY Zenon, <1>5 DEF BeginWrite, dbOthers, TypeOK

\* The first step of a service call.
LEMMA CallsType ==
  ASSUME TypeOK, RequestOK, NEW p \in Procs,
         Calls(p) \/ \E r \in Rids : BeginClaim(p, r)
  PROVE  TypeOK' /\ RequestOK'
<1> USE DEF dbOthers
<1>1. ASSUME NEW pl \in Pools, NEW e \in Dates \cup {Never}, CreateBegin(p, pl, e)
      PROVE  TypeOK' /\ RequestOK'
  <2> DEFINE row == [NoRow EXCEPT !.expires = e]
             n == [Idle EXCEPT !.pc = "range", !.pool = pl, !.row = row]
  <2>0. row \in Row
    BY Zenon, IdleType DEF Row
  <2>1. n \in Request /\ n.pc = "range" /\ n.attempt < MaxRetries
    <3> HIDE DEF row
    <3>1. n \in Request /\ n.pc = "range"
      BY Zenon, <2>0, IdleType DEF Request, Creating
    <3>2. Idle \in Request /\ Idle.attempt = 0 /\ 0 < MaxRetries
      BY IdleType, BoundsAssumption DEF Idle
    <3> QED
      BY Zenon, <3>1, <3>2 DEF Request
  <2>2. Goto(p, n)
    BY Zenon, <1>1 DEF CreateBegin
  <2> HIDE DEF n
  <2>3. req' \in [Procs -> Request] /\ RequestOK'
    BY Zenon, <2>1, <2>2, GotoType DEF TypeOK
  <2> QED
    BY Zenon, <1>1, <2>3 DEF CreateBegin, TypeOK
<1>2. ASSUME NEW pl \in Pools, NEW e \in Dates \cup {Never}, NEW ip \in IPs,
             CreateExplicit(p, pl, ip, e)
      PROVE  TypeOK' /\ RequestOK'
  <2>1. resv' \in [Rids -> Row]
    BY Zenon, <1>2, ResvType DEF CreateExplicit, TypeOK
  <2> QED
    BY Zenon, <1>2, <2>1 DEF CreateExplicit, TypeOK, RequestOK
<1>3. ASSUME NEW r \in Rids PROVE resv[r].expires \in Dates \cup {Never}
  BY Zenon DEF TypeOK, Row
<1>4. ASSUME NEW r \in Rids, NEW e \in Dates \cup {resv[r].expires}, BeginUpdate(p, r, e)
      PROVE  TypeOK' /\ RequestOK'
  BY Zenon, <1>3, <1>4, BeginWriteType DEF BeginUpdate, ResvStatus
<1>5. ASSUME NEW r \in Rids, BeginRelease(p, r) \/ BeginClaim(p, r)
      PROVE  TypeOK' /\ RequestOK'
  BY Zenon, <1>3, <1>5, BeginWriteType DEF BeginRelease, BeginClaim, ResvStatus
<1>6. ASSUME NEW r \in Rids, BeginDelete(p, r)
      PROVE  TypeOK' /\ RequestOK'
  <2> DEFINE n == [Idle EXCEPT !.pc = "delete", !.rid = r]
  <2>1. n \in Request /\ n.pc = "delete" /\ n.rid = r
    BY Zenon, IdleType DEF Request, Idle
  <2>2. Goto(p, n)
    BY Zenon, <1>6 DEF BeginDelete
  <2> HIDE DEF n
  <2>3. req' \in [Procs -> Request] /\ RequestOK'
    BY Zenon, <2>1, <2>2, GotoType DEF TypeOK, Creating
  <2> QED
    BY Zenon, <1>6, <2>3 DEF BeginDelete, TypeOK
<1> QED
  BY Zenon, <1>1, <1>2, <1>4, <1>5, <1>6 DEF Calls

\* What the inventory does to networks, pools, devices and addresses keeps the types.
LEMMA InventoryType ==
  ASSUME TypeOK, RequestOK, Inventory
  PROVE  TypeOK' /\ RequestOK'
<1> USE DEF TypeOK, RowStatus
<1>1. UNCHANGED req
  BY Zenon DEF Inventory, CreateNetwork, DeleteNetwork, CreateNetworkPool, UpdateNetworkPool,
         DeleteNetworkPool, CreateDevice, UpdateDevice, DeleteDevice
<1>2. RequestOK'
  BY Zenon, <1>1 DEF RequestOK
<1>3. ASSUME NEW n \in Networks, CreateNetwork(n) PROVE TypeOK'
  BY Zenon, <1>3 DEF CreateNetwork
<1>4. ASSUME NEW n \in Networks, DeleteNetwork(n) PROVE TypeOK'
  <2>1. resv' \in [Rids -> Row]
    BY Zenon, <1>4, CascadeType DEF DeleteNetwork
  <2> QED
    BY <1>4, <2>1 DEF DeleteNetwork
<1>5. ASSUME NEW p \in Pools, NEW range \in Ranges, NEW n \in Networks, CreateNetworkPool(p, n, range)
      PROVE  TypeOK'
  BY Zenon, <1>5, RangesAssumption DEF CreateNetworkPool
<1>6. ASSUME NEW p \in Pools, NEW range \in Ranges, UpdateNetworkPool(p, range) PROVE TypeOK'
  BY <1>6, RangesAssumption, SMTT(30) DEF UpdateNetworkPool
<1>7. ASSUME NEW p \in Pools, DeleteNetworkPool(p) PROVE TypeOK'
  <2>1. resv' \in [Rids -> Row]
    BY Zenon, <1>7, CascadeType DEF DeleteNetworkPool
  <2>2. addrs' \subseteq Address
    BY <1>7, SMTT(30) DEF DeleteNetworkPool, Address
  <2> QED
    BY <1>7, <2>1, <2>2 DEF DeleteNetworkPool
<1>8. ASSUME NEW d \in Devices PROVE \A A \in AddressSets(d) : A \subseteq Address
  BY Zenon DEF AddressSets, Address
<1>9. ASSUME NEW d \in Devices, CreateDevice(d) \/ UpdateDevice(d) \/ DeleteDevice(d) PROVE TypeOK'
  BY Zenon, <1>8, <1>9 DEF CreateDevice, UpdateDevice, DeleteDevice
<1> QED
  BY Zenon, <1>2, <1>3, <1>4, <1>5, <1>6, <1>7, <1>9 DEF Inventory

\* Every step of the system keeps the types and the well-formedness of requests.
LEMMA NextType == TypeOK /\ RequestOK /\ [Next]_vars => TypeOK' /\ RequestOK'
<1> SUFFICES ASSUME TypeOK, RequestOK, [Next]_vars PROVE TypeOK' /\ RequestOK'
  OBVIOUS
<1>1. CASE ExpireReservations
  BY <1>1 DEF ExpireReservations, TypeOK, RequestOK, Row, ResvStatus, dbOthers
<1>2. CASE Tick
  BY <1>2, BoundsAssumption DEF Tick, TypeOK, RequestOK, Times
<1>3. CASE Crash
  BY Zenon, <1>3, IdleType DEF Crash, TypeOK, RequestOK, Idle, Creating, dbOthers
<1>4. CASE UNCHANGED vars
  BY Zenon, <1>4 DEF vars, TypeOK, RequestOK
<1> QED
  BY Zenon, <1>1, <1>2, <1>3, <1>4, StepsType, CallsType, InventoryType DEF Next, ServerNext

\* Every table and every request in flight keeps its shape: TypeOK holds in
\* every reachable state.
THEOREM TypeCorrect == Spec => []TypeOK
<1>1. Init => RequestOK
  BY DEF Init, RequestOK, Idle, Creating
<1> QED
  BY <1>1, InitType, NextType, PTL DEF Spec
-----------------------------------------------------------------------------
(* One active reservation per address *)

\* A row that was never written is empty: no statement puts an address into
\* a row without a status.
FreshIsUnwritten ==
  \A r \in Rids : resv[r].status = "fresh" => resv[r].pool = NoPool /\ resv[r].ip = 0

\* The two things a step can do to the reservations as a whole: activate one
\* whose address nobody holds, or let some of them go.
Activates(r, p, ip) ==
  /\ ~Active(r)
  /\ resv[r].status = "fresh" \/ (resv[r].pool = p /\ resv[r].ip = ip)
  /\ Holding(p, ip) = {}
  /\ resv'[r].pool = p /\ resv'[r].ip = ip /\ resv'[r].status = "active"
  /\ \A s \in Rids \ {r} : resv'[s] = resv[s]

LetsGo ==
  \A r \in Rids :
    /\ resv'[r].pool = resv[r].pool /\ resv'[r].ip = resv[r].ip
    /\ resv'[r].status = "active" => Active(r)
    /\ resv'[r].status = "fresh" <=> resv[r].status = "fresh"

ResvStep == LetsGo \/ \E r \in Rids, p \in Pools, ip \in IPs : Activates(r, p, ip)

\* CreateReservation makes one row active, at an address nobody reserves.
LEMMA CreateActivates ==
  ASSUME TypeOK, NEW r \in Rids, NEW p, NEW ip \in IPs, NEW e, CreateReservation(r, p, ip, e)
  PROVE  ResvStep
<1>1. p \in Pools
  BY Zenon DEF CreateReservation, Live
<1>2. Activates(r, p, ip)
  BY Zenon DEF CreateReservation, Activates, Active, InUse, TypeOK
<1> QED
  BY Zenon, <1>1, <1>2 DEF ResvStep

\* UpdateReservation makes one row active at a free address, or only lets rows go.
LEMMA UpdateActivatesOrLetsGo ==
  ASSUME TypeOK, NoDanglingRow, NEW r \in Rids, NEW st \in ResvStatus, NEW e,
         UpdateReservation(r, st, e)
  PROVE  ResvStep
<1>1. CASE resv' = resv
  BY Zenon, <1>1 DEF ResvStep, LetsGo, Active
<1>2. CASE resv' # resv
  <2>1. /\ Exists(r)
        /\ st = "active" => UniqueActive(r, resv[r].pool, resv[r].ip)
        /\ resv' = [resv EXCEPT ![r].status = st, ![r].expires = e]
    BY Zenon, <1>2 DEF UpdateReservation
  <2>2. /\ resv'[r].pool = resv[r].pool /\ resv'[r].ip = resv[r].ip /\ resv'[r].status = st
        /\ \A s \in Rids \ {r} : resv'[s] = resv[s]
    BY Zenon, <2>1 DEF TypeOK, Row
  <2>3. CASE st = "active" /\ ~Active(r)
    <3>1. resv[r].pool \in Pools /\ resv[r].ip \in IPs
      BY Zenon, <2>1 DEF NoDanglingRow, Live, TypeOK, Row
    <3>2. Holding(resv[r].pool, resv[r].ip) = {}
      BY Zenon, <2>1, <2>3 DEF UniqueActive, Holding
    <3>3. Activates(r, resv[r].pool, resv[r].ip)
      BY Zenon, <2>2, <2>3, <3>2 DEF Activates
    <3> QED
      BY Zenon, <3>1, <3>3 DEF ResvStep
  <2>4. CASE st = "active" => Active(r)
    BY Zenon, <2>1, <2>2, <2>4 DEF ResvStep, LetsGo, Active, Exists, ResvStatus
  <2> QED
    BY Zenon, <2>3, <2>4
<1> QED
  BY Zenon, <1>1, <1>2

\* Every step of the specification is one of the two.
LEMMA NextIsResvStep ==
  ASSUME TypeOK, RequestOK, NoDanglingRow, [Next]_vars
  PROVE  ResvStep
<1>1. ASSUME UNCHANGED resv PROVE ResvStep
  BY Zenon, <1>1 DEF ResvStep, LetsGo, Active
<1>2. ASSUME NEW p \in Procs, Steps(p) PROVE ResvStep
  <2>1. CASE InsertPicked(p)
    <3>1. req[p].ip \in IPs
      BY Zenon DEF TypeOK, Request
    <3> QED
      BY Zenon, <1>1, <2>1, <3>1, CreateActivates DEF InsertPicked
  <2>2. CASE WriteBack(p)
    <3>1. req[p].rid \in Rids /\ req[p].row.status \in ResvStatus
      BY Zenon, <2>2 DEF WriteBack, RequestOK
    <3> QED
      BY Zenon, <2>2, <3>1, UpdateActivatesOrLetsGo DEF WriteBack
  <2>3. CASE EndDelete(p)
    <3>1. req[p].rid \in Rids /\ DeleteReservation(req[p].rid)
      BY Zenon, <2>3, SMTT(30) DEF EndDelete, RequestOK
    <3> QED
      BY Zenon, <3>1 DEF DeleteReservation, ResvStep, LetsGo, Active, Exists, ResvStatus, TypeOK, Row
  <2> QED
    BY Zenon, <1>1, <1>2, <2>1, <2>2, <2>3 DEF Steps, ReadRange, PickIP, AnswerContention
<1>3. ASSUME NEW p \in Procs, Calls(p) PROVE ResvStep
  <2>1. CASE \E pl \in Pools, e \in Dates \cup {Never}, ip \in IPs : CreateExplicit(p, pl, ip, e)
    BY Zenon, <2>1, CreateActivates DEF CreateExplicit
  <2>2. CASE UNCHANGED resv
    BY Zenon, <1>1, <2>2
  <2> QED
    BY Zenon, <1>3, <2>1, <2>2 DEF Calls, CreateBegin, BeginUpdate, BeginRelease, BeginWrite, BeginDelete
<1>4. ASSUME NEW P, CascadeReservations(P) PROVE ResvStep
  BY Zenon, <1>4 DEF CascadeReservations, ResvStep, LetsGo, Active, Exists, ResvStatus, TypeOK, Row
<1>5. ASSUME Inventory PROVE ResvStep
  BY Zenon, <1>1, <1>4, <1>5, ZenonT(30)
     DEF Inventory, CreateNetwork, DeleteNetwork, CreateNetworkPool, UpdateNetworkPool,
         DeleteNetworkPool, CreateDevice, UpdateDevice, DeleteDevice
<1>6. ASSUME ExpireReservations PROVE ResvStep
  BY Zenon, <1>6 DEF ExpireReservations, ResvStep, LetsGo, Active, TypeOK, Row
<1> QED
  BY Zenon, <1>1, <1>2, <1>3, <1>5, <1>6
     DEF Next, ServerNext, Tick, Crash, BeginClaim, BeginWrite, vars

\* Either kind of step keeps the active reservations of an address at one.
LEMMA ResvStepUnique ==
  ASSUME TypeOK, OneActivePerIP, FreshIsUnwritten, ResvStep
  PROVE  OneActivePerIP' /\ FreshIsUnwritten'
<1>1. CASE LetsGo
  BY <1>1 DEF LetsGo, OneActivePerIP, FreshIsUnwritten, Active
<1>2. ASSUME NEW r \in Rids, NEW p \in Pools, NEW ip \in IPs, Activates(r, p, ip)
      PROVE  OneActivePerIP' /\ FreshIsUnwritten'
  <2>1. \A s \in Rids \ {r} : ~(Active(s) /\ resv[s].pool = p /\ resv[s].ip = ip)
    BY Zenon, <1>2 DEF Activates, Holding
  <2>2. OneActivePerIP'
    BY <1>2, <2>1 DEF Activates, OneActivePerIP, Active
  <2>3. FreshIsUnwritten'
    BY Zenon, <1>2 DEF Activates, FreshIsUnwritten
  <2> QED
    BY Zenon, <2>2, <2>3
<1> QED
  BY Zenon, <1>1, <1>2 DEF ResvStep
-----------------------------------------------------------------------------
(* No row points to a deleted row *)

\* A step keeps the pool of a reservation live: an existing row was there
\* before, with the same pool, or was created for a pool that is live.
LEMMA StepsNoDangling ==
  ASSUME TypeOK, RequestOK, NoDanglingRow, NEW p \in Procs, Steps(p) \/ Calls(p)
  PROVE  NoDanglingRow'
<1>1. UNCHANGED <<network, pool, device, addrs>>
  BY Zenon DEF Steps, ReadRange, PickIP, InsertPicked, AnswerContention, WriteBack, EndDelete,
         Calls, CreateBegin, CreateExplicit, BeginUpdate, BeginRelease, BeginWrite,
         BeginDelete, dbOthers
<1>2. SUFFICES \A r \in Rids : Exists(r)' => Live(resv'[r].pool)
  BY Zenon, <1>1 DEF NoDanglingRow, Live, Exists
<1>3. ASSUME UNCHANGED resv PROVE \A r \in Rids : Exists(r)' => Live(resv'[r].pool)
  BY Zenon, <1>3, SMTT(30) DEF NoDanglingRow, Exists
<1>4. ASSUME NEW s \in Rids, NEW pl, NEW ip, NEW e, CreateReservation(s, pl, ip, e)
      PROVE  \A r \in Rids : Exists(r)' => Live(resv'[r].pool)
  BY Zenon, <1>4 DEF CreateReservation, NoDanglingRow, Exists, TypeOK
<1>5. CASE WriteBack(p)
  <2>1. req[p].rid \in Rids
    BY Zenon, <1>5 DEF WriteBack, RequestOK
  <2> QED
    BY <1>5, <2>1, SMTT(30) DEF WriteBack, UpdateReservation, NoDanglingRow, Exists, TypeOK, Row
<1>6. CASE EndDelete(p)
  <2>1. req[p].rid \in Rids
    BY Zenon, <1>6 DEF EndDelete, RequestOK
  <2> QED
    BY <1>6, <2>1 DEF EndDelete, DeleteReservation, NoDanglingRow, Exists, TypeOK, Row
<1> QED
  BY Zenon, <1>3, <1>4, <1>5, <1>6
     DEF Steps, ReadRange, PickIP, InsertPicked, AnswerContention,
         Calls, CreateBegin, CreateExplicit, BeginUpdate, BeginRelease, BeginWrite, BeginDelete

\* What a cascade leaves was there before, in a pool that was not deleted.
LEMMA CascadeLeaves ==
  ASSUME TypeOK, NEW P, CascadeReservations(P)
  PROVE  \A r \in Rids : Exists(r)' => Exists(r) /\ resv'[r].pool = resv[r].pool /\ resv[r].pool \notin P
  BY Zenon DEF CascadeReservations, Exists, TypeOK, Row, ResvStatus

\* Deleting networks and pools leaves no reservation without its pool.
LEMMA InventoryNoDangling ==
  ASSUME TypeOK, NoDanglingRow, Inventory
  PROVE  NoDanglingRow'
<1> USE DEF NoDanglingRow, TypeOK, Live, Exists
<1>1. ASSUME NEW n \in Networks, CreateNetwork(n) PROVE NoDanglingRow'
  BY Zenon, <1>1, SMTT(30) DEF CreateNetwork
<1>2. ASSUME NEW n \in Networks, DeleteNetwork(n) PROVE NoDanglingRow'
  <2> DEFINE P == {p \in Pools : Live(p) /\ pool[p].net = n}
  <2>1. \A p \in Pools : /\ (p \in P => pool'[p].status = "gone")
                         /\ (p \notin P => pool'[p] = pool[p])
    BY Zenon, <1>2 DEF DeleteNetwork
  <2>2. \A r \in Rids : Exists(r)' => Live(resv[r].pool)'
    BY <1>2, <2>1, CascadeLeaves DEF DeleteNetwork
  <2>3. \A a \in addrs' : device'[a.dev] = "live" /\ (a.pool # NoPool => Live(a.pool)')
    BY Zenon, <1>2, <2>1 DEF DeleteNetwork
  <2>4. \A p \in Pools : Live(p)' => network'[pool'[p].net] = "live"
    BY Zenon, <1>2, <2>1 DEF DeleteNetwork
  <2> QED
    BY Zenon, <2>2, <2>3, <2>4
<1>3. ASSUME NEW p \in Pools, NEW range \in Ranges, NEW n \in Networks, CreateNetworkPool(p, n, range)
      PROVE  NoDanglingRow'
  BY Zenon, <1>3 DEF CreateNetworkPool
<1>4. ASSUME NEW p \in Pools, NEW range \in Ranges, UpdateNetworkPool(p, range) PROVE NoDanglingRow'
  BY Zenon, <1>4 DEF UpdateNetworkPool
<1>5. ASSUME NEW p \in Pools, DeleteNetworkPool(p) PROVE NoDanglingRow'
  <2>1. \A r \in Rids : Exists(r)' => Live(resv[r].pool)'
    BY <1>5, CascadeLeaves DEF DeleteNetworkPool
  <2>2. \A a \in addrs' : device'[a.dev] = "live" /\ (a.pool # NoPool => Live(a.pool)')
    BY <1>5, ZenonT(30) DEF DeleteNetworkPool, Address
  <2>3. \A q \in Pools : Live(q)' => network'[pool'[q].net] = "live"
    BY Zenon, <1>5 DEF DeleteNetworkPool
  <2> QED
    BY Zenon, <2>1, <2>2, <2>3
<1>6. ASSUME NEW d \in Devices
      PROVE  \A A \in AddressSets(d) : \A a \in A : a.dev = d /\ (a.pool # NoPool => Live(a.pool))
  BY Zenon DEF AddressSets
<1>7. ASSUME NEW d \in Devices, CreateDevice(d) PROVE NoDanglingRow'
  BY <1>6, <1>7, SMTT(30) DEF CreateDevice, Address
<1>8. ASSUME NEW d \in Devices, UpdateDevice(d) PROVE NoDanglingRow'
  BY <1>6, <1>8 DEF UpdateDevice
<1>9. ASSUME NEW d \in Devices, DeleteDevice(d) PROVE NoDanglingRow'
  BY Zenon, <1>9 DEF DeleteDevice, Address
<1> QED
  BY Zenon, <1>1, <1>2, <1>3, <1>4, <1>5, <1>7, <1>8, <1>9, ZenonT(30) DEF Inventory

\* No step of the system leaves a reservation without its pool.
LEMMA NextNoDangling ==
  ASSUME TypeOK, RequestOK, NoDanglingRow, [Next]_vars
  PROVE  NoDanglingRow'
<1>1. ASSUME UNCHANGED <<network, pool, device, addrs, resv>> PROVE NoDanglingRow'
  BY Zenon, <1>1 DEF NoDanglingRow, Live, Exists
<1>2. CASE ExpireReservations
  BY Zenon, <1>2 DEF ExpireReservations, NoDanglingRow, Live, Exists, Active, ResvStatus, TypeOK, Row, dbOthers
<1> QED
  BY Zenon, <1>1, <1>2, StepsNoDangling, InventoryNoDangling
     DEF Next, ServerNext, Tick, Crash, BeginClaim, BeginWrite, vars, dbOthers
-----------------------------------------------------------------------------
(* The theorems *)

\* The inductive invariant.  Uniqueness alone is not inductive: a write-back
\* needs the row it reactivates to have a pool, which is NoDanglingRow.
Inv == TypeOK /\ RequestOK /\ OneActivePerIP /\ NoDanglingRow /\ FreshIsUnwritten

\* The invariant holds of a freshly migrated database.
LEMMA InitInv == Init => Inv
<1> SUFFICES ASSUME Init PROVE Inv
  OBVIOUS
<1>1. TypeOK
  BY Zenon, InitType
<1>2. RequestOK
  BY Zenon DEF Init, RequestOK, Idle, Creating
<1>3. OneActivePerIP /\ NoDanglingRow /\ FreshIsUnwritten
  BY Zenon DEF Init, OneActivePerIP, NoDanglingRow, FreshIsUnwritten, NoRow, Active, Exists, Live, ResvStatus
<1> QED
  BY Zenon, <1>1, <1>2, <1>3 DEF Inv

\* Every step of the system keeps the invariant.
LEMMA NextInv == Inv /\ [Next]_vars => Inv'
  BY Zenon, NextType, NextIsResvStep, ResvStepUnique, NextNoDangling DEF Inv

\* The inductive invariant of the IPAM holds in every reachable state.
THEOREM Invariance == Spec => []Inv
  BY InitInv, NextInv, PTL DEF Spec

\* However the requests interleave, an address of a pool never has two
\* active reservations.
THEOREM OneActive == Spec => []OneActivePerIP
<1>1. Inv => OneActivePerIP
  BY Zenon DEF Inv
<1> QED
  BY <1>1, Invariance, PTL

\* No deletion, at whatever moment of a request in flight, leaves a
\* reservation, an address or a pool that points to a deleted row.
THEOREM NoDangling == Spec => []NoDanglingRow
<1>1. Inv => NoDanglingRow
  BY Zenon DEF Inv
<1> QED
  BY <1>1, Invariance, PTL

\* A new reservation is inside its pool and free at the moment it is written.
THEOREM NewFits == Spec => NewReservationFits
<1> DEFINE Fits(r) ==
      resv[r].status = "fresh" /\ resv'[r].status # "fresh" =>
        /\ Live(resv'[r].pool)
        /\ ipInRange(resv'[r].ip, pool[resv'[r].pool].range)
        /\ HeatmapStatus(resv'[r].pool, resv'[r].ip) = "available"
<1>1. ASSUME Inv, [Next]_vars, NEW r \in Rids PROVE Fits(r)
  <2>1. ASSUME UNCHANGED resv PROVE Fits(r)
    BY Zenon, <2>1
  <2>2. ASSUME NEW s \in Rids, NEW p, NEW ip, NEW e, CreateReservation(s, p, ip, e) PROVE Fits(r)
    BY Zenon, <1>1, <2>2 DEF CreateReservation, InUse, HeatmapStatus, Inv, TypeOK
  <2>3. ASSUME NEW P, CascadeReservations(P) PROVE Fits(r)
    BY Zenon, <1>1, <2>3 DEF CascadeReservations, Exists, ResvStatus, Inv, TypeOK, Row
  <2>4. CASE ExpireReservations
    BY Zenon, <1>1, <2>4 DEF ExpireReservations, Active, Inv, TypeOK, Row
  <2>5. ASSUME NEW p \in Procs, WriteBack(p) \/ EndDelete(p) PROVE Fits(r)
    BY <1>1, <2>5, SMTT(30)
       DEF WriteBack, EndDelete, UpdateReservation, DeleteReservation, Exists, ResvStatus,
           Inv, TypeOK, Row, RequestOK
  <2> QED
    BY <1>1, <2>1, <2>2, <2>3, <2>4, <2>5, ZenonT(30)
       DEF Next, ServerNext, Steps, ReadRange, PickIP, InsertPicked, AnswerContention, Calls,
           CreateBegin, CreateExplicit, BeginUpdate, BeginRelease, BeginClaim, BeginWrite,
           BeginDelete, Inventory, CreateNetwork, DeleteNetwork, CreateNetworkPool,
           UpdateNetworkPool, DeleteNetworkPool, CreateDevice, UpdateDevice, DeleteDevice,
           Tick, Crash, vars
<1>2. Inv /\ [Next]_vars => [\A r \in Rids : Fits(r)]_vars
  BY Zenon, <1>1
<1> QED
  BY <1>2, Invariance, PTL DEF Spec, NewReservationFits

\* The tables, the retry loop and the requests in flight implement the ledger
\* of exclusive holders.
THEOREM Refinement == Spec => ImplementsLedger
<1> DEFINE key == [r \in Rids |-> <<resv[r].pool, resv[r].ip>>]
           holders == {r \in Rids : Active(r)}
<1>1. Init => Ledger!LedgerInit
  BY DEF Init, Ledger!LedgerInit, NoRow, Active
<1>2. ASSUME Inv, Inv', [Next]_vars
      PROVE  [Ledger!LedgerNext]_(Ledger!ledgerVars)
  <2>0. ResvStep
    BY Zenon, <1>2, NextIsResvStep DEF Inv
  <2>1. CASE LetsGo
    <3>1. key' = key
      BY Zenon, <2>1 DEF LetsGo
    <3>2. holders' \subseteq holders
      BY Zenon, <2>1 DEF LetsGo, Active
    <3>3. holders' = holders \ (holders \ holders')
      BY Zenon, <3>2
    <3>4. Ledger!Drop(holders \ holders')
      BY Zenon, <3>1, <3>3 DEF Ledger!Drop
    <3> QED
      BY Zenon, <3>4 DEF Ledger!LedgerNext
  <2>2. ASSUME NEW r \in Rids, NEW p \in Pools, NEW ip \in IPs, Activates(r, p, ip)
        PROVE  Ledger!LedgerNext
    <3>1. r \notin holders /\ key[r] \in {<<NoPool, 0>>, <<p, ip>>}
      BY Zenon, <1>2, <2>2 DEF Activates, Inv, FreshIsUnwritten
    <3>2. Ledger!Holder(<<p, ip>>) = {}
      BY Zenon, <2>2 DEF Activates, Ledger!Holder, Holding
    <3>3. key' = [key EXCEPT ![r] = <<p, ip>>]
      BY Zenon, <2>2 DEF Activates
    <3>4. holders' = holders \cup {r}
      BY Zenon, <2>2 DEF Activates, Active
    <3>5. Ledger!Acquire(r, <<p, ip>>)
      BY Zenon, <3>1, <3>2, <3>3, <3>4 DEF Ledger!Acquire
    <3> QED
      BY Zenon, <3>5 DEF Ledger!LedgerNext
  <2> QED
    BY Zenon, <2>0, <2>1, <2>2 DEF ResvStep
<1> QED
  BY <1>1, <1>2, Invariance, PTL DEF Spec, ImplementsLedger, Ledger!LedgerSpec
-----------------------------------------------------------------------------
(***************************************************************************)
(* PoolScan.  Value is a recursive function; that it exists and what it    *)
(* computes is shown by taking the least octet at which it would not.      *)
(***************************************************************************)
\* What holds of 0 and passes from one number to the next holds up to n.
LEMMA UpTo ==
  ASSUME NEW n \in Nat, NEW S, 0 \in S, \A i \in 1 .. n : i - 1 \in S => i \in S
  PROVE  \A i \in 0 .. n : i \in S
<1> DEFINE Bad == {i \in 0 .. n : i \notin S}
<1>1. SUFFICES ASSUME Bad # {} PROVE FALSE
  BY Zenon, <1>1
<1>2. Bad \in SUBSET Nat
  OBVIOUS
<1>3. PICK k \in Bad : \A j \in Bad : k <= j
  BY Zenon, <1>1, <1>2, LeastElement
<1>4. k \in 1 .. n /\ k - 1 \in 0 .. n /\ ~(k <= k - 1) /\ k \notin S
  BY <1>3
<1>5. k - 1 \in S
  BY Zenon, <1>3, <1>4
<1> QED
  BY Zenon, <1>4, <1>5

\* Horner(h, ip): h computes the value of ip, octet by octet.
Horner(h, ip) ==
  /\ h \in [0 .. Width -> Nat]
  /\ h[0] = 0
  /\ \A i \in 1 .. Width : h[i] = h[i - 1] * Base + ip[i]

\* The recursive function of Value exists, and Value is its last value.
LEMMA ValueSteps ==
  ASSUME Sizes, NEW ip \in B!IP
  PROVE  \E h : Horner(h, ip) /\ B!Value(ip) = h[Width]
<1> DEFINE Part(n, h) == /\ h \in [0 .. Width -> Nat] /\ h[0] = 0
                         /\ \A i \in 1 .. n : h[i] = h[i - 1] * Base + ip[i]
           S == {n \in 0 .. Width : \E h : Part(n, h)}
<1>0. Width \in Nat /\ Base \in Nat /\ ip \in [1 .. Width -> 0 .. Base - 1]
  BY DEF Sizes, B!IP, B!Octets
<1>1. 0 \in S
  <2>1. Part(0, [i \in 0 .. Width |-> 0])
    BY <1>0
  <2>2. 0 \in 0 .. Width
    BY <1>0
  <2> HIDE DEF Part
  <2> QED BY Zenon, <2>1, <2>2
<1>2. ASSUME NEW n \in 1 .. Width, n - 1 \in S PROVE n \in S
  <2>1. PICK h : Part(n - 1, h)
    BY <1>2
  <2> DEFINE g == [h EXCEPT ![n] = h[n - 1] * Base + ip[n]]
  <2>2. n - 1 \in 0 .. Width /\ n \in 0 .. Width /\ n # 0
    BY <1>0
  <2>3. h[n - 1] * Base + ip[n] \in Nat
    <3>1. h[n - 1] \in Nat /\ ip[n] \in Nat
      BY <1>0, <2>1, <2>2
    <3> QED BY <3>1, <1>0
  <2>4. g \in [0 .. Width -> Nat] /\ g[0] = 0
    BY <2>1, <2>2, <2>3
  <2>5. ASSUME NEW i \in 1 .. n PROVE g[i] = g[i - 1] * Base + ip[i]
    <3>1. i \in 0 .. Width /\ i - 1 \in 0 .. Width /\ i - 1 # n
      BY <1>0
    <3>2. g[i - 1] = h[i - 1]
      BY <3>1, <2>1
    <3>3. CASE i = n
      <4>1. g[i] = h[n - 1] * Base + ip[n]
        BY <3>1, <3>3, <2>1
      <4> QED BY <4>1, <3>2, <3>3
    <3>4. CASE i # n
      <4>1. i \in 1 .. n - 1
        BY <3>4, <1>0
      <4>2. g[i] = h[i]
        BY <3>1, <3>4, <2>1
      <4>3. h[i] = h[i - 1] * Base + ip[i]
        BY <4>1, <2>1
      <4> QED BY Zenon, <4>2, <4>3, <3>2
    <3> QED BY Zenon, <3>3, <3>4
  <2>6. Part(n, g)
    BY Zenon, <2>4, <2>5
  <2> QED BY Zenon, <2>6, <2>2
<1>3. \A n \in 0 .. Width : n \in S
  <2> HIDE DEF S
  <2> QED BY Zenon, <1>0, <1>1, <1>2, UpTo
<1>4. PICK h : Part(Width, h)
  <2>1. Width \in 0 .. Width
    BY <1>0
  <2> QED BY Zenon, <1>3, <2>1
<1> DEFINE Rec(f) == [i \in 0 .. Width |-> IF i = 0 THEN 0 ELSE f[i - 1] * Base + ip[i]]
           up == CHOOSE f : f = Rec(f)
<1>5. h = Rec(h)
  <2>1. \A i \in 0 .. Width : i = 0 \/ i \in 1 .. Width
    BY <1>0
  <2> QED BY <1>4, <2>1
<1>6. up = Rec(up)
  <2> HIDE DEF Rec
  <2> QED BY Zenon, <1>5
<1>7. B!Value(ip) = up[Width]
  BY DEF B!Value
<1>8. up \in [0 .. Width -> Nat]
  <2> DEFINE T == {i \in 0 .. Width : up[i] \in Nat}
  <2> HIDE DEF up
  <2>1. 0 \in T
    BY <1>6, <1>0
  <2>2. ASSUME NEW i \in 1 .. Width, i - 1 \in T PROVE i \in T
    <3>1. i \in 0 .. Width /\ i # 0 /\ ip[i] \in Nat /\ up[i - 1] \in Nat
      BY <1>0, <2>2
    <3>2. up[i] = up[i - 1] * Base + ip[i]
      BY <1>6, <3>1
    <3>3. up[i - 1] * Base + ip[i] \in Nat
      BY <3>1, <1>0
    <3> QED BY Zenon, <3>1, <3>2, <3>3
  <2>3. \A i \in 0 .. Width : i \in T
    <3> HIDE DEF T
    <3> QED BY Zenon, <1>0, <2>1, <2>2, UpTo
  <2>4. up = [i \in 0 .. Width |-> up[i]]
    BY <1>6
  <2> QED BY Zenon, <2>3, <2>4
<1>9. Horner(up, ip)
  <2> HIDE DEF up
  <2>1. up[0] = 0
    BY <1>6, <1>0
  <2>2. ASSUME NEW i \in 1 .. Width PROVE up[i] = up[i - 1] * Base + ip[i]
    <3>1. i \in 0 .. Width /\ i # 0
      BY <1>0
    <3> QED BY <1>6, <3>1
  <2> QED BY Zenon, <1>8, <2>1, <2>2 DEF Horner
<1> QED
  BY Zenon, <1>7, <1>9

\* An octet more multiplies a strict inequality by Base and leaves room for it.
LEMMA OctetRoom ==
  ASSUME NEW x \in Nat, NEW y \in Nat, NEW b \in Nat, NEW c \in Nat, NEW d \in Nat,
         c < b, x < y
  PROVE  x * b + c < y * b + d
<1>1. PICK e \in Nat : y = x + 1 + e
  <2>1. y - x - 1 \in Nat /\ y = x + 1 + (y - x - 1)
    OBVIOUS
  <2> QED BY Zenon, <2>1
<1>2. y * b = x * b + b + e * b
  BY <1>1
<1>3. e * b \in Nat /\ x * b \in Nat
  OBVIOUS
<1> QED
  BY <1>2, <1>3

\* Two addresses differ in a first octet.
LEMMA FirstOctet ==
  ASSUME Sizes, NEW a \in B!IP, NEW b \in B!IP, a # b
  PROVE  \E k \in 1 .. Width : a[k] # b[k] /\ \A i \in 1 .. k - 1 : a[i] = b[i]
<1> DEFINE D == {i \in 1 .. Width : a[i] # b[i]}
<1>0. Width \in Nat /\ a \in [1 .. Width -> 0 .. Base - 1] /\ b \in [1 .. Width -> 0 .. Base - 1]
  BY DEF Sizes, B!IP, B!Octets
<1>1. D # {} /\ D \in SUBSET Nat
  <2>1. \E i \in 1 .. Width : a[i] # b[i]
    BY <1>0
  <2>2. D \in SUBSET Nat
    BY <1>0
  <2> QED BY Zenon, <2>1, <2>2
<1>2. PICK k \in D : \A j \in D : k <= j
  <2> HIDE DEF D
  <2> QED BY Zenon, <1>1, LeastElement
<1>3. ASSUME NEW i \in 1 .. k - 1 PROVE a[i] = b[i]
  <2>1. i \in 1 .. Width /\ ~(k <= i)
    BY <1>0
  <2> QED BY Zenon, <1>2, <2>1
<1> QED
  BY Zenon, <1>2, <1>3

\* Comparing octet by octet compares the values.
LEMMA LessIsLess ==
  ASSUME Sizes, NEW a \in B!IP, NEW b \in B!IP, B!Less(a, b)
  PROVE  B!Value(a) < B!Value(b)
<1>0. /\ Width \in Nat \ {0} /\ Base \in Nat
      /\ a \in [1 .. Width -> 0 .. Base - 1] /\ b \in [1 .. Width -> 0 .. Base - 1]
  BY DEF Sizes, B!IP, B!Octets
<1>1. PICK k \in 1 .. Width : a[k] < b[k] /\ \A i \in 1 .. k - 1 : a[i] = b[i]
  BY Zenon DEF B!Less, B!Octets
<1>2. ASSUME NEW i \in 1 .. Width, i < k PROVE a[i] = b[i]
  <2>1. i \in 1 .. k - 1
    BY <1>0, <1>2
  <2> QED BY Zenon, <1>1, <2>1
<1>3. a[k] < b[k]
  BY Zenon, <1>1
<1>4. PICK h : Horner(h, a) /\ B!Value(a) = h[Width]
  BY Zenon, ValueSteps
<1>5. PICK g : Horner(g, b) /\ B!Value(b) = g[Width]
  BY Zenon, ValueSteps
<1>6. \A i \in 0 .. Width : h[i] \in Nat /\ g[i] \in Nat
  BY Zenon, <1>4, <1>5 DEF Horner
<1> DEFINE S == {i \in 0 .. Width : IF i < k THEN h[i] = g[i] ELSE h[i] < g[i]}
<1>7. 0 \in S
  <2>1. h[0] = 0 /\ g[0] = 0
    BY Zenon, <1>4, <1>5 DEF Horner
  <2>2. 0 \in 0 .. Width /\ 0 < k
    BY <1>0
  <2> QED BY Zenon, <2>1, <2>2
<1>8. ASSUME NEW i \in 1 .. Width, i - 1 \in S PROVE i \in S
  <2>1. h[i] = h[i - 1] * Base + a[i] /\ g[i] = g[i - 1] * Base + b[i]
    BY Zenon, <1>4, <1>5 DEF Horner
  <2>2. /\ i \in 0 .. Width /\ i - 1 \in 0 .. Width
        /\ a[i] \in Nat /\ a[i] < Base /\ b[i] \in Nat
    BY <1>0
  <2>3. h[i - 1] \in Nat /\ g[i - 1] \in Nat
    BY Zenon, <1>6, <2>2
  <2>4. IF i - 1 < k THEN h[i - 1] = g[i - 1] ELSE h[i - 1] < g[i - 1]
    BY Zenon, <1>8
  <2>5. CASE i < k
    <3>1. h[i - 1] = g[i - 1]
      BY <2>4, <2>5
    <3>2. a[i] = b[i]
      BY Zenon, <1>2, <2>5
    <3> QED BY Zenon, <2>1, <2>2, <2>5, <3>1, <3>2
  <2>6. CASE i = k
    <3>1. h[i - 1] = g[i - 1] /\ ~(i < k)
      BY <2>4, <2>6
    <3>2. h[i] = g[i - 1] * Base + a[k] /\ g[i] = g[i - 1] * Base + b[k]
      BY Zenon, <2>1, <2>6, <3>1
    <3>3. g[i - 1] * Base \in Nat /\ a[k] \in Nat /\ b[k] \in Nat
      BY <1>0, <2>3
    <3>4. h[i] < g[i]
      BY <1>3, <3>2, <3>3
    <3> QED BY Zenon, <2>2, <3>1, <3>4
  <2>7. CASE k < i
    <3>1. h[i - 1] < g[i - 1] /\ ~(i < k)
      BY <2>4, <2>7
    <3>2. h[i - 1] * Base + a[i] < g[i - 1] * Base + b[i]
      BY Zenon, <1>0, <2>2, <2>3, <3>1, OctetRoom
    <3>3. h[i] < g[i]
      BY Zenon, <2>1, <3>2
    <3> QED BY Zenon, <2>2, <3>1, <3>3
  <2> QED BY <2>5, <2>6, <2>7
<1>9. Width \in S
  <2> HIDE DEF S
  <2>1. \A i \in 0 .. Width : i \in S
    BY Zenon, <1>0, <1>7, <1>8, UpTo
  <2>2. Width \in 0 .. Width
    BY <1>0
  <2> QED BY Zenon, <2>1, <2>2
<1>10. ~(Width < k)
  BY <1>0
<1> QED
  BY Zenon, <1>4, <1>5, <1>9, <1>10

\* The values order the addresses as the comparison of the code does.
LEMMA ValueOrders ==
  ASSUME Sizes, NEW a \in B!IP, NEW b \in B!IP
  PROVE  /\ B!Value(a) \in Nat /\ B!Value(b) \in Nat
         /\ B!Less(a, b) <=> B!Value(a) < B!Value(b)
         /\ B!Value(a) = B!Value(b) => a = b
<1>0. Width \in Nat
  BY DEF Sizes
<1>1. B!Value(a) \in Nat /\ B!Value(b) \in Nat
  <2>1. PICK h : Horner(h, a) /\ B!Value(a) = h[Width]
    BY Zenon, ValueSteps
  <2>2. PICK g : Horner(g, b) /\ B!Value(b) = g[Width]
    BY Zenon, ValueSteps
  <2>3. Width \in 0 .. Width
    BY <1>0
  <2> QED BY Zenon, <2>1, <2>2, <2>3 DEF Horner
<1>2. a = b \/ B!Less(a, b) \/ B!Less(b, a)
  <2>1. SUFFICES ASSUME a # b PROVE B!Less(a, b) \/ B!Less(b, a)
    OBVIOUS
  <2>2. PICK k \in 1 .. Width : a[k] # b[k] /\ \A i \in 1 .. k - 1 : a[i] = b[i]
    BY Zenon, <2>1, FirstOctet
  <2>4. a[k] \in Int /\ b[k] \in Int
    BY <1>0 DEF B!IP, B!Octets, Sizes
  <2>5. a[k] < b[k] \/ b[k] < a[k]
    BY <2>2, <2>4
  <2> QED BY Zenon, <2>2, <2>5 DEF B!Less, B!Octets
<1>3. B!Less(a, b) => B!Value(a) < B!Value(b)
  BY Zenon, LessIsLess
<1>4. B!Less(b, a) => B!Value(b) < B!Value(a)
  BY Zenon, LessIsLess
<1> QED
  BY <1>1, <1>2, <1>3, <1>4

\* PlusOne is the next address, except after the highest one, where it is the lowest.
LEMMA PlusOneIsNext ==
  ASSUME Sizes, NEW ip \in B!IP
  PROVE  /\ B!PlusOne(ip) \in B!IP
         /\ ip # B!Highest => B!Value(B!PlusOne(ip)) = B!Value(ip) + 1
         /\ ip = B!Highest => B!Value(B!PlusOne(ip)) = 0
<1> DEFINE full == {i \in 1 .. Width : \A j \in i .. Width : ip[j] = Base - 1}
           up == B!PlusOne(ip)
<1>0. /\ Width \in Nat \ {0} /\ Base \in Nat \ {0, 1} /\ ip \in [1 .. Width -> 0 .. Base - 1]
      /\ B!IP = [1 .. Width -> 0 .. Base - 1]
  BY DEF Sizes, B!IP, B!Octets
<1>1. up = [i \in 1 .. Width |-> IF i \in full THEN 0
              ELSE IF i = Width \/ i + 1 \in full THEN ip[i] + 1 ELSE ip[i]]
  BY Zenon DEF B!PlusOne, B!Octets
<1>2. ASSUME NEW i \in 1 .. Width
      PROVE  i \notin full /\ (i = Width \/ i + 1 \in full) => ip[i] # Base - 1
  <2>1. SUFFICES ASSUME i = Width \/ i + 1 \in full, ip[i] = Base - 1 PROVE i \in full
    BY Zenon, <2>1
  <2>2. ASSUME NEW j \in i .. Width PROVE ip[j] = Base - 1
    <3>1. j = i \/ (i # Width /\ j \in (i + 1) .. Width)
      BY <1>0
    <3> QED BY Zenon, <2>1, <3>1
  <2> QED BY Zenon, <2>2
<1>3. up \in B!IP
  <2>1. ASSUME NEW i \in 1 .. Width PROVE up[i] \in 0 .. Base - 1
    <3>1. ip[i] \in 0 .. Base - 1
      BY <1>0
    <3>2. 0 \in 0 .. Base - 1 /\ (ip[i] # Base - 1 => ip[i] + 1 \in 0 .. Base - 1)
      BY <1>0, <3>1
    <3> HIDE DEF full, up
    <3> QED BY Zenon, <1>1, <1>2, <3>1, <3>2
  <2> HIDE DEF full, up
  <2> QED BY Zenon, <1>0, <1>1, <2>1
<1>4. PICK h : Horner(h, ip) /\ B!Value(ip) = h[Width]
  BY Zenon, ValueSteps
<1>5. PICK g : Horner(g, up) /\ B!Value(up) = g[Width]
  BY Zenon, <1>3, ValueSteps
<1>6. \A i \in 0 .. Width : h[i] \in Nat /\ g[i] \in Nat
  BY Zenon, <1>4, <1>5 DEF Horner
<1>7. ASSUME NEW i \in 1 .. Width, NEW j \in i .. Width, i \in full PROVE j \in full
  <2>1. j \in 1 .. Width /\ \A l \in j .. Width : l \in i .. Width
    BY <1>0
  <2> QED BY Zenon, <1>7, <2>1
<1>8. CASE ip = B!Highest
  <2>1. ASSUME NEW i \in 1 .. Width PROVE up[i] = 0
    <3>1. \A j \in i .. Width : j \in 1 .. Width
      BY <1>0
    <3>2. \A j \in 1 .. Width : ip[j] = Base - 1
      BY Zenon, <1>8 DEF B!Highest, B!Octets
    <3>3. i \in full
      BY Zenon, <3>1, <3>2
    <3> HIDE DEF full, up
    <3> QED BY Zenon, <1>1, <3>3
  <2> DEFINE S == {i \in 0 .. Width : g[i] = 0}
  <2> HIDE DEF full, up
  <2>2. 0 \in S
    BY <1>0, <1>5 DEF Horner
  <2>3. ASSUME NEW i \in 1 .. Width, i - 1 \in S PROVE i \in S
    <3>1. g[i] = g[i - 1] * Base + up[i]
      BY Zenon, <1>5 DEF Horner
    <3>2. g[i - 1] = 0 /\ up[i] = 0
      BY Zenon, <2>1, <2>3
    <3>3. 0 * Base + 0 = 0 /\ i \in 0 .. Width
      BY <1>0
    <3> QED BY Zenon, <3>1, <3>2, <3>3
  <2> HIDE DEF S
  <2>4. \A i \in 0 .. Width : i \in S
    BY Zenon, <1>0, <2>2, <2>3, UpTo
  <2>5. Width \in 0 .. Width
    BY <1>0
  <2>6. g[Width] = 0
    BY Zenon, <2>4, <2>5 DEF S
  <2> QED BY Zenon, <1>3, <1>5, <1>8, <2>6 DEF up
<1>9. CASE ip # B!Highest
  <2> DEFINE C == {i \in 1 .. Width : i = Width \/ i + 1 \in full}
  <2>1. 1 \notin full
    <3>1. SUFFICES ASSUME 1 \in full PROVE FALSE
      OBVIOUS
    <3>2. \A j \in 1 .. Width : ip[j] = Base - 1
      BY Zenon, <3>1
    <3>3. ip = [i \in 1 .. Width |-> Base - 1]
      BY <1>0, <3>2
    <3> QED BY Zenon, <1>9, <3>3 DEF B!Highest, B!Octets
  <2>2. C # {} /\ C \in SUBSET Nat
    <3>1. Width \in C
      BY <1>0
    <3>2. C \in SUBSET Nat
      BY <1>0
    <3> QED BY Zenon, <3>1, <3>2
  <2> HIDE DEF full, up
  <2>3. PICK k \in C : \A j \in C : k <= j
    <3> HIDE DEF C
    <3> QED BY Zenon, <2>2, LeastElement
  <2>4. k \in 1 .. Width /\ (k = Width \/ k + 1 \in full)
    BY Zenon, <2>3
  <2>5. k \notin full
    <3>1. SUFFICES ASSUME k \in full PROVE FALSE
      OBVIOUS
    <3>2. k # 1
      BY Zenon, <2>1, <3>1
    <3>3. k - 1 \in 1 .. Width /\ (k - 1) + 1 = k /\ ~(k <= k - 1)
      BY <1>0, <2>4, <3>2
    <3>4. k - 1 \in C
      BY Zenon, <3>1, <3>3
    <3> QED BY Zenon, <2>3, <3>3, <3>4
  <2>6. up[k] = ip[k] + 1
    BY Zenon, <1>1, <2>4, <2>5
  <2>7. ASSUME NEW i \in 1 .. Width, i < k PROVE up[i] = ip[i]
    <3>1. ~(k <= i) /\ i # Width /\ i + 1 \in i .. Width
      BY <1>0, <2>4, <2>7
    <3>2. i + 1 \notin full
      BY Zenon, <2>3, <3>1
    <3>3. i \notin full
      BY Zenon, <1>7, <3>1, <3>2
    <3> QED BY Zenon, <1>1, <3>1, <3>2, <3>3
  <2>8. ASSUME NEW i \in 1 .. Width, k < i PROVE up[i] = 0 /\ ip[i] = Base - 1
    <3>1. k # Width /\ k + 1 \in 1 .. Width /\ i \in (k + 1) .. Width /\ i \in i .. Width
      BY <1>0, <2>4, <2>8
    <3>2. i \in full
      BY Zenon, <1>7, <2>4, <3>1
    <3>3. ip[i] = Base - 1
      BY Zenon, <3>1, <3>2 DEF full
    <3> QED BY Zenon, <1>1, <3>2, <3>3
  <2> DEFINE S == {i \in 0 .. Width : IF i < k THEN g[i] = h[i] ELSE g[i] = h[i] + 1}
  <2>9. 0 \in S
    <3>1. h[0] = 0 /\ g[0] = 0
      BY Zenon, <1>4, <1>5 DEF Horner
    <3>2. 0 \in 0 .. Width /\ 0 < k
      BY <1>0, <2>4
    <3> QED BY Zenon, <3>1, <3>2
  <2>10. ASSUME NEW i \in 1 .. Width, i - 1 \in S PROVE i \in S
    <3>1. h[i] = h[i - 1] * Base + ip[i] /\ g[i] = g[i - 1] * Base + up[i]
      BY Zenon, <1>4, <1>5 DEF Horner
    <3>2. i \in 0 .. Width /\ i - 1 \in 0 .. Width /\ ip[i] \in Nat
      BY <1>0
    <3>3. h[i - 1] \in Nat /\ g[i - 1] \in Nat
      BY Zenon, <1>6, <3>2
    <3>4. IF i - 1 < k THEN g[i - 1] = h[i - 1] ELSE g[i - 1] = h[i - 1] + 1
      BY Zenon, <2>10
    <3>5. CASE i < k
      <4>1. g[i - 1] = h[i - 1]
        BY <2>4, <3>4, <3>5
      <4>2. up[i] = ip[i]
        BY Zenon, <2>7, <3>5
      <4> QED BY Zenon, <3>1, <3>2, <3>5, <4>1, <4>2
    <3>6. CASE i = k
      <4>1. g[i - 1] = h[i - 1] /\ ~(i < k)
        BY <2>4, <3>4, <3>6
      <4>2. g[i] = h[i - 1] * Base + (ip[i] + 1)
        BY Zenon, <2>6, <3>1, <3>6, <4>1
      <4>3. h[i - 1] * Base \in Nat
        BY <1>0, <3>3
      <4>4. h[i - 1] * Base + (ip[i] + 1) = (h[i - 1] * Base + ip[i]) + 1
        BY <3>2, <4>3
      <4>5. g[i] = h[i] + 1
        BY Zenon, <3>1, <4>2, <4>4
      <4> QED BY Zenon, <3>2, <4>1, <4>5
    <3>7. CASE k < i
      <4>1. g[i - 1] = h[i - 1] + 1 /\ ~(i < k)
        BY <2>4, <3>4, <3>7
      <4>2. g[i] = (h[i - 1] + 1) * Base + 0 /\ h[i] = h[i - 1] * Base + (Base - 1)
        BY Zenon, <2>8, <3>1, <3>7, <4>1
      <4>3. (h[i - 1] + 1) * Base + 0 = h[i - 1] * Base + (Base - 1) + 1
        <5>1. ASSUME NEW x \in Nat, NEW b \in Nat PROVE (x + 1) * b + 0 = x * b + (b - 1) + 1
          OBVIOUS
        <5> QED BY Zenon, <1>0, <3>3, <5>1
      <4>4. g[i] = h[i] + 1
        BY Zenon, <4>2, <4>3
      <4> QED BY Zenon, <3>2, <4>1, <4>4
    <3>8. i < k \/ i = k \/ k < i
      BY <1>0, <2>4
    <3> QED BY Zenon, <3>5, <3>6, <3>7, <3>8
  <2> HIDE DEF S
  <2>11. \A i \in 0 .. Width : i \in S
    BY Zenon, <1>0, <2>9, <2>10, UpTo
  <2>12. Width \in 0 .. Width /\ ~(Width < k)
    BY <1>0, <2>4
  <2>13. g[Width] = h[Width] + 1
    BY Zenon, <2>11, <2>12 DEF S
  <2> QED BY Zenon, <1>3, <1>4, <1>5, <1>9, <2>13 DEF up
<1> QED
  BY Zenon, <1>8, <1>9

\* No address is above the highest one.
LEMMA HighestIsHighest ==
  ASSUME Sizes, NEW ip \in B!IP
  PROVE  B!Highest \in B!IP /\ B!Value(ip) <= B!Value(B!Highest)
<1>0. Width \in Nat /\ Base \in Nat \ {0, 1} /\ B!IP = [1 .. Width -> 0 .. Base - 1]
  BY DEF Sizes, B!IP, B!Octets
<1>1. B!Highest \in B!IP
  BY <1>0 DEF B!Highest, B!Octets
<1>2. ~B!Less(B!Highest, ip)
  <2>1. SUFFICES ASSUME B!Less(B!Highest, ip) PROVE FALSE
    OBVIOUS
  <2>4. PICK k \in 1 .. Width : B!Highest[k] < ip[k]
    BY Zenon, <2>1 DEF B!Less, B!Octets
  <2>5. B!Highest[k] = Base - 1
    BY Zenon DEF B!Highest, B!Octets
  <2>6. ip[k] \in 0 .. Base - 1
    BY Zenon, <1>0
  <2> QED BY <1>0, <2>4, <2>5, <2>6
<1>3. B!Value(ip) \in Nat /\ B!Value(B!Highest) \in Nat
  BY Zenon, <1>1, ValueOrders
<1>4. ~(B!Value(B!Highest) < B!Value(ip))
  BY Zenon, <1>1, <1>2, ValueOrders
<1> QED
  BY <1>1, <1>3, <1>4

\* What incrementIP does, in values: it fails exactly when the address after ip
\* would be past the end, and after the highest one it returns the lowest.
LEMMA IncrementInValues ==
  ASSUME Sizes, NEW ip \in B!IP, NEW e \in B!IP
  PROVE  /\ B!PlusOne(ip) \in B!IP
         /\ ip # B!Highest => /\ B!Value(B!PlusOne(ip)) = B!Value(ip) + 1
                              /\ B!NotPast(B!PlusOne(ip), e) <=> B!Value(ip) < B!Value(e)
         /\ ip = B!Highest => B!NotPast(B!PlusOne(ip), e)
<1>1. /\ B!PlusOne(ip) \in B!IP
      /\ ip # B!Highest => B!Value(B!PlusOne(ip)) = B!Value(ip) + 1
      /\ ip = B!Highest => B!Value(B!PlusOne(ip)) = 0
  BY Zenon, PlusOneIsNext
<1>2. /\ B!Value(ip) \in Nat /\ B!Value(e) \in Nat /\ B!Value(B!PlusOne(ip)) \in Nat
      /\ B!Less(e, B!PlusOne(ip)) <=> B!Value(e) < B!Value(B!PlusOne(ip))
  BY Zenon, <1>1, ValueOrders
<1>3. B!NotPast(B!PlusOne(ip), e) <=> ~B!Less(e, B!PlusOne(ip))
  BY Zenon DEF B!NotPast
<1> QED
  BY <1>1, <1>2, <1>3
-----------------------------------------------------------------------------
(* GetNextAvailableIP *)

\* Where a search of the pool s .. e, whose rows are u, has come to.  Until it
\* ends, every address below the current one is used; once it has passed the
\* highest address, all of the pool's are.
SearchGood(lp, cur, s, e, u) ==
  /\ lp \in {"next", "found"} /\ B!Value(s) <= B!Value(e) =>
       \/ e = B!Highest /\ B!Interval(s, e) \subseteq u
       \/ /\ cur \in B!Interval(s, e)
          /\ \A ip \in B!Interval(s, e) : B!Value(ip) < B!Value(cur) => ip \in u
  /\ lp = "found" => cur \notin u
  /\ lp = "unavailable" => B!Interval(s, e) \subseteq u

\* A range whose ends are not in order is empty.
LEMMA EmptyRange ==
  ASSUME Sizes, NEW s \in B!IP, NEW e \in B!IP, ~(B!Value(s) <= B!Value(e))
  PROVE  B!Interval(s, e) = {}
<1>1. SUFFICES ASSUME NEW ip \in B!IP, B!Value(s) <= B!Value(ip), B!Value(ip) <= B!Value(e)
               PROVE  FALSE
  BY Zenon DEF B!Interval
<1>2. B!Value(s) \in Nat /\ B!Value(e) \in Nat /\ B!Value(ip) \in Nat
  BY Zenon, ValueOrders
<1> QED
  BY <1>1, <1>2

\* A round of the search that finds its address used.
LEMMA SearchGoesOn ==
  ASSUME Sizes, NEW s \in B!IP, NEW e \in B!IP, NEW cur \in B!IP, NEW u, cur \in u,
         SearchGood("next", cur, s, e, u)
  PROVE  /\ B!NotPast(B!PlusOne(cur), e) => SearchGood("next", B!PlusOne(cur), s, e, u)
         /\ ~B!NotPast(B!PlusOne(cur), e) => SearchGood("unavailable", cur, s, e, u)
<1> DEFINE p == B!PlusOne(cur)
           In(x) == x \in B!Interval(s, e)
           All == B!Interval(s, e) \subseteq u
<1>0. \A x : In(x) <=> x \in B!IP /\ B!Value(s) <= B!Value(x) /\ B!Value(x) <= B!Value(e)
  BY Zenon DEF B!Interval
<1>1. /\ p \in B!IP
      /\ cur # B!Highest => /\ B!Value(p) = B!Value(cur) + 1
                            /\ B!NotPast(p, e) <=> B!Value(cur) < B!Value(e)
      /\ cur = B!Highest => B!NotPast(p, e)
  BY Zenon, IncrementInValues
<1>2. \A x \in B!IP : B!Value(x) \in Nat
  BY Zenon, ValueOrders
<1>3. "next" # "found" /\ "next" # "unavailable" /\ "unavailable" \notin {"next", "found"} /\ "unavailable" # "found"
  OBVIOUS
<1>4. CASE ~(B!Value(s) <= B!Value(e))
  <2>1. All
    BY Zenon, <1>4, EmptyRange
  <2> QED BY Zenon, <1>3, <1>4, <2>1 DEF SearchGood
<1>5. CASE B!Value(s) <= B!Value(e) /\ e = B!Highest /\ All
  BY Zenon, <1>3, <1>5 DEF SearchGood
<1>6. CASE /\ B!Value(s) <= B!Value(e) /\ In(cur)
           /\ \A ip \in B!Interval(s, e) : B!Value(ip) < B!Value(cur) => ip \in u
  <2>1. ASSUME ~(B!Value(cur) < B!Value(e)) PROVE All
    <3>1. SUFFICES ASSUME NEW ip \in B!Interval(s, e) PROVE ip \in u
      BY Zenon
    <3>2. ip \in B!IP /\ B!Value(ip) <= B!Value(e)
      BY Zenon, <1>0
    <3>3. B!Value(ip) < B!Value(cur) \/ B!Value(ip) = B!Value(cur)
      BY <1>2, <2>1, <3>2
    <3>4. B!Value(ip) = B!Value(cur) => ip = cur
      BY Zenon, <3>2, ValueOrders
    <3> QED BY Zenon, <1>6, <3>3, <3>4
  <2>2. CASE cur = B!Highest
    <3>1. B!Value(e) <= B!Value(cur) /\ B!Value(cur) <= B!Value(e)
      BY Zenon, <1>0, <1>6, <2>2, HighestIsHighest
    <3>2. B!Value(e) = B!Value(cur) /\ ~(B!Value(cur) < B!Value(e))
      BY <1>2, <3>1
    <3>3. e = B!Highest /\ All
      BY Zenon, <2>1, <2>2, <3>2, ValueOrders
    <3> QED BY Zenon, <1>3, <3>3 DEF SearchGood
  <2>3. CASE cur # B!Highest /\ B!Value(cur) < B!Value(e)
    <3>1. B!Value(s) <= B!Value(cur)
      BY Zenon, <1>0, <1>6
    <3>2. B!Value(s) <= B!Value(p) /\ B!Value(p) <= B!Value(e)
      BY <1>1, <1>2, <2>3, <3>1
    <3>3. In(p)
      BY Zenon, <1>0, <1>1, <3>2
    <3>4. ASSUME NEW ip \in B!Interval(s, e), B!Value(ip) < B!Value(p) PROVE ip \in u
      <4>1. ip \in B!IP
        BY Zenon, <1>0
      <4>2. B!Value(ip) < B!Value(cur) \/ B!Value(ip) = B!Value(cur)
        BY <1>1, <1>2, <2>3, <3>4, <4>1
      <4>3. B!Value(ip) = B!Value(cur) => ip = cur
        BY Zenon, <4>1, ValueOrders
      <4> QED BY Zenon, <1>6, <4>2, <4>3
    <3>5. B!NotPast(p, e)
      BY Zenon, <1>1, <2>3
    <3> QED BY Zenon, <1>3, <3>3, <3>4, <3>5 DEF SearchGood
  <2>4. CASE cur # B!Highest /\ ~(B!Value(cur) < B!Value(e))
    <3>1. All
      BY Zenon, <2>1, <2>4
    <3>2. ~B!NotPast(p, e)
      BY Zenon, <1>1, <2>4
    <3> QED BY Zenon, <1>3, <3>1, <3>2 DEF SearchGood
  <2> QED BY Zenon, <2>2, <2>3, <2>4
<1> QED
  BY Zenon, <1>4, <1>5, <1>6 DEF SearchGood
-----------------------------------------------------------------------------
(* GetPoolHeatmap *)

Statuses == {"used", "reserved", "available"}
Status(u, r, ip) == IF ip \in u THEN "used" ELSE IF ip \in r THEN "reserved" ELSE "available"

\* The entries of a listing of the pool s .. e: the addresses from s on, in
\* order, with the status that the rows u and the reservations r give them.
Entries(hm, s, u, r) ==
  \A i \in 1 .. Len(hm) : /\ hm[i][1] \in B!IP
                          /\ B!Value(hm[i][1]) = B!Value(s) + i - 1
                          /\ hm[i][2] = Status(u, r, hm[i][1])

\* How far a listing is: one entry for each address below the current one, and
\* at its end MaxIPs of them or all.
Listed(lp, cur, s, e, hm) ==
  /\ Len(hm) <= MaxIPs
  /\ lp = "heatmap" => /\ Len(hm) = B!Value(cur) - B!Value(s)
                       /\ B!Value(cur) <= B!Value(e)
  /\ lp = "listed" => \/ Len(hm) = MaxIPs /\ Len(hm) <= B!Value(e) - B!Value(s) + 1
                      \/ Len(hm) = B!Value(e) - B!Value(s) + 1

ListGood(lp, cur, s, e, u, r, hm) ==
  /\ hm \in Seq(B!IP \X Statuses)
  /\ B!Value(s) <= B!Value(e) => Entries(hm, s, u, r) /\ Listed(lp, cur, s, e, hm)

\* A round of the listing that has room for one more entry.
LEMMA ListGoesOn ==
  ASSUME Sizes, NEW s \in B!IP, NEW e \in B!IP, NEW cur \in B!IP, NEW u, NEW r,
         NEW hm, NEW hm2, ListGood("heatmap", cur, s, e, u, r, hm),
         ~(Len(hm) >= MaxIPs), hm2 = Append(hm, <<cur, Status(u, r, cur)>>)
  PROVE  /\ cur = e => ListGood("listed", cur, s, e, u, r, hm2)
         /\ cur # e /\ B!NotPast(B!PlusOne(cur), e) =>
              ListGood("heatmap", B!PlusOne(cur), s, e, u, r, hm2)
         /\ cur # e /\ ~B!NotPast(B!PlusOne(cur), e) =>
              ListGood("listed", cur, s, e, u, r, hm2)
<1> DEFINE p == B!PlusOne(cur)
           n == Len(hm)
<1>0. hm \in Seq(B!IP \X Statuses) /\ MaxIPs \in Nat
  BY Zenon DEF ListGood, Sizes
<1>1. Status(u, r, cur) \in Statuses
  BY Zenon DEF Status, Statuses
<1>2. /\ hm2 \in Seq(B!IP \X Statuses) /\ Len(hm2) = n + 1 /\ n \in Nat
      /\ \A i \in 1 .. n : hm2[i] = hm[i]
      /\ hm2[n + 1] = <<cur, Status(u, r, cur)>>
  <2>1. <<cur, Status(u, r, cur)>> \in B!IP \X Statuses
    BY Zenon, <1>1
  <2> QED BY <1>0, <2>1
<1>3. CASE ~(B!Value(s) <= B!Value(e))
  BY Zenon, <1>2, <1>3 DEF ListGood
<1>4. CASE B!Value(s) <= B!Value(e)
  <2>0. Entries(hm, s, u, r) /\ Listed("heatmap", cur, s, e, hm)
    BY Zenon, <1>4 DEF ListGood
  <2>1. n = B!Value(cur) - B!Value(s) /\ B!Value(cur) <= B!Value(e)
    BY Zenon, <2>0 DEF Listed
  <2>2. B!Value(s) \in Nat /\ B!Value(cur) \in Nat /\ B!Value(e) \in Nat
    BY Zenon, ValueOrders
  <2>3. Entries(hm2, s, u, r)
    <3>1. ASSUME NEW i \in 1 .. Len(hm2)
          PROVE  /\ hm2[i][1] \in B!IP /\ B!Value(hm2[i][1]) = B!Value(s) + i - 1
                 /\ hm2[i][2] = Status(u, r, hm2[i][1])
      <4>1. i \in 1 .. n \/ i = n + 1
        BY <1>2
      <4>2. CASE i \in 1 .. n
        BY Zenon, <1>2, <2>0, <4>2 DEF Entries
      <4>3. CASE i = n + 1
        <5>1. hm2[i][1] = cur /\ hm2[i][2] = Status(u, r, cur)
          BY <1>2, <4>3
        <5>2. B!Value(cur) = B!Value(s) + i - 1
          BY <2>1, <2>2, <4>3
        <5> QED BY Zenon, <5>1, <5>2
      <4> QED BY Zenon, <4>1, <4>2, <4>3
    <3> QED BY Zenon, <3>1 DEF Entries
  <2>4. Len(hm2) <= MaxIPs
    BY <1>0, <1>2
  <2>5. ASSUME B!Value(cur) = B!Value(e) PROVE ListGood("listed", cur, s, e, u, r, hm2)
    <3>1. Len(hm2) = B!Value(e) - B!Value(s) + 1
      BY <1>2, <2>1, <2>2, <2>5
    <3>2. "listed" # "heatmap"
      OBVIOUS
    <3> QED BY Zenon, <1>2, <2>3, <2>4, <3>1, <3>2 DEF ListGood, Listed
  <2>6. CASE cur = e
    BY Zenon, <2>5, <2>6
  <2>7. CASE cur # e
    <3>1. B!Value(cur) # B!Value(e)
      BY Zenon, <2>7, ValueOrders
    <3>2. B!Value(cur) < B!Value(e)
      BY <2>1, <2>2, <3>1
    <3>3. cur # B!Highest
      <4>1. SUFFICES ASSUME cur = B!Highest PROVE FALSE
        OBVIOUS
      <4>2. B!Value(e) <= B!Value(cur)
        BY Zenon, <4>1, HighestIsHighest
      <4> QED BY <2>2, <3>2, <4>2
    <3>4. B!NotPast(p, e) /\ B!Value(p) = B!Value(cur) + 1
      BY Zenon, <3>2, <3>3, IncrementInValues
    <3>5. Len(hm2) = B!Value(p) - B!Value(s) /\ B!Value(p) <= B!Value(e)
      BY <1>2, <2>1, <2>2, <3>2, <3>4
    <3>6. "listed" # "heatmap"
      OBVIOUS
    <3>7. ListGood("heatmap", p, s, e, u, r, hm2)
      BY Zenon, <1>2, <2>3, <2>4, <3>5, <3>6 DEF ListGood, Listed
    <3> QED BY Zenon, <2>7, <3>4, <3>7
  <2> QED BY Zenon, <2>6, <2>7
<1> QED
  BY Zenon, <1>3, <1>4

\* A listing of MaxIPs entries ends.
LEMMA ListEnds ==
  ASSUME Sizes, NEW s \in B!IP, NEW e \in B!IP, NEW cur \in B!IP, NEW u, NEW r, NEW hm,
         ListGood("heatmap", cur, s, e, u, r, hm), Len(hm) >= MaxIPs
  PROVE  ListGood("listed", cur, s, e, u, r, hm)
<1>1. hm \in Seq(B!IP \X Statuses) /\ MaxIPs \in Nat
  BY Zenon DEF ListGood, Sizes
<1>2. CASE ~(B!Value(s) <= B!Value(e))
  BY Zenon, <1>1, <1>2 DEF ListGood
<1>3. CASE B!Value(s) <= B!Value(e)
  <2>1. Entries(hm, s, u, r) /\ Listed("heatmap", cur, s, e, hm)
    BY Zenon, <1>3 DEF ListGood
  <2>2. /\ Len(hm) <= MaxIPs /\ Len(hm) = B!Value(cur) - B!Value(s)
        /\ B!Value(cur) <= B!Value(e)
    BY Zenon, <2>1 DEF Listed
  <2>3. B!Value(s) \in Nat /\ B!Value(cur) \in Nat /\ B!Value(e) \in Nat /\ Len(hm) \in Nat
    <3>1. Len(hm) \in Nat
      BY <1>1
    <3> QED BY Zenon, <3>1, ValueOrders
  <2>4. Len(hm) = MaxIPs /\ Len(hm) <= B!Value(e) - B!Value(s) + 1 /\ "listed" # "heatmap"
    BY <1>1, <2>2, <2>3
  <2> QED BY Zenon, <1>1, <2>1, <2>2, <2>4 DEF ListGood, Listed
<1> QED
  BY Zenon, <1>2, <1>3

\* A listing of addresses of the range only, and of all of them if they are
\* fewer than MaxIPs.
Whole(hm, s, e) ==
  /\ Len(hm) <= MaxIPs
  /\ \A i \in 1 .. Len(hm) : hm[i][1] \in B!Interval(s, e)
  /\ Len(hm) < MaxIPs =>
       \A ip \in B!Interval(s, e) : \E i \in 1 .. Len(hm) : hm[i][1] = ip

\* A finished listing is one.
LEMMA ListIsWhole ==
  ASSUME Sizes, NEW s \in B!IP, NEW e \in B!IP, NEW cur, NEW u, NEW r, NEW hm,
         ListGood("listed", cur, s, e, u, r, hm), B!Value(s) <= B!Value(e)
  PROVE  Whole(hm, s, e)
<1> DEFINE n == Len(hm)
           lo == B!Value(s)
           hi == B!Value(e)
<1>1. n \in Nat /\ lo \in Nat /\ hi \in Nat /\ MaxIPs \in Nat
  <2>1. hm \in Seq(B!IP \X Statuses) /\ MaxIPs \in Nat
    BY Zenon DEF ListGood, Sizes
  <2>2. n \in Nat
    BY <2>1
  <2> QED BY Zenon, <2>1, <2>2, ValueOrders
<1>2. \A x : x \in B!Interval(s, e) <=> x \in B!IP /\ lo <= B!Value(x) /\ B!Value(x) <= hi
  BY Zenon DEF B!Interval
<1>3. /\ \A i \in 1 .. n : hm[i][1] \in B!IP /\ B!Value(hm[i][1]) = lo + i - 1
      /\ n <= MaxIPs
      /\ (n = MaxIPs /\ n <= hi - lo + 1) \/ n = hi - lo + 1
  BY Zenon DEF ListGood, Entries, Listed
<1> HIDE DEF n, lo, hi
<1>4. ASSUME NEW i \in 1 .. n PROVE hm[i][1] \in B!Interval(s, e)
  <2>1. lo <= lo + i - 1 /\ lo + i - 1 <= hi
    BY <1>1, <1>3
  <2> QED BY Zenon, <1>2, <1>3, <2>1
<1>5. ASSUME n < MaxIPs, NEW ip \in B!Interval(s, e) PROVE \E i \in 1 .. n : hm[i][1] = ip
  <2>1. ip \in B!IP /\ lo <= B!Value(ip) /\ B!Value(ip) <= hi
    BY Zenon, <1>2
  <2>2. B!Value(ip) \in Nat
    BY Zenon, <2>1, ValueOrders
  <2>3. PICK i \in 1 .. n : B!Value(ip) = lo + i - 1
    <3>1. /\ B!Value(ip) - lo + 1 \in 1 .. n
          /\ B!Value(ip) = lo + (B!Value(ip) - lo + 1) - 1
      BY <1>1, <1>3, <1>5, <2>1, <2>2
    <3> QED BY Zenon, <3>1
  <2>4. hm[i][1] \in B!IP /\ B!Value(hm[i][1]) = B!Value(ip)
    BY Zenon, <1>3, <2>3
  <2>5. hm[i][1] = ip
    BY Zenon, <2>1, <2>4, ValueOrders
  <2> QED BY Zenon, <2>5
<1> QED
  BY Zenon, <1>3, <1>4, <1>5 DEF n, Whole
-----------------------------------------------------------------------------
\* The inductive invariant of the two loops.
PoolInv ==
  /\ startIP \in B!IP /\ endIP \in B!IP /\ current \in B!IP
  /\ SearchGood(loop, current, startIP, endIP, taken)
  /\ ListGood(loop, current, startIP, endIP, taken, reserved, heatmap)

\* It holds when a loop starts.
LEMMA PoolInit ==
  ASSUME Sizes, B!Init
  PROVE  PoolInv
<1>1. /\ startIP \in B!IP /\ endIP \in B!IP /\ current = startIP /\ heatmap = <<>>
      /\ loop \in {"next", "heatmap"}
  BY Zenon DEF B!Init
<1>2. B!Value(startIP) \in Nat /\ B!Value(endIP) \in Nat
  BY Zenon, <1>1, ValueOrders
<1>3. SearchGood(loop, current, startIP, endIP, taken)
  <2>1. ASSUME B!Value(startIP) <= B!Value(endIP) PROVE current \in B!Interval(startIP, endIP)
    <3>1. B!Value(startIP) <= B!Value(startIP)
      BY <1>2
    <3> QED BY Zenon, <1>1, <2>1, <3>1 DEF B!Interval
  <2>2. ASSUME NEW ip \in B!Interval(startIP, endIP) PROVE ~(B!Value(ip) < B!Value(startIP))
    <3>1. ip \in B!IP /\ B!Value(startIP) <= B!Value(ip)
      BY Zenon DEF B!Interval
    <3>2. B!Value(ip) \in Nat
      BY Zenon, <3>1, ValueOrders
    <3> QED BY <1>2, <3>1, <3>2
  <2>3. loop # "found" /\ loop # "unavailable"
    BY <1>1
  <2> QED BY Zenon, <1>1, <2>1, <2>2, <2>3 DEF SearchGood
<1>4. ListGood(loop, current, startIP, endIP, taken, reserved, heatmap)
  <2>1. heatmap \in Seq(B!IP \X Statuses) /\ Len(heatmap) = 0
    BY <1>1
  <2>2. Entries(heatmap, startIP, taken, reserved)
    <3>1. 1 .. Len(heatmap) = {}
      BY <2>1
    <3> QED BY Zenon, <3>1 DEF Entries
  <2>3. /\ Len(heatmap) <= MaxIPs /\ Len(heatmap) = B!Value(startIP) - B!Value(startIP)
        /\ loop # "listed"
    BY <1>1, <1>2, <2>1 DEF Sizes
  <2> QED BY Zenon, <1>1, <2>1, <2>2, <2>3 DEF ListGood, Listed
<1> QED
  BY Zenon, <1>1, <1>3, <1>4 DEF PoolInv

\* Each round of a loop preserves it.
LEMMA PoolStep ==
  ASSUME Sizes, PoolInv, [B!Next]_B!vars
  PROVE  PoolInv'
<1> DEFINE p == B!PlusOne(current)
<1>0. /\ startIP \in B!IP /\ endIP \in B!IP /\ current \in B!IP
      /\ SearchGood(loop, current, startIP, endIP, taken)
      /\ ListGood(loop, current, startIP, endIP, taken, reserved, heatmap)
  BY Zenon DEF PoolInv
<1>1. p \in B!IP
  BY Zenon, <1>0, PlusOneIsNext
<1>2. CASE B!NextAvailable
  <2>1. /\ loop = "next" /\ heatmap' = heatmap /\ startIP' = startIP /\ endIP' = endIP
        /\ taken' = taken /\ reserved' = reserved
    BY Zenon, <1>2 DEF B!NextAvailable, B!pool
  <2>2. \/ current \notin taken /\ loop' = "found" /\ current' = current
        \/ current \in taken /\ B!NotPast(p, endIP) /\ loop' = "next" /\ current' = p
        \/ /\ current \in taken /\ ~B!NotPast(p, endIP)
           /\ loop' = "unavailable" /\ current' = current
    BY Zenon, <1>2, <2>1 DEF B!NextAvailable, B!Increment, B!Done
  <2>3. SearchGood(loop', current', startIP, endIP, taken)
    <3>1. CASE current \notin taken /\ loop' = "found" /\ current' = current
      <4>1. "found" # "unavailable"
        OBVIOUS
      <4> QED BY Zenon, <1>0, <2>1, <3>1, <4>1 DEF SearchGood
    <3>2. CASE current \in taken
      <4> HIDE DEF p
      <4>1. /\ B!NotPast(p, endIP) => SearchGood("next", p, startIP, endIP, taken)
            /\ ~B!NotPast(p, endIP) => SearchGood("unavailable", current, startIP, endIP, taken)
        BY Zenon, <1>0, <2>1, <3>2, SearchGoesOn DEF p
      <4> QED BY Zenon, <2>2, <3>2, <4>1
    <3> QED BY Zenon, <2>2, <3>1, <3>2
  <2>4. ListGood(loop', current', startIP, endIP, taken, reserved, heatmap)
    <3>1. loop' # "heatmap" /\ loop' # "listed"
      BY <2>2
    <3>2. /\ heatmap \in Seq(B!IP \X Statuses)
          /\ B!Value(startIP) <= B!Value(endIP) =>
               /\ Entries(heatmap, startIP, taken, reserved)
               /\ Len(heatmap) <= MaxIPs
      BY Zenon, <1>0 DEF ListGood, Listed
    <3> QED BY Zenon, <3>1, <3>2 DEF ListGood, Listed
  <2>5. current' \in B!IP
    BY Zenon, <1>0, <1>1, <2>2
  <2> QED BY Zenon, <1>0, <2>1, <2>3, <2>4, <2>5 DEF PoolInv
<1>3. CASE B!Heatmap
  <2>1. /\ loop = "heatmap" /\ startIP' = startIP /\ endIP' = endIP
        /\ taken' = taken /\ reserved' = reserved
    BY Zenon, <1>3 DEF B!Heatmap, B!pool
  <2>2. \/ Len(heatmap) >= MaxIPs /\ heatmap' = heatmap /\ loop' = "listed" /\ current' = current
        \/ /\ ~(Len(heatmap) >= MaxIPs)
           /\ heatmap' = Append(heatmap, <<current, Status(taken, reserved, current)>>)
           /\ \/ current = endIP /\ loop' = "listed" /\ current' = current
              \/ current # endIP /\ B!NotPast(p, endIP) /\ loop' = "heatmap" /\ current' = p
              \/ current # endIP /\ ~B!NotPast(p, endIP) /\ loop' = "listed" /\ current' = current
    BY Zenon, <1>3, <2>1 DEF B!Heatmap, B!Increment, B!Done, B!StatusOf, Status
  <2>3. ListGood(loop', current', startIP, endIP, taken, reserved, heatmap')
    <3>1. CASE Len(heatmap) >= MaxIPs
      <4>1. ListGood("listed", current, startIP, endIP, taken, reserved, heatmap)
        BY Zenon, <1>0, <2>1, <3>1, ListEnds
      <4> QED BY Zenon, <2>2, <3>1, <4>1
    <3>2. CASE ~(Len(heatmap) >= MaxIPs)
      <4>0. PICK hm2 : hm2 = Append(heatmap, <<current, Status(taken, reserved, current)>>)
        BY Zenon
      <4>1. /\ current = endIP => ListGood("listed", current, startIP, endIP, taken, reserved, hm2)
            /\ current # endIP /\ B!NotPast(p, endIP) =>
                 ListGood("heatmap", p, startIP, endIP, taken, reserved, hm2)
            /\ current # endIP /\ ~B!NotPast(p, endIP) =>
                 ListGood("listed", current, startIP, endIP, taken, reserved, hm2)
        BY Zenon, <1>0, <2>1, <3>2, <4>0, ListGoesOn
      <4>2. heatmap' = hm2
        BY Zenon, <2>2, <3>2, <4>0
      <4> HIDE DEF p
      <4> QED BY Zenon, <2>2, <3>2, <4>1, <4>2
    <3> QED BY Zenon, <3>1, <3>2
  <2>4. SearchGood(loop', current', startIP, endIP, taken)
    <3>1. loop' \notin {"next", "found"} /\ loop' # "found" /\ loop' # "unavailable"
      BY <2>2
    <3> QED BY Zenon, <3>1 DEF SearchGood
  <2>5. current' \in B!IP
    BY Zenon, <1>0, <1>1, <2>2
  <2> QED BY Zenon, <1>0, <2>1, <2>3, <2>4, <2>5 DEF PoolInv
<1>4. CASE UNCHANGED B!vars
  <2>1. /\ startIP' = startIP /\ endIP' = endIP /\ taken' = taken /\ reserved' = reserved
        /\ loop' = loop /\ current' = current /\ heatmap' = heatmap
    BY Zenon, <1>4 DEF B!vars
  <2> QED BY Zenon, <1>0, <2>1 DEF PoolInv
<1> QED
  BY Zenon, <1>2, <1>3, <1>4 DEF B!Next

\* GetNextAvailableIP finds the least unused address of the pool, and answers
\* that there is none only when there is none: for addresses of any number of
\* octets of any base, so for the code's 4 and 256, and any rows.
THEOREM FirstUnusedIsFound == B!Spec => []FindsFirstUnused
<1>0. Sizes
  BY SizesAssumption
<1>1. B!Init => PoolInv
  BY Zenon, <1>0, PoolInit
<1>2. PoolInv /\ [B!Next]_B!vars => PoolInv'
  BY Zenon, <1>0, PoolStep
<1>3. PoolInv => FindsFirstUnused
  <2> SUFFICES ASSUME PoolInv PROVE FindsFirstUnused
    OBVIOUS
  <2> DEFINE I == B!Interval(startIP, endIP)
             free == I \ taken
  <2>0. /\ startIP \in B!IP /\ endIP \in B!IP /\ current \in B!IP
        /\ SearchGood(loop, current, startIP, endIP, taken)
    BY Zenon DEF PoolInv
  <2>1. ASSUME B!InOrder, free # {}, loop = "found"
        PROVE  current \in free /\ \A ip \in free : B!Value(current) <= B!Value(ip)
    <3>1. /\ current \in I /\ current \notin taken
          /\ \A ip \in I : B!Value(ip) < B!Value(current) => ip \in taken
      BY Zenon, <2>0, <2>1 DEF SearchGood, B!InOrder
    <3>2. ASSUME NEW ip \in free PROVE B!Value(current) <= B!Value(ip)
      <4>1. ip \in B!IP /\ ~(B!Value(ip) < B!Value(current))
        BY Zenon, <3>1 DEF B!Interval
      <4>2. B!Value(ip) \in Nat /\ B!Value(current) \in Nat
        BY Zenon, <2>0, <4>1, <1>0, ValueOrders
      <4> QED BY <4>1, <4>2
    <3> QED BY Zenon, <3>1, <3>2
  <2>2. ASSUME B!BelowTop, loop = "found" PROVE free # {}
    BY Zenon, <2>0, <2>2 DEF SearchGood, B!BelowTop, B!InOrder
  <2>3. ASSUME loop = "unavailable" PROVE free = {}
    BY Zenon, <2>0, <2>3 DEF SearchGood
  <2> QED BY Zenon, <2>1, <2>2, <2>3 DEF FindsFirstUnused, B!FindsFirstUnused
<1> QED
  BY <1>1, <1>2, <1>3, PTL DEF B!Spec

\* GetPoolHeatmap lists each address of the pool once, in order and with its
\* status, up to MaxIPs of them, whatever the width and the base.
THEOREM HeatmapsAreRanges == B!Spec => []HeatmapIsRange
<1>0. Sizes
  BY SizesAssumption
<1>1. B!Init => PoolInv
  BY Zenon, <1>0, PoolInit
<1>2. PoolInv /\ [B!Next]_B!vars => PoolInv'
  BY Zenon, <1>0, PoolStep
<1>3. PoolInv => HeatmapIsRange
  <2> SUFFICES ASSUME PoolInv PROVE HeatmapIsRange
    OBVIOUS
  <2>1. CASE B!InOrder /\ loop = "listed"
    <3>1. /\ startIP \in B!IP /\ endIP \in B!IP /\ B!Value(startIP) <= B!Value(endIP)
          /\ ListGood("listed", current, startIP, endIP, taken, reserved, heatmap)
      BY Zenon, <2>1 DEF PoolInv, B!InOrder
    <3>2. Whole(heatmap, startIP, endIP)
      BY Zenon, <3>1, <1>0, ListIsWhole
    <3>3. ASSUME NEW i \in 1 .. Len(heatmap)
          PROVE  /\ B!Value(heatmap[i][1]) = B!Value(startIP) + i - 1
                 /\ heatmap[i][2] = "used" <=> heatmap[i][1] \in taken
                 /\ heatmap[i][2] = "available" <=> heatmap[i][1] \notin taken \cup reserved
      <4>1. /\ B!Value(heatmap[i][1]) = B!Value(startIP) + i - 1
            /\ heatmap[i][2] = Status(taken, reserved, heatmap[i][1])
        BY Zenon, <3>1 DEF ListGood, Entries
      <4>2. "used" # "reserved" /\ "used" # "available" /\ "reserved" # "available"
        OBVIOUS
      <4> QED BY Zenon, <4>1, <4>2 DEF Status
    <3> QED BY Zenon, <3>2, <3>3 DEF Whole, HeatmapIsRange, B!HeatmapIsRange
  <2>2. CASE ~(B!InOrder /\ loop = "listed")
    BY Zenon, <2>2 DEF HeatmapIsRange, B!HeatmapIsRange
  <2> QED BY Zenon, <2>1, <2>2
<1> QED
  BY <1>1, <1>2, <1>3, PTL DEF B!Spec
=============================================================================
