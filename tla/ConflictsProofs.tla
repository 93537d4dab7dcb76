--------------------------- MODULE ConflictsProofs ---------------------------
(***************************************************************************)
(* Proofs about conflict records.  Of requests that follow one another: a  *)
(* key has at most one active record, a resolved record stays resolved,    *)
(* and a resolution is carried out before it is recorded.  Of requests     *)
(* that overlap, when every write is checked: no duplicate is missed.      *)
(***************************************************************************)
EXTENDS Conflicts, FiniteSetTheorems, TLAPS

PCs == {"idle", "check", "list", "load", "strip", "write", "detect", "refresh", "insert"}
Requests == [pc : PCs, left : Rows, key : Keys \cup {None}, devs : SUBSET Devices,
             todo : SUBSET (Devices \cup Cids), cid : Cids \cup {None},
             keep : Devices \cup {None}, rows : Rows, found : SUBSET (Keys \X SUBSET Devices)]
Records == [st : {"fresh", "active", "resolved", "gone"}, key : Keys \cup {None},
            devs : SUBSET Devices]

TypeOK ==
    /\ dev \in [Devices -> {"fresh", "live", "gone"}]
    /\ addr \in [Devices -> Rows]
    /\ conflict \in [Cids -> Records]
    /\ req \in [Procs -> Requests]

\* Addresses go with their device.
AddressesHaveDevices == \A d \in Devices : ~Live(d) => addr[d] = NoRows

\* No two active records of a key, and none while a request that will make one runs.
OneActive ==
    /\ \A c, d \in Cids : conflict[c].st = "active" /\ conflict[d].st = "active"
                          /\ conflict[c].key = conflict[d].key => c = d
    /\ \A p \in Procs : req[p].pc \in {"list", "load", "insert"} =>
         \A c \in Cids : conflict[c].st = "active" => conflict[c].key # req[p].key

\* What a detection will refresh is still active.
Refreshing == \A p \in Procs : req[p].pc = "refresh" =>
                 \A c \in req[p].todo : c \in Cids /\ conflict[c].st = "active"

\* A resolution has taken the address from every device it is done with.
Stripping == \A p \in Procs : req[p].pc \in {"strip", "write"} =>
    /\ req[p].cid \in Cids /\ req[p].key = conflict[req[p].cid].key
    /\ req[p].todo # {} => req[p].key \in IPs
    /\ req[p].keep # None /\ req[p].key \in IPs =>
         \A d \in conflict[req[p].cid].devs \ {req[p].keep} : d \in req[p].todo \/ addr[d][req[p].key] = 0
    /\ req[p].pc = "write" => \E d \in req[p].todo : req[p].devs = {d} /\ req[p].rows[req[p].key] = 0

\* What holds of requests that follow one another.
Alone == TypeOK /\ AddressesHaveDevices /\ OneActive /\ Refreshing /\ Stripping

\* p is going to compare the devices d and e for the address.
Watches(p, ip, d, e) ==
    \/ req[p].pc \in {"check", "list", "load"} /\ req[p].left[ip] > 0
    \/ req[p].pc = "list" /\ req[p].key = ip
    \/ req[p].pc = "load" /\ req[p].key = ip /\ {d, e} \subseteq req[p].todo \cup req[p].devs

\* What holds of writes that are all checked.
Watched ==
    /\ TypeOK /\ AddressesHaveDevices
    /\ \A c \in Cids : Exists(c) => conflict[c].key \in reported
    /\ \A p \in Procs : req[p].pc \in {"list", "load"} => req[p].key \in IPs
    /\ \A ip \in IPs : \A d, e \in Devices :
         ip \notin reported /\ d # e /\ addr[d][ip] > 0 /\ addr[e][ip] > 0
           => \E p \in Procs : Watches(p, ip, d, e)

\* Requests follow one another when there is one at a time.
OneAtATime == \A p, q \in Procs : p = q

-----------------------------------------------------------------------------
(* What the steps of a request make of its record.                             *)

\* A request that has ended, and an address row count of nothing.
LEMMA IdleRecord ==
  /\ NoRows \in Rows /\ \A ip \in IPs : NoRows[ip] = 0
  /\ Idle \in Requests /\ Idle.pc = "idle"
  <1>1. NoRows \in Rows /\ \A ip \in IPs : NoRows[ip] = 0
    BY ConflictsAssumption DEF NoRows, Rows
  <1>2. Idle \in Requests /\ Idle.pc = "idle"
    BY Zenon, <1>1 DEF Idle, Requests, PCs
  <1> QED BY Zenon, <1>1, <1>2

\* Only the request that takes the step has a new record.
LEMMA Becomes ==
  ASSUME TypeOK, NEW p \in Procs, NEW r \in Requests, Become(p, r)
  PROVE  /\ req' \in [Procs -> Requests] /\ req'[p] = r
         /\ \A q \in Procs : q # p => req'[q] = req[q]
  BY Zenon DEF Become, TypeOK

\* After a write of the device, its addresses are to be checked.
LEMMA StartsCheck ==
  ASSUME NEW p, NEW rows \in Rows, StartCheck(p, rows)
  PROVE  \E r \in Requests :
           /\ Become(p, r) /\ r.pc \in {"idle", "check"}
           /\ Wired => r.pc = "check" /\ r.left = rows
  <1>1. CASE ~Wired
    BY Zenon, <1>1, IdleRecord DEF StartCheck
  <1>2. CASE Wired
    <2>1. PICK r : r = [Idle EXCEPT !.pc = "check", !.left = rows]
      OBVIOUS
    <2>2. r \in Requests /\ r.pc = "check" /\ r.left = rows
      BY Zenon, <2>1, IdleRecord DEF Requests, PCs
    <2>3. Become(p, r)
      BY Zenon, <1>2, <2>1 DEF StartCheck
    <2> QED BY Zenon, <2>2, <2>3
  <1> QED BY Zenon, <1>1, <1>2

\* The address is one fewer to check; it goes on to the list of the devices when
\* it has no record.
LEMMA ChecksIP ==
  ASSUME TypeOK, NEW p \in Procs, NEW ip \in IPs, CheckIP(p, ip)
  PROVE  \E r \in Requests :
           /\ Become(p, r) /\ \A i \in IPs \ {ip} : r.left[i] = req[p].left[i]
           /\ About(ip) = {} => r.pc = "list" /\ r.key = ip
           /\ About(ip) # {} => r.pc = "check"
  <1>1. req[p] \in Requests /\ req[p].left \in Rows /\ req[p].left[ip] > 0
    BY Zenon DEF TypeOK, CheckIP, Requests
  <1>2. PICK l : l = [req[p].left EXCEPT ![ip] = @ - 1]
    OBVIOUS
  <1>3. l \in Rows /\ \A i \in IPs \ {ip} : l[i] = req[p].left[i]
    <2>1. req[p].left[ip] \in 0 .. MaxSame
      BY Zenon, <1>1 DEF Rows
    <2>2. req[p].left[ip] - 1 \in 0 .. MaxSame
      BY <1>1, <2>1, ConflictsAssumption
    <2> QED BY Zenon, <1>1, <1>2, <2>2 DEF Rows
  <1>4. PICK n : n = [Idle EXCEPT !.pc = "check", !.left = l]
    OBVIOUS
  <1>5. n \in Requests /\ n.pc = "check" /\ n.left = l /\ NextIP(p, ip) = n
    BY Zenon, <1>2, <1>3, <1>4, IdleRecord DEF Requests, PCs, NextIP
  <1>6. PICK m : m = [n EXCEPT !.pc = "list", !.key = ip]
    OBVIOUS
  <1>7. m \in Requests /\ m.pc = "list" /\ m.key = ip /\ m.left = l
    BY Zenon, <1>5, <1>6 DEF Requests, PCs, Keys
  <1>8. CASE About(ip) = {}
    <2>1. Become(p, m)
      BY Zenon, <1>5, <1>6, <1>8 DEF CheckIP
    <2> QED BY Zenon, <1>3, <1>7, <1>8, <2>1
  <1>9. CASE About(ip) # {}
    <2>1. Become(p, n)
      BY Zenon, <1>5, <1>9 DEF CheckIP
    <2> QED BY Zenon, <1>3, <1>5, <1>9, <2>1
  <1> QED BY Zenon, <1>8, <1>9

\* The page of devices; all the live ones when they fit.
LEMMA ListsDevices ==
  ASSUME TypeOK, NEW p \in Procs, ListDevices(p)
  PROVE  \E r \in Requests :
           /\ Become(p, r) /\ r.pc = "load" /\ r.key = req[p].key /\ r.left = req[p].left
           /\ r.todo \in Page({d \in Devices : Live(d)})
  <1>1. PICK page \in Page({d \in Devices : Live(d)}) :
          Become(p, [req[p] EXCEPT !.pc = "load", !.todo = page])
    BY Zenon DEF ListDevices
  <1>2. page \subseteq Devices
    BY Zenon, <1>1 DEF Page, kSubset
  <1>3. PICK r : r = [req[p] EXCEPT !.pc = "load", !.todo = page]
    OBVIOUS
  <1>4. req[p] \in Requests
    BY Zenon DEF TypeOK
  <1>5. r \in Requests /\ r.pc = "load" /\ r.key = req[p].key /\ r.left = req[p].left /\ r.todo = page
    BY Zenon, <1>2, <1>3, <1>4 DEF Requests, PCs
  <1> QED BY Zenon, <1>1, <1>3, <1>5

\* One device is looked at, and kept when it has the address.
LEMMA LoadsAddresses ==
  ASSUME TypeOK, NEW p \in Procs, NEW d \in Devices, LoadAddresses(p, d)
  PROVE  \E r \in Requests :
           /\ Become(p, r) /\ r.pc = "load" /\ r.key = req[p].key /\ r.left = req[p].left
           /\ r.todo = req[p].todo \ {d}
           /\ r.devs = IF addr[d][req[p].key] > 0 THEN req[p].devs \cup {d} ELSE req[p].devs
  <1>1. PICK ds : ds = IF addr[d][req[p].key] > 0 THEN req[p].devs \cup {d} ELSE req[p].devs
    OBVIOUS
  <1>2. req[p] \in Requests
    BY Zenon DEF TypeOK
  <1>3. PICK r : r = [req[p] EXCEPT !.todo = @ \ {d}, !.devs = ds]
    OBVIOUS
  <1>4. /\ r \in Requests /\ r.pc = req[p].pc /\ r.key = req[p].key /\ r.left = req[p].left
        /\ r.todo = req[p].todo \ {d} /\ r.devs = ds
    BY Zenon, <1>1, <1>2, <1>3 DEF Requests
  <1>5. Become(p, r) /\ req[p].pc = "load"
    BY Zenon, <1>1, <1>3 DEF LoadAddresses, getDeviceAddresses
  <1> QED BY Zenon, <1>1, <1>4, <1>5

\* A record of a key; the others stay as they are.
LEMMA CreatesConflict ==
  ASSUME TypeOK, NEW c \in Cids, NEW key \in Keys \cup {None}, NEW devs \in SUBSET Devices,
         CreateConflict(c, key, devs)
  PROVE  /\ conflict' \in [Cids -> Records]
         /\ conflict'[c].st = "active" /\ conflict'[c].key = key
         /\ conflict[c].st = "fresh"
         /\ \A d \in Cids \ {c} : conflict'[d] = conflict[d]
         /\ reported' = reported \cup {key}
  <1>1. [st |-> "active", key |-> key, devs |-> devs] \in Records
    BY Zenon DEF Records
  <1> QED BY Zenon, <1>1 DEF CreateConflict, TypeOK

\* A change of status changes nothing else.
LEMMA UpdatesStatus ==
  ASSUME TypeOK, NEW c \in Cids, NEW st \in {"active", "resolved", "gone"},
         conflict' = [conflict EXCEPT ![c].st = IF Exists(c) THEN st ELSE @]
  PROVE  /\ conflict' \in [Cids -> Records]
         /\ conflict'[c].st = IF Exists(c) THEN st ELSE conflict[c].st
         /\ conflict'[c].key = conflict[c].key /\ conflict'[c].devs = conflict[c].devs
         /\ \A d \in Cids \ {c} : conflict'[d] = conflict[d]
  <1>1. conflict[c] \in Records
    BY Zenon DEF TypeOK
  <1>2. PICK new : new = IF Exists(c) THEN st ELSE conflict[c].st
    OBVIOUS
  <1>3. PICK v : v = [conflict[c] EXCEPT !.st = new]
    OBVIOUS
  <1>4. v \in Records /\ v.st = new /\ v.key = conflict[c].key /\ v.devs = conflict[c].devs
    BY Zenon, <1>1, <1>2, <1>3 DEF Records
  <1>5. conflict' = [conflict EXCEPT ![c] = v]
    BY Zenon, <1>2, <1>3
  <1> QED BY Zenon, <1>2, <1>4, <1>5 DEF TypeOK

\* The end of the comparison: a record when two devices have the address.
LEMMA ReportsDuplicate ==
  ASSUME TypeOK, NEW p \in Procs, ReportDuplicate(p)
  PROVE  /\ \E r \in Requests : Become(p, r) /\ r.pc = "check" /\ r.left = req[p].left
         /\ \/ /\ Cardinality(req[p].devs) > 1
               /\ \E c \in Cids : CreateConflict(c, req[p].key, req[p].devs)
            \/ ~(Cardinality(req[p].devs) > 1) /\ UNCHANGED <<conflict, reported>>
         /\ req[p].pc = "load" /\ req[p].todo = {} /\ UNCHANGED <<dev, addr>>
  <1>1. PICK r : r = [Idle EXCEPT !.pc = "check", !.left = req[p].left]
    OBVIOUS
  <1>2. req[p] \in Requests
    BY Zenon DEF TypeOK
  <1>3. r \in Requests /\ r.pc = "check" /\ r.left = req[p].left
    BY Zenon, <1>1, <1>2, IdleRecord DEF Requests, PCs
  <1>4. Become(p, r)
    BY Zenon, <1>1 DEF ReportDuplicate
  <1> QED BY Zenon, <1>3, <1>4 DEF ReportDuplicate

\* What Resolve has read.
LEMMA Resolves ==
  ASSUME TypeOK, NEW p \in Procs, NEW c \in Cids, NEW keep \in Devices \cup {None}, Resolve(p, c, keep)
  PROVE  \E r \in Requests :
           /\ Become(p, r) /\ r.pc = "strip" /\ r.cid = c /\ r.key = conflict[c].key /\ r.keep = keep
           /\ r.todo = IF keep = None \/ conflict[c].key \notin IPs THEN {} ELSE conflict[c].devs \ {keep}
  <1>1. conflict[c] \in Records
    BY Zenon DEF TypeOK
  <1>2. PICK td : td = IF keep = None \/ conflict[c].key \notin IPs THEN {} ELSE conflict[c].devs \ {keep}
    OBVIOUS
  <1>3. td \subseteq Devices
    BY Zenon, <1>1, <1>2 DEF Records
  <1>4. PICK r : r = [Idle EXCEPT !.pc = "strip", !.cid = c, !.key = conflict[c].key, !.keep = keep, !.todo = td]
    OBVIOUS
  <1>5. /\ r \in Requests /\ r.pc = "strip" /\ r.cid = c /\ r.key = conflict[c].key /\ r.keep = keep
        /\ r.todo = td
    BY Zenon, <1>1, <1>3, <1>4, IdleRecord DEF Requests, PCs, Records
  <1>6. Become(p, r)
    BY Zenon, <1>2, <1>4 DEF Resolve, GetConflict
  <1> QED BY Zenon, <1>2, <1>5, <1>6

\* The device as it was read, without the address, or no device.
LEMMA GetsDevice ==
  ASSUME TypeOK, NEW p \in Procs, NEW d \in Devices, GetDevice(p, d), req[p].key \in IPs
  PROVE  \E r \in Requests :
           /\ Become(p, r) /\ r.cid = req[p].cid /\ r.key = req[p].key /\ r.keep = req[p].keep
           /\ \/ Live(d) /\ r.pc = "write" /\ r.todo = req[p].todo /\ r.devs = {d} /\ r.rows[r.key] = 0
              \/ ~Live(d) /\ r.pc = "strip" /\ r.todo = req[p].todo \ {d}
  <1>1. req[p] \in Requests /\ addr[d] \in Rows /\ req[p].pc = "strip"
    BY Zenon DEF TypeOK, GetDevice
  <1>2. CASE Live(d)
    <2>1. PICK w : w = [addr[d] EXCEPT ![req[p].key] = 0]
      OBVIOUS
    <2>2. w \in Rows /\ w[req[p].key] = 0
      BY <1>1, <2>1, ConflictsAssumption DEF Rows
    <2>3. PICK r : r = [req[p] EXCEPT !.pc = "write", !.devs = {d}, !.rows = w]
      OBVIOUS
    <2>4. /\ r \in Requests /\ r.cid = req[p].cid /\ r.key = req[p].key /\ r.keep = req[p].keep
          /\ r.pc = "write" /\ r.todo = req[p].todo /\ r.devs = {d} /\ r.rows = w
      BY <1>1, <2>2, <2>3 DEF Requests, PCs
    <2>5. Become(p, r)
      BY Zenon, <1>2, <2>1, <2>3 DEF GetDevice, getDeviceAddresses
    <2> QED BY Zenon, <1>2, <2>2, <2>4, <2>5
  <1>3. CASE ~Live(d)
    <2>1. PICK r : r = [req[p] EXCEPT !.todo = @ \ {d}]
      OBVIOUS
    <2>2. /\ r \in Requests /\ r.cid = req[p].cid /\ r.key = req[p].key /\ r.keep = req[p].keep
          /\ r.pc = "strip" /\ r.todo = req[p].todo \ {d}
      BY Zenon, <1>1, <2>1 DEF Requests
    <2>3. Become(p, r)
      BY Zenon, <1>3, <2>1 DEF GetDevice
    <2> QED BY Zenon, <1>3, <2>2, <2>3
  <1> QED BY Zenon, <1>2, <1>3

\* The write of the stripped device, or the end of the request.
LEMMA WritesStripped ==
  ASSUME TypeOK, NEW p \in Procs, WriteStripped(p)
  PROVE  \E r \in Requests, d \in req[p].devs :
           /\ Become(p, r)
           /\ \/ /\ Live(d) /\ addr' = [addr EXCEPT ![d] = req[p].rows]
                 /\ r.pc = "strip" /\ r.todo = req[p].todo \ {d}
                 /\ r.cid = req[p].cid /\ r.key = req[p].key /\ r.keep = req[p].keep
              \/ ~Live(d) /\ addr' = addr /\ r.pc = "idle"
  <1>1. req[p] \in Requests
    BY Zenon DEF TypeOK
  <1>2. PICK d \in req[p].devs :
          IF Live(d)
          THEN /\ addr' = [addr EXCEPT ![d] = req[p].rows]
               /\ Become(p, [req[p] EXCEPT !.pc = "strip", !.devs = {}, !.todo = @ \ {d}, !.rows = NoRows])
          ELSE Become(p, Idle) /\ UNCHANGED addr
    BY Zenon DEF WriteStripped
  <1>3. CASE Live(d)
    <2>1. PICK r : r = [req[p] EXCEPT !.pc = "strip", !.devs = {}, !.todo = @ \ {d}, !.rows = NoRows]
      OBVIOUS
    <2>2. /\ r \in Requests /\ r.cid = req[p].cid /\ r.key = req[p].key /\ r.keep = req[p].keep
          /\ r.pc = "strip" /\ r.todo = req[p].todo \ {d}
      BY <1>1, <2>1, IdleRecord DEF Requests, PCs
    <2> QED BY Zenon, <1>2, <1>3, <2>1, <2>2
  <1>4. CASE ~Live(d)
    BY Zenon, <1>2, <1>4, IdleRecord
  <1> QED BY Zenon, <1>3, <1>4

\* The start of a detection.
LEMMA Detects ==
  ASSUME TypeOK, NEW p \in Procs, DetectDuplicateIPs(p) \/ DetectOverlappingSubnets(p)
  PROVE  \E r \in Requests : Become(p, r) /\ r.pc = "detect"
  <1>1. FindDuplicateIPs \subseteq Keys \X SUBSET Devices
    <2> SUFFICES ASSUME NEW f \in FindDuplicateIPs PROVE f \in Keys \X SUBSET Devices
      OBVIOUS
    <2>1. PICK ip \in IPs : f = <<ip, Holders(ip)>>
      BY Zenon DEF FindDuplicateIPs
    <2> QED BY Zenon, <2>1 DEF Keys, Holders
  <1>2. FindOverlappingSubnets \subseteq Keys \X SUBSET Devices
    <2> SUFFICES ASSUME NEW f \in FindOverlappingSubnets PROVE f \in Keys \X SUBSET Devices
      OBVIOUS
    <2>1. PICK ns \in Pairs : f = <<ns, {}>>
      BY Zenon DEF FindOverlappingSubnets
    <2> QED BY Zenon, <2>1 DEF Keys
  <1>3. ASSUME NEW found, found \subseteq Keys \X SUBSET Devices, Detect(p, found)
        PROVE  \E r \in Requests : Become(p, r) /\ r.pc = "detect"
    <2>1. PICK r : r = [Idle EXCEPT !.pc = "detect", !.found = found]
      OBVIOUS
    <2>2. r \in Requests /\ r.pc = "detect"
      BY Zenon, <1>3, <2>1, IdleRecord DEF Requests, PCs
    <2> QED BY Zenon, <1>3, <2>1, <2>2 DEF Detect
  <1> QED BY Zenon, <1>1, <1>2, <1>3 DEF DetectDuplicateIPs, DetectOverlappingSubnets

\* The pair that was found goes to the insert when no record of its key was seen.
LEMMA Consults ==
  ASSUME TypeOK, NEW p \in Procs, NEW f \in req[p].found, ConsultByIP(p, f) \/ ConsultActive(p, f)
  PROVE  \E r \in Requests :
           /\ Become(p, r)
           /\ \/ r.pc = "detect"
              \/ r.pc = "refresh" /\ r.todo = ActiveAbout(f[1])
              \/ r.pc = "insert" /\ r.key = f[1] /\ About(f[1]) = {}
              \/ /\ r.pc = "insert" /\ r.key = f[1] /\ f[1] \in Pairs
                 /\ \E page \in ListConflicts : \A c \in page : conflict[c].key # f[1]
  <1>1. req[p] \in Requests
    BY Zenon DEF TypeOK
  <1>2. f[1] \in Keys /\ f[2] \in SUBSET Devices
    BY Zenon, <1>1 DEF Requests
  <1>3. PICK n : n = [Idle EXCEPT !.pc = "detect", !.found = req[p].found \ {f}]
    OBVIOUS
  <1>4. n \in Requests /\ n.pc = "detect" /\ n = NextFound(p, f)
    BY Zenon, <1>1, <1>3, IdleRecord DEF Requests, PCs, NextFound
  <1>5. PICK m : m = [n EXCEPT !.pc = "insert", !.key = f[1], !.devs = f[2]]
    OBVIOUS
  <1>6. m \in Requests /\ m.pc = "insert" /\ m.key = f[1] /\ m = ToCreate(p, f)
    BY <1>2, <1>4, <1>5 DEF Requests, PCs, ToCreate
  <1>7. PICK k : k = [n EXCEPT !.pc = "refresh", !.todo = ActiveAbout(f[1])]
    OBVIOUS
  <1>8. k \in Requests /\ k.pc = "refresh" /\ k.todo = ActiveAbout(f[1])
    <2>1. ActiveAbout(f[1]) \subseteq Cids
      BY Zenon DEF ActiveAbout, About
    <2> QED BY <1>4, <1>7, <2>1 DEF Requests, PCs
  <1>9. CASE ConsultByIP(p, f)
    <2>1. Become(p, IF About(f[1]) = {} THEN m ELSE k)
      BY Zenon, <1>4, <1>6, <1>7, <1>9 DEF ConsultByIP
    <2> QED BY Zenon, <1>6, <1>8, <2>1
  <1>10. CASE ConsultActive(p, f)
    <2>1. PICK page \in ListConflicts : Become(p, IF \E c \in page : conflict[c].key = f[1] THEN n ELSE m)
      BY Zenon, <1>4, <1>6, <1>10 DEF ConsultActive
    <2>2. f[1] \in Pairs
      BY Zenon, <1>10 DEF ConsultActive
    <2> QED BY Zenon, <1>4, <1>6, <2>1, <2>2
  <1> QED BY Zenon, <1>9, <1>10

\* One record is written again.
LEMMA Refreshes ==
  ASSUME TypeOK, NEW p \in Procs, Refresh(p)
  PROVE  \E r \in Requests :
           /\ Become(p, r)
           /\ \/ r.pc = "detect" /\ conflict' = conflict
              \/ \E c \in req[p].todo :
                   UpdateConflictStatus(c, "active") /\ r.pc = "refresh" /\ r.todo = req[p].todo \ {c}
  <1>1. req[p] \in Requests /\ req[p].pc = "refresh"
    BY Zenon DEF TypeOK, Refresh
  <1>2. CASE req[p].todo = {}
    <2>1. PICK r : r = [req[p] EXCEPT !.pc = "detect"]
      OBVIOUS
    <2>2. r \in Requests /\ r.pc = "detect"
      BY Zenon, <1>1, <2>1 DEF Requests, PCs
    <2> QED BY Zenon, <1>2, <2>1, <2>2 DEF Refresh
  <1>3. CASE req[p].todo # {}
    <2>1. PICK c \in req[p].todo :
            UpdateConflictStatus(c, "active") /\ Become(p, [req[p] EXCEPT !.todo = @ \ {c}])
      BY Zenon, <1>3 DEF Refresh
    <2>2. PICK r : r = [req[p] EXCEPT !.todo = @ \ {c}]
      OBVIOUS
    <2>3. r \in Requests /\ r.pc = "refresh" /\ r.todo = req[p].todo \ {c}
      BY Zenon, <1>1, <2>2 DEF Requests
    <2> QED BY Zenon, <2>1, <2>2, <2>3
  <1> QED BY Zenon, <1>2, <1>3

\* The insert of what a detection found.
LEMMA InsertsFound ==
  ASSUME TypeOK, NEW p \in Procs, InsertFound(p)
  PROVE  /\ \E r \in Requests : Become(p, r) /\ r.pc = "detect"
         /\ \E c \in Cids : CreateConflict(c, req[p].key, req[p].devs)
         /\ req[p].pc = "insert" /\ UNCHANGED <<dev, addr>>
  <1>1. PICK r : r = [Idle EXCEPT !.pc = "detect", !.found = req[p].found]
    OBVIOUS
  <1>2. req[p] \in Requests
    BY Zenon DEF TypeOK
  <1>3. r \in Requests /\ r.pc = "detect"
    BY <1>1, <1>2, IdleRecord DEF Requests, PCs
  <1>4. Become(p, r)
    BY Zenon, <1>1 DEF InsertFound
  <1> QED BY Zenon, <1>3, <1>4 DEF InsertFound

-----------------------------------------------------------------------------
(* Requests that follow one another.                                           *)

\* A step to a place where the request holds nothing.
LEMMA RestsKeep ==
  ASSUME OneAtATime, Alone, NEW p \in Procs, NEW r \in Requests, Become(p, r),
         r.pc \in {"idle", "check", "detect"},
         dev' \in [Devices -> {"fresh", "live", "gone"}], addr' \in [Devices -> Rows],
         conflict' \in [Cids -> Records], AddressesHaveDevices',
         \A c, d \in Cids : conflict'[c].st = "active" /\ conflict'[d].st = "active"
                            /\ conflict'[c].key = conflict'[d].key => c = d
  PROVE  Alone'
  <1>1. req' \in [Procs -> Requests] /\ \A q \in Procs : req'[q] = r
    BY Becomes DEF Alone, OneAtATime
  <1>2. TypeOK'
    BY Zenon, <1>1 DEF TypeOK
  <1>3. OneActive' /\ Refreshing' /\ Stripping'
    BY Zenon, <1>1 DEF OneActive, Refreshing, Stripping
  <1> QED BY Zenon, <1>2, <1>3 DEF Alone

\* The same when the tables stay as they are.
LEMMA RestsKeepTables ==
  ASSUME OneAtATime, Alone, NEW p \in Procs, NEW r \in Requests, Become(p, r),
         r.pc \in {"idle", "check", "detect"}, UNCHANGED <<dev, addr, conflict>>
  PROVE  Alone'
  <1>1. AddressesHaveDevices'
    BY Zenon DEF Alone, AddressesHaveDevices, Live
  <1> QED BY Zenon, <1>1, RestsKeep DEF Alone, TypeOK, OneActive

\* The insert of a record for a key that has no active one.
LEMMA InsertsKeep ==
  ASSUME OneAtATime, Alone, NEW p \in Procs, NEW r \in Requests, Become(p, r), r.pc \in {"check", "detect"},
         req[p].pc \in {"load", "insert"}, UNCHANGED <<dev, addr>>,
         NEW c \in Cids, CreateConflict(c, req[p].key, req[p].devs)
  PROVE  Alone'
  <1>1. TypeOK /\ req[p] \in Requests
    BY Zenon DEF Alone, TypeOK
  <1>2. req[p].key \in Keys \cup {None} /\ req[p].devs \in SUBSET Devices
    BY Zenon, <1>1 DEF Requests
  <1>3. /\ conflict' \in [Cids -> Records] /\ conflict'[c].st = "active" /\ conflict'[c].key = req[p].key
        /\ \A d \in Cids \ {c} : conflict'[d] = conflict[d]
    BY Zenon, <1>1, <1>2, CreatesConflict
  <1>4. \A d, e \in Cids : conflict'[d].st = "active" /\ conflict'[e].st = "active"
                           /\ conflict'[d].key = conflict'[e].key => d = e
    BY <1>3 DEF Alone, OneActive
  <1>5. AddressesHaveDevices'
    BY Zenon DEF Alone, AddressesHaveDevices, Live
  <1> QED BY Zenon, <1>1, <1>3, <1>4, <1>5, RestsKeep DEF TypeOK

\* Writes of a device, checked or not, and its deletion.
LEMMA DeviceWritesKeep ==
  ASSUME OneAtATime, Alone, NEW p \in Procs, NEW d \in Devices, NEW rows \in Rows,
         CreateDevice(p, d, rows) \/ UpdateDevice(p, d, rows) \/ DeleteDevice(p, d) \/ WriteUnchecked(p, d, rows)
  PROVE  Alone'
  <1>1. /\ req[p].pc = "idle" /\ conflict' = conflict /\ TypeOK
        /\ \A q \in Procs : q = p
    BY Zenon DEF CreateDevice, UpdateDevice, DeleteDevice, WriteUnchecked, Alone, OneAtATime
  <1>2. /\ dev' \in [Devices -> {"fresh", "live", "gone"}] /\ addr' \in [Devices -> Rows]
        /\ AddressesHaveDevices'
    <2>1. AddressesHaveDevices /\ dev \in [Devices -> {"fresh", "live", "gone"}] /\ addr \in [Devices -> Rows]
      BY Zenon DEF Alone, TypeOK
    <2>2. CASE dev' = [dev EXCEPT ![d] = "live"] /\ addr' = [addr EXCEPT ![d] = rows]
      BY Zenon, <2>1, <2>2 DEF AddressesHaveDevices, Live
    <2>3. CASE UpdateDevice(p, d, rows)
      BY Zenon, <2>1, <2>3 DEF AddressesHaveDevices, Live, UpdateDevice
    <2>4. CASE DeleteDevice(p, d)
      BY Zenon, <2>1, <2>4, IdleRecord DEF AddressesHaveDevices, Live, DeleteDevice
    <2> QED BY Zenon, <2>2, <2>3, <2>4 DEF CreateDevice, WriteUnchecked
  <1>3. CASE CreateDevice(p, d, rows) \/ UpdateDevice(p, d, rows)
    <2>1. PICK r \in Requests : Become(p, r) /\ r.pc \in {"idle", "check"}
      BY Zenon, <1>3, StartsCheck DEF CreateDevice, UpdateDevice
    <2> QED BY Zenon, <1>1, <1>2, <2>1, RestsKeep DEF Alone, TypeOK, OneActive
  <1>4. CASE DeleteDevice(p, d) \/ WriteUnchecked(p, d, rows)
    <2>1. req' = req
      BY Zenon, <1>4 DEF DeleteDevice, WriteUnchecked
    <2>2. TypeOK' /\ OneActive' /\ Refreshing' /\ Stripping'
      BY <1>1, <1>2, <2>1 DEF Alone, TypeOK, OneActive, Refreshing, Stripping
    <2> QED BY Zenon, <1>2, <2>2 DEF Alone
  <1> QED BY Zenon, <1>3, <1>4

\* A check that found no record finds none until it makes one.
LEMMA ChecksKeep ==
  ASSUME OneAtATime, Alone, NEW p \in Procs, Check(p)
  PROVE  Alone'
  <1>1. TypeOK /\ \A q \in Procs : q = p
    BY Zenon DEF Alone, OneAtATime
  <1>2. ASSUME NEW r \in Requests, Become(p, r), UNCHANGED tables, r.pc \in {"list", "load"},
               \A c \in Cids : conflict[c].st = "active" => conflict[c].key # r.key
        PROVE  Alone'
    <2>1. req' \in [Procs -> Requests] /\ \A q \in Procs : req'[q] = r
      BY SMTT(30), <1>1, <1>2, Becomes
    <2>2. UNCHANGED <<dev, addr, conflict>>
      BY Zenon, <1>2 DEF tables
    <2>3. TypeOK' /\ AddressesHaveDevices'
      BY Zenon, <2>1, <2>2 DEF Alone, TypeOK, AddressesHaveDevices, Live
    <2>4. OneActive' /\ Refreshing' /\ Stripping'
      BY Zenon, <1>2, <2>1, <2>2 DEF Alone, OneActive, Refreshing, Stripping
    <2> QED BY Zenon, <2>3, <2>4 DEF Alone
  <1>3. ASSUME NEW ip \in IPs, CheckIP(p, ip) PROVE Alone'
    <2>1. PICK r \in Requests :
            /\ Become(p, r) /\ (About(ip) = {} => r.pc = "list" /\ r.key = ip)
            /\ About(ip) # {} => r.pc = "check"
      BY <1>1, <1>3, ChecksIP
    <2>2. UNCHANGED tables
      BY Zenon, <1>3 DEF CheckIP
    <2>3. CASE About(ip) = {}
      <3>1. \A c \in Cids : conflict[c].st = "active" => conflict[c].key # r.key
        BY Zenon, <2>1, <2>3 DEF About, Exists
      <3> QED BY Zenon, <1>2, <2>1, <2>2, <2>3, <3>1
    <2>4. CASE About(ip) # {}
      BY Zenon, <2>1, <2>2, <2>4, RestsKeepTables DEF tables
    <2> QED BY Zenon, <2>3, <2>4
  <1>4. CASE CheckDone(p)
    BY Zenon, <1>4, IdleRecord, RestsKeepTables DEF CheckDone, tables
  <1>5. CASE ListDevices(p)
    <2>1. PICK r \in Requests : Become(p, r) /\ r.pc = "load" /\ r.key = req[p].key
      BY Zenon, <1>1, <1>5, ListsDevices
    <2>2. UNCHANGED tables /\ req[p].pc = "list"
      BY Zenon, <1>5 DEF ListDevices
    <2> QED BY Zenon, <1>2, <2>1, <2>2 DEF Alone, OneActive
  <1>6. ASSUME NEW d \in Devices, LoadAddresses(p, d) PROVE Alone'
    <2>1. PICK r \in Requests : Become(p, r) /\ r.pc = "load" /\ r.key = req[p].key
      BY Zenon, <1>1, <1>6, LoadsAddresses
    <2>2. UNCHANGED tables /\ req[p].pc = "load"
      BY Zenon, <1>6 DEF LoadAddresses
    <2> QED BY Zenon, <1>2, <2>1, <2>2 DEF Alone, OneActive
  <1>7. CASE ReportDuplicate(p)
    <2>1. PICK r \in Requests : Become(p, r) /\ r.pc = "check"
      BY Zenon, <1>1, <1>7, ReportsDuplicate
    <2>2. req[p].pc = "load" /\ UNCHANGED <<dev, addr>>
      BY Zenon, <1>1, <1>7, ReportsDuplicate
    <2>3. CASE UNCHANGED conflict
      BY Zenon, <2>1, <2>2, <2>3, RestsKeepTables
    <2>4. ASSUME NEW c \in Cids, CreateConflict(c, req[p].key, req[p].devs) PROVE Alone'
      BY Zenon, <2>1, <2>2, <2>4, InsertsKeep
    <2> QED BY Zenon, <1>1, <1>7, <2>3, <2>4, ReportsDuplicate
  <1> QED BY Zenon, <1>3, <1>4, <1>5, <1>6, <1>7 DEF Check

\* A resolution has taken the address from the devices it is done with.
LEMMA ResolutionsKeep ==
  ASSUME OneAtATime, Alone, NEW p \in Procs, Resolution(p)
  PROVE  Alone'
  <1>1. TypeOK /\ (\A q \in Procs : q = p) /\ req[p] \in Requests
    BY Zenon DEF Alone, OneAtATime, TypeOK
  <1>2. ASSUME NEW r \in Requests, Become(p, r), UNCHANGED <<dev, conflict>>, r.pc \in {"strip", "write"},
               addr' \in [Devices -> Rows], AddressesHaveDevices',
               r.cid \in Cids, r.key = conflict[r.cid].key, r.todo # {} => r.key \in IPs,
               r.keep # None /\ r.key \in IPs =>
                 \A d \in conflict[r.cid].devs \ {r.keep} : d \in r.todo \/ addr'[d][r.key] = 0,
               r.pc = "write" => \E d \in r.todo : r.devs = {d} /\ r.rows[r.key] = 0
        PROVE  Alone'
    <2>1. req' \in [Procs -> Requests] /\ \A q \in Procs : req'[q] = r
      BY <1>1, <1>2, Becomes
    <2>2. TypeOK'
      BY Zenon, <1>2, <2>1 DEF Alone, TypeOK
    <2>3. OneActive' /\ Refreshing'
      BY Zenon, <1>2, <2>1 DEF Alone, OneActive, Refreshing
    <2>4. Stripping'
      BY Zenon, <1>2, <2>1 DEF Stripping
    <2> QED BY Zenon, <1>2, <2>2, <2>3, <2>4 DEF Alone
  <1>3. ASSUME UNCHANGED <<dev, addr, conflict>>
        PROVE  addr' \in [Devices -> Rows] /\ AddressesHaveDevices'
    BY Zenon, <1>3 DEF Alone, TypeOK, AddressesHaveDevices, Live
  <1>4. ASSUME NEW c \in Cids, NEW keep \in Devices \cup {None}, Resolve(p, c, keep) PROVE Alone'
    <2>1. PICK r \in Requests :
            /\ Become(p, r) /\ r.pc = "strip" /\ r.cid = c /\ r.key = conflict[c].key /\ r.keep = keep
            /\ r.todo = IF keep = None \/ conflict[c].key \notin IPs THEN {} ELSE conflict[c].devs \ {keep}
      BY <1>1, <1>4, Resolves
    <2>2. UNCHANGED <<dev, addr, conflict>>
      BY Zenon, <1>4 DEF Resolve, tables
    <2> QED BY Zenon, <1>2, <1>3, <2>1, <2>2
  <1>5. ASSUME NEW d \in Devices, GetDevice(p, d) PROVE Alone'
    <2>1. /\ req[p].pc = "strip" /\ d \in req[p].todo /\ UNCHANGED <<dev, addr, conflict>>
      BY Zenon, <1>5 DEF GetDevice, tables
    <2>2. /\ req[p].cid \in Cids /\ req[p].key = conflict[req[p].cid].key /\ req[p].key \in IPs
          /\ req[p].keep # None =>
               \A e \in conflict[req[p].cid].devs \ {req[p].keep} : e \in req[p].todo \/ addr[e][req[p].key] = 0
      BY Zenon, <2>1 DEF Alone, Stripping
    <2>3. PICK r \in Requests :
            /\ Become(p, r) /\ r.cid = req[p].cid /\ r.key = req[p].key /\ r.keep = req[p].keep
            /\ \/ Live(d) /\ r.pc = "write" /\ r.todo = req[p].todo /\ r.devs = {d} /\ r.rows[r.key] = 0
               \/ ~Live(d) /\ r.pc = "strip" /\ r.todo = req[p].todo \ {d}
      BY Zenon, <1>1, <1>5, <2>2, GetsDevice
    <2>4. ~Live(d) => addr[d][req[p].key] = 0
      BY Zenon, <2>2, IdleRecord DEF Alone, AddressesHaveDevices
    <2> QED BY Zenon, <1>2, <1>3, <2>1, <2>2, <2>3, <2>4
  <1>6. CASE WriteStripped(p)
    <2>1. /\ req[p].pc = "write" /\ UNCHANGED <<dev, conflict>>
      BY Zenon, <1>6 DEF WriteStripped
    <2>2. PICK r \in Requests, d \in req[p].devs :
           /\ Become(p, r)
           /\ \/ /\ Live(d) /\ addr' = [addr EXCEPT ![d] = req[p].rows]
                 /\ r.pc = "strip" /\ r.todo = req[p].todo \ {d}
                 /\ r.cid = req[p].cid /\ r.key = req[p].key /\ r.keep = req[p].keep
              \/ ~Live(d) /\ addr' = addr /\ r.pc = "idle"
      BY Zenon, <1>1, <1>6, WritesStripped
    <2>3. CASE addr' = addr /\ r.pc = "idle"
      BY Zenon, <2>1, <2>2, <2>3, RestsKeepTables
    <2>4. CASE Live(d) /\ addr' = [addr EXCEPT ![d] = req[p].rows] /\ r.pc = "strip"
      <3>1. /\ req[p].cid \in Cids /\ req[p].key = conflict[req[p].cid].key /\ req[p].todo # {}
            /\ req[p].key \in IPs /\ req[p].rows[req[p].key] = 0 /\ d \in Devices /\ req[p].rows \in Rows
            /\ req[p].keep # None =>
                 \A e \in conflict[req[p].cid].devs \ {req[p].keep} : e \in req[p].todo \/ addr[e][req[p].key] = 0
        <4>1. req[p].devs \in SUBSET Devices /\ req[p].rows \in Rows
          BY Zenon, <1>1 DEF Requests
        <4> QED BY Zenon, <2>1, <4>1 DEF Alone, Stripping
      <3>2. addr \in [Devices -> Rows]
        BY Zenon, <1>1 DEF TypeOK
      <3>3. addr' \in [Devices -> Rows] /\ AddressesHaveDevices'
        BY Zenon, <2>1, <2>4, <3>1, <3>2 DEF Alone, AddressesHaveDevices, Live
      <3>4. conflict[req[p].cid].devs \in SUBSET Devices
        BY Zenon, <1>1, <3>1 DEF TypeOK, Records
      <3>5. req[p].keep # None =>
              \A e \in conflict[req[p].cid].devs \ {req[p].keep} : e \in req[p].todo \ {d} \/ addr'[e][req[p].key] = 0
        BY Zenon, <2>4, <3>1, <3>2, <3>4
      <3>6. r.todo = req[p].todo \ {d} /\ r.cid = req[p].cid /\ r.key = req[p].key /\ r.keep = req[p].keep
        BY Zenon, <2>2, <2>4
      <3> QED BY SMTT(30), <1>2, <2>1, <2>2, <2>4, <3>1, <3>3, <3>5, <3>6
    <2> QED BY Zenon, <2>2, <2>3, <2>4
  <1>7. CASE MarkResolved(p)
    <2>1. req[p].cid \in Cids /\ UNCHANGED <<dev, addr>> /\ Become(p, Idle)
          /\ conflict' = [conflict EXCEPT ![req[p].cid].st = IF Exists(req[p].cid) THEN "resolved" ELSE @]
      BY Zenon, <1>7 DEF Alone, Stripping, MarkResolved, UpdateConflictStatus
    <2>2. /\ conflict' \in [Cids -> Records]
          /\ conflict'[req[p].cid].st # "active"
          /\ \A d \in Cids \ {req[p].cid} : conflict'[d] = conflict[d]
      <3>1. PICK c \in Cids : c = req[p].cid
        BY Zenon, <2>1
      <3>2. conflict' = [conflict EXCEPT ![c].st = IF Exists(c) THEN "resolved" ELSE @]
        BY Zenon, <2>1, <3>1
      <3>3. /\ conflict' \in [Cids -> Records]
            /\ conflict'[c].st = IF Exists(c) THEN "resolved" ELSE conflict[c].st
            /\ \A d \in Cids \ {c} : conflict'[d] = conflict[d]
        BY Zenon, <1>1, <3>2, UpdatesStatus
      <3> QED BY Zenon, <3>1, <3>3 DEF Exists
    <2>3. \A d, e \in Cids : conflict'[d].st = "active" /\ conflict'[e].st = "active"
                             /\ conflict'[d].key = conflict'[e].key => d = e
      BY <2>2 DEF Alone, OneActive
    <2>4. AddressesHaveDevices' /\ dev' \in [Devices -> {"fresh", "live", "gone"}] /\ addr' \in [Devices -> Rows]
      BY Zenon, <1>1, <2>1 DEF Alone, AddressesHaveDevices, Live, TypeOK
    <2> QED BY Zenon, <2>1, <2>2, <2>3, <2>4, IdleRecord, RestsKeep
  <1> QED BY Zenon, <1>4, <1>5, <1>6, <1>7 DEF Resolution

\* A page of the active records has them all, when they fit on it.
LEMMA PageHasAll ==
  ASSUME IsFiniteSet(Cids), Cardinality(Cids) <= PageLimit, NEW page \in ListConflicts
  PROVE  page = {c \in Cids : conflict[c].st = "active" /\ conflict[c].key \in Pairs}
  <1> DEFINE S == {c \in Cids : conflict[c].st = "active" /\ conflict[c].key \in Pairs}
  <1>1. S \subseteq Cids
    OBVIOUS
  <1>2. IsFiniteSet(S) /\ Cardinality(S) <= Cardinality(Cids) /\ Cardinality(S) \in Nat /\ Cardinality(Cids) \in Nat
    BY Zenon, <1>1, FS_Subset, FS_CardinalityType
  <1>3. page \in Page(S)
    BY Zenon DEF ListConflicts
  <1> HIDE DEF S
  <1>4. page \subseteq S /\ Cardinality(page) = Cardinality(S)
    BY <1>2, <1>3, ConflictsAssumption DEF Page, kSubset
  <1>5. page = S
    BY Zenon, <1>2, <1>4, FS_Subset
  <1> QED BY Zenon, <1>5 DEF S

\* A detection makes a record of a key that has no active one, and refreshes what
\* is active.
LEMMA DetectionsKeep ==
  ASSUME OneAtATime, IsFiniteSet(Cids), Cardinality(Cids) <= PageLimit, Alone, NEW p \in Procs,
         Detection(p) \/ DetectOverlappingSubnets(p)
  PROVE  Alone'
  <1>1. TypeOK /\ (\A q \in Procs : q = p) /\ req[p] \in Requests
    BY Zenon DEF Alone, OneAtATime, TypeOK
  <1>2. CASE DetectDuplicateIPs(p) \/ DetectOverlappingSubnets(p)
    BY Zenon, <1>1, <1>2, Detects, RestsKeepTables DEF DetectDuplicateIPs, DetectOverlappingSubnets, Detect, tables
  <1>3. ASSUME NEW f \in req[p].found, ConsultByIP(p, f) \/ ConsultActive(p, f) PROVE Alone'
    <2>1. UNCHANGED <<dev, addr, conflict>>
      BY Zenon, <1>3 DEF ConsultByIP, ConsultActive, tables
    <2>2. PICK r \in Requests :
           /\ Become(p, r)
           /\ \/ r.pc = "detect"
              \/ r.pc = "refresh" /\ r.todo = ActiveAbout(f[1])
              \/ r.pc = "insert" /\ r.key = f[1] /\ About(f[1]) = {}
              \/ /\ r.pc = "insert" /\ r.key = f[1] /\ f[1] \in Pairs
                 /\ \E page \in ListConflicts : \A c \in page : conflict[c].key # f[1]
      BY Zenon, <1>1, <1>3, Consults
    <2>3. r.pc = "insert" => \A c \in Cids : conflict[c].st = "active" => conflict[c].key # r.key
      BY <2>2, PageHasAll DEF About, Exists
    <2>4. r.pc = "refresh" => \A c \in r.todo : c \in Cids /\ conflict[c].st = "active"
      BY Zenon, <2>2 DEF ActiveAbout, About
    <2>5. CASE r.pc = "detect"
      BY Zenon, <2>1, <2>2, <2>5, RestsKeepTables
    <2>6. CASE r.pc \in {"refresh", "insert"}
      <3>1. req' \in [Procs -> Requests] /\ \A q \in Procs : req'[q] = r
        BY <1>1, <2>2, Becomes
      <3>2. TypeOK' /\ AddressesHaveDevices'
        BY Zenon, <2>1, <3>1 DEF Alone, TypeOK, AddressesHaveDevices, Live
      <3>3. OneActive'
        BY Zenon, <2>1, <2>3, <2>6, <3>1 DEF Alone, OneActive
      <3>4. Refreshing' /\ Stripping'
        BY Zenon, <2>1, <2>4, <2>6, <3>1 DEF Refreshing, Stripping
      <3> QED BY Zenon, <3>2, <3>3, <3>4 DEF Alone
    <2> QED BY Zenon, <2>2, <2>5, <2>6
  <1>4. CASE Refresh(p)
    <2>1. req[p].pc = "refresh" /\ UNCHANGED <<dev, addr>>
      BY Zenon, <1>4 DEF Refresh
    <2>2. PICK r \in Requests :
           /\ Become(p, r)
           /\ \/ r.pc = "detect" /\ conflict' = conflict
              \/ \E c \in req[p].todo :
                   UpdateConflictStatus(c, "active") /\ r.pc = "refresh" /\ r.todo = req[p].todo \ {c}
      BY Zenon, <1>1, <1>4, Refreshes
    <2>3. CASE r.pc = "detect" /\ conflict' = conflict
      BY Zenon, <2>1, <2>2, <2>3, RestsKeepTables
    <2>4. ASSUME NEW c \in req[p].todo, UpdateConflictStatus(c, "active"), r.pc = "refresh",
                 r.todo = req[p].todo \ {c}
          PROVE  Alone'
      <3>1. c \in Cids /\ conflict[c].st = "active"
        BY Zenon, <2>1 DEF Alone, Refreshing
      <3>2. /\ conflict' \in [Cids -> Records]
            /\ \A d \in Cids : conflict'[d].st = conflict[d].st /\ conflict'[d].key = conflict[d].key
        BY ZenonT(30), <1>1, <2>4, <3>1, UpdatesStatus DEF UpdateConflictStatus, Exists
      <3>3. req' \in [Procs -> Requests] /\ \A q \in Procs : req'[q] = r
        BY <1>1, <2>2, Becomes
      <3>4. TypeOK' /\ AddressesHaveDevices'
        BY Zenon, <2>1, <3>2, <3>3 DEF Alone, TypeOK, AddressesHaveDevices, Live
      <3>5. OneActive'
        BY <2>4, <3>2, <3>3 DEF Alone, OneActive
      <3>6. Refreshing' /\ Stripping'
        BY Zenon, <2>1, <2>4, <3>2, <3>3 DEF Alone, Refreshing, Stripping
      <3> QED BY Zenon, <3>4, <3>5, <3>6 DEF Alone
    <2> QED BY Zenon, <2>2, <2>3, <2>4
  <1>5. CASE InsertFound(p)
    <2>1. PICK r \in Requests : Become(p, r) /\ r.pc = "detect"
      BY Zenon, <1>1, <1>5, InsertsFound
    <2>2. PICK c \in Cids : CreateConflict(c, req[p].key, req[p].devs)
      BY Zenon, <1>1, <1>5, InsertsFound
    <2>3. req[p].pc = "insert" /\ UNCHANGED <<dev, addr>>
      BY Zenon, <1>1, <1>5, InsertsFound
    <2> QED BY Zenon, <2>1, <2>2, <2>3, InsertsKeep
  <1>6. CASE DetectDone(p)
    BY Zenon, <1>6, IdleRecord, RestsKeepTables DEF DetectDone, tables
  <1> QED BY Zenon, <1>2, <1>3, <1>4, <1>5, <1>6 DEF Detection

\* Every step of requests that follow one another, a crash included.
LEMMA AloneKept ==
  ASSUME OneAtATime, IsFiniteSet(Cids), Cardinality(Cids) <= PageLimit, Alone, [Next]_vars
  PROVE  Alone'
  <1>1. CASE UNCHANGED vars
    BY Zenon, <1>1 DEF vars, Alone, TypeOK, AddressesHaveDevices, Live, OneActive, Refreshing, Stripping
  <1>2. ASSUME NEW p \in Procs, NEW c \in Cids, DeleteConflict(p, c) PROVE Alone'
    <2>1. /\ req[p].pc = "idle" /\ UNCHANGED <<dev, addr, req>> /\ Exists(c)
          /\ conflict' = [conflict EXCEPT ![c].st = "gone"]
      BY Zenon, <1>2 DEF DeleteConflict
    <2>2. conflict' = [conflict EXCEPT ![c].st = IF Exists(c) THEN "gone" ELSE @]
      BY Zenon, <2>1
    <2>3. /\ conflict' \in [Cids -> Records] /\ conflict'[c].st # "active"
          /\ \A d \in Cids \ {c} : conflict'[d] = conflict[d]
      BY Zenon, <2>1, <2>2, UpdatesStatus DEF Alone
    <2>4. \A q \in Procs : req'[q] = req[q] /\ req[q].pc = "idle"
      BY Zenon, <2>1 DEF OneAtATime
    <2>5. TypeOK' /\ AddressesHaveDevices'
      BY Zenon, <2>1, <2>3 DEF Alone, TypeOK, AddressesHaveDevices, Live
    <2>6. OneActive' /\ Refreshing' /\ Stripping'
      BY <2>3, <2>4 DEF Alone, OneActive, Refreshing, Stripping
    <2> QED BY Zenon, <2>5, <2>6 DEF Alone
  <1>3. ASSUME NEW p \in Procs, NEW n \in Networks, NEW s \in Subnets \cup {Gone}, WriteNetwork(p, n, s)
        PROVE  Alone'
    BY Zenon, <1>3 DEF WriteNetwork, Alone, TypeOK, AddressesHaveDevices, Live, OneActive, Refreshing, Stripping
  <1>4. CASE Crash
    <2>1. \A p \in Procs : req'[p] = Idle
      BY Zenon, <1>4 DEF Crash
    <2>2. req' \in [Procs -> Requests] /\ UNCHANGED <<dev, addr, conflict>>
      BY Zenon, <1>4, IdleRecord DEF Crash, tables
    <2>3. TypeOK' /\ AddressesHaveDevices'
      BY Zenon, <2>2 DEF Alone, TypeOK, AddressesHaveDevices, Live
    <2>4. OneActive' /\ Refreshing' /\ Stripping'
      BY Zenon, <2>1, <2>2, IdleRecord DEF Alone, OneActive, Refreshing, Stripping
    <2> QED BY Zenon, <2>3, <2>4 DEF Alone
  <1>5. ASSUME NEW p \in Procs, NEW d \in Devices, NEW rows \in Rows,
               CreateDevice(p, d, rows) \/ UpdateDevice(p, d, rows) \/ WriteUnchecked(p, d, rows)
        PROVE  Alone'
    BY Zenon, <1>5, DeviceWritesKeep
  <1>6. ASSUME NEW p \in Procs, NEW d \in Devices, DeleteDevice(p, d) PROVE Alone'
    BY Zenon, <1>6, DeviceWritesKeep, IdleRecord
  <1>7. ASSUME NEW p \in Procs, Check(p) \/ Detection(p) \/ Resolution(p) \/ DetectOverlappingSubnets(p) PROVE Alone'
    BY Zenon, <1>7, ChecksKeep, DetectionsKeep, ResolutionsKeep
  <1> QED BY Zenon, <1>1, <1>2, <1>3, <1>4, <1>5, <1>6, <1>7 DEF Next, DeviceNext, DeviceWrite

\* Nothing is there at the start.
LEMMA AloneFirst == Init => Alone
  <1> SUFFICES ASSUME Init PROVE Alone
    OBVIOUS
  <1>1. NoConflict \in Records /\ NoConflict.st = "fresh"
    BY Zenon DEF NoConflict, Records
  <1>2. TypeOK /\ AddressesHaveDevices
    BY Zenon, <1>1, IdleRecord DEF Init, TypeOK, AddressesHaveDevices
  <1>3. OneActive /\ Refreshing /\ Stripping
    BY Zenon, <1>1, IdleRecord DEF Init, OneActive, Refreshing, Stripping
  <1> QED BY Zenon, <1>2, <1>3 DEF Alone

\* Two elements of a finite set, or fewer.
LEMMA MoreThanOne ==
  ASSUME NEW T, IsFiniteSet(T)
  PROVE  (Cardinality(T) > 1) <=> \E d, e \in T : d # e
  <1>1. Cardinality(T) \in Nat
    BY Zenon, FS_CardinalityType
  <1>2. ASSUME \A d, e \in T : d = e PROVE Cardinality(T) <= 1
    <2>1. CASE T = {}
      BY <2>1, FS_EmptySet
    <2>2. ASSUME NEW d \in T PROVE Cardinality(T) <= 1
      <3>1. T = {d}
        BY Zenon, <1>2, <2>2
      <3> QED BY <3>1, FS_Singleton
    <2> QED BY Zenon, <2>1, <2>2
  <1>3. ASSUME NEW d \in T, NEW e \in T, d # e PROVE Cardinality(T) > 1
    <2>1. IsFiniteSet({d}) /\ Cardinality({d}) = 1
      BY Zenon, FS_Singleton
    <2>2. {d} \subseteq T /\ {d} # T
      BY Zenon, <1>3
    <2>3. Cardinality({d}) <= Cardinality(T) /\ Cardinality({d}) # Cardinality(T)
      BY Zenon, <2>2, FS_Subset
    <2> QED BY <1>1, <2>1, <2>3
  <1> QED BY <1>1, <1>2, <1>3

AllRequests == DOMAIN req = Procs

\* Every request that the server can have is idle or under way, also after a
\* crash.
LEMMA RequestsStay == Spec => []AllRequests
  <1>1. Init => AllRequests
    BY Zenon DEF Init, AllRequests
  <1>2. AllRequests /\ [Next]_vars => AllRequests'
    <2> SUFFICES ASSUME DOMAIN req = Procs, [Next]_vars PROVE DOMAIN req' = Procs
      BY Zenon DEF AllRequests
    <2>1. CASE UNCHANGED req
      BY Zenon, <2>1
    <2>2. ASSUME NEW p \in Procs, NEW r, Become(p, r) PROVE DOMAIN req' = Procs
      BY Zenon, <2>2 DEF Become
    <2>3. ASSUME NEW p \in Procs, Check(p) PROVE DOMAIN req' = Procs
      BY Zenon, <2>2, <2>3 DEF Check, CheckIP, CheckDone, ListDevices, LoadAddresses, ReportDuplicate
    <2>4. ASSUME NEW p \in Procs, Detection(p) PROVE DOMAIN req' = Procs
      BY Zenon, <2>2, <2>4 DEF Detection, DetectDuplicateIPs, Detect, ConsultByIP, ConsultActive, Refresh,
                               InsertFound, DetectDone
    <2>5. ASSUME NEW p \in Procs, Resolution(p) PROVE DOMAIN req' = Procs
      BY Zenon, <2>2, <2>5 DEF Resolution, Resolve, GetDevice, WriteStripped, MarkResolved
    <2>6. ASSUME NEW p \in Procs, NEW d, NEW rows,
                 CreateDevice(p, d, rows) \/ UpdateDevice(p, d, rows) \/ WriteUnchecked(p, d, rows)
          PROVE  DOMAIN req' = Procs
      BY Zenon, <2>1, <2>2, <2>6 DEF CreateDevice, UpdateDevice, WriteUnchecked, StartCheck
    <2>7. CASE UNCHANGED vars \/ Crash
      BY Zenon, <2>7 DEF vars, Crash
    <2>8. ASSUME NEW p \in Procs, DetectOverlappingSubnets(p) PROVE DOMAIN req' = Procs
      BY Zenon, <2>2, <2>8 DEF DetectOverlappingSubnets, Detect
    <2>9. ASSUME NEW p \in Procs, NEW i, NEW s,
                 DeleteDevice(p, i) \/ DeleteConflict(p, i) \/ WriteNetwork(p, i, s)
          PROVE  DOMAIN req' = Procs
      BY Zenon, <2>1, <2>9 DEF DeleteDevice, DeleteConflict, WriteNetwork
    <2>10. ASSUME DeviceNext PROVE DOMAIN req' = Procs
      BY Zenon, <2>3, <2>4, <2>6, <2>9, <2>10 DEF DeviceNext, DeviceWrite
    <2> QED BY Zenon, <2>5, <2>6, <2>7, <2>8, <2>9, <2>10 DEF Next
  <1> QED BY <1>1, <1>2, PTL DEF Spec

\* The checks of one address after another (checkForIPConflicts, the detections):
\* of requests that follow one another, for any number of devices, addresses and
\* networks, no key ever has two active records, wherever the server crashed,
\* as long as the active records fit on a page of the list.
THEOREM OneRecordPerKey ==
  ASSUME IsFiniteSet(Cids), Cardinality(Cids) <= PageLimit
  PROVE  Spec => []OneActiveWhenAlone
  <1>1. CASE OneAtATime
    <2>1. Alone => OneActiveWhenAlone
      <3> SUFFICES ASSUME Alone, NEW key \in Keys PROVE Cardinality(ActiveAbout(key)) <= 1
        BY Zenon DEF OneActiveWhenAlone
      <3>1. ActiveAbout(key) \subseteq Cids
        BY Zenon DEF ActiveAbout, About
      <3>2. IsFiniteSet(ActiveAbout(key)) /\ Cardinality(ActiveAbout(key)) \in Nat
        BY Zenon, <3>1, FS_Subset, FS_CardinalityType
      <3>3. \A c, d \in ActiveAbout(key) : c = d
        BY Zenon DEF Alone, OneActive, ActiveAbout, About
      <3> QED BY <3>2, <3>3, MoreThanOne
    <2>2. Alone /\ [Next]_vars => Alone'
      BY Zenon, <1>1, AloneKept
    <2> QED BY <2>1, <2>2, AloneFirst, PTL DEF Spec
  <1>2. CASE ~OneAtATime
    <2>1. AllRequests => OneActiveWhenAlone
      BY Zenon, <1>2 DEF AllRequests, OneAtATime, OneActiveWhenAlone, InTurn
    <2> QED BY <2>1, RequestsStay, PTL
  <1> QED BY <1>1, <1>2

\* A detection writes again the records it found active (DetectDuplicateIPs): of
\* requests that follow one another, none makes a resolved record active.
THEOREM ResolvedForGood ==
  ASSUME OneAtATime, IsFiniteSet(Cids), Cardinality(Cids) <= PageLimit
  PROVE  Spec => ResolvedStaysResolved
  <1> DEFINE A == \A c \in Cids : conflict[c].st = "resolved" => conflict'[c].st # "active"
  <1>1. Alone /\ [Next]_vars => [A]_vars
    <2> SUFFICES ASSUME Alone, Next PROVE A
      OBVIOUS
    <2>1. CASE UNCHANGED conflict
      BY Zenon, <2>1
    <2>2. ASSUME NEW p \in Procs, Refresh(p) PROVE A
      <3>1. TypeOK /\ req[p].pc = "refresh"
        BY Zenon, <2>2 DEF Alone, Refresh
      <3>2. CASE conflict' = conflict
        BY Zenon, <3>2
      <3>3. ASSUME NEW c \in req[p].todo, UpdateConflictStatus(c, "active") PROVE A
        <4>1. c \in Cids /\ conflict[c].st = "active"
          BY Zenon, <3>1 DEF Alone, Refreshing
        <4>2. \A d \in Cids \ {c} : conflict'[d] = conflict[d]
          BY Zenon, <3>1, <3>3, <4>1, UpdatesStatus DEF UpdateConflictStatus
        <4> QED BY Zenon, <4>1, <4>2
      <3> QED BY Zenon, <2>2, <3>1, <3>2, <3>3, Refreshes
    <2>3. ASSUME NEW c \in Cids, NEW key, NEW devs, CreateConflict(c, key, devs) PROVE A
      BY Zenon, <2>3 DEF CreateConflict, Alone, TypeOK
    <2>4. ASSUME NEW p \in Procs, MarkResolved(p) PROVE A
      <3>1. PICK c \in Cids : c = req[p].cid
        BY Zenon, <2>4 DEF Alone, Stripping, MarkResolved
      <3>2. conflict' = [conflict EXCEPT ![c].st = IF Exists(c) THEN "resolved" ELSE @]
        BY Zenon, <2>4, <3>1 DEF MarkResolved, UpdateConflictStatus
      <3>3. /\ conflict'[c].st = IF Exists(c) THEN "resolved" ELSE conflict[c].st
            /\ \A d \in Cids \ {c} : conflict'[d] = conflict[d]
        BY Zenon, <3>2, UpdatesStatus DEF Alone
      <3> QED BY Zenon, <3>3
    <2>5. ASSUME NEW p \in Procs, NEW c \in Cids, DeleteConflict(p, c) PROVE A
      BY Zenon, <2>5 DEF DeleteConflict, Alone, TypeOK, Records
    <2>6. ASSUME NEW p \in Procs, Check(p) PROVE A
      BY Zenon, <2>1, <2>3, <2>6 DEF Check, CheckIP, CheckDone, ListDevices, LoadAddresses, ReportDuplicate, tables
    <2>7. ASSUME NEW p \in Procs, Detection(p) PROVE A
      BY Zenon, <2>1, <2>2, <2>3, <2>7 DEF Detection, DetectDuplicateIPs, Detect, ConsultByIP, ConsultActive, InsertFound,
                                    DetectDone, tables
    <2>8. ASSUME NEW p \in Procs, Resolution(p) PROVE A
      BY Zenon, <2>1, <2>4, <2>8 DEF Resolution, Resolve, GetDevice, WriteStripped, tables
    <2> QED BY Zenon, <2>1, <2>5, <2>6, <2>7, <2>8
            DEF Next, DeviceNext, DeviceWrite, CreateDevice, UpdateDevice, DeleteDevice, WriteUnchecked,
                WriteNetwork, DetectOverlappingSubnets, Detect, Crash, tables
  <1>2. Spec => []Alone
    BY AloneFirst, AloneKept, PTL DEF Spec
  <1>3. Spec => [][A]_vars
    BY <1>1, <1>2, PTL DEF Spec
  <1> QED BY Zenon, <1>3 DEF ResolvedStaysResolved

\* Resolve marks the record last: of requests that follow one another, whatever
\* crashed or failed before, no other device named by a record that becomes
\* resolved has the address.
THEOREM ResolutionsAreCarriedOut ==
  ASSUME IsFiniteSet(Cids), Cardinality(Cids) <= PageLimit
  PROVE  Spec => ResolvedIsCarriedOutAlone
  <1>1. ASSUME OneAtATime PROVE Alone /\ [Next]_vars => [CarriedOut]_vars
    <2> SUFFICES ASSUME Alone, Next, NEW p \in Procs, NEW c \in Cids, req[p].pc = "strip", req[p].cid = c,
                        req[p].keep # None, conflict[c].key \in IPs,
                        conflict[c].st = "active", conflict'[c].st = "resolved",
                        NEW d \in conflict[c].devs \ {req[p].keep}
                 PROVE  addr'[d][conflict[c].key] = 0
      BY Zenon DEF CarriedOut
    <2>1. conflict' # conflict /\ \A q \in Procs : q = p
      BY Zenon, <1>1 DEF OneAtATime
    <2>2. MarkResolved(p)
      BY ZenonT(30), <2>1 DEF Next, DeviceNext, DeviceWrite, CreateDevice, UpdateDevice, DeleteDevice, WriteUnchecked,
                  WriteNetwork, DetectOverlappingSubnets, DetectDuplicateIPs, Detect, Crash, tables, Check, CheckIP,
                  CheckDone, ListDevices, LoadAddresses, ReportDuplicate, Detection, ConsultByIP, ConsultActive,
                  Refresh, InsertFound, DetectDone, Resolution, Resolve, GetDevice, WriteStripped, DeleteConflict
    <2>3. req[p].todo = {} /\ addr' = addr
      BY Zenon, <2>2 DEF MarkResolved
    <2> QED BY <2>3 DEF Alone, Stripping
  <1>2. CASE OneAtATime
    <2>1. Alone /\ [Next]_vars => Alone'
      BY Zenon, <1>2, AloneKept
    <2>2. Alone /\ [Next]_vars => [InTurn => CarriedOut]_vars
      BY Zenon, <1>1, <1>2
    <2>3. Spec => [][InTurn => CarriedOut]_vars
      BY <2>1, <2>2, AloneFirst, PTL DEF Spec
    <2> QED BY Zenon, <2>3 DEF ResolvedIsCarriedOutAlone
  <1>3. CASE ~OneAtATime
    <2>1. AllRequests => ~InTurn
      BY Zenon, <1>3 DEF AllRequests, OneAtATime, InTurn
    <2>2. AllRequests /\ [Next]_vars => [InTurn => CarriedOut]_vars
      BY Zenon, <2>1
    <2>3. Spec => [][InTurn => CarriedOut]_vars
      BY <2>2, RequestsStay, PTL DEF Spec
    <2> QED BY Zenon, <2>3 DEF ResolvedIsCarriedOutAlone
  <1> QED BY <1>2, <1>3

-----------------------------------------------------------------------------
(* Writes that are all checked, by any number of requests at a time.           *)

\* Devices are written with a check, detected and deleted; nothing crashes and no
\* write goes past the check.
CheckedSpec == Init /\ [][DeviceNext]_vars

\* Steps of a request that was not watching, and does not list devices next.
LEMMA OthersWatch ==
  ASSUME Watched, NEW p \in Procs, NEW r \in Requests, Become(p, r),
         req[p].pc \notin {"check", "list", "load"}, r.pc \notin {"list", "load"},
         UNCHANGED <<dev, addr>>, conflict' \in [Cids -> Records], reported \subseteq reported',
         \A c \in Cids : Exists(c)' => conflict'[c].key \in reported'
  PROVE  Watched'
  <1>1. TypeOK
    BY Zenon DEF Watched
  <1>2. /\ req' \in [Procs -> Requests] /\ req'[p] = r
        /\ \A q \in Procs : q # p => req'[q] = req[q]
    BY Zenon, <1>1, Becomes
  <1>3. TypeOK' /\ AddressesHaveDevices'
    BY Zenon, <1>2 DEF Watched, TypeOK, AddressesHaveDevices, Live
  <1>4. \A q \in Procs : req'[q].pc \in {"list", "load"} => req'[q].key \in IPs
    BY Zenon, <1>2 DEF Watched
  <1>5. ASSUME NEW ip \in IPs, NEW d \in Devices, NEW e \in Devices, ip \notin reported', d # e,
               addr'[d][ip] > 0, addr'[e][ip] > 0
        PROVE  \E q \in Procs : Watches(q, ip, d, e)'
    <2>1. PICK q \in Procs : Watches(q, ip, d, e)
      BY Zenon, <1>5 DEF Watched
    <2>2. q # p
      BY Zenon, <2>1 DEF Watches
    <2>3. Watches(q, ip, d, e)'
      BY Zenon, <1>2, <2>1, <2>2 DEF Watches
    <2> QED BY Zenon, <2>3
  <1> QED BY Zenon, <1>3, <1>4, <1>5 DEF Watched

\* A write is followed by the check of all it wrote.
LEMMA WritesWatch ==
  ASSUME Wired, Watched, NEW p \in Procs, NEW d \in Devices, NEW rows \in Rows,
         CreateDevice(p, d, rows) \/ UpdateDevice(p, d, rows)
  PROVE  Watched'
  <1>1. TypeOK /\ AddressesHaveDevices /\ req[p].pc = "idle" /\ UNCHANGED <<conflict, reported>>
    BY Zenon DEF Watched, CreateDevice, UpdateDevice
  <1>2. PICK r \in Requests : Become(p, r) /\ r.pc = "check" /\ r.left = rows
    BY StartsCheck DEF CreateDevice, UpdateDevice
  <1>3. /\ req' \in [Procs -> Requests] /\ req'[p] = r
        /\ \A q \in Procs : q # p => req'[q] = req[q]
    BY Zenon, <1>1, <1>2, Becomes
  <1>4. /\ addr' = [addr EXCEPT ![d] = rows] /\ dev' \in [Devices -> {"fresh", "live", "gone"}]
        /\ dev'[d] = "live" /\ \A e \in Devices \ {d} : dev'[e] = dev[e]
    BY Zenon, <1>1 DEF CreateDevice, UpdateDevice, TypeOK, Live
  <1>5. /\ addr' \in [Devices -> Rows] /\ addr'[d] = rows
        /\ \A e \in Devices \ {d} : addr'[e] = addr[e]
    BY Zenon, <1>1, <1>4 DEF TypeOK
  <1>6. TypeOK' /\ AddressesHaveDevices'
    BY Zenon, <1>1, <1>3, <1>4, <1>5 DEF TypeOK, AddressesHaveDevices, Live
  <1>7. \A q \in Procs : req'[q].pc \in {"list", "load"} => req'[q].key \in IPs
    BY Zenon, <1>2, <1>3 DEF Watched
  <1>8. \A c \in Cids : Exists(c)' => conflict'[c].key \in reported'
    BY Zenon, <1>1 DEF Watched, Exists
  <1>9. ASSUME NEW ip \in IPs, NEW x \in Devices, NEW y \in Devices, ip \notin reported', x # y,
               addr'[x][ip] > 0, addr'[y][ip] > 0
        PROVE  \E q \in Procs : Watches(q, ip, x, y)'
    <2>1. CASE d \in {x, y}
      <3>1. rows[ip] > 0
        BY Zenon, <1>5, <1>9, <2>1
      <3>2. Watches(p, ip, x, y)'
        BY Zenon, <1>2, <1>3, <3>1 DEF Watches
      <3> QED BY Zenon, <3>2
    <2>2. CASE d \notin {x, y}
      <3>1. PICK q \in Procs : Watches(q, ip, x, y)
        BY Zenon, <1>1, <1>5, <1>9, <2>2 DEF Watched
      <3>2. q # p
        BY Zenon, <1>1, <3>1 DEF Watches
      <3>3. Watches(q, ip, x, y)'
        BY Zenon, <1>3, <3>1, <3>2 DEF Watches
      <3> QED BY Zenon, <3>3
    <2> QED BY Zenon, <2>1, <2>2
  <1> QED BY Zenon, <1>6, <1>7, <1>8, <1>9 DEF Watched

\* The steps of a check hand the addresses on to one another.
LEMMA ChecksWatch ==
  ASSUME IsFiniteSet(Devices), Cardinality(Devices) <= PageLimit, Watched, NEW p \in Procs, Check(p)
  PROVE  Watched'
  <1>1. TypeOK /\ req[p] \in Requests
    BY Zenon DEF Watched, TypeOK
  <1>2. ASSUME NEW r \in Requests, Become(p, r), UNCHANGED tables, r.pc \in {"list", "load"} => r.key \in IPs,
               \A ip \in IPs : \A d, e \in Devices :
                 /\ ip \notin reported /\ addr[d][ip] > 0 /\ addr[e][ip] > 0
                 /\ Watches(p, ip, d, e)
                 => \/ r.pc \in {"check", "list", "load"} /\ r.left[ip] > 0
                    \/ r.pc = "list" /\ r.key = ip
                    \/ r.pc = "load" /\ r.key = ip /\ {d, e} \subseteq r.todo \cup r.devs
        PROVE  Watched'
    <2>1. /\ req' \in [Procs -> Requests] /\ req'[p] = r
          /\ \A q \in Procs : q # p => req'[q] = req[q]
      BY Zenon, <1>1, <1>2, Becomes
    <2>2. UNCHANGED <<dev, addr, conflict, reported>>
      BY Zenon, <1>2 DEF tables
    <2>3. TypeOK' /\ AddressesHaveDevices'
      BY Zenon, <2>1, <2>2 DEF Watched, TypeOK, AddressesHaveDevices, Live
    <2>4. \A q \in Procs : req'[q].pc \in {"list", "load"} => req'[q].key \in IPs
      BY Zenon, <1>2, <2>1 DEF Watched
    <2>5. \A c \in Cids : Exists(c)' => conflict'[c].key \in reported'
      BY Zenon, <2>2 DEF Watched, Exists
    <2>6. ASSUME NEW ip \in IPs, NEW d \in Devices, NEW e \in Devices, ip \notin reported', d # e,
                 addr'[d][ip] > 0, addr'[e][ip] > 0
          PROVE  \E q \in Procs : Watches(q, ip, d, e)'
      <3>1. ip \notin reported /\ addr[d][ip] > 0 /\ addr[e][ip] > 0
        BY Zenon, <2>2, <2>6
      <3>2. PICK q \in Procs : Watches(q, ip, d, e)
        BY Zenon, <2>6, <3>1 DEF Watched
      <3>3. CASE q = p
        <4>1. \/ r.pc \in {"check", "list", "load"} /\ r.left[ip] > 0
              \/ r.pc = "list" /\ r.key = ip
              \/ r.pc = "load" /\ r.key = ip /\ {d, e} \subseteq r.todo \cup r.devs
          BY Zenon, <1>2, <3>1, <3>2, <3>3
        <4>2. Watches(p, ip, d, e)'
          BY Zenon, <2>1, <4>1 DEF Watches
        <4> QED BY Zenon, <4>2
      <3>4. CASE q # p
        <4>1. Watches(q, ip, d, e)'
          BY Zenon, <2>1, <3>2, <3>4 DEF Watches
        <4> QED BY Zenon, <4>1
      <3> QED BY Zenon, <3>3, <3>4
    <2> QED BY Zenon, <2>3, <2>4, <2>5, <2>6 DEF Watched
  <1>3. ASSUME NEW ip \in IPs, CheckIP(p, ip) PROVE Watched'
    <2>1. UNCHANGED tables /\ req[p].pc = "check"
      BY Zenon, <1>3 DEF CheckIP
    <2>2. PICK r \in Requests :
           /\ Become(p, r) /\ \A i \in IPs \ {ip} : r.left[i] = req[p].left[i]
           /\ About(ip) = {} => r.pc = "list" /\ r.key = ip
           /\ About(ip) # {} => r.pc = "check"
      BY Zenon, <1>1, <1>3, ChecksIP
    <2>3. About(ip) # {} => ip \in reported
      BY Zenon DEF Watched, About
    <2> QED BY <1>2, <2>1, <2>2, <2>3 DEF Watches
  <1>4. CASE CheckDone(p)
    <2>1. Become(p, Idle) /\ UNCHANGED tables /\ req[p].pc = "check" /\ \A ip \in IPs : req[p].left[ip] = 0
      BY Zenon, <1>4, IdleRecord DEF CheckDone
    <2> QED BY <1>2, <2>1, IdleRecord DEF Watches
  <1>5. CASE ListDevices(p)
    <2>1. UNCHANGED tables /\ req[p].pc = "list" /\ req[p].key \in IPs
      BY Zenon, <1>5 DEF ListDevices, Watched
    <2>2. PICK r \in Requests :
           /\ Become(p, r) /\ r.pc = "load" /\ r.key = req[p].key /\ r.left = req[p].left
           /\ r.todo \in Page({d \in Devices : Live(d)})
      BY Zenon, <1>1, <1>5, ListsDevices
    <2>3. r.todo = {d \in Devices : Live(d)}
      <3> DEFINE S == {d \in Devices : Live(d)}
      <3>1. S \subseteq Devices
        OBVIOUS
      <3>2. IsFiniteSet(S) /\ Cardinality(S) <= Cardinality(Devices) /\ Cardinality(S) \in Nat /\ Cardinality(Devices) \in Nat
        BY Zenon, <3>1, FS_Subset, FS_CardinalityType
      <3>3. r.todo \in Page(S)
        BY Zenon, <2>2
      <3> HIDE DEF S
      <3>4. r.todo \subseteq S /\ Cardinality(r.todo) = Cardinality(S)
        BY <3>2, <3>3, ConflictsAssumption DEF Page, kSubset
      <3>5. r.todo = S
        BY Zenon, <3>2, <3>4, FS_Subset
      <3> QED BY Zenon, <3>5 DEF S
    <2>4. \A ip \in IPs : \A d \in Devices : addr[d][ip] > 0 => d \in r.todo
      <3> SUFFICES ASSUME NEW ip \in IPs, NEW d \in Devices, ~Live(d) PROVE ~(addr[d][ip] > 0)
        BY Zenon, <2>3
      <3>1. addr[d][ip] = 0
        BY Zenon, IdleRecord DEF Watched, AddressesHaveDevices
      <3> QED BY <3>1
    <2> QED BY Zenon, <1>2, <2>1, <2>2, <2>4 DEF Watches
  <1>6. ASSUME NEW d \in Devices, LoadAddresses(p, d) PROVE Watched'
    <2>1. UNCHANGED tables /\ req[p].pc = "load" /\ req[p].key \in IPs
      BY Zenon, <1>6 DEF LoadAddresses, Watched
    <2>2. PICK r \in Requests :
           /\ Become(p, r) /\ r.pc = "load" /\ r.key = req[p].key /\ r.left = req[p].left
           /\ r.todo = req[p].todo \ {d}
           /\ r.devs = IF addr[d][req[p].key] > 0 THEN req[p].devs \cup {d} ELSE req[p].devs
      BY Zenon, <1>1, <1>6, LoadsAddresses
    <2> QED BY <1>2, <2>1, <2>2 DEF Watches
  <1>7. CASE ReportDuplicate(p)
    <2>1. PICK r \in Requests : Become(p, r) /\ r.pc = "check" /\ r.left = req[p].left
      BY Zenon, <1>1, <1>7, ReportsDuplicate
    <2>2. req[p].pc = "load" /\ req[p].todo = {} /\ UNCHANGED <<dev, addr>>
      BY Zenon, <1>1, <1>7, ReportsDuplicate
    <2>3. req[p].devs \in SUBSET Devices /\ req[p].key \in Keys \cup {None} /\ IsFiniteSet(req[p].devs)
      BY Zenon, <1>1, FS_Subset DEF Requests
    <2>4. /\ conflict' \in [Cids -> Records] /\ reported \subseteq reported'
          /\ \A c \in Cids : Exists(c)' => conflict'[c].key \in reported'
          /\ Cardinality(req[p].devs) > 1 => req[p].key \in reported'
      <3>1. CASE UNCHANGED <<conflict, reported>> /\ ~(Cardinality(req[p].devs) > 1)
        BY Zenon, <1>1, <3>1 DEF Watched, Exists, TypeOK
      <3>2. ASSUME NEW c \in Cids, CreateConflict(c, req[p].key, req[p].devs)
            PROVE  /\ conflict' \in [Cids -> Records] /\ reported \subseteq reported'
                   /\ \A k \in Cids : Exists(k)' => conflict'[k].key \in reported'
                   /\ req[p].key \in reported'
        <4>1. /\ conflict' \in [Cids -> Records] /\ conflict'[c].key = req[p].key
              /\ \A k \in Cids \ {c} : conflict'[k] = conflict[k]
              /\ reported' = reported \cup {req[p].key}
          BY Zenon, <1>1, <2>3, <3>2, CreatesConflict
        <4> QED BY Zenon, <4>1 DEF Watched, Exists
      <3> QED BY Zenon, <1>1, <1>7, <3>1, <3>2, ReportsDuplicate
    <2>5. /\ req' \in [Procs -> Requests] /\ req'[p] = r
          /\ \A q \in Procs : q # p => req'[q] = req[q]
      BY Zenon, <1>1, <2>1, Becomes
    <2>6. TypeOK' /\ AddressesHaveDevices'
      BY Zenon, <2>2, <2>4, <2>5 DEF Watched, TypeOK, AddressesHaveDevices, Live
    <2>7. \A q \in Procs : req'[q].pc \in {"list", "load"} => req'[q].key \in IPs
      BY Zenon, <2>1, <2>5 DEF Watched
    <2>8. ASSUME NEW ip \in IPs, NEW d \in Devices, NEW e \in Devices, ip \notin reported', d # e,
                 addr'[d][ip] > 0, addr'[e][ip] > 0
          PROVE  \E q \in Procs : Watches(q, ip, d, e)'
      <3>1. PICK q \in Procs : Watches(q, ip, d, e)
        BY Zenon, <2>2, <2>4, <2>8 DEF Watched
      <3>2. CASE q # p
        <4>1. Watches(q, ip, d, e)'
          BY Zenon, <2>5, <3>1, <3>2 DEF Watches
        <4> QED BY Zenon, <4>1
      <3>3. CASE q = p
        <4>1. CASE req[p].left[ip] > 0
          <5>1. Watches(p, ip, d, e)'
            BY Zenon, <2>1, <2>5, <4>1 DEF Watches
          <5> QED BY Zenon, <5>1
        <4>2. CASE req[p].key = ip /\ d \in req[p].devs /\ e \in req[p].devs
          <5>1. Cardinality(req[p].devs) > 1
            BY Zenon, <2>3, <2>8, <4>2, MoreThanOne
          <5> QED BY Zenon, <2>4, <2>8, <4>2, <5>1
        <4> QED BY Zenon, <2>2, <3>1, <3>3, <4>1, <4>2 DEF Watches
      <3> QED BY Zenon, <3>2, <3>3
    <2> QED BY Zenon, <2>4, <2>6, <2>7, <2>8 DEF Watched
  <1> QED BY Zenon, <1>3, <1>4, <1>5, <1>6, <1>7 DEF Check

\* A detection only adds records, or writes the status of one.
LEMMA DetectionsWatch ==
  ASSUME Watched, NEW p \in Procs, Detection(p)
  PROVE  Watched'
  <1>1. TypeOK /\ req[p] \in Requests
    BY Zenon DEF Watched, TypeOK
  <1>2. /\ conflict \in [Cids -> Records]
        /\ \A c \in Cids : Exists(c) => conflict[c].key \in reported
    BY Zenon DEF Watched, TypeOK
  <1>3. CASE DetectDuplicateIPs(p)
    <2>1. PICK r \in Requests : Become(p, r) /\ r.pc = "detect"
      BY Zenon, <1>1, <1>3, Detects
    <2> QED BY Zenon, <1>2, <1>3, <2>1, OthersWatch DEF DetectDuplicateIPs, Detect, tables, Exists
  <1>4. ASSUME NEW f \in req[p].found, ConsultByIP(p, f) \/ ConsultActive(p, f) PROVE Watched'
    <2>1. PICK r \in Requests : Become(p, r) /\ r.pc \in {"detect", "refresh", "insert"}
      BY Zenon, <1>1, <1>4, Consults
    <2> QED BY SMTT(30), <1>2, <1>4, <2>1, OthersWatch DEF ConsultByIP, ConsultActive, tables, Exists
  <1>5. CASE Refresh(p)
    <2>1. req[p].pc = "refresh" /\ UNCHANGED <<dev, addr, reported>>
      BY Zenon, <1>5 DEF Refresh
    <2>2. PICK r \in Requests :
           /\ Become(p, r)
           /\ \/ r.pc = "detect" /\ conflict' = conflict
              \/ \E c \in req[p].todo :
                   UpdateConflictStatus(c, "active") /\ r.pc = "refresh" /\ r.todo = req[p].todo \ {c}
      BY Zenon, <1>1, <1>5, Refreshes
    <2>3. CASE conflict' = conflict
      BY Zenon, <1>2, <2>1, <2>2, <2>3, OthersWatch DEF Exists
    <2>4. ASSUME NEW c \in Cids, UpdateConflictStatus(c, "active") PROVE Watched'
      <3>1. /\ conflict' \in [Cids -> Records]
            /\ conflict'[c].st = IF Exists(c) THEN "active" ELSE conflict[c].st
            /\ conflict'[c].key = conflict[c].key
            /\ \A d \in Cids \ {c} : conflict'[d] = conflict[d]
        BY Zenon, <1>1, <2>4, UpdatesStatus DEF UpdateConflictStatus
      <3>2. \A d \in Cids : Exists(d)' => conflict'[d].key \in reported'
        BY Zenon, <1>2, <2>1, <3>1 DEF Exists
      <3> QED BY Zenon, <2>1, <2>2, <3>1, <3>2, OthersWatch
    <2>5. ASSUME NEW c, c \notin Cids, UpdateConflictStatus(c, "active") PROVE conflict' = conflict
      BY Zenon, <1>2, <2>5 DEF UpdateConflictStatus
    <2> QED BY Zenon, <2>2, <2>3, <2>4, <2>5
  <1>6. CASE InsertFound(p)
    <2>1. PICK r \in Requests : Become(p, r) /\ r.pc = "detect"
      BY Zenon, <1>1, <1>6, InsertsFound
    <2>2. PICK c \in Cids : CreateConflict(c, req[p].key, req[p].devs)
      BY Zenon, <1>1, <1>6, InsertsFound
    <2>3. req[p].pc = "insert" /\ UNCHANGED <<dev, addr>>
      BY Zenon, <1>1, <1>6, InsertsFound
    <2>4. req[p].devs \in SUBSET Devices /\ req[p].key \in Keys \cup {None}
      BY Zenon, <1>1 DEF Requests
    <2>5. /\ conflict' \in [Cids -> Records] /\ conflict'[c].key = req[p].key
          /\ \A d \in Cids \ {c} : conflict'[d] = conflict[d]
          /\ reported' = reported \cup {req[p].key}
      BY Zenon, <1>1, <2>2, <2>4, CreatesConflict
    <2>6. \A d \in Cids : Exists(d)' => conflict'[d].key \in reported'
      BY Zenon, <1>2, <2>5 DEF Exists
    <2> QED BY Zenon, <2>1, <2>3, <2>5, <2>6, OthersWatch
  <1>7. CASE DetectDone(p)
    BY Zenon, <1>2, <1>7, IdleRecord, OthersWatch DEF DetectDone, tables, Exists
  <1> QED BY Zenon, <1>3, <1>4, <1>5, <1>6, <1>7 DEF Detection

\* A deletion takes addresses or a record away.
LEMMA DeletesWatch ==
  ASSUME Watched, NEW p \in Procs,
         (\E d \in Devices : DeleteDevice(p, d)) \/ (\E c \in Cids : DeleteConflict(p, c))
  PROVE  Watched'
  <1>1. TypeOK /\ AddressesHaveDevices /\ UNCHANGED <<req, reported>>
    BY Zenon DEF Watched, DeleteDevice, DeleteConflict
  <1>2. ASSUME NEW d \in Devices, DeleteDevice(p, d) PROVE Watched'
    <2>1. /\ dev' = [dev EXCEPT ![d] = "gone"] /\ addr' = [addr EXCEPT ![d] = NoRows] /\ conflict' = conflict
      BY Zenon, <1>2 DEF DeleteDevice
    <2>2. /\ addr' \in [Devices -> Rows] /\ addr'[d] = NoRows /\ dev' \in [Devices -> {"fresh", "live", "gone"}]
          /\ \A e \in Devices \ {d} : addr'[e] = addr[e] /\ dev'[e] = dev[e]
      BY Zenon, <1>1, <2>1, IdleRecord DEF TypeOK
    <2>3. TypeOK' /\ AddressesHaveDevices'
      BY Zenon, <1>1, <2>1, <2>2 DEF TypeOK, AddressesHaveDevices, Live
    <2>4. \A ip \in IPs : \A e \in Devices : addr'[e][ip] > 0 => addr[e][ip] > 0
      BY <2>2, IdleRecord
    <2>5. \A q \in Procs, ip \in IPs, x \in Devices, y \in Devices : Watches(q, ip, x, y)' <=> Watches(q, ip, x, y)
      BY <1>1 DEF Watches
    <2> QED BY Zenon, <1>1, <2>1, <2>3, <2>4, <2>5 DEF Watched, Exists
  <1>3. ASSUME NEW c \in Cids, DeleteConflict(p, c) PROVE Watched'
    <2>1. /\ conflict' = [conflict EXCEPT ![c].st = IF Exists(c) THEN "gone" ELSE @] /\ UNCHANGED <<dev, addr>>
      BY Zenon, <1>3 DEF DeleteConflict
    <2>2. /\ conflict' \in [Cids -> Records]
          /\ conflict'[c].st = IF Exists(c) THEN "gone" ELSE conflict[c].st
          /\ conflict'[c].key = conflict[c].key
          /\ \A d \in Cids \ {c} : conflict'[d] = conflict[d]
      BY Zenon, <1>1, <2>1, UpdatesStatus
    <2>3. TypeOK' /\ AddressesHaveDevices'
      BY Zenon, <1>1, <2>1, <2>2 DEF TypeOK, AddressesHaveDevices, Live
    <2>4. \A d \in Cids : Exists(d)' => conflict'[d].key \in reported'
      BY Zenon, <1>1, <2>2 DEF Watched, Exists
    <2>5. \A q \in Procs, ip \in IPs, x \in Devices, y \in Devices : Watches(q, ip, x, y)' <=> Watches(q, ip, x, y)
      BY <1>1 DEF Watches
    <2> QED BY Zenon, <1>1, <2>1, <2>3, <2>4, <2>5 DEF Watched
  <1> QED BY Zenon, <1>2, <1>3

\* checkForIPConflicts runs after the write: in whatever order the writes and the
\* checks of any number of requests come, once they have ended, an address of two
\* devices has been reported, as long as the devices fit on a page of the list.
THEOREM NoDuplicateIsMissed ==
  ASSUME Wired, IsFiniteSet(Devices), Cardinality(Devices) <= PageLimit
  PROVE  CheckedSpec => []NoMissedDuplicate
  <1>1. Init => Watched
    <2> SUFFICES ASSUME Init PROVE Watched
      OBVIOUS
    <2>1. TypeOK /\ AddressesHaveDevices
      BY Zenon, AloneFirst DEF Alone
    <2>2. \A c \in Cids : ~Exists(c)
      BY Zenon DEF Init, Exists, NoConflict
    <2>3. \A p \in Procs : req[p].pc = "idle"
      BY Zenon, IdleRecord DEF Init
    <2>4. \A d \in Devices : \A ip \in IPs : addr[d][ip] = 0
      BY Zenon, IdleRecord DEF Init
    <2> QED BY <2>1, <2>2, <2>3, <2>4 DEF Watched
  <1>2. Watched /\ [DeviceNext]_vars => Watched'
    <2> SUFFICES ASSUME Watched, [DeviceNext]_vars PROVE Watched'
      OBVIOUS
    <2>1. CASE UNCHANGED vars
      BY <2>1 DEF vars, Watched, TypeOK, AddressesHaveDevices, Live, Exists, Watches
    <2> QED BY Zenon, <2>1, WritesWatch, ChecksWatch, DetectionsWatch, DeletesWatch DEF DeviceNext, DeviceWrite
  <1>3. Watched => NoMissedDuplicate
    <2> SUFFICES ASSUME Watched, \A p \in Procs : req[p].pc = "idle", NEW ip \in IPs,
                        Cardinality(Holders(ip)) > 1
                 PROVE  ip \in reported
      BY Zenon DEF NoMissedDuplicate
    <2>1. IsFiniteSet(Holders(ip))
      BY Zenon, FS_Subset DEF Holders
    <2>2. PICK d, e \in Holders(ip) : d # e
      BY <2>1, MoreThanOne
    <2> QED BY <2>2 DEF Watched, Watches, Holders
  <1> QED BY <1>1, <1>2, <1>3, PTL DEF CheckedSpec
=============================================================================
