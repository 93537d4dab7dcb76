--------------------------- MODULE InventoryProofs ---------------------------
(***************************************************************************)
(* Theorems about Inventory, for any number of rows and of requests that   *)
(* read rows, keep them while they wait and write them back whole.         *)
(***************************************************************************)
EXTENDS Inventory, TLAPS

-----------------------------------------------------------------------------
(* Inventory: the tables.                                                      *)

Tables == {"dc", "net", "pool", "dev", "rel", "cir", "nat"}
DevColumns == {"st", "dc", "addrs", "tags", "status"}

\* What a row may hold, whatever the other rows are.
DcTyped(v) == DOMAIN v = {"st", "name"}
NetTyped(v) == DOMAIN v = {"st", "dc"} /\ v.dc \in Datacenters \cup {None}
PoolTyped(v) == DOMAIN v = {"st", "net"} /\ v.net \in Networks \cup {None}
AddressTyped(a) ==
    DOMAIN a = {"net", "pool"} /\ a.net \in Networks \cup {None} /\ a.pool \in Pools \cup {None}
DevTyped(v) == /\ DOMAIN v = DevColumns /\ v.dc \in Datacenters \cup {None}
               /\ \A a \in v.addrs : AddressTyped(a)
CirTyped(v) == DOMAIN v = {"st", "devs", "dcs"} /\ v.devs \subseteq Devices /\ v.dcs \subseteq Datacenters
NatTyped(v) == /\ DOMAIN v = {"st", "dev", "dc", "net"} /\ v.dev \in Devices \cup {None}
               /\ v.dc \in Datacenters \cup {None} /\ v.net \in Networks \cup {None}
RelTyped(r) == DOMAIN r = {"parent", "child", "notes"} /\ r.parent \in Devices /\ r.child \in Devices

\* What a live row refers to is live in the tables d.
NetGood(d, v) == NetTyped(v) /\ (v.st = "live" => Ref(d, "dc", v.dc))
PoolGood(d, v) == PoolTyped(v) /\ (v.st = "live" => Live(d, "net", v.net))
AddressGood(d, a) == Ref(d, "net", a.net) /\ Ref(d, "pool", a.pool)
DevGood(d, v) ==
    /\ DevTyped(v)
    /\ v.st = "live" => Ref(d, "dc", v.dc) /\ \A a \in v.addrs : AddressGood(d, a)
CirGood(d, v) == CirTyped(v) /\ (v.st = "live" => CircuitRefs(d, v))
NatGood(d, v) == NatTyped(v) /\ (v.st = "live" => MappingRefs(d, v))
RelGood(d, r) == RelTyped(r) /\ Live(d, "dev", r.parent) /\ Live(d, "dev", r.child)

\* The tables and their rows.
Shaped(d) ==
    /\ DOMAIN d = Tables /\ DOMAIN d.dc = Datacenters /\ DOMAIN d.net = Networks
    /\ DOMAIN d.pool = Pools /\ DOMAIN d.dev = Devices /\ DOMAIN d.cir = Circuits
    /\ DOMAIN d.nat = Mappings
Good(d) ==
    /\ Shaped(d)
    /\ \A c \in Datacenters : DcTyped(d.dc[c])
    /\ \A n \in Networks : NetGood(d, d.net[n])
    /\ \A p \in Pools : PoolGood(d, d.pool[p])
    /\ \A x \in Devices : DevGood(d, d.dev[x])
    /\ \A r \in d.rel : RelGood(d, r)
    /\ \A k \in Circuits : CirGood(d, d.cir[k])
    /\ \A m \in Mappings : NatGood(d, d.nat[m])

\* All tables but t are the same in d and e.
Rest(d, e, t) == DOMAIN e = Tables /\ \A u \in Tables \ {t} : e[u] = d[u]

\* What is live in d is live in e.
Lives(d, e) ==
    /\ \A c \in Datacenters : Live(d, "dc", c) => Live(e, "dc", c)
    /\ \A n \in Networks : Live(d, "net", n) => Live(e, "net", n)
    /\ \A p \in Pools : Live(d, "pool", p) => Live(e, "pool", p)
    /\ \A x \in Devices : Live(d, "dev", x) => Live(e, "dev", x)

\* What a row refers to stays as long as it lives.
LEMMA RowsStayGood ==
  ASSUME NEW d, NEW e, Lives(d, e)
  PROVE  /\ \A v : NetGood(d, v) => NetGood(e, v)
         /\ \A v : PoolGood(d, v) => PoolGood(e, v)
         /\ \A v : DevGood(d, v) => DevGood(e, v)
         /\ \A v : RelGood(d, v) => RelGood(e, v)
         /\ \A v : CirGood(d, v) => CirGood(e, v)
         /\ \A v : NatGood(d, v) => NatGood(e, v)
  <1>1. /\ \A c \in Datacenters \cup {None} : Ref(d, "dc", c) => Ref(e, "dc", c)
        /\ \A n \in Networks \cup {None} : Ref(d, "net", n) => Ref(e, "net", n)
        /\ \A p \in Pools \cup {None} : Ref(d, "pool", p) => Ref(e, "pool", p)
        /\ \A x \in Devices \cup {None} : Ref(d, "dev", x) => Ref(e, "dev", x)
    BY Zenon DEF Lives, Ref
  <1>2. \A v : NetGood(d, v) => NetGood(e, v)
    BY Zenon, <1>1 DEF NetGood, NetTyped
  <1>3. \A v : PoolGood(d, v) => PoolGood(e, v)
    BY Zenon DEF PoolGood, PoolTyped, Lives, Live
  <1>4. \A v : DevGood(d, v) => DevGood(e, v)
    BY Zenon, <1>1 DEF DevGood, DevTyped, AddressTyped, AddressGood
  <1>5. \A v : RelGood(d, v) => RelGood(e, v)
    BY Zenon DEF RelGood, RelTyped, Lives
  <1>6. \A v : CirGood(d, v) => CirGood(e, v)
    BY Zenon DEF CirGood, CirTyped, CircuitRefs, Lives
  <1>7. \A v : NatGood(d, v) => NatGood(e, v)
    BY Zenon, <1>1 DEF NatGood, NatTyped, MappingRefs
  <1> QED BY Zenon, <1>2, <1>3, <1>4, <1>5, <1>6, <1>7

\* Rows that are new are good, and nothing that others refer to goes.
LEMMA StaysGood ==
  ASSUME NEW d, NEW e, Good(d), Shaped(e), Lives(d, e),
         \A c \in Datacenters : DcTyped(e.dc[c]),
         \A n \in Networks : e.net[n] = d.net[n] \/ NetGood(e, e.net[n]),
         \A p \in Pools : e.pool[p] = d.pool[p],
         \A x \in Devices : e.dev[x] = d.dev[x] \/ DevGood(e, e.dev[x]),
         \A r \in e.rel : r \in d.rel \/ RelGood(e, r),
         \A k \in Circuits : e.cir[k] = d.cir[k] \/ CirGood(e, e.cir[k]),
         \A m \in Mappings : e.nat[m] = d.nat[m] \/ NatGood(e, e.nat[m])
  PROVE  Good(e)
  <1>1. \A n \in Networks : NetGood(e, e.net[n])
    BY Zenon, RowsStayGood DEF Good
  <1>2. \A p \in Pools : PoolGood(e, e.pool[p])
    BY Zenon, RowsStayGood DEF Good
  <1>3. \A x \in Devices : DevGood(e, e.dev[x])
    BY Zenon, RowsStayGood DEF Good
  <1>4. \A r \in e.rel : RelGood(e, r)
    BY Zenon, RowsStayGood DEF Good
  <1>5. \A k \in Circuits : CirGood(e, e.cir[k])
    BY Zenon, RowsStayGood DEF Good
  <1>6. \A m \in Mappings : NatGood(e, e.nat[m])
    BY Zenon, RowsStayGood DEF Good
  <1> QED BY Zenon, <1>1, <1>2, <1>3, <1>4, <1>5, <1>6 DEF Good

\* From d to e the row x of the table t becomes v and nothing else changes.
Wrote(d, e, t, x, v) ==
    /\ Shaped(e) /\ Rest(d, e, t) /\ e[t][x] = v
    /\ \A y \in DOMAIN d[t] : y # x => e[t][y] = d[t][y]

\* One table is replaced by one with the same rows but one.
LEMMA TableWritten ==
  ASSUME NEW d, Shaped(d), NEW t \in Tables \ {"rel"}, NEW x \in DOMAIN d[t], NEW v, NEW e,
         DOMAIN e = Tables, e[t] = [d[t] EXCEPT ![x] = v], \A u \in Tables \ {t} : e[u] = d[u]
  PROVE  Wrote(d, e, t, x, v)
  <1>1. DOMAIN e[t] = DOMAIN d[t] /\ e[t][x] = v /\ \A y \in DOMAIN d[t] : y # x => e[t][y] = d[t][y]
    BY Zenon
  <1>2. \A u \in Tables : DOMAIN e[u] = DOMAIN d[u]
    BY Zenon, <1>1
  <1>3. Shaped(e)
    BY Zenon, <1>2 DEF Shaped, Tables
  <1> QED BY Zenon, <1>1, <1>3 DEF Rest, Wrote

\* One row of one table is written.
LEMMA RowWritten ==
  ASSUME NEW d, Shaped(d), NEW x, NEW v
  PROVE  /\ x \in Datacenters => Wrote(d, [d EXCEPT !.dc[x] = v], "dc", x, v)
         /\ x \in Networks => Wrote(d, [d EXCEPT !.net[x] = v], "net", x, v)
         /\ x \in Devices => Wrote(d, [d EXCEPT !.dev[x] = v], "dev", x, v)
         /\ x \in Circuits => Wrote(d, [d EXCEPT !.cir[x] = v], "cir", x, v)
         /\ x \in Mappings => Wrote(d, [d EXCEPT !.nat[x] = v], "nat", x, v)
  <1>1. ASSUME x \in Datacenters PROVE Wrote(d, [d EXCEPT !.dc[x] = v], "dc", x, v)
    <2>1. PICK t, e : t = "dc" /\ e = [d EXCEPT !.dc[x] = v]
      OBVIOUS
    <2>2. /\ t \in Tables \ {"rel"} /\ x \in DOMAIN d[t] /\ DOMAIN e = Tables
          /\ e[t] = [d[t] EXCEPT ![x] = v] /\ \A u \in Tables \ {t} : e[u] = d[u]
      BY Zenon, <1>1, <2>1 DEF Shaped, Tables
    <2>3. Wrote(d, e, t, x, v)
      BY Zenon, <2>2, TableWritten
    <2> QED BY Zenon, <2>1, <2>3
  <1>2. ASSUME x \in Networks PROVE Wrote(d, [d EXCEPT !.net[x] = v], "net", x, v)
    <2>1. PICK t, e : t = "net" /\ e = [d EXCEPT !.net[x] = v]
      OBVIOUS
    <2>2. /\ t \in Tables \ {"rel"} /\ x \in DOMAIN d[t] /\ DOMAIN e = Tables
          /\ e[t] = [d[t] EXCEPT ![x] = v] /\ \A u \in Tables \ {t} : e[u] = d[u]
      BY Zenon, <1>2, <2>1 DEF Shaped, Tables
    <2>3. Wrote(d, e, t, x, v)
      BY Zenon, <2>2, TableWritten
    <2> QED BY Zenon, <2>1, <2>3
  <1>3. ASSUME x \in Devices PROVE Wrote(d, [d EXCEPT !.dev[x] = v], "dev", x, v)
    <2>1. PICK t, e : t = "dev" /\ e = [d EXCEPT !.dev[x] = v]
      OBVIOUS
    <2>2. /\ t \in Tables \ {"rel"} /\ x \in DOMAIN d[t] /\ DOMAIN e = Tables
          /\ e[t] = [d[t] EXCEPT ![x] = v] /\ \A u \in Tables \ {t} : e[u] = d[u]
      BY Zenon, <1>3, <2>1 DEF Shaped, Tables
    <2>3. Wrote(d, e, t, x, v)
      BY Zenon, <2>2, TableWritten
    <2> QED BY Zenon, <2>1, <2>3
  <1>4. ASSUME x \in Circuits PROVE Wrote(d, [d EXCEPT !.cir[x] = v], "cir", x, v)
    <2>1. PICK t, e : t = "cir" /\ e = [d EXCEPT !.cir[x] = v]
      OBVIOUS
    <2>2. /\ t \in Tables \ {"rel"} /\ x \in DOMAIN d[t] /\ DOMAIN e = Tables
          /\ e[t] = [d[t] EXCEPT ![x] = v] /\ \A u \in Tables \ {t} : e[u] = d[u]
      BY Zenon, <1>4, <2>1 DEF Shaped, Tables
    <2>3. Wrote(d, e, t, x, v)
      BY Zenon, <2>2, TableWritten
    <2> QED BY Zenon, <2>1, <2>3
  <1>5. ASSUME x \in Mappings PROVE Wrote(d, [d EXCEPT !.nat[x] = v], "nat", x, v)
    <2>1. PICK t, e : t = "nat" /\ e = [d EXCEPT !.nat[x] = v]
      OBVIOUS
    <2>2. /\ t \in Tables \ {"rel"} /\ x \in DOMAIN d[t] /\ DOMAIN e = Tables
          /\ e[t] = [d[t] EXCEPT ![x] = v] /\ \A u \in Tables \ {t} : e[u] = d[u]
      BY Zenon, <1>5, <2>1 DEF Shaped, Tables
    <2>3. Wrote(d, e, t, x, v)
      BY Zenon, <2>2, TableWritten
    <2> QED BY Zenon, <2>1, <2>3
  <1> QED BY Zenon, <1>1, <1>2, <1>3, <1>4, <1>5

\* A live row is written whose references are live: nothing loses its own.
LEMMA WrittenStaysGood ==
  ASSUME NEW d, Good(d), NEW x, NEW v, NEW e
  PROVE  /\ x \in Datacenters /\ Wrote(d, e, "dc", x, v) /\ DcTyped(v) /\ v.st = "live" => Good(e)
         /\ x \in Networks /\ Wrote(d, e, "net", x, v) /\ NetGood(d, v) /\ v.st = "live" => Good(e)
         /\ x \in Devices /\ Wrote(d, e, "dev", x, v) /\ DevGood(d, v)
              /\ (d.dev[x].st = "live" => v.st = "live") => Good(e)
         /\ x \in Circuits /\ Wrote(d, e, "cir", x, v) /\ CirGood(d, v) => Good(e)
         /\ x \in Mappings /\ Wrote(d, e, "nat", x, v) /\ NatGood(d, v) => Good(e)
  <1>0. Shaped(d)
    BY Zenon DEF Good
  <1>1. ASSUME x \in Datacenters, Wrote(d, e, "dc", x, v), DcTyped(v), v.st = "live" PROVE Good(e)
    <2>1. /\ Shaped(e) /\ e.dc[x] = v /\ \A y \in Datacenters : y # x => e.dc[y] = d.dc[y]
          /\ e.net = d.net /\ e.pool = d.pool /\ e.dev = d.dev /\ e.rel = d.rel /\ e.cir = d.cir
          /\ e.nat = d.nat
      BY Zenon, <1>0, <1>1 DEF Wrote, Rest, Tables, Shaped
    <2>2. Lives(d, e)
      BY Zenon, <1>1, <2>1 DEF Lives, Live
    <2>3. \A c \in Datacenters : DcTyped(e.dc[c])
      BY Zenon, <1>1, <2>1 DEF Good
    <2> QED BY Zenon, <2>1, <2>2, <2>3, StaysGood
  <1>2. ASSUME x \in Networks, Wrote(d, e, "net", x, v), NetGood(d, v), v.st = "live" PROVE Good(e)
    <2>1. /\ Shaped(e) /\ e.net[x] = v /\ \A y \in Networks : y # x => e.net[y] = d.net[y]
          /\ e.dc = d.dc /\ e.pool = d.pool /\ e.dev = d.dev /\ e.rel = d.rel /\ e.cir = d.cir
          /\ e.nat = d.nat
      BY Zenon, <1>0, <1>2 DEF Wrote, Rest, Tables, Shaped
    <2>2. Lives(d, e)
      BY Zenon, <1>2, <2>1 DEF Lives, Live
    <2>3. NetGood(e, v)
      BY Zenon, <1>2, <2>2, RowsStayGood
    <2>4. \A n \in Networks : e.net[n] = d.net[n] \/ NetGood(e, e.net[n])
      BY Zenon, <2>1, <2>3
    <2>5. \A c \in Datacenters : DcTyped(e.dc[c])
      BY Zenon, <2>1 DEF Good
    <2> QED BY Zenon, <2>1, <2>2, <2>4, <2>5, StaysGood
  <1>3. ASSUME x \in Devices, Wrote(d, e, "dev", x, v), DevGood(d, v), d.dev[x].st = "live" => v.st = "live"
        PROVE  Good(e)
    <2>1. /\ Shaped(e) /\ e.dev[x] = v /\ \A y \in Devices : y # x => e.dev[y] = d.dev[y]
          /\ e.dc = d.dc /\ e.net = d.net /\ e.pool = d.pool /\ e.rel = d.rel /\ e.cir = d.cir
          /\ e.nat = d.nat
      BY Zenon, <1>0, <1>3 DEF Wrote, Rest, Tables, Shaped
    <2>2. Lives(d, e)
      BY Zenon, <1>3, <2>1 DEF Lives, Live
    <2>3. DevGood(e, v)
      BY Zenon, <1>3, <2>2, RowsStayGood
    <2>4. \A y \in Devices : e.dev[y] = d.dev[y] \/ DevGood(e, e.dev[y])
      BY Zenon, <2>1, <2>3
    <2>5. \A c \in Datacenters : DcTyped(e.dc[c])
      BY Zenon, <2>1 DEF Good
    <2> QED BY Zenon, <2>1, <2>2, <2>4, <2>5, StaysGood
  <1>4. ASSUME x \in Circuits, Wrote(d, e, "cir", x, v), CirGood(d, v) PROVE Good(e)
    <2>1. /\ Shaped(e) /\ e.cir[x] = v /\ \A y \in Circuits : y # x => e.cir[y] = d.cir[y]
          /\ e.dc = d.dc /\ e.net = d.net /\ e.pool = d.pool /\ e.rel = d.rel /\ e.dev = d.dev
          /\ e.nat = d.nat
      BY Zenon, <1>0, <1>4 DEF Wrote, Rest, Tables, Shaped
    <2>2. Lives(d, e)
      BY Zenon, <2>1 DEF Lives, Live
    <2>3. CirGood(e, v)
      BY Zenon, <1>4, <2>2, RowsStayGood
    <2>4. \A k \in Circuits : e.cir[k] = d.cir[k] \/ CirGood(e, e.cir[k])
      BY Zenon, <2>1, <2>3
    <2>5. \A c \in Datacenters : DcTyped(e.dc[c])
      BY Zenon, <2>1 DEF Good
    <2> QED BY Zenon, <2>1, <2>2, <2>4, <2>5, StaysGood
  <1>5. ASSUME x \in Mappings, Wrote(d, e, "nat", x, v), NatGood(d, v) PROVE Good(e)
    <2>1. /\ Shaped(e) /\ e.nat[x] = v /\ \A y \in Mappings : y # x => e.nat[y] = d.nat[y]
          /\ e.dc = d.dc /\ e.net = d.net /\ e.pool = d.pool /\ e.rel = d.rel /\ e.dev = d.dev
          /\ e.cir = d.cir
      BY Zenon, <1>0, <1>5 DEF Wrote, Rest, Tables, Shaped
    <2>2. Lives(d, e)
      BY Zenon, <2>1 DEF Lives, Live
    <2>3. NatGood(e, v)
      BY Zenon, <1>5, <2>2, RowsStayGood
    <2>4. \A m \in Mappings : e.nat[m] = d.nat[m] \/ NatGood(e, e.nat[m])
      BY Zenon, <2>1, <2>3
    <2>5. \A c \in Datacenters : DcTyped(e.dc[c])
      BY Zenon, <2>1 DEF Good
    <2> QED BY Zenon, <2>1, <2>2, <2>4, <2>5, StaysGood
  <1> QED BY Zenon, <1>1, <1>2, <1>3, <1>4, <1>5

\* A row that is written twice.
LEMMA WroteTwice ==
  ASSUME NEW d, NEW e, NEW f, NEW t \in Tables, NEW x, NEW v, NEW w, Shaped(d),
         Wrote(d, e, t, x, v), Wrote(e, f, t, x, w), DOMAIN e[t] = DOMAIN d[t]
  PROVE  Wrote(d, f, t, x, w)
  <1>1. Rest(d, f, t)
    BY Zenon DEF Wrote, Rest
  <1>2. \A y \in DOMAIN d[t] : y # x => f[t][y] = d[t][y]
    BY Zenon DEF Wrote
  <1> QED BY Zenon, <1>1, <1>2 DEF Wrote

\* The row v of a device after the insertion of its addresses and tags.
Inserted(d, r, x, in, v) ==
    /\ Wrote(d, r.db, "dev", x, v)
    /\ DOMAIN v = DevColumns /\ v.st = d.dev[x].st /\ v.dc = d.dev[x].dc
    /\ v.addrs = {} \/ (v.addrs = in.addrs /\ \A a \in in.addrs : AddressGood(d, a))
    /\ r.ok => v.addrs = in.addrs /\ v.tags = in.tags

\* The addresses and tags of a device that has none are inserted, or the
\* addresses are refused and the device stays without.
LEMMA RowsInserted ==
  ASSUME NEW d, Shaped(d), NEW x \in Devices, NEW in, DOMAIN d.dev[x] = DevColumns, d.dev[x].addrs = {}
  PROVE  \E v : Inserted(d, insertDeviceRows(d, x, in), x, in, v)
  <1> DEFINE r == insertDeviceRows(d, x, in)
  <1>1. CASE \A a \in in.addrs : AddressGood(d, a)
    <2>1. PICK v1 : v1 = [d.dev[x] EXCEPT !.addrs = in.addrs]
      OBVIOUS
    <2>2. PICK e1 : e1 = [d EXCEPT !.dev[x] = v1]
      OBVIOUS
    <2>3. e1 = [d EXCEPT !.dev[x].addrs = in.addrs]
      BY Zenon, <2>1, <2>2
    <2>4. PICK v2 : v2 = [v1 EXCEPT !.tags = in.tags]
      OBVIOUS
    <2>5. PICK e2 : e2 = [e1 EXCEPT !.dev[x] = v2]
      OBVIOUS
    <2>6. Wrote(d, e1, "dev", x, v1)
      BY Zenon, <2>2, RowWritten
    <2>7. Shaped(e1) /\ e1.dev[x] = v1 /\ DOMAIN e1.dev = Devices /\ DOMAIN d.dev = Devices
      BY Zenon, <2>6 DEF Wrote, Shaped
    <2>8. Wrote(e1, e2, "dev", x, v2)
      BY Zenon, <2>5, <2>7, RowWritten
    <2>9. Wrote(d, e2, "dev", x, v2)
      <3>1. PICK t : t = "dev"
        OBVIOUS
      <3>2. t \in Tables /\ DOMAIN e1[t] = DOMAIN d[t]
        BY Zenon, <3>1, <2>7 DEF Tables
      <3>3. Wrote(d, e2, t, x, v2)
        BY Zenon, <3>1, <3>2, <2>6, <2>8, WroteTwice
      <3> QED BY Zenon, <3>1, <3>3
    <2>10. e2 = [e1 EXCEPT !.dev[x].tags = in.tags]
      BY Zenon, <2>4, <2>5, <2>7
    <2>11. insertDeviceAddresses(d, x, in.addrs) = Done(e1)
      BY Zenon, <1>1, <2>3 DEF insertDeviceAddresses, AddressGood
    <2>12. Done(e1).ok = TRUE /\ Done(e1).db = e1 /\ Done(e2).db = e2
      BY Zenon DEF Done
    <2>13. r = Done(e2)
      BY Zenon, <2>10, <2>11, <2>12 DEF insertDeviceRows, insertDeviceTags
    <2>14. /\ DOMAIN v1 = DevColumns /\ v1.st = d.dev[x].st /\ v1.dc = d.dev[x].dc /\ v1.addrs = in.addrs
      BY Zenon, <2>1 DEF DevColumns
    <2>15. /\ DOMAIN v2 = DevColumns /\ v2.st = d.dev[x].st /\ v2.dc = d.dev[x].dc
           /\ v2.addrs = in.addrs /\ v2.tags = in.tags
      BY Zenon, <2>4, <2>14 DEF DevColumns
    <2> QED BY Zenon, <1>1, <2>9, <2>12, <2>13, <2>15 DEF Inserted
  <1>2. CASE ~ \A a \in in.addrs : AddressGood(d, a)
    <2>1. insertDeviceAddresses(d, x, in.addrs) = Failed(d)
      BY Zenon, <1>2 DEF insertDeviceAddresses, AddressGood
    <2>2. Failed(d).ok = FALSE /\ Failed(d).db = d
      BY Zenon DEF Failed
    <2>3. r.db = d /\ ~r.ok
      BY Zenon, <2>1, <2>2 DEF insertDeviceRows
    <2>4. Wrote(d, d, "dev", x, d.dev[x])
      BY Zenon DEF Wrote, Rest, Shaped
    <2> QED BY Zenon, <2>3, <2>4 DEF Inserted
  <1> QED BY Zenon, <1>1, <1>2

\* Rows of the tables other than t that are live stay live.
Keeps(d, e, t) ==
    \A u \in {"dc", "net", "pool", "dev", "cir", "nat"} \ {t} : \A x \in DOMAIN d[u] :
      d[u][x].st = "live" => e[u][x].st = "live"

\* What the body of a request for a device gives.
Body(in) == in.dc \in Datacenters \cup {None} /\ \A a \in in.addrs : AddressTyped(a)

\* The device x is as the body says.
Saved(e, x, in) == /\ e.dev[x].st = "live" /\ e.dev[x].dc = in.dc
                   /\ e.dev[x].addrs = in.addrs /\ e.dev[x].tags = in.tags

\* No device but x changes.
Spares(d, e, x) == \A y \in Devices : y # x => e.dev[y] = d.dev[y]

\* A device is written without addresses, and then they are inserted.
LEMMA DeviceSaved ==
  ASSUME NEW d, Good(d), NEW x \in Devices, NEW in, Body(in), Ref(d, "dc", in.dc), NEW v,
         DOMAIN v = DevColumns, v.st = "live", v.dc = in.dc, v.addrs = {},
         NEW r, r = insertDeviceRows([d EXCEPT !.dev[x] = v], x, in)
  PROVE  Good(r.db) /\ Keeps(d, r.db, "dev") /\ Spares(d, r.db, x) /\ (r.ok => Saved(r.db, x, in))
  <1>1. PICK e : e = [d EXCEPT !.dev[x] = v]
    OBVIOUS
  <1>2. Shaped(d) /\ Wrote(d, e, "dev", x, v)
    BY Zenon, <1>1, RowWritten DEF Good
  <1>3. Shaped(e) /\ e.dev[x] = v /\ DOMAIN d.dev = Devices /\ DOMAIN e.dev = Devices /\ Rest(d, e, "dev")
    BY Zenon, <1>2 DEF Wrote, Shaped
  <1>4. PICK w : Inserted(e, r, x, in, w)
    <2>1. DOMAIN e.dev[x] = DevColumns /\ e.dev[x].addrs = {} /\ r = insertDeviceRows(e, x, in)
      BY Zenon, <1>1, <1>3
    <2>2. \E w : Inserted(e, insertDeviceRows(e, x, in), x, in, w)
      BY Zenon, <1>3, <2>1, RowsInserted
    <2> QED BY Zenon, <2>1, <2>2
  <1>5. e.net = d.net /\ e.pool = d.pool
    BY Zenon, <1>3 DEF Rest, Tables
  <1>6. \A a \in w.addrs : AddressTyped(a) /\ AddressGood(d, a)
    BY Zenon, <1>4, <1>5 DEF Inserted, Body, AddressGood, Ref, Live
  <1>7. DevGood(d, w)
    BY Zenon, <1>3, <1>4, <1>6 DEF Inserted, DevGood, DevTyped, Body
  <1>8. Wrote(d, r.db, "dev", x, w)
    <2>1. PICK t : t = "dev"
      OBVIOUS
    <2>2. t \in Tables /\ DOMAIN e[t] = DOMAIN d[t]
      BY Zenon, <2>1, <1>3 DEF Tables
    <2>3. Wrote(d, r.db, t, x, w)
      BY Zenon, <2>1, <2>2, <1>2, <1>4, WroteTwice DEF Inserted
    <2> QED BY Zenon, <2>1, <2>3
  <1>9. Good(r.db)
    BY Zenon, <1>3, <1>4, <1>7, <1>8, WrittenStaysGood DEF Inserted
  <1>10. Keeps(d, r.db, "dev")
    BY Zenon, <1>8 DEF Wrote, Rest, Keeps, Tables
  <1> QED BY Zenon, <1>3, <1>4, <1>8, <1>9, <1>10 DEF Inserted, Wrote, Spares, Saved

\* A refusal leaves the tables as they are.
LEMMA Refused == \A d : Failed(d).db = d /\ Failed(d).ok = FALSE /\ Done(d).db = d /\ Done(d).ok = TRUE
  BY Zenon DEF Failed, Done

\* Nothing is lost where nothing changes.
LEMMA KeepsAll == \A d, t : Keeps(d, d, t)
  BY Zenon DEF Keeps

\* A device is created, or not, or without its addresses.
LEMMA CreateDevice ==
  ASSUME NEW d, Good(d), NEW x \in Devices, NEW in, Body(in), NEW r, r = createDeviceInTx(d, x, in)
  PROVE  Good(r.db) /\ Keeps(d, r.db, "dev") /\ Spares(d, r.db, x) /\ (r.ok => Saved(r.db, x, in))
  <1>1. CASE Live(d, "dev", x) \/ ~Ref(d, "dc", in.dc)
    <2>1. r = Failed(d)
      BY Zenon, <1>1 DEF createDeviceInTx
    <2> QED BY Zenon, <2>1, Refused, KeepsAll DEF Spares
  <1>2. CASE ~(Live(d, "dev", x) \/ ~Ref(d, "dc", in.dc))
    <2>1. PICK v : v = [st |-> "live", dc |-> in.dc, addrs |-> {}, tags |-> {},
                        status |-> IF in.status = None THEN "active" ELSE in.status]
      OBVIOUS
    <2>2. r = insertDeviceRows([d EXCEPT !.dev[x] = v], x, in)
      BY Zenon, <1>2, <2>1 DEF createDeviceInTx
    <2>3. DOMAIN v = DevColumns /\ v.st = "live" /\ v.dc = in.dc /\ v.addrs = {}
      BY Zenon, <2>1 DEF DevColumns
    <2> QED BY Zenon, <1>2, <2>2, <2>3, DeviceSaved
  <1> QED BY Zenon, <1>1, <1>2

\* A device is updated, or not, or loses its addresses.
LEMMA UpdateDevice ==
  ASSUME NEW d, Good(d), NEW x \in Devices, NEW in, Body(in), NEW r, r = updateDeviceInTx(d, x, in)
  PROVE  Good(r.db) /\ Keeps(d, r.db, "dev") /\ Spares(d, r.db, x) /\ (r.ok => Saved(r.db, x, in))
  <1>1. CASE ~Live(d, "dev", x) \/ ~Ref(d, "dc", in.dc)
    <2>1. r = Failed(d)
      BY Zenon, <1>1 DEF updateDeviceInTx
    <2> QED BY Zenon, <2>1, Refused, KeepsAll DEF Spares
  <1>2. CASE ~(~Live(d, "dev", x) \/ ~Ref(d, "dc", in.dc))
    <2>1. PICK v : v = [st |-> "live", dc |-> in.dc, addrs |-> {}, tags |-> {},
                        status |-> IF in.status = None THEN d.dev[x].status ELSE in.status]
      OBVIOUS
    <2>2. r = insertDeviceRows([d EXCEPT !.dev[x] = v], x, in)
      BY Zenon, <1>2, <2>1 DEF updateDeviceInTx
    <2>3. DOMAIN v = DevColumns /\ v.st = "live" /\ v.dc = in.dc /\ v.addrs = {}
      BY Zenon, <2>1 DEF DevColumns
    <2> QED BY Zenon, <1>2, <2>2, <2>3, DeviceSaved
  <1> QED BY Zenon, <1>1, <1>2

\* What is left of a row that was deleted.
LEMMA GoneRows ==
  /\ DcTyped(Gone("dc")) /\ Gone("dc").st = "gone"
  /\ NetTyped(Gone("net")) /\ Gone("net").st = "gone"
  /\ PoolTyped(Gone("pool")) /\ Gone("pool").st = "gone"
  /\ DevTyped(Gone("dev")) /\ Gone("dev").st = "gone" /\ Gone("dev").addrs = {}
  /\ CirTyped(Gone("cir")) /\ Gone("cir").st = "gone"
  /\ NatTyped(Gone("nat")) /\ Gone("nat").st = "gone"
  <1>1. /\ Blank["dc"] = [st |-> "fresh", name |-> None]
        /\ Blank["net"] = [st |-> "fresh", dc |-> None]
        /\ Blank["pool"] = [st |-> "fresh", net |-> None]
        /\ Blank["dev"] = [st |-> "fresh", dc |-> None, addrs |-> {}, tags |-> {}, status |-> None]
        /\ Blank["cir"] = [st |-> "fresh", devs |-> {}, dcs |-> {}]
        /\ Blank["nat"] = [st |-> "fresh", dev |-> None, dc |-> None, net |-> None]
    BY Zenon DEF Blank
  <1>2. DcTyped(Gone("dc")) /\ Gone("dc").st = "gone"
    <2>1. PICK b : b = [st |-> "fresh", name |-> None]
      OBVIOUS
    <2>2. PICK g : g = [b EXCEPT !.st = "gone"]
      OBVIOUS
    <2>3. DOMAIN g = {"st", "name"} /\ g.st = "gone"
      BY Zenon, <2>1, <2>2
    <2> QED BY Zenon, <1>1, <2>1, <2>2, <2>3 DEF Gone, DcTyped
  <1>3. NetTyped(Gone("net")) /\ Gone("net").st = "gone"
    <2>1. PICK b : b = [st |-> "fresh", dc |-> None]
      OBVIOUS
    <2>2. PICK g : g = [b EXCEPT !.st = "gone"]
      OBVIOUS
    <2>3. DOMAIN g = {"st", "dc"} /\ g.st = "gone" /\ g.dc = None
      BY Zenon, <2>1, <2>2
    <2> QED BY Zenon, <1>1, <2>1, <2>2, <2>3 DEF Gone, NetTyped
  <1>4. PoolTyped(Gone("pool")) /\ Gone("pool").st = "gone"
    <2>1. PICK b : b = [st |-> "fresh", net |-> None]
      OBVIOUS
    <2>2. PICK g : g = [b EXCEPT !.st = "gone"]
      OBVIOUS
    <2>3. DOMAIN g = {"st", "net"} /\ g.st = "gone" /\ g.net = None
      BY Zenon, <2>1, <2>2
    <2> QED BY Zenon, <1>1, <2>1, <2>2, <2>3 DEF Gone, PoolTyped
  <1>5. DevTyped(Gone("dev")) /\ Gone("dev").st = "gone" /\ Gone("dev").addrs = {}
    <2>1. PICK b : b = [st |-> "fresh", dc |-> None, addrs |-> {}, tags |-> {}, status |-> None]
      OBVIOUS
    <2>2. PICK g : g = [b EXCEPT !.st = "gone"]
      OBVIOUS
    <2>3. DOMAIN g = DevColumns /\ g.st = "gone" /\ g.dc = None /\ g.addrs = {}
      BY Zenon, <2>1, <2>2 DEF DevColumns
    <2> QED BY Zenon, <1>1, <2>1, <2>2, <2>3 DEF Gone, DevTyped
  <1>6. CirTyped(Gone("cir")) /\ Gone("cir").st = "gone"
    <2>1. PICK b : b = [st |-> "fresh", devs |-> {}, dcs |-> {}]
      OBVIOUS
    <2>2. PICK g : g = [b EXCEPT !.st = "gone"]
      OBVIOUS
    <2>3. DOMAIN g = {"st", "devs", "dcs"} /\ g.st = "gone" /\ g.devs = {} /\ g.dcs = {}
      BY Zenon, <2>1, <2>2
    <2> QED BY Zenon, <1>1, <2>1, <2>2, <2>3 DEF Gone, CirTyped
  <1>7. NatTyped(Gone("nat")) /\ Gone("nat").st = "gone"
    <2>1. PICK b : b = [st |-> "fresh", dev |-> None, dc |-> None, net |-> None]
      OBVIOUS
    <2>2. PICK g : g = [b EXCEPT !.st = "gone"]
      OBVIOUS
    <2>3. /\ DOMAIN g = {"st", "dev", "dc", "net"} /\ g.st = "gone"
          /\ g.dev = None /\ g.dc = None /\ g.net = None
      BY Zenon, <2>1, <2>2
    <2> QED BY Zenon, <1>1, <2>1, <2>2, <2>3 DEF Gone, NatTyped
  <1> QED BY Zenon, <1>2, <1>3, <1>4, <1>5, <1>6, <1>7

\* A device is deleted with its relationships, and circuits and mappings lose
\* the reference.
LEMMA DeleteDevice ==
  ASSUME NEW d, Good(d), NEW x \in Devices, NEW r, r = deleteDeviceInTx(d, x)
  PROVE  /\ Good(r.db) /\ Keeps(d, r.db, "dev") /\ Spares(d, r.db, x)
         /\ r.ok => r.db.dev[x].st = "gone"
         /\ ~r.ok => r.db = d
  <1>0. Shaped(d)
    BY Zenon DEF Good
  <1>1. CASE ~Live(d, "dev", x)
    <2>1. r = Failed(d)
      BY Zenon, <1>1 DEF deleteDeviceInTx
    <2> QED BY Zenon, <2>1, Refused, KeepsAll DEF Spares
  <1>2. CASE Live(d, "dev", x)
    <2>1. PICK e : e = [d EXCEPT
             !.dev[x] = Gone("dev"), !.rel = {s \in @ : x \notin {s.parent, s.child}},
             !.cir = [c \in Circuits |-> [d.cir[c] EXCEPT !.devs = @ \ {x}]],
             !.nat = [m \in Mappings |-> IF @[m].dev = x THEN [@[m] EXCEPT !.dev = None] ELSE @[m]]]
      OBVIOUS
    <2>2. r = Done(e)
      BY Zenon, <1>2, <2>1 DEF deleteDeviceInTx
    <2>3. /\ DOMAIN e = Tables /\ e.dc = d.dc /\ e.net = d.net /\ e.pool = d.pool
          /\ e.dev = [d.dev EXCEPT ![x] = Gone("dev")]
          /\ e.rel = {s \in d.rel : x \notin {s.parent, s.child}}
          /\ e.cir = [c \in Circuits |-> [d.cir[c] EXCEPT !.devs = @ \ {x}]]
          /\ e.nat = [m \in Mappings |-> IF d.nat[m].dev = x THEN [d.nat[m] EXCEPT !.dev = None]
                                         ELSE d.nat[m]]
      BY Zenon, <1>0, <2>1 DEF Shaped, Tables
    <2>4. Shaped(e)
      BY Zenon, <1>0, <2>3 DEF Shaped
    <2>5. /\ e.dev[x] = Gone("dev") /\ \A y \in Devices : y # x => e.dev[y] = d.dev[y]
      BY Zenon, <1>0, <2>3 DEF Shaped
    <2>6. \A y \in Devices \cup {None} : y # x => Live(d, "dev", y) = Live(e, "dev", y)
      BY Zenon, <2>5 DEF Live
    <2>7. \A c : /\ Ref(e, "dc", c) = Ref(d, "dc", c) /\ Ref(e, "net", c) = Ref(d, "net", c)
                 /\ Ref(e, "pool", c) = Ref(d, "pool", c) /\ Live(e, "net", c) = Live(d, "net", c)
                 /\ Live(e, "dc", c) = Live(d, "dc", c)
      BY Zenon, <2>3 DEF Ref, Live
    <2>8. \A n \in Networks : NetGood(e, e.net[n])
      BY Zenon, <2>3, <2>7 DEF Good, NetGood
    <2>9. \A p \in Pools : PoolGood(e, e.pool[p])
      BY Zenon, <2>3, <2>7 DEF Good, PoolGood
    <2>10. \A y \in Devices : DevGood(e, e.dev[y])
      <3>1. DevGood(e, Gone("dev"))
        BY Zenon, GoneRows DEF DevGood
      <3>2. \A y \in Devices : DevGood(e, d.dev[y])
        BY Zenon, <2>7 DEF Good, DevGood, AddressGood
      <3> QED BY Zenon, <3>1, <3>2, <2>5
    <2>11. \A s \in e.rel : RelGood(e, s)
      <3>1. \A s \in e.rel : s \in d.rel /\ s.parent # x /\ s.child # x
        BY Zenon, <2>3
      <3> QED BY Zenon, <3>1, <2>6 DEF Good, RelGood, RelTyped
    <2>12. ASSUME NEW k \in Circuits PROVE CirGood(e, e.cir[k]) /\ e.cir[k].st = d.cir[k].st
      <3>1. PICK v, w : v = d.cir[k] /\ w = [v EXCEPT !.devs = @ \ {x}]
        OBVIOUS
      <3>2. e.cir[k] = w /\ CirGood(d, v)
        BY Zenon, <3>1, <2>3 DEF Good
      <3>3. DOMAIN w = DOMAIN v /\ w.st = v.st /\ w.devs = v.devs \ {x} /\ w.dcs = v.dcs
        BY Zenon, <3>1, <3>2 DEF CirGood, CirTyped
      <3>4. CirTyped(w)
        BY Zenon, <3>2, <3>3 DEF CirGood, CirTyped
      <3>5. v.st = "live" => CircuitRefs(e, w)
        BY Zenon, <3>2, <3>3, <2>6, <2>7 DEF CirGood, CirTyped, CircuitRefs
      <3> QED BY Zenon, <3>1, <3>2, <3>3, <3>4, <3>5 DEF CirGood
    <2>13. ASSUME NEW m \in Mappings PROVE NatGood(e, e.nat[m]) /\ e.nat[m].st = d.nat[m].st
      <3>1. PICK v : v = d.nat[m]
        OBVIOUS
      <3>2. NatGood(d, v)
        BY Zenon, <3>1 DEF Good
      <3>3. CASE v.dev = x
        <4>1. PICK w : w = [v EXCEPT !.dev = None]
          OBVIOUS
        <4>2. e.nat[m] = w
          BY Zenon, <3>1, <3>3, <4>1, <2>3
        <4>3. DOMAIN w = DOMAIN v /\ w.st = v.st /\ w.dev = None /\ w.dc = v.dc /\ w.net = v.net
          BY Zenon, <3>2, <4>1 DEF NatGood, NatTyped
        <4>4. NatTyped(w)
          BY Zenon, <3>2, <4>3 DEF NatGood, NatTyped
        <4>5. v.st = "live" => MappingRefs(e, w)
          BY Zenon, <3>2, <4>3, <2>7 DEF NatGood, MappingRefs, Ref
        <4> QED BY Zenon, <3>1, <4>2, <4>3, <4>4, <4>5 DEF NatGood
      <3>4. CASE v.dev # x
        <4>1. e.nat[m] = v
          BY Zenon, <3>1, <3>4, <2>3
        <4>2. Ref(d, "dev", v.dev) => Ref(e, "dev", v.dev)
          BY Zenon, <3>2, <3>4, <2>6 DEF NatGood, NatTyped, Ref
        <4>3. v.st = "live" => MappingRefs(e, v)
          BY Zenon, <3>2, <4>2, <2>7 DEF NatGood, MappingRefs
        <4> QED BY Zenon, <3>1, <3>2, <4>1, <4>3 DEF NatGood
      <3> QED BY Zenon, <3>3, <3>4
    <2>14. \A c \in Datacenters : DcTyped(e.dc[c])
      BY Zenon, <2>3 DEF Good
    <2>15. Good(e)
      BY Zenon, <2>4, <2>8, <2>9, <2>10, <2>11, <2>12, <2>13, <2>14 DEF Good
    <2>16. Keeps(d, e, "dev")
      BY Zenon, <1>0, <2>3, <2>12, <2>13 DEF Keeps, Shaped
    <2>17. r.db = e /\ r.ok
      BY Zenon, <2>2, Refused
    <2> QED BY Zenon, <2>5, <2>15, <2>16, <2>17, GoneRows DEF Spares
  <1> QED BY Zenon, <1>1, <1>2

\* Tags come and go with the device as it is.
LEMMA TagDevice ==
  ASSUME NEW d, Good(d), NEW x \in Devices, NEW ts, NEW r, r = AddTags(d, x, ts) \/ r = RemoveTags(d, x, ts)
  PROVE  Good(r.db) /\ Keeps(d, r.db, None)
  <1>1. Shaped(d) /\ DevGood(d, d.dev[x])
    BY Zenon DEF Good
  <1>2. ASSUME NEW t, r.db = [d EXCEPT !.dev[x].tags = t] PROVE Good(r.db) /\ Keeps(d, r.db, None)
    <2>1. PICK v : v = [d.dev[x] EXCEPT !.tags = t]
      OBVIOUS
    <2>2. DOMAIN v = DevColumns /\ v.st = d.dev[x].st /\ v.dc = d.dev[x].dc /\ v.addrs = d.dev[x].addrs
      BY Zenon, <1>1, <2>1 DEF DevGood, DevTyped, DevColumns
    <2>3. DevGood(d, v)
      BY Zenon, <1>1, <2>2 DEF DevGood, DevTyped
    <2>4. Wrote(d, r.db, "dev", x, v)
      <3>1. PICK e : e = [d EXCEPT !.dev[x] = v]
        OBVIOUS
      <3>2. r.db = e
        BY Zenon, <1>2, <2>1, <3>1
      <3>3. Wrote(d, e, "dev", x, v)
        BY Zenon, <1>1, <3>1, RowWritten
      <3> QED BY Zenon, <3>2, <3>3
    <2>5. Good(r.db)
      BY Zenon, <2>2, <2>3, <2>4, WrittenStaysGood
    <2>6. Keeps(d, r.db, None)
      BY Zenon, <1>1, <2>2, <2>4 DEF Wrote, Rest, Keeps, Tables
    <2> QED BY Zenon, <2>5, <2>6
  <1>3. \/ r.db = d \/ \E t : r.db = [d EXCEPT !.dev[x].tags = t]
    <2>1. CASE r = AddTags(d, x, ts)
      BY Zenon, <2>1, Refused DEF AddTags
    <2>2. CASE r = RemoveTags(d, x, ts)
      BY Zenon, <2>2, Refused DEF RemoveTags
    <2> QED BY Zenon, <2>1, <2>2
  <1> QED BY Zenon, <1>2, <1>3, KeepsAll

\* A network is created or updated.
LEMMA SaveNetwork ==
  ASSUME NEW d, Good(d), NEW n \in Networks, NEW dc \in Datacenters \cup {None}, NEW r,
         r = createNetworkInTx(d, n, dc) \/ r = UpdateNetwork(d, n, dc)
  PROVE  Good(r.db) /\ Keeps(d, r.db, None)
  <1>1. Shaped(d) /\ NetGood(d, d.net[n])
    BY Zenon DEF Good
  <1>2. ASSUME NEW v, r.db = [d EXCEPT !.net[n] = v], Ref(d, "dc", dc),
               DOMAIN v = {"st", "dc"}, v.st = "live", v.dc = dc
        PROVE  Good(r.db) /\ Keeps(d, r.db, None)
    <2>1. NetGood(d, v)
      BY Zenon, <1>2 DEF NetGood, NetTyped
    <2>2. Wrote(d, r.db, "net", n, v)
      <3>1. PICK e : e = [d EXCEPT !.net[n] = v]
        OBVIOUS
      <3>2. r.db = e
        BY Zenon, <1>2, <3>1
      <3>3. Wrote(d, e, "net", n, v)
        BY Zenon, <1>1, <3>1, RowWritten
      <3> QED BY Zenon, <3>2, <3>3
    <2>3. Good(r.db)
      BY Zenon, <1>2, <2>1, <2>2, WrittenStaysGood
    <2>4. Keeps(d, r.db, None)
      BY Zenon, <1>1, <1>2, <2>2 DEF Wrote, Rest, Keeps, Tables
    <2> QED BY Zenon, <2>3, <2>4
  <1>3. CASE r = createNetworkInTx(d, n, dc)
    <2>1. CASE Live(d, "net", n) \/ ~Ref(d, "dc", dc)
      BY Zenon, <1>3, <2>1, Refused, KeepsAll DEF createNetworkInTx
    <2>2. CASE ~(Live(d, "net", n) \/ ~Ref(d, "dc", dc))
      <3>1. PICK v : v = [st |-> "live", dc |-> dc]
        OBVIOUS
      <3>2. r.db = [d EXCEPT !.net[n] = v]
        BY Zenon, <1>3, <2>2, <3>1, Refused DEF createNetworkInTx
      <3>3. DOMAIN v = {"st", "dc"} /\ v.st = "live" /\ v.dc = dc
        BY Zenon, <3>1
      <3> QED BY Zenon, <1>2, <2>2, <3>2, <3>3
    <2> QED BY Zenon, <2>1, <2>2
  <1>4. CASE r = UpdateNetwork(d, n, dc)
    <2>1. CASE ~Live(d, "net", n) \/ ~Ref(d, "dc", dc)
      BY Zenon, <1>4, <2>1, Refused, KeepsAll DEF UpdateNetwork
    <2>2. CASE ~(~Live(d, "net", n) \/ ~Ref(d, "dc", dc))
      <3>1. PICK v : v = [d.net[n] EXCEPT !.dc = dc]
        OBVIOUS
      <3>2. r.db = [d EXCEPT !.net[n] = v]
        BY Zenon, <1>4, <2>2, <3>1, Refused DEF UpdateNetwork
      <3>3. DOMAIN v = {"st", "dc"} /\ v.st = "live" /\ v.dc = dc
        BY Zenon, <1>1, <2>2, <3>1 DEF NetGood, NetTyped, Live
      <3> QED BY Zenon, <1>2, <2>2, <3>2, <3>3
    <2> QED BY Zenon, <2>1, <2>2
  <1> QED BY Zenon, <1>3, <1>4

\* A network goes, or at most its addresses lose it.
NetGoes(d, e) ==
    /\ \A u \in {"dc", "dev", "cir", "nat"} : \A x \in DOMAIN d[u] :
         d[u][x].st = "live" => e[u][x].st = "live"
    /\ \A p \in Pools : d.pool[p].st = "live" /\ e.pool[p].st # "live" =>
         d.pool[p].net \in Networks /\ d.net[d.pool[p].net].st = "live" /\ e.net[d.pool[p].net].st # "live"
    /\ \A p \in Pools : e.pool[p].st = "live" => e.pool[p] = d.pool[p]
    /\ \A n \in Networks : e.net[n].st = "live" => d.net[n].st = "live"
    /\ \A x \in Devices : (e.dev[x].addrs = {}) = (d.dev[x].addrs = {})

\* From d to u the addresses of devices lose the network n, and keep the rest.
Unlinked(d, n, u) ==
    \A x \in Devices :
      /\ DOMAIN u.dev[x] = DevColumns /\ u.dev[x].st = d.dev[x].st /\ u.dev[x].dc = d.dev[x].dc
      /\ (u.dev[x].addrs = {}) = (d.dev[x].addrs = {})
      /\ \A b \in u.dev[x].addrs : \E a \in d.dev[x].addrs :
           AddressTyped(b) /\ b.net # n /\ b.pool = a.pool /\ (b.net = None \/ b.net = a.net)

\* The addresses of a network lose it and nothing else.
LEMMA AddressesUnlinked ==
  ASSUME NEW d, Good(d), NEW n \in Networks, NEW u, u = UnlinkAddresses(d, n)
  PROVE  Shaped(u) /\ Rest(d, u, "dev") /\ Unlinked(d, n, u)
  <1>1. Shaped(d)
    BY Zenon DEF Good
  <1>2. /\ DOMAIN u = Tables /\ Rest(d, u, "dev")
        /\ u.dev = [x \in Devices |-> [d.dev[x] EXCEPT !.addrs =
                      {IF a.net = n THEN [a EXCEPT !.net = None] ELSE a : a \in @}]]
    <2>1. PICK f : f = [x \in Devices |-> [d.dev[x] EXCEPT !.addrs =
                      {IF a.net = n THEN [a EXCEPT !.net = None] ELSE a : a \in @}]]
      OBVIOUS
    <2>2. u = [d EXCEPT !.dev = f]
      BY Zenon, <2>1 DEF UnlinkAddresses
    <2>3. DOMAIN u = Tables /\ Rest(d, u, "dev") /\ u.dev = f
      BY Zenon, <1>1, <2>2 DEF Shaped, Rest, Tables
    <2> QED BY Zenon, <2>1, <2>3
  <1>3. Shaped(u)
    BY Zenon, <1>1, <1>2 DEF Shaped, Rest, Tables
  <1>4. ASSUME NEW x \in Devices
        PROVE  /\ DOMAIN u.dev[x] = DevColumns /\ u.dev[x].st = d.dev[x].st /\ u.dev[x].dc = d.dev[x].dc
               /\ (u.dev[x].addrs = {}) = (d.dev[x].addrs = {})
               /\ \A b \in u.dev[x].addrs : \E a \in d.dev[x].addrs :
                    AddressTyped(b) /\ b.net # n /\ b.pool = a.pool /\ (b.net = None \/ b.net = a.net)
    <2>1. PICK v : v = d.dev[x]
      OBVIOUS
    <2>2. PICK s : s = {IF a.net = n THEN [a EXCEPT !.net = None] ELSE a : a \in v.addrs}
      OBVIOUS
    <2>3. PICK w : w = [v EXCEPT !.addrs = s]
      OBVIOUS
    <2>4. u.dev[x] = w
      BY Zenon, <1>2, <2>1, <2>2, <2>3
    <2>5. DevTyped(v)
      BY Zenon, <2>1 DEF Good, DevGood
    <2>6. DOMAIN w = DevColumns /\ w.st = v.st /\ w.dc = v.dc /\ w.addrs = s
      BY Zenon, <2>3, <2>5 DEF DevTyped, DevColumns
    <2>7. (s = {}) = (v.addrs = {})
      <3>1. ASSUME NEW a \in v.addrs PROVE s # {}
        <4>1. (IF a.net = n THEN [a EXCEPT !.net = None] ELSE a) \in s
          BY Zenon, <2>2
        <4> QED BY Zenon, <4>1
      <3>2. ASSUME NEW b \in s PROVE v.addrs # {}
        BY Zenon, <2>2
      <3> QED BY Zenon, <3>1, <3>2
    <2>8. ASSUME NEW b \in s
          PROVE  \E a \in v.addrs :
                   AddressTyped(b) /\ b.net # n /\ b.pool = a.pool /\ (b.net = None \/ b.net = a.net)
      <3>1. PICK a \in v.addrs : b = IF a.net = n THEN [a EXCEPT !.net = None] ELSE a
        BY Zenon, <2>2
      <3>2. AddressTyped(a)
        BY Zenon, <2>5 DEF DevTyped
      <3>3. CASE a.net # n
        BY Zenon, <3>1, <3>2, <3>3
      <3>4. CASE a.net = n
        <4>1. b = [a EXCEPT !.net = None]
          BY Zenon, <3>1, <3>4
        <4>2. DOMAIN b = DOMAIN a /\ b.net = None /\ b.pool = a.pool
          BY Zenon, <3>2, <4>1 DEF AddressTyped
        <4>3. None # n
          BY Zenon, NullAssumption
        <4> QED BY Zenon, <3>2, <4>2, <4>3 DEF AddressTyped
      <3> QED BY Zenon, <3>3, <3>4
    <2> QED BY Zenon, <2>1, <2>4, <2>6, <2>7, <2>8
  <1> QED BY Zenon, <1>2, <1>3, <1>4 DEF Unlinked

\* A network is deleted with its pools; its addresses and mappings lose it.
LEMMA DeleteNetwork ==
  ASSUME NEW d, Good(d), NEW n \in Networks, NEW r, r = deleteNetworkInTx(d, n)
  PROVE  Good(r.db) /\ NetGoes(d, r.db)
  <1>0. Shaped(d)
    BY Zenon DEF Good
  <1>1. CASE ~Live(d, "net", n)
    <2>1. r.db = d
      BY Zenon, <1>1, Refused DEF deleteNetworkInTx
    <2> QED BY Zenon, <2>1, KeepsAll DEF NetGoes
  <1>2. PICK u : u = UnlinkAddresses(d, n)
    OBVIOUS
  <1>3. Shaped(u) /\ Rest(d, u, "dev") /\ Unlinked(d, n, u)
    BY Zenon, <1>2, AddressesUnlinked
  <1>4. /\ u.dc = d.dc /\ u.net = d.net /\ u.pool = d.pool /\ u.rel = d.rel /\ u.cir = d.cir /\ u.nat = d.nat
    BY Zenon, <1>3 DEF Rest, Tables
  <1>5. \A x \in Devices : DevTyped(u.dev[x])
    BY Zenon, <1>3 DEF Good, DevGood, DevTyped, Unlinked
  <1>6. CASE Live(d, "net", n) /\ \E x \in Devices : \E a \in d.dev[x].addrs : a.pool \in PoolsOf(d, n)
    <2>1. r.db = u
      BY Zenon, <1>2, <1>6, Refused DEF deleteNetworkInTx
    <2>2. Lives(d, u)
      BY Zenon, <1>3, <1>4 DEF Lives, Live, Unlinked
    <2>3. \A x \in Devices : DevGood(u, u.dev[x])
      <3>1. \A x \in Devices : DevGood(u, d.dev[x])
        BY Zenon, <2>2, RowsStayGood DEF Good
      <3> QED BY Zenon, <1>3, <1>5, <3>1 DEF DevGood, AddressGood, Ref, Unlinked
    <2>4. Good(u)
      <3>1. \A c \in Datacenters : DcTyped(u.dc[c])
        BY Zenon, <1>4 DEF Good
      <3> QED BY Zenon, <1>3, <1>4, <2>2, <2>3, <3>1, StaysGood
    <2>5. NetGoes(d, u)
      BY Zenon, <1>0, <1>3, <1>4 DEF NetGoes, Keeps, Shaped, Unlinked
    <2> QED BY Zenon, <2>1, <2>4, <2>5
  <1>7. CASE Live(d, "net", n) /\ ~ \E x \in Devices : \E a \in d.dev[x].addrs : a.pool \in PoolsOf(d, n)
    <2>0. PICK g : g = PoolsOf(d, n)
      OBVIOUS
    <2>1. PICK e : e = [u EXCEPT
               !.net[n] = Gone("net"),
               !.pool = [p \in Pools |-> IF p \in g THEN Gone("pool") ELSE @[p]],
               !.nat = [m \in Mappings |-> IF @[m].net = n THEN [@[m] EXCEPT !.net = None]
                                           ELSE @[m]]]
      OBVIOUS
    <2>2. r.db = e
      <3>1. r = Done(e)
        BY Zenon, <1>2, <1>7, <2>0, <2>1 DEF deleteNetworkInTx
      <3> QED BY Zenon, <3>1, Refused
    <2>3. /\ DOMAIN e = Tables /\ e.dc = d.dc /\ e.dev = u.dev /\ e.rel = d.rel /\ e.cir = d.cir
          /\ e.net = [u.net EXCEPT ![n] = Gone("net")]
          /\ e.pool = [p \in Pools |-> IF p \in g THEN Gone("pool") ELSE u.pool[p]]
          /\ e.nat = [m \in Mappings |-> IF u.nat[m].net = n THEN [u.nat[m] EXCEPT !.net = None]
                                         ELSE u.nat[m]]
      <3>1. DOMAIN u = Tables /\ Tables = {"dc", "net", "pool", "dev", "rel", "cir", "nat"}
        BY Zenon, <1>3 DEF Shaped, Tables
      <3>2. /\ DOMAIN e = Tables /\ e.dc = u.dc /\ e.dev = u.dev /\ e.rel = u.rel /\ e.cir = u.cir
            /\ e.net = [u.net EXCEPT ![n] = Gone("net")]
            /\ e.pool = [p \in Pools |-> IF p \in g THEN Gone("pool") ELSE u.pool[p]]
            /\ e.nat = [m \in Mappings |-> IF u.nat[m].net = n THEN [u.nat[m] EXCEPT !.net = None]
                                           ELSE u.nat[m]]
        BY Zenon, <2>1, <3>1
      <3> QED BY Zenon, <1>4, <3>2
    <2>4. Shaped(e)
      BY Zenon, <1>0, <1>3, <1>4, <2>3 DEF Shaped
    <2>5. e.net[n] = Gone("net") /\ \A y \in Networks : y # n => e.net[y] = d.net[y]
      BY Zenon, <1>0, <1>4, <2>3 DEF Shaped
    <2>6. \A y \in Networks \cup {None} : y # n => Live(e, "net", y) = Live(d, "net", y)
      BY Zenon, <2>5 DEF Live
    <2>7. \A p \in Pools : \/ p \in g /\ e.pool[p] = Gone("pool")
                           \/ p \notin g /\ e.pool[p] = d.pool[p]
      <3>1. \A p \in Pools : \/ p \in g /\ e.pool[p] = Gone("pool")
                             \/ p \notin g /\ e.pool[p] = u.pool[p]
        BY Zenon, <2>3
      <3> QED BY Zenon, <1>4, <3>1
    <2>8. \A p \in Pools \cup {None} : p \notin g => Ref(e, "pool", p) = Ref(d, "pool", p)
      BY Zenon, <2>7 DEF Ref, Live
    <2>9. /\ \A c : Ref(e, "dc", c) = Ref(d, "dc", c) /\ Live(e, "dc", c) = Live(d, "dc", c)
      BY Zenon, <2>3 DEF Ref, Live
    <2>10. \A x \in Devices \cup {None} : /\ Live(e, "dev", x) = Live(d, "dev", x)
                                          /\ Ref(e, "dev", x) = Ref(d, "dev", x)
      BY Zenon, <1>3, <2>3 DEF Ref, Live, Unlinked
    <2>11. \A y \in Networks : NetGood(e, e.net[y])
      <3>1. NetGood(e, Gone("net"))
        BY Zenon, GoneRows DEF NetGood
      <3> QED BY Zenon, <3>1, <2>5, <2>9 DEF Good, NetGood
    <2>12. ASSUME NEW p \in Pools PROVE PoolGood(e, e.pool[p])
      <3>1. CASE p \in g
        <4>1. PoolGood(e, Gone("pool"))
          BY Zenon, GoneRows DEF PoolGood
        <4> QED BY Zenon, <3>1, <4>1, <2>7
      <3>2. CASE p \notin g
        <4>1. e.pool[p] = d.pool[p] /\ PoolGood(d, d.pool[p])
          BY Zenon, <3>2, <2>7 DEF Good
        <4>2. d.pool[p].st = "live" => d.pool[p].net # n
          BY Zenon, <3>2, <2>0, NullAssumption DEF PoolsOf, Live
        <4> QED BY Zenon, <4>1, <4>2, <2>6 DEF PoolGood, PoolTyped
      <3> QED BY Zenon, <3>1, <3>2
    <2>13. ASSUME NEW x \in Devices PROVE DevGood(e, e.dev[x])
      <3>1. DevGood(d, d.dev[x]) /\ e.dev[x] = u.dev[x]
        BY Zenon, <2>3 DEF Good
      <3>2. ASSUME d.dev[x].st = "live", NEW b \in u.dev[x].addrs PROVE AddressGood(e, b)
        <4>1. PICK a \in d.dev[x].addrs :
                AddressTyped(b) /\ b.net # n /\ b.pool = a.pool /\ (b.net = None \/ b.net = a.net)
          BY Zenon, <1>3, <3>2 DEF Unlinked
        <4>2. AddressGood(d, a) /\ AddressTyped(a) /\ a.pool \notin g
          BY Zenon, <1>7, <2>0, <3>1, <3>2 DEF DevGood, DevTyped
        <4>3. Ref(e, "pool", b.pool)
          BY Zenon, <4>1, <4>2, <2>8 DEF AddressTyped, AddressGood
        <4>4. Ref(d, "net", b.net)
          BY Zenon, <4>1, <4>2 DEF AddressGood, Ref
        <4>5. Ref(e, "net", b.net)
          BY Zenon, <4>1, <4>4, <2>6 DEF AddressTyped, Ref
        <4> QED BY Zenon, <4>3, <4>5 DEF AddressGood
      <3> QED BY Zenon, <1>3, <1>5, <2>9, <3>1, <3>2 DEF DevGood, Unlinked
    <2>14. \A s \in e.rel : RelGood(e, s)
      BY Zenon, <2>3, <2>10 DEF Good, RelGood, RelTyped
    <2>15. \A k \in Circuits : CirGood(e, e.cir[k])
      BY Zenon, <2>3, <2>9, <2>10 DEF Good, CirGood, CirTyped, CircuitRefs
    <2>16. ASSUME NEW m \in Mappings PROVE NatGood(e, e.nat[m]) /\ e.nat[m].st = d.nat[m].st
      <3>0. PICK v : v = u.nat[m]
        OBVIOUS
      <3>1. v = d.nat[m]
        BY Zenon, <1>4, <3>0
      <3>2. NatGood(d, v)
        BY Zenon, <3>1 DEF Good
      <3>3. CASE v.net = n
        <4>1. PICK w : w = [v EXCEPT !.net = None]
          OBVIOUS
        <4>2. e.nat[m] = w
          BY Zenon, <3>0, <3>3, <4>1, <2>3
        <4>3. DOMAIN w = DOMAIN v /\ w.st = v.st /\ w.net = None /\ w.dc = v.dc /\ w.dev = v.dev
          BY Zenon, <3>2, <4>1 DEF NatGood, NatTyped
        <4>4. NatTyped(w)
          BY Zenon, <3>2, <4>3 DEF NatGood, NatTyped
        <4>5. Ref(e, "net", None)
          BY Zenon DEF Ref
        <4>6. v.st = "live" => MappingRefs(e, w)
          BY Zenon, <3>2, <4>3, <4>5, <2>9, <2>10 DEF NatGood, NatTyped, MappingRefs
        <4> QED BY Zenon, <3>1, <4>2, <4>3, <4>4, <4>6 DEF NatGood
      <3>4. CASE v.net # n
        <4>1. e.nat[m] = v
          BY Zenon, <3>0, <3>4, <2>3
        <4>2. Ref(d, "net", v.net) => Ref(e, "net", v.net)
          BY Zenon, <3>2, <3>4, <2>6 DEF NatGood, NatTyped, Ref
        <4>3. v.st = "live" => MappingRefs(e, v)
          BY Zenon, <3>2, <4>2, <2>9, <2>10 DEF NatGood, NatTyped, MappingRefs
        <4> QED BY Zenon, <3>1, <3>2, <4>1, <4>3 DEF NatGood
      <3> QED BY Zenon, <3>3, <3>4
    <2>17. \A c \in Datacenters : DcTyped(e.dc[c])
      BY Zenon, <2>3 DEF Good
    <2>18. Good(e)
      BY Zenon, <2>4, <2>11, <2>12, <2>13, <2>14, <2>15, <2>16, <2>17 DEF Good
    <2>19. NetGoes(d, e)
      <3>1. \A t \in {"dc", "dev", "cir", "nat"} : \A x \in DOMAIN d[t] :
              d[t][x].st = "live" => e[t][x].st = "live"
        <4>1. \A x \in Devices : e.dev[x].st = d.dev[x].st
          BY Zenon, <1>3, <2>3 DEF Unlinked
        <4>2. e.dc = d.dc /\ e.cir = d.cir /\ \A m \in Mappings : e.nat[m].st = d.nat[m].st
          BY Zenon, <2>3, <2>16
        <4> QED BY Zenon, <1>0, <4>1, <4>2 DEF Shaped
      <3>2. \A p \in Pools : d.pool[p].st = "live" /\ e.pool[p].st # "live" =>
              d.pool[p].net = n /\ d.net[n].st = "live" /\ e.net[n].st = "gone"
        BY Zenon, <1>7, <2>0, <2>5, <2>7, GoneRows DEF PoolsOf, Live
      <3>3. \A x \in Devices : (e.dev[x].addrs = {}) = (d.dev[x].addrs = {})
        BY Zenon, <1>3, <2>3 DEF Unlinked
      <3>4. "gone" # "live"
        OBVIOUS
      <3>5. \A p \in Pools : e.pool[p].st = "live" => e.pool[p] = d.pool[p]
        BY Zenon, <2>7, <3>4, GoneRows
      <3>6. \A m \in Networks : e.net[m].st = "live" => d.net[m].st = "live"
        BY Zenon, <2>5, <3>4, GoneRows
      <3> QED BY Zenon, <3>1, <3>2, <3>3, <3>4, <3>5, <3>6 DEF NetGoes
    <2> QED BY Zenon, <2>2, <2>18, <2>19
  <1> QED BY Zenon, <1>1, <1>6, <1>7

\* A datacenter is created or renamed.
LEMMA SaveDatacenter ==
  ASSUME NEW d, Good(d), NEW c \in Datacenters, NEW name, NEW r,
         r = CreateDatacenter(d, c, name) \/ r = UpdateDatacenter(d, c, name)
  PROVE  Good(r.db) /\ Keeps(d, r.db, None)
  <1>1. Shaped(d) /\ DcTyped(d.dc[c])
    BY Zenon DEF Good
  <1>2. ASSUME NEW v, r.db = [d EXCEPT !.dc[c] = v], DcTyped(v), v.st = "live"
        PROVE  Good(r.db) /\ Keeps(d, r.db, None)
    <2>1. Wrote(d, r.db, "dc", c, v)
      <3>1. PICK e : e = [d EXCEPT !.dc[c] = v]
        OBVIOUS
      <3>2. r.db = e
        BY Zenon, <1>2, <3>1
      <3>3. Wrote(d, e, "dc", c, v)
        BY Zenon, <1>1, <3>1, RowWritten
      <3> QED BY Zenon, <3>2, <3>3
    <2>2. Good(r.db)
      BY Zenon, <1>2, <2>1, WrittenStaysGood
    <2>3. Keeps(d, r.db, None)
      BY Zenon, <1>1, <1>2, <2>1 DEF Wrote, Rest, Keeps, Tables
    <2> QED BY Zenon, <2>2, <2>3
  <1>3. CASE r = CreateDatacenter(d, c, name)
    <2>1. CASE Live(d, "dc", c)
      BY Zenon, <1>3, <2>1, Refused, KeepsAll DEF CreateDatacenter
    <2>2. CASE ~Live(d, "dc", c)
      <3>1. PICK v : v = [st |-> "live", name |-> name]
        OBVIOUS
      <3>2. r.db = [d EXCEPT !.dc[c] = v]
        BY Zenon, <1>3, <2>2, <3>1, Refused DEF CreateDatacenter
      <3>3. DcTyped(v) /\ v.st = "live"
        BY Zenon, <3>1 DEF DcTyped
      <3> QED BY Zenon, <1>2, <3>2, <3>3
    <2> QED BY Zenon, <2>1, <2>2
  <1>4. CASE r = UpdateDatacenter(d, c, name)
    <2>1. CASE ~Live(d, "dc", c)
      BY Zenon, <1>4, <2>1, Refused, KeepsAll DEF UpdateDatacenter
    <2>2. CASE Live(d, "dc", c)
      <3>1. PICK v : v = [d.dc[c] EXCEPT !.name = name]
        OBVIOUS
      <3>2. r.db = [d EXCEPT !.dc[c] = v]
        BY Zenon, <1>4, <2>2, <3>1, Refused DEF UpdateDatacenter
      <3>3. DcTyped(v) /\ v.st = "live"
        BY Zenon, <1>1, <2>2, <3>1 DEF DcTyped, Live
      <3> QED BY Zenon, <1>2, <3>2, <3>3
    <2> QED BY Zenon, <2>1, <2>2
  <1> QED BY Zenon, <1>3, <1>4

\* The devices of a datacenter lose it.
LEMMA DevicesUnlinked ==
  ASSUME NEW d, Good(d), NEW c \in Datacenters, NEW e, e = UnlinkDevices(d, c)
  PROVE  Good(e) /\ Keeps(d, e, None)
  <1>0. Shaped(d)
    BY Zenon DEF Good
  <1>1. /\ DOMAIN e = Tables /\ e.dc = d.dc /\ e.net = d.net /\ e.pool = d.pool /\ e.rel = d.rel
        /\ e.cir = d.cir /\ e.nat = d.nat
        /\ e.dev = [x \in Devices |-> IF d.dev[x].dc = c THEN [d.dev[x] EXCEPT !.dc = None] ELSE d.dev[x]]
    BY Zenon, <1>0 DEF UnlinkDevices, Shaped, Tables
  <1>2. Shaped(e)
    BY Zenon, <1>0, <1>1 DEF Shaped
  <1>3. ASSUME NEW x \in Devices PROVE DevGood(d, e.dev[x]) /\ e.dev[x].st = d.dev[x].st
    <2>1. PICK v : v = d.dev[x]
      OBVIOUS
    <2>2. DevGood(d, v)
      BY Zenon, <2>1 DEF Good
    <2>3. CASE v.dc # c
      BY Zenon, <1>1, <2>1, <2>2, <2>3
    <2>4. CASE v.dc = c
      <3>1. PICK w : w = [v EXCEPT !.dc = None]
        OBVIOUS
      <3>2. e.dev[x] = w
        BY Zenon, <1>1, <2>1, <2>4, <3>1
      <3>3. DOMAIN w = DevColumns /\ w.st = v.st /\ w.dc = None /\ w.addrs = v.addrs
        BY Zenon, <2>2, <3>1 DEF DevGood, DevTyped, DevColumns
      <3>4. DevGood(d, w)
        BY Zenon, <2>2, <3>3 DEF DevGood, DevTyped, Ref
      <3> QED BY Zenon, <2>1, <3>2, <3>3, <3>4
    <2> QED BY Zenon, <2>3, <2>4
  <1>4. Lives(d, e)
    BY Zenon, <1>1, <1>3 DEF Lives, Live
  <1>5. \A x \in Devices : DevGood(e, e.dev[x])
    BY Zenon, <1>3, <1>4, RowsStayGood
  <1>6. Good(e)
    <2>1. \A k \in Datacenters : DcTyped(e.dc[k])
      BY Zenon, <1>1 DEF Good
    <2> QED BY Zenon, <1>1, <1>2, <1>4, <1>5, <2>1, StaysGood
  <1>7. Keeps(d, e, None)
    BY Zenon, <1>0, <1>1, <1>3 DEF Keeps, Shaped
  <1> QED BY Zenon, <1>6, <1>7

\* The row of a datacenter is deleted when no device and no network is in it.
LEMMA DeleteDatacenter ==
  ASSUME NEW d, Good(d), NEW c \in Datacenters, NEW r, r = DeleteDatacenterRow(d, c)
  PROVE  Good(r.db) /\ Keeps(d, r.db, "dc")
  <1>0. Shaped(d)
    BY Zenon DEF Good
  <1>1. CASE Dependent(d, c) # {} \/ \E n \in Networks : Live(d, "net", n) /\ d.net[n].dc = c
    <2>1. r.db = d
      BY Zenon, <1>1, Refused DEF DeleteDatacenterRow
    <2> QED BY Zenon, <2>1, KeepsAll
  <1>2. CASE ~(Dependent(d, c) # {} \/ \E n \in Networks : Live(d, "net", n) /\ d.net[n].dc = c)
    <2>1. PICK e : e = [d EXCEPT
             !.dc[c] = Gone("dc"),
             !.cir = [k \in Circuits |-> [d.cir[k] EXCEPT !.dcs = @ \ {c}]],
             !.nat = [m \in Mappings |-> IF @[m].dc = c THEN [@[m] EXCEPT !.dc = None] ELSE @[m]]]
      OBVIOUS
    <2>2. r.db = e
      <3>1. r = Done(e)
        BY Zenon, <1>2, <2>1 DEF DeleteDatacenterRow
      <3> QED BY Zenon, <3>1, Refused
    <2>3. /\ DOMAIN e = Tables /\ e.net = d.net /\ e.pool = d.pool /\ e.dev = d.dev /\ e.rel = d.rel
          /\ e.dc = [d.dc EXCEPT ![c] = Gone("dc")]
          /\ e.cir = [k \in Circuits |-> [d.cir[k] EXCEPT !.dcs = @ \ {c}]]
          /\ e.nat = [m \in Mappings |-> IF d.nat[m].dc = c THEN [d.nat[m] EXCEPT !.dc = None]
                                         ELSE d.nat[m]]
      BY Zenon, <1>0, <2>1 DEF Shaped, Tables
    <2>4. Shaped(e)
      BY Zenon, <1>0, <2>3 DEF Shaped
    <2>5. e.dc[c] = Gone("dc") /\ \A y \in Datacenters : y # c => e.dc[y] = d.dc[y]
      BY Zenon, <1>0, <2>3 DEF Shaped
    <2>6. \A y \in Datacenters \cup {None} :
            y # c => Live(d, "dc", y) = Live(e, "dc", y) /\ Ref(d, "dc", y) = Ref(e, "dc", y)
      BY Zenon, <2>5 DEF Live, Ref
    <2>7. \A y : /\ Ref(e, "dev", y) = Ref(d, "dev", y) /\ Ref(e, "net", y) = Ref(d, "net", y)
                 /\ Ref(e, "pool", y) = Ref(d, "pool", y) /\ Live(e, "net", y) = Live(d, "net", y)
                 /\ Live(e, "dev", y) = Live(d, "dev", y)
      BY Zenon, <2>3 DEF Ref, Live
    <2>8. \A n \in Networks : d.net[n].st = "live" => d.net[n].dc # c
      BY Zenon, <1>2, NullAssumption DEF Live
    <2>9. \A x \in Devices : d.dev[x].st = "live" => d.dev[x].dc # c
      BY Zenon, <1>2, NullAssumption DEF Live, Dependent
    <2>10. \A n \in Networks : NetGood(e, e.net[n])
      BY Zenon, <2>3, <2>6, <2>8 DEF Good, NetGood, NetTyped
    <2>11. \A p \in Pools : PoolGood(e, e.pool[p])
      BY Zenon, <2>3, <2>7 DEF Good, PoolGood
    <2>12. \A x \in Devices : DevGood(e, e.dev[x])
      BY Zenon, <2>3, <2>6, <2>7, <2>9 DEF Good, DevGood, DevTyped, AddressGood
    <2>13. \A s \in e.rel : RelGood(e, s)
      BY Zenon, <2>3, <2>7 DEF Good, RelGood
    <2>14. ASSUME NEW k \in Circuits PROVE CirGood(e, e.cir[k]) /\ e.cir[k].st = d.cir[k].st
      <3>1. PICK v, w : v = d.cir[k] /\ w = [v EXCEPT !.dcs = @ \ {c}]
        OBVIOUS
      <3>2. e.cir[k] = w /\ CirGood(d, v)
        BY Zenon, <3>1, <2>3 DEF Good
      <3>3. DOMAIN w = DOMAIN v /\ w.st = v.st /\ w.dcs = v.dcs \ {c} /\ w.devs = v.devs
        BY Zenon, <3>1, <3>2 DEF CirGood, CirTyped
      <3>4. CirTyped(w)
        BY Zenon, <3>2, <3>3 DEF CirGood, CirTyped
      <3>5. v.st = "live" => CircuitRefs(e, w)
        BY Zenon, <3>2, <3>3, <2>6, <2>7 DEF CirGood, CirTyped, CircuitRefs
      <3> QED BY Zenon, <3>1, <3>2, <3>3, <3>4, <3>5 DEF CirGood
    <2>15. ASSUME NEW m \in Mappings PROVE NatGood(e, e.nat[m]) /\ e.nat[m].st = d.nat[m].st
      <3>1. PICK v : v = d.nat[m]
        OBVIOUS
      <3>2. NatGood(d, v)
        BY Zenon, <3>1 DEF Good
      <3>3. CASE v.dc = c
        <4>1. PICK w : w = [v EXCEPT !.dc = None]
          OBVIOUS
        <4>2. e.nat[m] = w
          BY Zenon, <3>1, <3>3, <4>1, <2>3
        <4>3. DOMAIN w = DOMAIN v /\ w.st = v.st /\ w.dc = None /\ w.dev = v.dev /\ w.net = v.net
          BY Zenon, <3>2, <4>1 DEF NatGood, NatTyped
        <4>4. NatTyped(w)
          BY Zenon, <3>2, <4>3 DEF NatGood, NatTyped
        <4>5. Ref(e, "dc", None)
          BY Zenon DEF Ref
        <4>6. v.st = "live" => MappingRefs(e, w)
          BY Zenon, <3>2, <4>3, <4>5, <2>7 DEF NatGood, MappingRefs
        <4> QED BY Zenon, <3>1, <4>2, <4>3, <4>4, <4>6 DEF NatGood
      <3>4. CASE v.dc # c
        <4>1. e.nat[m] = v
          BY Zenon, <3>1, <3>4, <2>3
        <4>2. v.st = "live" => MappingRefs(e, v)
          BY Zenon, <3>2, <3>4, <2>6, <2>7 DEF NatGood, NatTyped, MappingRefs
        <4> QED BY Zenon, <3>1, <3>2, <4>1, <4>2 DEF NatGood
      <3> QED BY Zenon, <3>3, <3>4
    <2>16. \A y \in Datacenters : DcTyped(e.dc[y])
      BY Zenon, <2>5, GoneRows DEF Good
    <2>17. Good(e)
      BY Zenon, <2>4, <2>10, <2>11, <2>12, <2>13, <2>14, <2>15, <2>16 DEF Good
    <2>18. Keeps(d, e, "dc")
      BY Zenon, <1>0, <2>3, <2>14, <2>15 DEF Keeps, Shaped
    <2> QED BY Zenon, <2>2, <2>17, <2>18
  <1> QED BY Zenon, <1>1, <1>2

\* Relationships are replaced by ones between live devices.
LEMMA RelateDevices ==
  ASSUME NEW d, Good(d), NEW rs, \A s \in rs : RelGood(d, s), NEW e, e = [d EXCEPT !.rel = rs]
  PROVE  Good(e) /\ Keeps(d, e, None)
  <1>0. Shaped(d)
    BY Zenon DEF Good
  <1>1. /\ DOMAIN e = Tables /\ e.dc = d.dc /\ e.net = d.net /\ e.pool = d.pool /\ e.dev = d.dev
        /\ e.cir = d.cir /\ e.nat = d.nat /\ e.rel = rs
    BY Zenon, <1>0 DEF Shaped, Tables
  <1>2. Shaped(e)
    BY Zenon, <1>0, <1>1 DEF Shaped
  <1>3. Lives(d, e)
    BY Zenon, <1>1 DEF Lives, Live
  <1>4. \A s \in e.rel : RelGood(e, s)
    BY Zenon, <1>1, <1>3, RowsStayGood
  <1>5. \A c \in Datacenters : DcTyped(e.dc[c])
    BY Zenon, <1>1 DEF Good
  <1>6. Good(e)
    BY Zenon, <1>1, <1>2, <1>3, <1>4, <1>5, StaysGood
  <1>7. Keeps(d, e, None)
    BY Zenon, <1>1 DEF Keeps
  <1> QED BY Zenon, <1>6, <1>7

\* A relationship is added, removed or annotated.
LEMMA Relationships ==
  ASSUME NEW d, Good(d), NEW x \in Devices, NEW y \in Devices, NEW note, NEW r,
         \/ r = AddRelationship(d, x, y, note) \/ r = RemoveRelationship(d, x, y)
         \/ r = UpdateRelationshipNotes(d, x, y, note)
  PROVE  Good(r.db) /\ Keeps(d, r.db, None)
  <1>0. \A s \in d.rel : RelGood(d, s)
    BY Zenon DEF Good
  <1>1. ASSUME NEW rs, \A s \in rs : RelGood(d, s), r = Done([d EXCEPT !.rel = rs])
        PROVE  Good(r.db) /\ Keeps(d, r.db, None)
    <2>1. PICK e : e = [d EXCEPT !.rel = rs]
      OBVIOUS
    <2>2. Good(e) /\ Keeps(d, e, None)
      BY Zenon, <1>1, <2>1, RelateDevices
    <2>3. r = Done(e)
      BY Zenon, <1>1, <2>1
    <2> QED BY Zenon, <2>2, <2>3, Refused
  <1>2. CASE r = AddRelationship(d, x, y, note)
    <2>1. CASE ~Live(d, "dev", x) \/ ~Live(d, "dev", y)
      BY Zenon, <1>2, <2>1, Refused, KeepsAll DEF AddRelationship
    <2>2. CASE ~(~Live(d, "dev", x) \/ ~Live(d, "dev", y))
      <3>1. PICK n : n = [parent |-> x, child |-> y, notes |-> note]
        OBVIOUS
      <3>2. PICK rs : rs = {s \in d.rel : <<s.parent, s.child>> # <<x, y>>} \cup {n}
        OBVIOUS
      <3>3. r = Done([d EXCEPT !.rel = rs])
        BY Zenon, <1>2, <2>2, <3>1, <3>2 DEF AddRelationship
      <3>4. DOMAIN n = {"parent", "child", "notes"} /\ n.parent = x /\ n.child = y
        BY Zenon, <3>1
      <3>5. RelGood(d, n)
        BY Zenon, <2>2, <3>4 DEF RelGood, RelTyped
      <3>6. \A s \in rs : s \in d.rel \/ s = n
        BY Zenon, <3>2
      <3>7. \A s \in rs : RelGood(d, s)
        BY Zenon, <1>0, <3>5, <3>6
      <3> QED BY Zenon, <1>1, <3>3, <3>7
    <2> QED BY Zenon, <2>1, <2>2
  <1>3. CASE r = RemoveRelationship(d, x, y)
    <2>1. PICK rs : rs = {s \in d.rel : <<s.parent, s.child>> # <<x, y>>}
      OBVIOUS
    <2>2. r = Done([d EXCEPT !.rel = rs])
      BY Zenon, <1>3, <2>1 DEF RemoveRelationship
    <2>3. \A s \in rs : RelGood(d, s)
      BY Zenon, <1>0, <2>1
    <2> QED BY Zenon, <1>1, <2>2, <2>3
  <1>4. CASE r = UpdateRelationshipNotes(d, x, y, note)
    <2>1. PICK rs : rs = {IF <<s.parent, s.child>> = <<x, y>> THEN [s EXCEPT !.notes = note] ELSE s : s \in d.rel}
      OBVIOUS
    <2>2. r = Done([d EXCEPT !.rel = rs])
      BY Zenon, <1>4, <2>1 DEF UpdateRelationshipNotes
    <2>3. ASSUME NEW s \in rs PROVE RelGood(d, s)
      <3>1. PICK o \in d.rel : s = o \/ s = [o EXCEPT !.notes = note]
        BY Zenon, <2>1
      <3>2. RelGood(d, o)
        BY Zenon, <1>0
      <3>3. CASE s = o
        BY Zenon, <3>2, <3>3
      <3>4. CASE s = [o EXCEPT !.notes = note]
        <4>1. DOMAIN s = DOMAIN o /\ s.parent = o.parent /\ s.child = o.child
          BY Zenon, <3>2, <3>4 DEF RelGood, RelTyped
        <4> QED BY Zenon, <3>2, <4>1 DEF RelGood, RelTyped
      <3> QED BY Zenon, <3>1, <3>3, <3>4
    <2> QED BY Zenon, <1>1, <2>2, <2>3
  <1> QED BY Zenon, <1>2, <1>3, <1>4

\* The row of a circuit is written.
LEMMA WriteCircuit ==
  ASSUME NEW d, Good(d), NEW k \in Circuits, NEW v, CirGood(d, v), NEW r, r = Done([d EXCEPT !.cir[k] = v])
  PROVE  Good(r.db) /\ Keeps(d, r.db, "cir")
  <1>0. Shaped(d)
    BY Zenon DEF Good
  <1>1. PICK e : e = [d EXCEPT !.cir[k] = v]
    OBVIOUS
  <1>2. r.db = e
    BY Zenon, <1>1, Refused
  <1>3. Wrote(d, e, "cir", k, v)
    BY Zenon, <1>0, <1>1, RowWritten
  <1>4. Good(e)
    BY Zenon, <1>3, WrittenStaysGood
  <1>5. Keeps(d, e, "cir")
    BY Zenon, <1>3 DEF Wrote, Rest, Keeps, Tables
  <1> QED BY Zenon, <1>2, <1>4, <1>5

\* A circuit is created, updated or deleted.
LEMMA SaveCircuit ==
  ASSUME NEW d, Good(d), NEW k \in Circuits, NEW in, in.devs \subseteq Devices, in.dcs \subseteq Datacenters, NEW r,
         \/ r = CreateCircuit(d, k, in)
         \/ CirTyped(in) /\ in.st = "live" /\ r = UpdateCircuit(d, k, in)
         \/ r = DeleteCircuit(d, k)
  PROVE  Good(r.db) /\ Keeps(d, r.db, "cir")
  <1>1. CASE r = CreateCircuit(d, k, in)
    <2>1. CASE Live(d, "cir", k) \/ ~CircuitRefs(d, in)
      BY Zenon, <1>1, <2>1, Refused, KeepsAll DEF CreateCircuit
    <2>2. CASE ~(Live(d, "cir", k) \/ ~CircuitRefs(d, in))
      <3>1. PICK v : v = [st |-> "live", devs |-> in.devs, dcs |-> in.dcs]
        OBVIOUS
      <3>2. r = Done([d EXCEPT !.cir[k] = v])
        BY Zenon, <1>1, <2>2, <3>1 DEF CreateCircuit
      <3>3. DOMAIN v = {"st", "devs", "dcs"} /\ v.st = "live" /\ v.devs = in.devs /\ v.dcs = in.dcs
        BY Zenon, <3>1
      <3>4. CirGood(d, v)
        BY Zenon, <2>2, <3>3 DEF CirGood, CirTyped, CircuitRefs
      <3> QED BY Zenon, <3>2, <3>4, WriteCircuit
    <2> QED BY Zenon, <2>1, <2>2
  <1>2. CASE CirTyped(in) /\ in.st = "live" /\ r = UpdateCircuit(d, k, in)
    <2>1. CASE ~Live(d, "cir", k) \/ ~CircuitRefs(d, in)
      BY Zenon, <1>2, <2>1, Refused, KeepsAll DEF UpdateCircuit
    <2>2. CASE ~(~Live(d, "cir", k) \/ ~CircuitRefs(d, in))
      <3>1. r = Done([d EXCEPT !.cir[k] = in])
        BY Zenon, <1>2, <2>2 DEF UpdateCircuit
      <3>2. CirGood(d, in)
        BY Zenon, <1>2, <2>2 DEF CirGood
      <3> QED BY Zenon, <3>1, <3>2, WriteCircuit
    <2> QED BY Zenon, <2>1, <2>2
  <1>3. CASE r = DeleteCircuit(d, k)
    <2>1. CASE ~Live(d, "cir", k)
      BY Zenon, <1>3, <2>1, Refused, KeepsAll DEF DeleteCircuit
    <2>2. CASE Live(d, "cir", k)
      <3>1. PICK v : v = Gone("cir")
        OBVIOUS
      <3>2. r = Done([d EXCEPT !.cir[k] = v])
        BY Zenon, <1>3, <2>2, <3>1 DEF DeleteCircuit
      <3>3. CirGood(d, v)
        BY Zenon, <3>1, GoneRows DEF CirGood
      <3> QED BY Zenon, <3>2, <3>3, WriteCircuit
    <2> QED BY Zenon, <2>1, <2>2
  <1> QED BY Zenon, <1>1, <1>2, <1>3

\* The row of a NAT mapping is written.
LEMMA WriteMapping ==
  ASSUME NEW d, Good(d), NEW m \in Mappings, NEW v, NatGood(d, v), NEW r, r = Done([d EXCEPT !.nat[m] = v])
  PROVE  Good(r.db) /\ Keeps(d, r.db, "nat")
  <1>0. Shaped(d)
    BY Zenon DEF Good
  <1>1. PICK e : e = [d EXCEPT !.nat[m] = v]
    OBVIOUS
  <1>2. r.db = e
    BY Zenon, <1>1, Refused
  <1>3. Wrote(d, e, "nat", m, v)
    BY Zenon, <1>0, <1>1, RowWritten
  <1>4. Good(e)
    BY Zenon, <1>3, WrittenStaysGood
  <1>5. Keeps(d, e, "nat")
    BY Zenon, <1>3 DEF Wrote, Rest, Keeps, Tables
  <1> QED BY Zenon, <1>2, <1>4, <1>5

\* What a mapping refers to.
Endpoints(in) == /\ in.dev \in Devices \cup {None} /\ in.dc \in Datacenters \cup {None}
                 /\ in.net \in Networks \cup {None}

\* A NAT mapping is created, updated or deleted.
LEMMA SaveMapping ==
  ASSUME NEW d, Good(d), NEW m \in Mappings, NEW in, NEW r,
         \/ Endpoints(in) /\ r = CreateNATMapping(d, m, in)
         \/ NatTyped(in) /\ in.st = "live" /\ r = UpdateNATMapping(d, m, in)
         \/ r = DeleteNATMapping(d, m)
  PROVE  Good(r.db) /\ Keeps(d, r.db, "nat")
  <1>1. CASE Endpoints(in) /\ r = CreateNATMapping(d, m, in)
    <2>1. CASE Live(d, "nat", m) \/ ~MappingRefs(d, in)
      BY Zenon, <1>1, <2>1, Refused, KeepsAll DEF CreateNATMapping
    <2>2. CASE ~(Live(d, "nat", m) \/ ~MappingRefs(d, in))
      <3>1. PICK v : v = [st |-> "live", dev |-> in.dev, dc |-> in.dc, net |-> in.net]
        OBVIOUS
      <3>2. r = Done([d EXCEPT !.nat[m] = v])
        BY Zenon, <1>1, <2>2, <3>1 DEF CreateNATMapping
      <3>3. /\ DOMAIN v = {"st", "dev", "dc", "net"} /\ v.st = "live" /\ v.dev = in.dev /\ v.dc = in.dc
            /\ v.net = in.net
        BY Zenon, <3>1
      <3>4. NatGood(d, v)
        BY Zenon, <1>1, <2>2, <3>3 DEF NatGood, NatTyped, MappingRefs, Endpoints
      <3> QED BY Zenon, <3>2, <3>4, WriteMapping
    <2> QED BY Zenon, <2>1, <2>2
  <1>2. CASE NatTyped(in) /\ in.st = "live" /\ r = UpdateNATMapping(d, m, in)
    <2>1. CASE ~Live(d, "nat", m) \/ ~MappingRefs(d, in)
      BY Zenon, <1>2, <2>1, Refused, KeepsAll DEF UpdateNATMapping
    <2>2. CASE ~(~Live(d, "nat", m) \/ ~MappingRefs(d, in))
      <3>1. r = Done([d EXCEPT !.nat[m] = in])
        BY Zenon, <1>2, <2>2 DEF UpdateNATMapping
      <3>2. NatGood(d, in)
        BY Zenon, <1>2, <2>2 DEF NatGood
      <3> QED BY Zenon, <3>1, <3>2, WriteMapping
    <2> QED BY Zenon, <2>1, <2>2
  <1>3. CASE r = DeleteNATMapping(d, m)
    <2>1. CASE ~Live(d, "nat", m)
      BY Zenon, <1>3, <2>1, Refused, KeepsAll DEF DeleteNATMapping
    <2>2. CASE Live(d, "nat", m)
      <3>1. PICK v : v = Gone("nat")
        OBVIOUS
      <3>2. r = Done([d EXCEPT !.nat[m] = v])
        BY Zenon, <1>3, <2>2, <3>1 DEF DeleteNATMapping
      <3>3. NatGood(d, v)
        BY Zenon, <3>1, GoneRows DEF NatGood
      <3> QED BY Zenon, <3>2, <3>3, WriteMapping
    <2> QED BY Zenon, <2>1, <2>2
  <1> QED BY Zenon, <1>1, <1>2, <1>3

\* The server starts with a datacenter.
LEMMA DefaultDatacenter ==
  ASSUME NEW d, Good(d), NEW e \in ensureDefaultDatacenter(d)
  PROVE  Good(e) /\ Keeps(d, e, None)
  <1>1. CASE e = d
    BY Zenon, <1>1, KeepsAll
  <1>2. CASE \E c \in Datacenters : d.dc[c].st = "fresh" /\ e = [d EXCEPT !.dc[c] = [st |-> "live", name |-> "first"]]
    <2>1. PICK c \in Datacenters :
             d.dc[c].st = "fresh" /\ e = [d EXCEPT !.dc[c] = [st |-> "live", name |-> "first"]]
      BY Zenon, <1>2
    <2>2. ~Live(d, "dc", c)
      <3>1. "fresh" # "live"
        OBVIOUS
      <3> QED BY Zenon, <2>1, <3>1 DEF Live
    <2>3. PICK r : r = CreateDatacenter(d, c, "first")
      OBVIOUS
    <2>4. r = Done(e)
      BY Zenon, <2>1, <2>2, <2>3 DEF CreateDatacenter
    <2>5. Good(r.db) /\ Keeps(d, r.db, None)
      BY Zenon, <2>3, SaveDatacenter
    <2> QED BY Zenon, <2>4, <2>5, Refused
  <1>3. e = d \/ \E c \in Datacenters : d.dc[c].st = "fresh" /\ e = [d EXCEPT !.dc[c] = [st |-> "live", name |-> "first"]]
    BY Zenon DEF ensureDefaultDatacenter
  <1> QED BY Zenon, <1>1, <1>2, <1>3

-----------------------------------------------------------------------------
(* Inventory: the requests.                                                    *)

\* Rows of one table go, or a network goes with its pools.
Reaches(d, e) == (\E t \in {"dc", "dev", "cir", "nat"} : Keeps(d, e, t)) \/ NetGoes(d, e)

\* What a request holds between two of its steps has the shape of a row.
ReqGood(q) ==
    /\ DOMAIN q = {"pc", "id", "row"}
    /\ q.pc = "device" => q.id \in Devices /\ DevTyped(q.row)
    /\ q.pc = "network" => q.id \in Networks /\ q.row.dc \in Datacenters \cup {None}
    /\ q.pc \in {"datacenter", "unlink", "delete"} => q.id \in Datacenters
    /\ q.pc = "circuit" => q.id \in Circuits /\ CirTyped(q.row) /\ q.row.st = "live"
    /\ q.pc = "nat" => q.id \in Mappings /\ NatTyped(q.row) /\ q.row.st = "live"

\* The inductive invariant: references resolve, rows being written back are
\* rows, and what the last bulk request counted is so.
InventoryInv ==
    /\ Good(db)
    /\ DOMAIN req = Reqs /\ \A p \in Reqs : ReqGood(req[p])
    /\ BulkReportsHold

\* What a step leads to.
Moved == InventoryInv' /\ Reaches(db, db')

\* Keeping everything is one way.
LEMMA KeepsReach == \A d, e, t : t \in {None, "dc", "dev", "cir", "nat"} /\ Keeps(d, e, t) => Reaches(d, e)
  <1>1. \A d, e : Keeps(d, e, None) => Keeps(d, e, "dc")
    BY Zenon DEF Keeps, None
  <1> QED BY Zenon, <1>1 DEF Reaches

\* An idle request holds nothing, and an empty report counts nothing.
LEMMA IdleGood == ReqGood(Idle) /\ NoReport.done = {}
  <1>1. PICK q : q = Idle
    OBVIOUS
  <1>2. DOMAIN q = {"pc", "id", "row"} /\ q.pc = "idle"
    BY Zenon, <1>1 DEF Idle
  <1>3. "idle" \notin {"device", "network", "datacenter", "unlink", "delete", "circuit", "nat"}
    OBVIOUS
  <1>4. ReqGood(q)
    BY Zenon, <1>2, <1>3 DEF ReqGood
  <1>5. NoReport.done = {}
    BY Zenon DEF NoReport
  <1> QED BY Zenon, <1>1, <1>4, <1>5

\* With nothing counted the report holds.
LEMMA EmptyReport == report' = NoReport => BulkReportsHold'
  BY Zenon, IdleGood DEF BulkReportsHold

\* A request of one transaction.
LEMMA Committed ==
  ASSUME InventoryInv, NEW r, Good(r.db), Reaches(db, r.db), Commit(r)
  PROVE  Moved
  <1>1. db' = r.db /\ req' = req /\ report' = NoReport
    BY Zenon DEF Commit
  <1>2. Good(db)' /\ Reaches(db, db')
    <2>1. Good(db') /\ Reaches(db, db')
      BY Zenon, <1>1
    <2> QED BY Zenon, <2>1
  <1>3. (DOMAIN req = Reqs /\ \A p \in Reqs : ReqGood(req[p]))'
    BY Zenon, <1>1 DEF InventoryInv
  <1> QED BY Zenon, <1>1, <1>2, <1>3, EmptyReport DEF Moved, InventoryInv

\* The write of a request that had read before.
LEMMA Finished ==
  ASSUME InventoryInv, NEW p \in Reqs, NEW r, Good(r.db), Reaches(db, r.db), Finish(p, r)
  PROVE  Moved
  <1>1. /\ db' = r.db \/ db' = db
        /\ req' = [req EXCEPT ![p] = Idle] /\ report' = NoReport
    BY Zenon DEF Finish
  <1>2. Good(db) /\ Reaches(db, db)
    BY Zenon, KeepsAll, KeepsReach DEF InventoryInv
  <1>3. Good(db') /\ Reaches(db, db')
    BY Zenon, <1>1, <1>2
  <1>4. (DOMAIN req = Reqs /\ \A q \in Reqs : ReqGood(req[q]))'
    BY Zenon, <1>1, IdleGood DEF InventoryInv
  <1> QED BY Zenon, <1>1, <1>3, <1>4, EmptyReport DEF Moved, InventoryInv

\* A request reads a row and holds it.
LEMMA Held ==
  ASSUME InventoryInv, NEW p \in Reqs, NEW what, NEW x, NEW row,
         ReqGood([pc |-> what, id |-> x, row |-> row]), Hold(p, what, x, row)
  PROVE  Moved
  <1>1. PICK q : q = [pc |-> what, id |-> x, row |-> row]
    OBVIOUS
  <1>2. req' = [req EXCEPT ![p] = q] /\ db' = db /\ report' = report
    BY Zenon, <1>1 DEF Hold
  <1>3. Good(db) /\ Reaches(db, db)
    BY Zenon, KeepsAll, KeepsReach DEF InventoryInv
  <1>4. Good(db') /\ Reaches(db, db')
    BY Zenon, <1>2, <1>3
  <1>5. (DOMAIN req = Reqs /\ \A o \in Reqs : ReqGood(req[o]))'
    BY Zenon, <1>1, <1>2 DEF InventoryInv
  <1>6. BulkReportsHold'
    BY Zenon, <1>2 DEF InventoryInv, BulkReportsHold
  <1> QED BY Zenon, <1>4, <1>5, <1>6 DEF Moved, InventoryInv

\* What is counted as a success is one.
Counted(op, in, acc) ==
    \A y \in acc.done : /\ op = "delete" => acc.db.dev[y].st = "gone"
                        /\ op \in {"create", "update"} => Saved(acc.db, y, in)

\* A bulk request is committed.
LEMMA BulkMoved ==
  ASSUME InventoryInv, NEW op, NEW in, NEW acc, Good(acc.db), Reaches(db, acc.db), Counted(op, in, acc),
         BulkCommit(op, in, acc)
  PROVE  Moved
  <1>1. PICK o : o = [op |-> op, done |-> acc.done, in |-> in]
    OBVIOUS
  <1>2. db' = acc.db /\ req' = req /\ report' = o
    BY Zenon, <1>1 DEF BulkCommit
  <1>3. o.op = op /\ o.done = acc.done /\ o.in = in
    BY Zenon, <1>1
  <1>4. Good(db') /\ Reaches(db, db')
    BY Zenon, <1>2
  <1>5. (DOMAIN req = Reqs /\ \A p \in Reqs : ReqGood(req[p]))'
    BY Zenon, <1>2 DEF InventoryInv
  <1>6. BulkReportsHold'
    BY Zenon, <1>2, <1>3 DEF BulkReportsHold, Counted, Saved
  <1> QED BY Zenon, <1>4, <1>5, <1>6 DEF Moved, InventoryInv

\* The turn for the item x goes on from acc to b.
Turned(acc, x, r, b) == b.db = r.db /\ \A y \in b.done : y \in acc.done \/ (y = x /\ r.ok)

\* One turn of a bulk loop.
LEMMA BulkTurn ==
  ASSUME NEW acc, NEW x, NEW r, NEW b, b = BulkItem(acc, x, r)
  PROVE  /\ x = None => b = acc
         /\ x # None => Turned(acc, x, r, b)
  <1>1. CASE x = None
    BY Zenon, <1>1 DEF BulkItem
  <1>2. CASE x # None
    <2>1. PICK s, o : s = (IF r.ok THEN acc.done \cup {x} ELSE acc.done) /\ o = r.db
      OBVIOUS
    <2>2. b = [db |-> o, done |-> s]
      BY Zenon, <1>2, <2>1 DEF BulkItem
    <2>3. b.db = o /\ b.done = s
      BY <2>2
    <2> QED BY Zenon, <1>2, <2>1, <2>3 DEF Turned
  <1> QED BY Zenon, <1>1, <1>2

\* The first turn begins with the tables as they are.
LEMMA FirstTurn == NothingYet.db = db /\ NothingYet.done = {}
  BY Zenon DEF NothingYet

\* What two turns keep.
LEMMA KeepsTwice ==
  ASSUME NEW d, NEW e, NEW f, Good(d), Good(e), NEW t, Keeps(d, e, t), Keeps(e, f, t)
  PROVE  Keeps(d, f, t)
  <1>1. \A u \in {"dc", "net", "pool", "dev", "cir", "nat"} : DOMAIN e[u] = DOMAIN d[u]
    BY Zenon DEF Good, Shaped
  <1> QED BY Zenon, <1>1 DEF Keeps

\* Two networks go.
LEMMA NetGoesTwice ==
  ASSUME NEW d, NEW e, NEW f, Good(d), Good(e), NetGoes(d, e), NetGoes(e, f)
  PROVE  NetGoes(d, f)
  <1>1. \A u \in {"dc", "dev", "cir", "nat"} : DOMAIN e[u] = DOMAIN d[u]
    BY Zenon DEF Good, Shaped
  <1>2. \A u \in {"dc", "dev", "cir", "nat"} : \A x \in DOMAIN d[u] : d[u][x].st = "live" => f[u][x].st = "live"
    BY Zenon, <1>1 DEF NetGoes
  <1>3. \A p \in Pools : f.pool[p].st = "live" => f.pool[p] = d.pool[p]
    BY Zenon DEF NetGoes
  <1>4. \A n \in Networks : f.net[n].st = "live" => d.net[n].st = "live"
    BY Zenon DEF NetGoes
  <1>5. \A x \in Devices : (f.dev[x].addrs = {}) = (d.dev[x].addrs = {})
    BY Zenon DEF NetGoes
  <1>6. ASSUME NEW p \in Pools, d.pool[p].st = "live", f.pool[p].st # "live"
        PROVE  d.pool[p].net \in Networks /\ d.net[d.pool[p].net].st = "live" /\ f.net[d.pool[p].net].st # "live"
    <2>1. CASE e.pool[p].st # "live"
      BY Zenon, <1>6, <2>1 DEF NetGoes
    <2>2. CASE e.pool[p].st = "live"
      <3>1. e.pool[p] = d.pool[p]
        BY Zenon, <2>2 DEF NetGoes
      <3>2. e.pool[p].net \in Networks /\ e.net[e.pool[p].net].st = "live" /\ f.net[e.pool[p].net].st # "live"
        BY Zenon, <1>6, <2>2 DEF NetGoes
      <3>3. d.net[e.pool[p].net].st = "live"
        BY Zenon, <3>2 DEF NetGoes
      <3> QED BY Zenon, <3>1, <3>2, <3>3
    <2> QED BY Zenon, <2>1, <2>2
  <1> QED BY Zenon, <1>2, <1>3, <1>4, <1>5, <1>6 DEF NetGoes

\* A device that is as the body says can be updated with the same body.
LEMMA UpdateAgain ==
  ASSUME NEW d, Good(d), NEW x \in Devices, NEW in, Saved(d, x, in), NEW r, r = updateDeviceInTx(d, x, in)
  PROVE  r.ok
  <1>1. Shaped(d) /\ DevGood(d, d.dev[x])
    BY Zenon DEF Good
  <1>2. Live(d, "dev", x) /\ Ref(d, "dc", in.dc) /\ \A a \in in.addrs : AddressGood(d, a)
    BY Zenon, <1>1, NullAssumption DEF Saved, DevGood, Live
  <1>3. PICK v : v = [st |-> "live", dc |-> in.dc, addrs |-> {}, tags |-> {},
                      status |-> IF in.status = None THEN d.dev[x].status ELSE in.status]
    OBVIOUS
  <1>4. PICK e : e = [d EXCEPT !.dev[x] = v]
    OBVIOUS
  <1>5. r = insertDeviceRows(e, x, in)
    BY Zenon, <1>2, <1>3, <1>4 DEF updateDeviceInTx
  <1>6. Wrote(d, e, "dev", x, v)
    BY Zenon, <1>1, <1>4, RowWritten
  <1>7. e.net = d.net /\ e.pool = d.pool
    BY Zenon, <1>6 DEF Wrote, Rest, Tables
  <1>8. \A a \in in.addrs : Ref(e, "net", a.net) /\ Ref(e, "pool", a.pool)
    BY Zenon, <1>2, <1>7 DEF AddressGood, Ref, Live
  <1>9. PICK f : f = [e EXCEPT !.dev[x].addrs = in.addrs]
    OBVIOUS
  <1>10. PICK i : i = insertDeviceAddresses(e, x, in.addrs)
    OBVIOUS
  <1>11. i = Done(f)
    BY Zenon, <1>8, <1>9, <1>10 DEF insertDeviceAddresses
  <1>12. i.ok
    BY Zenon, <1>11, Refused
  <1>13. r = insertDeviceTags(i.db, x, in.tags)
    BY Zenon, <1>5, <1>10, <1>12 DEF insertDeviceRows
  <1> QED BY Zenon, <1>13, Refused DEF insertDeviceTags

\* The items of a batch.
LEMMA BatchItems == \A S : \A xs \in Batches(S) : xs[1] \in S /\ xs[2] \in S \cup {None}
  BY SMT DEF Batches

\* Devices are created in bulk.
LEMMA BulkCreated ==
  ASSUME InventoryInv, NEW x \in Devices, NEW in, Body(in),
         BulkCommit("create", in, BulkCreateDevices(<<x, None>>, in))
  PROVE  Moved
  <1>1. PICK r, a : r = createDeviceInTx(NothingYet.db, x, in) /\ a = BulkItem(NothingYet, x, r)
    OBVIOUS
  <1>2. PICK q, b : q = createDeviceInTx(a.db, None, in) /\ b = BulkItem(a, None, q)
    OBVIOUS
  <1>3. BulkCreateDevices(<<x, None>>, in) = b
    BY <1>1, <1>2 DEF BulkCreateDevices
  <1>4. b = a
    BY Zenon, <1>2, BulkTurn
  <1>5. r = createDeviceInTx(db, x, in) /\ Good(db)
    BY Zenon, <1>1, FirstTurn DEF InventoryInv
  <1>6. Good(r.db) /\ Keeps(db, r.db, "dev") /\ (r.ok => Saved(r.db, x, in))
    BY Zenon, <1>5, CreateDevice
  <1>7. a.db = r.db /\ \A y \in a.done : y = x /\ r.ok
    <2>1. Turned(NothingYet, x, r, a)
      BY Zenon, <1>1, BulkTurn, NullAssumption
    <2> QED BY Zenon, <2>1, FirstTurn DEF Turned
  <1>8. Reaches(db, a.db)
    BY Zenon, <1>6, <1>7, KeepsReach
  <1>9. Counted("create", in, a)
    <2>1. "create" # "delete"
      OBVIOUS
    <2> QED BY Zenon, <1>6, <1>7, <2>1 DEF Counted
  <1>10. BulkCommit("create", in, a)
    BY Zenon, <1>3, <1>4
  <1> QED BY Zenon, <1>6, <1>7, <1>8, <1>9, <1>10, BulkMoved

\* Devices are updated in bulk, the same one twice included.
LEMMA BulkUpdated ==
  ASSUME InventoryInv, NEW xs \in Batches(Devices), NEW in, Body(in),
         BulkCommit("update", in, BulkUpdateDevices(xs, in))
  PROVE  Moved
  <1>0. PICK x, z : x = xs[1] /\ z = xs[2]
    OBVIOUS
  <1>1. PICK r, a : r = updateDeviceInTx(NothingYet.db, x, in) /\ a = BulkItem(NothingYet, x, r)
    OBVIOUS
  <1>2. PICK q, b : q = updateDeviceInTx(a.db, z, in) /\ b = BulkItem(a, z, q)
    OBVIOUS
  <1>3. BulkUpdateDevices(xs, in) = b
    BY Zenon, <1>0, <1>1, <1>2 DEF BulkUpdateDevices
  <1>4. x \in Devices /\ z \in Devices \cup {None} /\ x # None
    BY Zenon, <1>0, BatchItems, NullAssumption
  <1>5. r = updateDeviceInTx(db, x, in) /\ Good(db)
    BY Zenon, <1>1, FirstTurn DEF InventoryInv
  <1>6. Good(r.db) /\ Keeps(db, r.db, "dev") /\ (r.ok => Saved(r.db, x, in))
    BY Zenon, <1>4, <1>5, UpdateDevice
  <1>7. a.db = r.db /\ \A y \in a.done : y = x /\ r.ok
    <2>1. Turned(NothingYet, x, r, a)
      BY Zenon, <1>1, <1>4, BulkTurn
    <2> QED BY Zenon, <2>1, FirstTurn DEF Turned
  <1>8. "update" # "delete"
    OBVIOUS
  <1>9. BulkCommit("update", in, b)
    BY Zenon, <1>3
  <1>10. Good(b.db) /\ Keeps(db, b.db, "dev") /\ Counted("update", in, b)
    <2>1. CASE z = None
      <3>1. b = a
        BY Zenon, <1>2, <2>1, BulkTurn
      <3> QED BY Zenon, <1>6, <1>7, <1>8, <3>1 DEF Counted
    <2>2. CASE z \in Devices
      <3>1. z # None /\ q = updateDeviceInTx(r.db, z, in)
        BY Zenon, <1>2, <1>7, <2>2, NullAssumption
      <3>2. Good(q.db) /\ Keeps(r.db, q.db, "dev") /\ Spares(r.db, q.db, z) /\ (q.ok => Saved(q.db, z, in))
        BY Zenon, <1>6, <2>2, <3>1, UpdateDevice
      <3>3. b.db = q.db /\ \A y \in b.done : (y = x /\ r.ok) \/ (y = z /\ q.ok)
        <4>1. Turned(a, z, q, b)
          BY Zenon, <1>2, <3>1, BulkTurn
        <4> QED BY Zenon, <1>7, <4>1 DEF Turned
      <3>4. Keeps(db, q.db, "dev")
        BY Zenon, <1>5, <1>6, <3>2, KeepsTwice
      <3>5. r.ok => Saved(q.db, x, in)
        <4>1. CASE x # z
          BY Zenon, <1>4, <1>6, <3>2, <4>1 DEF Spares, Saved
        <4>2. CASE x = z
          <5>1. r.ok => q.ok
            BY Zenon, <1>6, <2>2, <3>1, <4>2, UpdateAgain
          <5> QED BY Zenon, <3>2, <4>2, <5>1
        <4> QED BY Zenon, <4>1, <4>2
      <3> QED BY Zenon, <1>8, <3>2, <3>3, <3>4, <3>5 DEF Counted
    <2> QED BY Zenon, <1>4, <2>1, <2>2
  <1>11. Reaches(db, b.db)
    BY Zenon, <1>10, KeepsReach
  <1> QED BY Zenon, <1>9, <1>10, <1>11, BulkMoved

\* Devices are deleted in bulk.
LEMMA BulkDeleted ==
  ASSUME InventoryInv, NEW xs \in Batches(Devices), NEW in,
         BulkCommit("delete", in, BulkDeleteDevices(xs))
  PROVE  Moved
  <1>0. PICK x, z : x = xs[1] /\ z = xs[2]
    OBVIOUS
  <1>1. PICK r, a : r = deleteDeviceInTx(NothingYet.db, x) /\ a = BulkItem(NothingYet, x, r)
    OBVIOUS
  <1>2. PICK q, b : q = deleteDeviceInTx(a.db, z) /\ b = BulkItem(a, z, q)
    OBVIOUS
  <1>3. BulkDeleteDevices(xs) = b
    BY Zenon, <1>0, <1>1, <1>2 DEF BulkDeleteDevices
  <1>4. x \in Devices /\ z \in Devices \cup {None} /\ x # None
    BY Zenon, <1>0, BatchItems, NullAssumption
  <1>5. r = deleteDeviceInTx(db, x) /\ Good(db)
    BY Zenon, <1>1, FirstTurn DEF InventoryInv
  <1>6. Good(r.db) /\ Keeps(db, r.db, "dev") /\ (r.ok => r.db.dev[x].st = "gone")
    BY Zenon, <1>4, <1>5, DeleteDevice
  <1>7. a.db = r.db /\ \A y \in a.done : y = x /\ r.ok
    <2>1. Turned(NothingYet, x, r, a)
      BY Zenon, <1>1, <1>4, BulkTurn
    <2> QED BY Zenon, <2>1, FirstTurn DEF Turned
  <1>8. "delete" \notin {"create", "update"}
    OBVIOUS
  <1>9. BulkCommit("delete", in, b)
    BY Zenon, <1>3
  <1>10. Good(b.db) /\ Keeps(db, b.db, "dev") /\ Counted("delete", in, b)
    <2>1. CASE z = None
      <3>1. b = a
        BY Zenon, <1>2, <2>1, BulkTurn
      <3> QED BY Zenon, <1>6, <1>7, <1>8, <3>1 DEF Counted
    <2>2. CASE z \in Devices
      <3>1. z # None /\ q = deleteDeviceInTx(r.db, z)
        BY Zenon, <1>2, <1>7, <2>2, NullAssumption
      <3>2. /\ Good(q.db) /\ Keeps(r.db, q.db, "dev") /\ Spares(r.db, q.db, z)
            /\ (q.ok => q.db.dev[z].st = "gone") /\ (~q.ok => q.db = r.db)
        BY Zenon, <1>6, <2>2, <3>1, DeleteDevice
      <3>3. b.db = q.db /\ \A y \in b.done : (y = x /\ r.ok) \/ (y = z /\ q.ok)
        <4>1. Turned(a, z, q, b)
          BY Zenon, <1>2, <3>1, BulkTurn
        <4> QED BY Zenon, <1>7, <4>1 DEF Turned
      <3>4. Keeps(db, q.db, "dev")
        BY Zenon, <1>5, <1>6, <3>2, KeepsTwice
      <3>5. r.ok => q.db.dev[x].st = "gone"
        BY Zenon, <1>4, <1>6, <3>2 DEF Spares
      <3> QED BY Zenon, <1>8, <3>2, <3>3, <3>4, <3>5 DEF Counted
    <2> QED BY Zenon, <1>4, <2>1, <2>2
  <1>11. Reaches(db, b.db)
    BY Zenon, <1>10, KeepsReach
  <1> QED BY Zenon, <1>9, <1>10, <1>11, BulkMoved

\* Tags are added in bulk.
LEMMA BulkTagged ==
  ASSUME InventoryInv, NEW xs \in Batches(Devices), NEW in, NEW ts,
         BulkCommit("tag", in, BulkAddTags(xs, ts))
  PROVE  Moved
  <1>0. PICK x, z : x = xs[1] /\ z = xs[2]
    OBVIOUS
  <1>1. PICK r, a : r = AddTags(NothingYet.db, x, ts) /\ a = BulkItem(NothingYet, x, r)
    OBVIOUS
  <1>2. PICK q, b : q = AddTags(a.db, z, ts) /\ b = BulkItem(a, z, q)
    OBVIOUS
  <1>3. BulkAddTags(xs, ts) = b
    BY Zenon, <1>0, <1>1, <1>2 DEF BulkAddTags
  <1>4. x \in Devices /\ z \in Devices \cup {None} /\ x # None
    BY Zenon, <1>0, BatchItems, NullAssumption
  <1>5. r = AddTags(db, x, ts) /\ Good(db)
    BY Zenon, <1>1, FirstTurn DEF InventoryInv
  <1>6. Good(r.db) /\ Keeps(db, r.db, None)
    BY Zenon, <1>4, <1>5, TagDevice
  <1>7. a.db = r.db
    <2>1. Turned(NothingYet, x, r, a)
      BY Zenon, <1>1, <1>4, BulkTurn
    <2> QED BY Zenon, <2>1 DEF Turned
  <1>8. "tag" \notin {"create", "update", "delete"}
    OBVIOUS
  <1>9. Counted("tag", in, b)
    BY Zenon, <1>8 DEF Counted
  <1>10. Good(b.db) /\ Keeps(db, b.db, None)
    <2>1. CASE z = None
      <3>1. b = a
        BY Zenon, <1>2, <2>1, BulkTurn
      <3> QED BY Zenon, <1>6, <1>7, <3>1
    <2>2. CASE z \in Devices
      <3>1. z # None /\ q = AddTags(r.db, z, ts)
        BY Zenon, <1>2, <1>7, <2>2, NullAssumption
      <3>2. Good(q.db) /\ Keeps(r.db, q.db, None)
        BY Zenon, <1>6, <2>2, <3>1, TagDevice
      <3>3. b.db = q.db
        <4>1. Turned(a, z, q, b)
          BY Zenon, <1>2, <3>1, BulkTurn
        <4> QED BY Zenon, <4>1 DEF Turned
      <3>4. Keeps(db, q.db, None)
        BY Zenon, <1>5, <1>6, <3>2, KeepsTwice
      <3> QED BY Zenon, <3>2, <3>3, <3>4
    <2> QED BY Zenon, <1>4, <2>1, <2>2
  <1>11. Reaches(db, b.db)
    BY Zenon, <1>10, KeepsReach
  <1>12. BulkCommit("tag", in, b)
    BY Zenon, <1>3
  <1> QED BY Zenon, <1>9, <1>10, <1>11, <1>12, BulkMoved

\* Tags are removed in bulk.
LEMMA BulkUntagged ==
  ASSUME InventoryInv, NEW xs \in Batches(Devices), NEW in, NEW ts,
         BulkCommit("untag", in, BulkRemoveTags(xs, ts))
  PROVE  Moved
  <1>0. PICK x, z : x = xs[1] /\ z = xs[2]
    OBVIOUS
  <1>1. PICK r, a : r = RemoveTags(NothingYet.db, x, ts) /\ a = BulkItem(NothingYet, x, r)
    OBVIOUS
  <1>2. PICK q, b : q = RemoveTags(a.db, z, ts) /\ b = BulkItem(a, z, q)
    OBVIOUS
  <1>3. BulkRemoveTags(xs, ts) = b
    BY Zenon, <1>0, <1>1, <1>2 DEF BulkRemoveTags
  <1>4. x \in Devices /\ z \in Devices \cup {None} /\ x # None
    BY Zenon, <1>0, BatchItems, NullAssumption
  <1>5. r = RemoveTags(db, x, ts) /\ Good(db)
    BY Zenon, <1>1, FirstTurn DEF InventoryInv
  <1>6. Good(r.db) /\ Keeps(db, r.db, None)
    BY Zenon, <1>4, <1>5, TagDevice
  <1>7. a.db = r.db
    <2>1. Turned(NothingYet, x, r, a)
      BY Zenon, <1>1, <1>4, BulkTurn
    <2> QED BY Zenon, <2>1 DEF Turned
  <1>8. "untag" \notin {"create", "update", "delete"}
    OBVIOUS
  <1>9. Counted("untag", in, b)
    BY Zenon, <1>8 DEF Counted
  <1>10. Good(b.db) /\ Keeps(db, b.db, None)
    <2>1. CASE z = None
      <3>1. b = a
        BY Zenon, <1>2, <2>1, BulkTurn
      <3> QED BY Zenon, <1>6, <1>7, <3>1
    <2>2. CASE z \in Devices
      <3>1. z # None /\ q = RemoveTags(r.db, z, ts)
        BY Zenon, <1>2, <1>7, <2>2, NullAssumption
      <3>2. Good(q.db) /\ Keeps(r.db, q.db, None)
        BY Zenon, <1>6, <2>2, <3>1, TagDevice
      <3>3. b.db = q.db
        <4>1. Turned(a, z, q, b)
          BY Zenon, <1>2, <3>1, BulkTurn
        <4> QED BY Zenon, <4>1 DEF Turned
      <3>4. Keeps(db, q.db, None)
        BY Zenon, <1>5, <1>6, <3>2, KeepsTwice
      <3> QED BY Zenon, <3>2, <3>3, <3>4
    <2> QED BY Zenon, <1>4, <2>1, <2>2
  <1>11. Reaches(db, b.db)
    BY Zenon, <1>10, KeepsReach
  <1>12. BulkCommit("untag", in, b)
    BY Zenon, <1>3
  <1> QED BY Zenon, <1>9, <1>10, <1>11, <1>12, BulkMoved

\* Networks are deleted in bulk.
LEMMA BulkNetworksDeleted ==
  ASSUME InventoryInv, NEW xs \in Batches(Networks), NEW in,
         BulkCommit("unnetwork", in, BulkDeleteNetworks(xs))
  PROVE  Moved
  <1>0. PICK x, z : x = xs[1] /\ z = xs[2]
    OBVIOUS
  <1>1. PICK r, a : r = deleteNetworkInTx(NothingYet.db, x) /\ a = BulkItem(NothingYet, x, r)
    OBVIOUS
  <1>2. PICK q, b : q = deleteNetworkInTx(a.db, z) /\ b = BulkItem(a, z, q)
    OBVIOUS
  <1>3. BulkDeleteNetworks(xs) = b
    BY Zenon, <1>0, <1>1, <1>2 DEF BulkDeleteNetworks
  <1>4. x \in Networks /\ z \in Networks \cup {None} /\ x # None
    BY Zenon, <1>0, BatchItems, NullAssumption
  <1>5. r = deleteNetworkInTx(db, x) /\ Good(db)
    BY Zenon, <1>1, FirstTurn DEF InventoryInv
  <1>6. Good(r.db) /\ NetGoes(db, r.db)
    BY Zenon, <1>4, <1>5, DeleteNetwork
  <1>7. a.db = r.db
    <2>1. Turned(NothingYet, x, r, a)
      BY Zenon, <1>1, <1>4, BulkTurn
    <2> QED BY Zenon, <2>1 DEF Turned
  <1>8. "unnetwork" \notin {"create", "update", "delete"}
    OBVIOUS
  <1>9. Counted("unnetwork", in, b)
    BY Zenon, <1>8 DEF Counted
  <1>10. Good(b.db) /\ NetGoes(db, b.db)
    <2>1. CASE z = None
      <3>1. b = a
        BY Zenon, <1>2, <2>1, BulkTurn
      <3> QED BY Zenon, <1>6, <1>7, <3>1
    <2>2. CASE z \in Networks
      <3>1. z # None /\ q = deleteNetworkInTx(r.db, z)
        BY Zenon, <1>2, <1>7, <2>2, NullAssumption
      <3>2. Good(q.db) /\ NetGoes(r.db, q.db)
        BY Zenon, <1>6, <2>2, <3>1, DeleteNetwork
      <3>3. b.db = q.db
        <4>1. Turned(a, z, q, b)
          BY Zenon, <1>2, <3>1, BulkTurn
        <4> QED BY Zenon, <4>1 DEF Turned
      <3>4. NetGoes(db, q.db)
        BY Zenon, <1>5, <1>6, <3>2, NetGoesTwice
      <3> QED BY Zenon, <3>2, <3>3, <3>4
    <2> QED BY Zenon, <1>4, <2>1, <2>2
  <1>11. Reaches(db, b.db)
    BY Zenon, <1>10 DEF Reaches
  <1>12. BulkCommit("unnetwork", in, b)
    BY Zenon, <1>3
  <1> QED BY Zenon, <1>9, <1>10, <1>11, <1>12, BulkMoved

\* Networks are created in bulk.
LEMMA BulkNetworksCreated ==
  ASSUME InventoryInv, NEW n \in Networks, NEW dc \in Datacenters \cup {None}, NEW in,
         BulkCommit("networks", in, BulkCreateNetworks(<<n, None>>, dc))
  PROVE  Moved
  <1>1. PICK r, a : r = createNetworkInTx(NothingYet.db, n, dc) /\ a = BulkItem(NothingYet, n, r)
    OBVIOUS
  <1>2. PICK q, b : q = createNetworkInTx(a.db, None, dc) /\ b = BulkItem(a, None, q)
    OBVIOUS
  <1>3. BulkCreateNetworks(<<n, None>>, dc) = b
    BY <1>1, <1>2 DEF BulkCreateNetworks
  <1>4. b = a
    BY Zenon, <1>2, BulkTurn
  <1>5. r = createNetworkInTx(db, n, dc) /\ Good(db)
    BY Zenon, <1>1, FirstTurn DEF InventoryInv
  <1>6. Good(r.db) /\ Keeps(db, r.db, None)
    BY Zenon, <1>5, SaveNetwork
  <1>7. a.db = r.db
    <2>1. Turned(NothingYet, n, r, a)
      BY Zenon, <1>1, BulkTurn, NullAssumption
    <2> QED BY Zenon, <2>1 DEF Turned
  <1>8. Reaches(db, a.db)
    BY Zenon, <1>6, <1>7, KeepsReach
  <1>9. Counted("networks", in, a)
    <2>1. "networks" \notin {"create", "update", "delete"}
      OBVIOUS
    <2> QED BY Zenon, <2>1 DEF Counted
  <1>10. BulkCommit("networks", in, a)
    BY Zenon, <1>3, <1>4
  <1> QED BY Zenon, <1>6, <1>7, <1>8, <1>9, <1>10, BulkMoved

\* The body of a request for a device.
LEMMA BodiesAreTyped == \A in \in DeviceBodies : Body(in)
  <1>1. SUFFICES ASSUME NEW in \in DeviceBodies PROVE Body(in)
    OBVIOUS
  <1>2. in.dc \in Datacenters \cup {None} /\ in.addrs \in {{}} \cup {{a} : a \in Addresses}
    BY Zenon DEF DeviceBodies
  <1>3. \A a \in in.addrs : a \in Addresses
    BY Zenon, <1>2
  <1>4. \A a \in Addresses : AddressTyped(a)
    <2>1. SUFFICES ASSUME NEW a \in Addresses PROVE AddressTyped(a)
      OBVIOUS
    <2>2. DOMAIN a = {"net", "pool"} /\ a.net \in Networks /\ a.pool \in Pools \cup {None}
      BY Zenon DEF Addresses
    <2> QED BY Zenon, <2>2 DEF AddressTyped
  <1> QED BY Zenon, <1>2, <1>3, <1>4 DEF Body

\* Every bulk request.
LEMMA BulkStep == InventoryInv /\ BulkSteps => Moved
  <1>1. SUFFICES ASSUME InventoryInv, BulkSteps PROVE Moved
    OBVIOUS
  <1>2. CASE bulkCreateDevices
    BY Zenon, <1>1, <1>2, BulkCreated, BodiesAreTyped DEF bulkCreateDevices
  <1>3. CASE bulkUpdateDevices
    BY Zenon, <1>1, <1>3, BulkUpdated, BodiesAreTyped DEF bulkUpdateDevices
  <1>4. CASE bulkDeleteDevices
    BY Zenon, <1>1, <1>4, BulkDeleted DEF bulkDeleteDevices
  <1>5. CASE bulkAddTags
    BY Zenon, <1>1, <1>5, BulkTagged DEF bulkAddTags
  <1>6. CASE bulkRemoveTags
    BY Zenon, <1>1, <1>6, BulkUntagged DEF bulkRemoveTags
  <1>7. CASE bulkCreateNetworks
    BY Zenon, <1>1, <1>7, BulkNetworksCreated DEF bulkCreateNetworks
  <1>8. CASE bulkDeleteNetworks
    BY Zenon, <1>1, <1>8, BulkNetworksDeleted DEF bulkDeleteNetworks
  <1> QED BY Zenon, <1>1, <1>2, <1>3, <1>4, <1>5, <1>6, <1>7, <1>8 DEF BulkSteps

\* The shape of what a request holds.
LEMMA HoldsRow ==
  ASSUME NEW what, NEW x, NEW row
  PROVE  /\ what = "device" /\ x \in Devices /\ DevTyped(row) => ReqGood([pc |-> what, id |-> x, row |-> row])
         /\ what = "network" /\ x \in Networks /\ row.dc \in Datacenters \cup {None}
              => ReqGood([pc |-> what, id |-> x, row |-> row])
         /\ what \in {"datacenter", "unlink", "delete"} /\ x \in Datacenters
              => ReqGood([pc |-> what, id |-> x, row |-> row])
         /\ what = "circuit" /\ x \in Circuits /\ CirTyped(row) /\ row.st = "live"
              => ReqGood([pc |-> what, id |-> x, row |-> row])
         /\ what = "nat" /\ x \in Mappings /\ NatTyped(row) /\ row.st = "live"
              => ReqGood([pc |-> what, id |-> x, row |-> row])
  <1>1. PICK q : q = [pc |-> what, id |-> x, row |-> row]
    OBVIOUS
  <1>2. DOMAIN q = {"pc", "id", "row"} /\ q.pc = what /\ q.id = x /\ q.row = row
    BY Zenon, <1>1
  <1>3. /\ "device" \notin {"network", "datacenter", "unlink", "delete", "circuit", "nat"}
        /\ "network" \notin {"device", "datacenter", "unlink", "delete", "circuit", "nat"}
        /\ "circuit" \notin {"device", "network", "datacenter", "unlink", "delete", "nat"}
        /\ "nat" \notin {"device", "network", "datacenter", "unlink", "delete", "circuit"}
    BY SMT
  <1>4. \A s \in {"datacenter", "unlink", "delete"} : s \notin {"device", "network", "circuit", "nat"}
    BY SMT
  <1>5. what = "device" /\ x \in Devices /\ DevTyped(row) => ReqGood(q)
    BY Zenon, <1>2, <1>3 DEF ReqGood
  <1>6. what = "network" /\ x \in Networks /\ row.dc \in Datacenters \cup {None} => ReqGood(q)
    BY Zenon, <1>2, <1>3 DEF ReqGood
  <1>7. what \in {"datacenter", "unlink", "delete"} /\ x \in Datacenters => ReqGood(q)
    BY Zenon, <1>2, <1>4 DEF ReqGood
  <1>8. what = "circuit" /\ x \in Circuits /\ CirTyped(row) /\ row.st = "live" => ReqGood(q)
    BY Zenon, <1>2, <1>3 DEF ReqGood
  <1>9. what = "nat" /\ x \in Mappings /\ NatTyped(row) /\ row.st = "live" => ReqGood(q)
    BY Zenon, <1>2, <1>3 DEF ReqGood
  <1> QED BY Zenon, <1>1, <1>5, <1>6, <1>7, <1>8, <1>9

\* A patched device is still a row of a device.
LEMMA PatchedIsTyped ==
  ASSUME Good(db), NEW x \in Devices, NEW row \in Patched(x)
  PROVE  DevTyped(row)
  <1>1. PICK v : v = db.dev[x]
    OBVIOUS
  <1>2. DevTyped(v)
    BY Zenon, <1>1 DEF Good, DevGood
  <1>3. \/ row = v
        \/ \E c \in Datacenters \cup {None} : row = [v EXCEPT !.dc = c]
        \/ \E s \in Statuses : row = [v EXCEPT !.status = s]
        \/ \E t \in SUBSET Tags : row = [v EXCEPT !.tags = t]
        \/ \E b \in DeviceBodies : row = [v EXCEPT !.addrs = b.addrs]
    <2>1. \/ row = db.dev[x]
          \/ \E c \in Datacenters \cup {None} : row = [db.dev[x] EXCEPT !.dc = c]
          \/ \E s \in Statuses : row = [db.dev[x] EXCEPT !.status = s]
          \/ \E t \in SUBSET Tags : row = [db.dev[x] EXCEPT !.tags = t]
          \/ \E a \in {b.addrs : b \in DeviceBodies} : row = [db.dev[x] EXCEPT !.addrs = a]
      BY Zenon DEF Patched, GetDevice
    <2>2. \/ row = v
          \/ \E c \in Datacenters \cup {None} : row = [v EXCEPT !.dc = c]
          \/ \E s \in Statuses : row = [v EXCEPT !.status = s]
          \/ \E t \in SUBSET Tags : row = [v EXCEPT !.tags = t]
          \/ \E a \in {b.addrs : b \in DeviceBodies} : row = [v EXCEPT !.addrs = a]
      BY Zenon, <1>1, <2>1
    <2> QED BY Zenon, <2>2
  <1>4. CASE \E c \in Datacenters \cup {None} : row = [v EXCEPT !.dc = c]
    <2>1. PICK c \in Datacenters \cup {None} : row = [v EXCEPT !.dc = c]
      BY Zenon, <1>4
    <2>2. DOMAIN row = DOMAIN v /\ row.dc = c /\ row.addrs = v.addrs
      BY Zenon, <1>2, <2>1 DEF DevTyped, DevColumns
    <2> QED BY Zenon, <1>2, <2>2 DEF DevTyped
  <1>5. CASE \E s \in Statuses : row = [v EXCEPT !.status = s]
    <2>1. PICK s \in Statuses : row = [v EXCEPT !.status = s]
      BY Zenon, <1>5
    <2>2. DOMAIN row = DOMAIN v /\ row.dc = v.dc /\ row.addrs = v.addrs
      BY Zenon, <1>2, <2>1 DEF DevTyped, DevColumns
    <2> QED BY Zenon, <1>2, <2>2 DEF DevTyped
  <1>6. CASE \E t \in SUBSET Tags : row = [v EXCEPT !.tags = t]
    <2>1. PICK t \in SUBSET Tags : row = [v EXCEPT !.tags = t]
      BY Zenon, <1>6
    <2>2. DOMAIN row = DOMAIN v /\ row.dc = v.dc /\ row.addrs = v.addrs
      BY Zenon, <1>2, <2>1 DEF DevTyped, DevColumns
    <2> QED BY Zenon, <1>2, <2>2 DEF DevTyped
  <1>7. CASE \E b \in DeviceBodies : row = [v EXCEPT !.addrs = b.addrs]
    <2>1. PICK b \in DeviceBodies : row = [v EXCEPT !.addrs = b.addrs]
      BY Zenon, <1>7
    <2>2. DOMAIN row = DOMAIN v /\ row.dc = v.dc /\ row.addrs = b.addrs
      BY Zenon, <1>2, <2>1 DEF DevTyped, DevColumns
    <2> QED BY Zenon, <1>2, <2>2, BodiesAreTyped DEF DevTyped, Body
  <1> QED BY Zenon, <1>2, <1>3, <1>4, <1>5, <1>6, <1>7

\* Requests for devices and their relationships.
LEMMA DeviceStep == InventoryInv /\ DeviceSteps => Moved
  <1>1. SUFFICES ASSUME InventoryInv, DeviceSteps PROVE Moved
    OBVIOUS
  <1>2. Good(db)
    BY Zenon, <1>1 DEF InventoryInv
  <1>3. PICK x \in Devices :
           \/ createDevice(x) \/ deleteDevice(x)
           \/ \E p \in Reqs : updateDevice(p, x)
           \/ \E y \in Devices : \/ addRelationship(x, y) \/ removeRelationship(x, y)
                                 \/ updateRelationshipNotes(x, y)
    BY Zenon, <1>1 DEF DeviceSteps
  <1>4. CASE createDevice(x)
    <2>1. PICK in \in DeviceBodies : Commit(createDeviceInTx(db, x, in))
      BY Zenon, <1>4 DEF createDevice, DeviceCreate
    <2>2. PICK r : r = createDeviceInTx(db, x, in)
      OBVIOUS
    <2>3. Good(r.db) /\ Keeps(db, r.db, "dev")
      BY Zenon, <1>2, <2>2, CreateDevice, BodiesAreTyped
    <2> QED BY Zenon, <1>1, <2>1, <2>2, <2>3, KeepsReach, Committed
  <1>5. CASE deleteDevice(x)
    <2>1. Commit(deleteDeviceInTx(db, x))
      BY Zenon, <1>5 DEF deleteDevice, DeviceDelete
    <2>2. PICK r : r = deleteDeviceInTx(db, x)
      OBVIOUS
    <2>3. Good(r.db) /\ Keeps(db, r.db, "dev")
      BY Zenon, <1>2, <2>2, DeleteDevice
    <2> QED BY Zenon, <1>1, <2>1, <2>2, <2>3, KeepsReach, Committed
  <1>6. CASE \E p \in Reqs : updateDevice(p, x)
    <2>1. PICK p \in Reqs, row \in Patched(x) : Hold(p, "device", x, row)
      BY Zenon, <1>6 DEF updateDevice
    <2>2. ReqGood([pc |-> "device", id |-> x, row |-> row])
      BY Zenon, <1>2, <2>1, PatchedIsTyped, HoldsRow
    <2> QED BY Zenon, <1>1, <2>1, <2>2, Held
  <1>7. CASE \E y \in Devices : \/ addRelationship(x, y) \/ removeRelationship(x, y)
                                \/ updateRelationshipNotes(x, y)
    <2>1. PICK y \in Devices : \/ Commit(AddRelationship(db, x, y, "n"))
                               \/ Commit(RemoveRelationship(db, x, y))
                               \/ Commit(UpdateRelationshipNotes(db, x, y, ""))
      BY Zenon, <1>7 DEF addRelationship, removeRelationship, updateRelationshipNotes, RelationshipAdd
    <2>2. \A note, r : \/ r = AddRelationship(db, x, y, note) \/ r = RemoveRelationship(db, x, y)
                       \/ r = UpdateRelationshipNotes(db, x, y, note)
             => Good(r.db) /\ Reaches(db, r.db)
      BY Zenon, <1>2, Relationships, KeepsReach
    <2> QED BY Zenon, <1>1, <2>1, <2>2, Committed
  <1> QED BY Zenon, <1>3, <1>4, <1>5, <1>6, <1>7

\* A network is created, or one that is there saved by the tool.
LEMMA NetworkCommits ==
  ASSUME InventoryInv, NEW n \in Networks, NEW dc \in Datacenters \cup {None},
         Commit(createNetworkInTx(db, n, dc)) \/ Commit(UpdateNetwork(db, n, dc))
  PROVE  Moved
  <1>1. \A r : r = createNetworkInTx(db, n, dc) \/ r = UpdateNetwork(db, n, dc)
          => Good(r.db) /\ Reaches(db, r.db)
    BY Zenon, SaveNetwork, KeepsReach DEF InventoryInv
  <1> QED BY Zenon, <1>1, Committed

\* A datacenter is created, or one that is there saved by the tool.
LEMMA DatacenterCommits ==
  ASSUME InventoryInv, NEW c \in Datacenters, NEW name,
         Commit(CreateDatacenter(db, c, name)) \/ Commit(UpdateDatacenter(db, c, name))
  PROVE  Moved
  <1>1. \A r : r = CreateDatacenter(db, c, name) \/ r = UpdateDatacenter(db, c, name)
          => Good(r.db) /\ Reaches(db, r.db)
    BY Zenon, SaveDatacenter, KeepsReach DEF InventoryInv
  <1> QED BY Zenon, <1>1, Committed

\* Requests for networks and datacenters.
LEMMA PlaceStep == InventoryInv /\ PlaceSteps => Moved
  <1>1. SUFFICES ASSUME InventoryInv, PlaceSteps PROVE Moved
    OBVIOUS
  <1>2. Good(db)
    BY Zenon, <1>1 DEF InventoryInv
  <1>3. ASSUME NEW n \in Networks, createNetwork(n) PROVE Moved
    BY Zenon, <1>1, <1>3, NetworkCommits DEF createNetwork, NetworkCreate
  <1>4. ASSUME NEW n \in Networks, deleteNetwork(n) PROVE Moved
    <2>1. Commit(deleteNetworkInTx(db, n))
      BY Zenon, <1>4 DEF deleteNetwork, NetworkDelete
    <2>2. PICK r : r = deleteNetworkInTx(db, n)
      OBVIOUS
    <2>3. Good(r.db) /\ Reaches(db, r.db)
      BY Zenon, <1>2, <1>4, <2>2, DeleteNetwork DEF Reaches
    <2> QED BY Zenon, <1>1, <2>1, <2>2, <2>3, Committed
  <1>5. ASSUME NEW n \in Networks, NEW p \in Reqs, updateNetwork(p, n) PROVE Moved
    <2>1. PICK dc \in Datacenters \cup {None} : Hold(p, "network", n, [db.net[n] EXCEPT !.dc = dc])
      BY Zenon, <1>5 DEF updateNetwork
    <2>2. PICK row : row = [db.net[n] EXCEPT !.dc = dc]
      OBVIOUS
    <2>3. DOMAIN db.net[n] = {"st", "dc"}
      BY Zenon, <1>2, <1>5 DEF Good, NetGood, NetTyped
    <2>4. row.dc = dc
      BY Zenon, <2>2, <2>3
    <2>5. ReqGood([pc |-> "network", id |-> n, row |-> row])
      BY Zenon, <1>5, <2>4, HoldsRow
    <2> QED BY Zenon, <1>1, <1>5, <2>1, <2>2, <2>5, Held
  <1>6. ASSUME NEW c \in Datacenters, createDatacenter(c) PROVE Moved
    BY Zenon, <1>1, <1>6, DatacenterCommits DEF createDatacenter, DatacenterCreate
  <1>7. ASSUME NEW c \in Datacenters, NEW p \in Reqs, updateDatacenter(p, c) PROVE Moved
    <2>1. PICK row : Hold(p, "datacenter", c, row)
      BY Zenon, <1>7 DEF updateDatacenter
    <2>2. ReqGood([pc |-> "datacenter", id |-> c, row |-> row])
      BY Zenon, <1>7, HoldsRow
    <2> QED BY Zenon, <1>1, <1>7, <2>1, <2>2, Held
  <1>8. ASSUME NEW c \in Datacenters, NEW p \in Reqs, deleteDatacenter(p, c) PROVE Moved
    <2>1. PICK w, b : w = (IF Dependent(db, c) # {} THEN "unlink" ELSE "delete") /\ b = Blank.dc
      OBVIOUS
    <2>2. Hold(p, w, c, b)
      BY Zenon, <1>8, <2>1 DEF deleteDatacenter
    <2>3. w \in {"datacenter", "unlink", "delete"}
      BY Zenon, <2>1
    <2>4. ReqGood([pc |-> w, id |-> c, row |-> b])
      BY Zenon, <1>8, <2>3, HoldsRow
    <2> QED BY Zenon, <1>1, <1>8, <2>2, <2>4, Held
  <1> QED BY Zenon, <1>1, <1>3, <1>4, <1>5, <1>6, <1>7, <1>8 DEF PlaceSteps

\* A circuit or a mapping is created or deleted.
LEMMA LinkCommits ==
  ASSUME InventoryInv
  PROVE  /\ \A k \in Circuits : createCircuit(k) \/ deleteCircuit(k) => Moved
         /\ \A m \in Mappings : createNATMapping(m) \/ deleteNATMapping(m) => Moved
  <1>1. Good(db)
    BY Zenon DEF InventoryInv
  <1>2. ASSUME NEW k \in Circuits, createCircuit(k) PROVE Moved
    <2>1. PICK in \in CircuitBodies : Commit(CreateCircuit(db, k, in))
      BY Zenon, <1>2 DEF createCircuit, CircuitCreate
    <2>2. in.devs \subseteq Devices /\ in.dcs \subseteq Datacenters
      <3>1. in.devs \in {{x} : x \in Devices} /\ in.dcs \in {{c} : c \in Datacenters}
        BY Zenon DEF CircuitBodies
      <3> QED BY Zenon, <3>1
    <2>3. PICK r : r = CreateCircuit(db, k, in)
      OBVIOUS
    <2>4. Good(r.db) /\ Keeps(db, r.db, "cir")
      BY Zenon, <1>1, <1>2, <2>2, <2>3, SaveCircuit
    <2> QED BY Zenon, <2>1, <2>3, <2>4, KeepsReach, Committed
  <1>3. ASSUME NEW k \in Circuits, deleteCircuit(k) PROVE Moved
    <2>1. Commit(DeleteCircuit(db, k))
      BY Zenon, <1>3 DEF deleteCircuit
    <2>2. PICK in : in = [devs |-> {}, dcs |-> {}]
      OBVIOUS
    <2>3. in.devs \subseteq Devices /\ in.dcs \subseteq Datacenters
      <3>1. in.devs = {} /\ in.dcs = {}
        BY Zenon, <2>2
      <3> QED BY Zenon, <3>1
    <2>4. PICK r : r = DeleteCircuit(db, k)
      OBVIOUS
    <2>5. Good(r.db) /\ Keeps(db, r.db, "cir")
      BY Zenon, <1>1, <1>3, <2>3, <2>4, SaveCircuit
    <2> QED BY Zenon, <2>1, <2>4, <2>5, KeepsReach, Committed
  <1>4. ASSUME NEW m \in Mappings, createNATMapping(m) PROVE Moved
    <2>1. PICK in \in MappingBodies : Commit(CreateNATMapping(db, m, in))
      BY Zenon, <1>4 DEF createNATMapping, NATCreate
    <2>2. in.dev \in Devices /\ in.dc \in Datacenters /\ in.net \in Networks
      BY Zenon DEF MappingBodies
    <2>3. Endpoints(in)
      BY Zenon, <2>2 DEF Endpoints
    <2>4. PICK r : r = CreateNATMapping(db, m, in)
      OBVIOUS
    <2>5. Good(r.db) /\ Keeps(db, r.db, "nat")
      BY Zenon, <1>1, <1>4, <2>3, <2>4, SaveMapping
    <2> QED BY Zenon, <2>1, <2>4, <2>5, KeepsReach, Committed
  <1>5. ASSUME NEW m \in Mappings, deleteNATMapping(m) PROVE Moved
    <2>1. Commit(DeleteNATMapping(db, m))
      BY Zenon, <1>5 DEF deleteNATMapping
    <2>2. PICK r : r = DeleteNATMapping(db, m)
      OBVIOUS
    <2>3. Good(r.db) /\ Keeps(db, r.db, "nat")
      BY Zenon, <1>1, <1>5, <2>2, SaveMapping
    <2> QED BY Zenon, <2>1, <2>2, <2>3, KeepsReach, Committed
  <1> QED BY Zenon, <1>2, <1>3, <1>4, <1>5

\* A circuit is read and held, patched or not.
LEMMA CircuitHeld ==
  ASSUME InventoryInv, NEW p \in Reqs, NEW k \in Circuits, Live(db, "cir", k),
         CircuitUpdate(p, k) \/ Hold(p, "circuit", k, GetCircuit(k))
  PROVE  Moved
  <1>1. PICK v : v = db.cir[k]
    OBVIOUS
  <1>2. CirTyped(v) /\ v.st = "live"
    BY Zenon, <1>1 DEF InventoryInv, Good, CirGood, Live
  <1>3. ASSUME NEW row, CirTyped(row), row.st = "live", Hold(p, "circuit", k, row) PROVE Moved
    BY Zenon, <1>3, HoldsRow, Held
  <1>4. \/ \E s \in SUBSET Devices : Hold(p, "circuit", k, [v EXCEPT !.devs = s])
        \/ \E s \in SUBSET Datacenters : Hold(p, "circuit", k, [v EXCEPT !.dcs = s])
        \/ Hold(p, "circuit", k, v)
    BY Zenon, <1>1 DEF CircuitUpdate, GetCircuit
  <1>5. ASSUME NEW s \in SUBSET Devices, Hold(p, "circuit", k, [v EXCEPT !.devs = s]) PROVE Moved
    <2>1. PICK row : row = [v EXCEPT !.devs = s]
      OBVIOUS
    <2>2. DOMAIN row = DOMAIN v /\ row.st = v.st /\ row.devs = s /\ row.dcs = v.dcs
      BY Zenon, <1>2, <2>1 DEF CirTyped
    <2>3. CirTyped(row) /\ row.st = "live"
      BY Zenon, <1>2, <1>5, <2>2 DEF CirTyped
    <2> QED BY Zenon, <1>3, <1>5, <2>1, <2>3
  <1>6. ASSUME NEW s \in SUBSET Datacenters, Hold(p, "circuit", k, [v EXCEPT !.dcs = s]) PROVE Moved
    <2>1. PICK row : row = [v EXCEPT !.dcs = s]
      OBVIOUS
    <2>2. DOMAIN row = DOMAIN v /\ row.st = v.st /\ row.devs = v.devs /\ row.dcs = s
      BY Zenon, <1>2, <2>1 DEF CirTyped
    <2>3. CirTyped(row) /\ row.st = "live"
      BY Zenon, <1>2, <1>6, <2>2 DEF CirTyped
    <2> QED BY Zenon, <1>3, <1>6, <2>1, <2>3
  <1> QED BY Zenon, <1>2, <1>3, <1>4, <1>5, <1>6

\* A NAT mapping is read and held, patched or not.
LEMMA MappingHeld ==
  ASSUME InventoryInv, NEW p \in Reqs, NEW m \in Mappings, Live(db, "nat", m),
         NATUpdate(p, m) \/ Hold(p, "nat", m, GetNATMapping(m))
  PROVE  Moved
  <1>1. PICK v : v = db.nat[m]
    OBVIOUS
  <1>2. NatTyped(v) /\ v.st = "live"
    BY Zenon, <1>1 DEF InventoryInv, Good, NatGood, Live
  <1>3. ASSUME NEW row, DOMAIN row = DOMAIN v, row.st = v.st, Endpoints(row), Hold(p, "nat", m, row) PROVE Moved
    <2>1. NatTyped(row) /\ row.st = "live"
      BY Zenon, <1>2, <1>3 DEF NatTyped, Endpoints
    <2> QED BY Zenon, <1>3, <2>1, HoldsRow, Held
  <1>4. \/ \E x \in Devices \cup {None} : Hold(p, "nat", m, [v EXCEPT !.dev = x])
        \/ \E c \in Datacenters \cup {None} : Hold(p, "nat", m, [v EXCEPT !.dc = c])
        \/ \E n \in Networks \cup {None} : Hold(p, "nat", m, [v EXCEPT !.net = n])
        \/ Hold(p, "nat", m, v)
    BY Zenon, <1>1 DEF NATUpdate, GetNATMapping
  <1>5. ASSUME NEW x \in Devices \cup {None}, Hold(p, "nat", m, [v EXCEPT !.dev = x]) PROVE Moved
    <2>1. PICK row : row = [v EXCEPT !.dev = x]
      OBVIOUS
    <2>2. DOMAIN row = DOMAIN v /\ row.st = v.st /\ row.dev = x /\ row.dc = v.dc /\ row.net = v.net
      BY Zenon, <1>2, <2>1 DEF NatTyped
    <2>3. Endpoints(row)
      BY Zenon, <1>2, <1>5, <2>2 DEF NatTyped, Endpoints
    <2> QED BY Zenon, <1>3, <1>5, <2>1, <2>2, <2>3
  <1>6. ASSUME NEW c \in Datacenters \cup {None}, Hold(p, "nat", m, [v EXCEPT !.dc = c]) PROVE Moved
    <2>1. PICK row : row = [v EXCEPT !.dc = c]
      OBVIOUS
    <2>2. DOMAIN row = DOMAIN v /\ row.st = v.st /\ row.dev = v.dev /\ row.dc = c /\ row.net = v.net
      BY Zenon, <1>2, <2>1 DEF NatTyped
    <2>3. Endpoints(row)
      BY Zenon, <1>2, <1>6, <2>2 DEF NatTyped, Endpoints
    <2> QED BY Zenon, <1>3, <1>6, <2>1, <2>2, <2>3
  <1>7. ASSUME NEW n \in Networks \cup {None}, Hold(p, "nat", m, [v EXCEPT !.net = n]) PROVE Moved
    <2>1. PICK row : row = [v EXCEPT !.net = n]
      OBVIOUS
    <2>2. DOMAIN row = DOMAIN v /\ row.st = v.st /\ row.dev = v.dev /\ row.dc = v.dc /\ row.net = n
      BY Zenon, <1>2, <2>1 DEF NatTyped
    <2>3. Endpoints(row)
      BY Zenon, <1>2, <1>7, <2>2 DEF NatTyped, Endpoints
    <2> QED BY Zenon, <1>3, <1>7, <2>1, <2>2, <2>3
  <1>8. Endpoints(v)
    BY Zenon, <1>2 DEF NatTyped, Endpoints
  <1> QED BY Zenon, <1>3, <1>4, <1>5, <1>6, <1>7, <1>8

\* Requests for circuits and mappings.
LEMMA LinkStep == InventoryInv /\ LinkSteps => Moved
  BY Zenon, LinkCommits, CircuitHeld, MappingHeld DEF LinkSteps, updateCircuit, updateNATMapping

\* The tools.
LEMMA ToolStep == InventoryInv /\ ToolSteps => Moved
  <1>1. SUFFICES ASSUME InventoryInv, ToolSteps PROVE Moved
    OBVIOUS
  <1>2. ASSUME NEW n \in Networks, handleNetworkSave(n) PROVE Moved
    BY Zenon, <1>1, <1>2, NetworkCommits DEF handleNetworkSave, createNetwork, NetworkCreate
  <1>3. ASSUME NEW c \in Datacenters, handleDatacenterSave(c) PROVE Moved
    BY Zenon, <1>1, <1>3, DatacenterCommits DEF handleDatacenterSave, createDatacenter, DatacenterCreate
  <1>4. ASSUME NEW p \in Reqs, NEW k \in Circuits, handleCircuitSave(p, k) PROVE Moved
    BY Zenon, <1>1, <1>4, LinkCommits, CircuitHeld DEF handleCircuitSave
  <1>5. ASSUME NEW p \in Reqs, NEW m \in Mappings, handleNATSave(p, m) PROVE Moved
    BY Zenon, <1>1, <1>5, LinkCommits, MappingHeld DEF handleNATSave
  <1>6. ASSUME NEW x \in Devices, NEW y \in Devices, handleAddRelationship(x, y) PROVE Moved
    <2>1. DeviceSteps
      BY Zenon, <1>6 DEF handleAddRelationship, DeviceSteps
    <2> QED BY Zenon, <1>1, <2>1, DeviceStep
  <1> QED BY Zenon, <1>1, <1>2, <1>3, <1>4, <1>5, <1>6 DEF ToolSteps

\* The second halves of requests.
LEMMA WriteStep == InventoryInv /\ WriteSteps => Moved
  <1>1. SUFFICES ASSUME InventoryInv, WriteSteps PROVE Moved
    OBVIOUS
  <1>2. Good(db) /\ DOMAIN req = Reqs
    BY Zenon, <1>1 DEF InventoryInv
  <1>3. PICK p \in Reqs : \/ DeviceUpdate(p) \/ NetworkUpdate(p) \/ DatacenterUpdate(p) \/ DatacenterUnlink(p)
                          \/ DatacenterDelete(p) \/ CircuitWrite(p) \/ NATWrite(p)
    BY Zenon, <1>1 DEF WriteSteps
  <1>4. PICK q : q = req[p]
    OBVIOUS
  <1>5. ReqGood(q)
    BY Zenon, <1>1, <1>4 DEF InventoryInv
  <1>6. CASE DeviceUpdate(p)
    <2>1. q.id \in Devices /\ DevTyped(q.row) /\ Finish(p, updateDeviceInTx(db, q.id, q.row))
      BY Zenon, <1>4, <1>5, <1>6 DEF DeviceUpdate, ReqGood
    <2>2. Body(q.row)
      BY Zenon, <2>1 DEF DevTyped, Body
    <2>3. PICK r : r = updateDeviceInTx(db, q.id, q.row)
      OBVIOUS
    <2>4. Good(r.db) /\ Keeps(db, r.db, "dev")
      BY Zenon, <1>2, <2>1, <2>2, <2>3, UpdateDevice
    <2> QED BY Zenon, <1>1, <2>1, <2>3, <2>4, KeepsReach, Finished
  <1>7. CASE NetworkUpdate(p)
    <2>1. /\ q.id \in Networks /\ q.row.dc \in Datacenters \cup {None}
          /\ Finish(p, UpdateNetwork(db, q.id, q.row.dc))
      BY Zenon, <1>4, <1>5, <1>7 DEF NetworkUpdate, ReqGood
    <2>2. PICK r : r = UpdateNetwork(db, q.id, q.row.dc)
      OBVIOUS
    <2>3. Good(r.db) /\ Keeps(db, r.db, None)
      BY Zenon, <1>2, <2>1, <2>2, SaveNetwork
    <2> QED BY Zenon, <1>1, <2>1, <2>2, <2>3, KeepsReach, Finished
  <1>8. CASE DatacenterUpdate(p)
    <2>1. q.id \in Datacenters /\ Finish(p, UpdateDatacenter(db, q.id, q.row.name))
      BY Zenon, <1>4, <1>5, <1>8 DEF DatacenterUpdate, ReqGood
    <2>2. PICK r : r = UpdateDatacenter(db, q.id, q.row.name)
      OBVIOUS
    <2>3. Good(r.db) /\ Keeps(db, r.db, None)
      BY Zenon, <1>2, <2>1, <2>2, SaveDatacenter
    <2> QED BY Zenon, <1>1, <2>1, <2>2, <2>3, KeepsReach, Finished
  <1>9. CASE DatacenterUnlink(p)
    <2>1. q.id \in Datacenters /\ db' = UnlinkDevices(db, q.id) /\ report' = NoReport
      BY Zenon, <1>4, <1>5, <1>9 DEF DatacenterUnlink, ReqGood
    <2>2. PICK e : e = UnlinkDevices(db, q.id)
      OBVIOUS
    <2>3. Good(e) /\ Keeps(db, e, None)
      BY Zenon, <1>2, <2>1, <2>2, DevicesUnlinked
    <2>4. Good(db') /\ Reaches(db, db')
      BY Zenon, <2>1, <2>2, <2>3, KeepsReach
    <2>5. PICK o : o = [q EXCEPT !.pc = "delete"]
      OBVIOUS
    <2>6. DOMAIN o = {"pc", "id", "row"} /\ o.pc = "delete" /\ o.id = q.id
      BY Zenon, <1>5, <2>5 DEF ReqGood
    <2>7. ReqGood(o)
      <3>1. "delete" \notin {"device", "network", "circuit", "nat"}
        OBVIOUS
      <3> QED BY Zenon, <2>1, <2>6, <3>1 DEF ReqGood
    <2>8. req' = [req EXCEPT ![p] = o]
      BY Zenon, <1>2, <1>4, <1>9, <2>5 DEF DatacenterUnlink
    <2>9. (DOMAIN req = Reqs /\ \A s \in Reqs : ReqGood(req[s]))'
      BY Zenon, <1>1, <1>2, <2>7, <2>8 DEF InventoryInv
    <2> QED BY Zenon, <2>1, <2>4, <2>9, EmptyReport DEF Moved, InventoryInv
  <1>10. CASE DatacenterDelete(p)
    <2>1. q.id \in Datacenters /\ Finish(p, DeleteDatacenterRow(db, q.id))
      BY Zenon, <1>4, <1>5, <1>10 DEF DatacenterDelete, ReqGood
    <2>2. PICK r : r = DeleteDatacenterRow(db, q.id)
      OBVIOUS
    <2>3. Good(r.db) /\ Keeps(db, r.db, "dc")
      BY Zenon, <1>2, <2>1, <2>2, DeleteDatacenter
    <2> QED BY Zenon, <1>1, <2>1, <2>2, <2>3, KeepsReach, Finished
  <1>11. CASE CircuitWrite(p)
    <2>1. /\ q.id \in Circuits /\ CirTyped(q.row) /\ q.row.st = "live"
          /\ Finish(p, UpdateCircuit(db, q.id, q.row))
      BY Zenon, <1>4, <1>5, <1>11 DEF CircuitWrite, ReqGood
    <2>2. PICK r, k, in : r = UpdateCircuit(db, q.id, q.row) /\ k = q.id /\ in = q.row
      OBVIOUS
    <2>3. in.devs \subseteq Devices /\ in.dcs \subseteq Datacenters /\ r = UpdateCircuit(db, k, in)
      BY Zenon, <2>1, <2>2 DEF CirTyped
    <2>4. Good(r.db) /\ Keeps(db, r.db, "cir")
      BY Zenon, <1>2, <2>1, <2>2, <2>3, SaveCircuit
    <2> QED BY Zenon, <1>1, <2>1, <2>2, <2>4, KeepsReach, Finished
  <1>12. CASE NATWrite(p)
    <2>1. /\ q.id \in Mappings /\ NatTyped(q.row) /\ q.row.st = "live"
          /\ Finish(p, UpdateNATMapping(db, q.id, q.row))
      BY Zenon, <1>4, <1>5, <1>12 DEF NATWrite, ReqGood
    <2>2. PICK r : r = UpdateNATMapping(db, q.id, q.row)
      OBVIOUS
    <2>3. Good(r.db) /\ Keeps(db, r.db, "nat")
      BY Zenon, <1>2, <2>1, <2>2, SaveMapping
    <2> QED BY Zenon, <1>1, <2>1, <2>2, <2>3, KeepsReach, Finished
  <1> QED BY Zenon, <1>3, <1>6, <1>7, <1>8, <1>9, <1>10, <1>11, <1>12

\* The server starts again: no request is under way.
LEMMA RestartStep == InventoryInv /\ Restart => Moved
  <1>1. SUFFICES ASSUME InventoryInv, Restart PROVE Moved
    OBVIOUS
  <1>2. db' \in ensureDefaultDatacenter(db) /\ req' = [p \in Reqs |-> Idle] /\ report' = NoReport
    BY Zenon, <1>1 DEF Restart
  <1>3. PICK e : e = db'
    OBVIOUS
  <1>4. Good(e) /\ Keeps(db, e, None)
    BY Zenon, <1>1, <1>2, <1>3, DefaultDatacenter DEF InventoryInv
  <1>5. Good(db') /\ Reaches(db, db')
    BY Zenon, <1>3, <1>4, KeepsReach
  <1>6. (DOMAIN req = Reqs /\ \A p \in Reqs : ReqGood(req[p]))'
    BY Zenon, <1>2, IdleGood
  <1> QED BY Zenon, <1>2, <1>5, <1>6, EmptyReport DEF Moved, InventoryInv

\* Every step keeps the invariant and deletes rows of one kind.
LEMMA InventoryStep == InventoryInv /\ [Next]_vars => Moved
  <1>1. InventoryInv /\ Next => Moved
    BY Zenon, DeviceStep, PlaceStep, LinkStep, BulkStep, ToolStep, WriteStep, RestartStep DEF Next
  <1>2. InventoryInv /\ UNCHANGED vars => Moved
    <2>1. SUFFICES ASSUME InventoryInv, UNCHANGED vars PROVE Moved
      OBVIOUS
    <2>2. db' = db /\ req' = req /\ report' = report
      BY Zenon, <2>1 DEF vars
    <2>3. Good(db) /\ Reaches(db, db)
      BY Zenon, <2>1, KeepsAll, KeepsReach DEF InventoryInv
    <2>4. Good(db') /\ Reaches(db, db')
      BY Zenon, <2>2, <2>3
    <2>5. (DOMAIN req = Reqs /\ \A p \in Reqs : ReqGood(req[p]))'
      BY Zenon, <2>1, <2>2 DEF InventoryInv
    <2>6. BulkReportsHold'
      BY Zenon, <2>1, <2>2 DEF InventoryInv, BulkReportsHold
    <2> QED BY Zenon, <2>4, <2>5, <2>6 DEF Moved, InventoryInv
  <1> QED BY Zenon, <1>1, <1>2

\* Rows that were never written.
LEMMA BlankRows ==
  /\ DcTyped(Blank.dc) /\ Blank.dc.st = "fresh"
  /\ NetTyped(Blank.net) /\ Blank.net.st = "fresh"
  /\ PoolTyped(Blank.pool) /\ Blank.pool.st = "fresh"
  /\ DevTyped(Blank.dev) /\ Blank.dev.st = "fresh"
  /\ CirTyped(Blank.cir) /\ Blank.cir.st = "fresh"
  /\ NatTyped(Blank.nat) /\ Blank.nat.st = "fresh"
  <1>1. /\ Blank.dc = [st |-> "fresh", name |-> None]
        /\ Blank.net = [st |-> "fresh", dc |-> None]
        /\ Blank.pool = [st |-> "fresh", net |-> None]
        /\ Blank.dev = [st |-> "fresh", dc |-> None, addrs |-> {}, tags |-> {}, status |-> None]
        /\ Blank.cir = [st |-> "fresh", devs |-> {}, dcs |-> {}]
        /\ Blank.nat = [st |-> "fresh", dev |-> None, dc |-> None, net |-> None]
    BY Zenon DEF Blank
  <1>2. DcTyped(Blank.dc) /\ Blank.dc.st = "fresh"
    <2>1. PICK b : b = [st |-> "fresh", name |-> None]
      OBVIOUS
    <2>2. DOMAIN b = {"st", "name"} /\ b.st = "fresh"
      BY Zenon, <2>1
    <2> QED BY Zenon, <1>1, <2>1, <2>2 DEF DcTyped
  <1>3. NetTyped(Blank.net) /\ Blank.net.st = "fresh"
    <2>1. PICK b : b = [st |-> "fresh", dc |-> None]
      OBVIOUS
    <2>2. DOMAIN b = {"st", "dc"} /\ b.st = "fresh" /\ b.dc = None
      BY Zenon, <2>1
    <2> QED BY Zenon, <1>1, <2>1, <2>2 DEF NetTyped
  <1>4. PoolTyped(Blank.pool) /\ Blank.pool.st = "fresh"
    <2>1. PICK b : b = [st |-> "fresh", net |-> None]
      OBVIOUS
    <2>2. DOMAIN b = {"st", "net"} /\ b.st = "fresh" /\ b.net = None
      BY Zenon, <2>1
    <2> QED BY Zenon, <1>1, <2>1, <2>2 DEF PoolTyped
  <1>5. DevTyped(Blank.dev) /\ Blank.dev.st = "fresh"
    <2>1. PICK b : b = [st |-> "fresh", dc |-> None, addrs |-> {}, tags |-> {}, status |-> None]
      OBVIOUS
    <2>2. DOMAIN b = {"st", "dc", "addrs", "tags", "status"} /\ b.st = "fresh" /\ b.dc = None /\ b.addrs = {}
      BY Zenon, <2>1
    <2> QED BY Zenon, <1>1, <2>1, <2>2 DEF DevTyped, DevColumns
  <1>6. CirTyped(Blank.cir) /\ Blank.cir.st = "fresh"
    <2>1. PICK b : b = [st |-> "fresh", devs |-> {}, dcs |-> {}]
      OBVIOUS
    <2>2. DOMAIN b = {"st", "devs", "dcs"} /\ b.st = "fresh" /\ b.devs = {} /\ b.dcs = {}
      BY Zenon, <2>1
    <2> QED BY Zenon, <1>1, <2>1, <2>2 DEF CirTyped
  <1>7. NatTyped(Blank.nat) /\ Blank.nat.st = "fresh"
    <2>1. PICK b : b = [st |-> "fresh", dev |-> None, dc |-> None, net |-> None]
      OBVIOUS
    <2>2. DOMAIN b = {"st", "dev", "dc", "net"} /\ b.st = "fresh" /\ b.dev = None /\ b.dc = None /\ b.net = None
      BY Zenon, <2>1
    <2> QED BY Zenon, <1>1, <2>1, <2>2 DEF NatTyped
  <1> QED BY Zenon, <1>2, <1>3, <1>4, <1>5, <1>6, <1>7

\* A new database.
LEMMA EmptyGood ==
  ASSUME NEW c \in Datacenters, NEW e, e = Empty(c)
  PROVE  Good(e) /\ e.dc[c].st = "live"
  <1>1. PICK v : v = [st |-> "live", name |-> "first"]
    OBVIOUS
  <1>2. DcTyped(v) /\ v.st = "live"
    BY Zenon, <1>1 DEF DcTyped
  <1>3. /\ DOMAIN e = Tables /\ e.dc = [x \in Datacenters |-> IF x = c THEN v ELSE Blank.dc]
        /\ e.net = [n \in Networks |-> Blank.net] /\ e.pool = [p \in Pools |-> Blank.pool]
        /\ e.dev = [x \in Devices |-> Blank.dev] /\ e.rel = {}
        /\ e.cir = [k \in Circuits |-> Blank.cir] /\ e.nat = [m \in Mappings |-> Blank.nat]
    BY Zenon, <1>1 DEF Empty, Tables
  <1>4. Shaped(e)
    BY Zenon, <1>3 DEF Shaped
  <1>5. e.dc[c] = v /\ \A x \in Datacenters : DcTyped(e.dc[x])
    BY Zenon, <1>2, <1>3, BlankRows
  <1>6. "fresh" # "live"
    OBVIOUS
  <1>7. \A n \in Networks : NetGood(e, e.net[n])
    BY Zenon, <1>3, <1>6, BlankRows DEF NetGood
  <1>8. \A p \in Pools : PoolGood(e, e.pool[p])
    BY Zenon, <1>3, <1>6, BlankRows DEF PoolGood
  <1>9. \A x \in Devices : DevGood(e, e.dev[x])
    BY Zenon, <1>3, <1>6, BlankRows DEF DevGood
  <1>10. \A k \in Circuits : CirGood(e, e.cir[k])
    BY Zenon, <1>3, <1>6, BlankRows DEF CirGood
  <1>11. \A m \in Mappings : NatGood(e, e.nat[m])
    BY Zenon, <1>3, <1>6, BlankRows DEF NatGood
  <1>12. \A r \in e.rel : RelGood(e, r)
    BY Zenon, <1>3
  <1> QED BY Zenon, <1>2, <1>4, <1>5, <1>7, <1>8, <1>9, <1>10, <1>11, <1>12 DEF Good

\* A database in use.
LEMMA InUseGood ==
  ASSUME NEW c \in Datacenters, NEW n \in Networks, NEW x \in Devices, NEW dc \in {c, None}, NEW as,
         \A a \in as : a \in Addresses /\ a.net = n, NEW e, e = InUse(c, n, x, dc, as)
  PROVE  Good(e)
  <1>1. PICK b : b = Empty(c)
    OBVIOUS
  <1>2. Good(b) /\ b.dc[c].st = "live" /\ Shaped(b)
    BY Zenon, <1>1, EmptyGood DEF Good
  <1>3. PICK nv : nv = [st |-> "live", dc |-> dc]
    OBVIOUS
  <1>4. PICK pv : pv = [st |-> "live", net |-> n]
    OBVIOUS
  <1>5. PICK dv : dv = [st |-> "live", dc |-> c, addrs |-> as, tags |-> {}, status |-> "active"]
    OBVIOUS
  <1>6. PICK cv : cv = [st |-> "live", devs |-> Devices, dcs |-> {c}]
    OBVIOUS
  <1>7. PICK mv : mv = [st |-> "live", dev |-> x, dc |-> c, net |-> n]
    OBVIOUS
  <1>8. PICK rs : rs = {[parent |-> x, child |-> y, notes |-> ""] : y \in Devices \ {x}}
    OBVIOUS
  <1>9. e = [b EXCEPT !.net = [@ EXCEPT ![n] = nv], !.pool = [p \in Pools |-> pv], !.dev = [y \in Devices |-> dv],
                      !.rel = rs, !.cir = [k \in Circuits |-> cv], !.nat = [m \in Mappings |-> mv]]
    BY Zenon, <1>1, <1>3, <1>4, <1>5, <1>6, <1>7, <1>8 DEF InUse
  <1>10. /\ DOMAIN e = Tables /\ e.dc = b.dc /\ e.net = [b.net EXCEPT ![n] = nv] /\ e.pool = [p \in Pools |-> pv]
         /\ e.dev = [y \in Devices |-> dv] /\ e.rel = rs /\ e.cir = [k \in Circuits |-> cv]
         /\ e.nat = [m \in Mappings |-> mv]
    BY Zenon, <1>2, <1>9 DEF Shaped, Tables
  <1>11. Shaped(e)
    BY Zenon, <1>2, <1>10 DEF Shaped
  <1>12. e.net[n] = nv /\ \A y \in Networks : y # n => e.net[y] = b.net[y]
    BY Zenon, <1>2, <1>10 DEF Shaped
  <1>13. DOMAIN nv = {"st", "dc"} /\ nv.st = "live" /\ nv.dc = dc
    BY Zenon, <1>3
  <1>14. DOMAIN pv = {"st", "net"} /\ pv.st = "live" /\ pv.net = n
    BY Zenon, <1>4
  <1>15. DOMAIN dv = DevColumns /\ dv.st = "live" /\ dv.dc = c /\ dv.addrs = as
    BY Zenon, <1>5 DEF DevColumns
  <1>16. DOMAIN cv = {"st", "devs", "dcs"} /\ cv.devs = Devices /\ cv.dcs = {c}
    BY Zenon, <1>6
  <1>17. DOMAIN mv = {"st", "dev", "dc", "net"} /\ mv.dev = x /\ mv.dc = c /\ mv.net = n
    BY Zenon, <1>7
  <1>18. /\ Live(e, "dc", c) /\ Live(e, "net", n) /\ \A p \in Pools : Live(e, "pool", p)
         /\ \A y \in Devices : Live(e, "dev", y)
    <2>1. c # None /\ n # None /\ (\A p \in Pools : p # None) /\ \A y \in Devices : y # None
      BY Zenon, NullAssumption
    <2>2. Live(e, "dc", c)
      BY Zenon, <1>2, <1>10, <2>1 DEF Live
    <2>3. Live(e, "net", n)
      BY Zenon, <1>12, <1>13, <2>1 DEF Live
    <2>4. \A p \in Pools : Live(e, "pool", p)
      BY Zenon, <1>10, <1>14, <2>1 DEF Live
    <2>5. \A y \in Devices : Live(e, "dev", y)
      BY Zenon, <1>10, <1>15, <2>1 DEF Live
    <2> QED BY Zenon, <2>2, <2>3, <2>4, <2>5
  <1>19. /\ Ref(e, "dc", c) /\ Ref(e, "dc", None) /\ Ref(e, "net", n) /\ Ref(e, "dev", x)
         /\ \A p \in Pools \cup {None} : Ref(e, "pool", p)
    BY Zenon, <1>18 DEF Ref
  <1>20. \A y \in Datacenters : DcTyped(e.dc[y])
    BY Zenon, <1>2, <1>10 DEF Good
  <1>21. \A y \in Networks : NetGood(e, e.net[y])
    <2>1. NetGood(e, nv)
      BY Zenon, <1>13, <1>19 DEF NetGood, NetTyped
    <2>2. \A y : Ref(e, "dc", y) = Ref(b, "dc", y)
      BY Zenon, <1>10 DEF Ref, Live
    <2>3. \A y \in Networks : NetGood(e, b.net[y])
      BY Zenon, <1>2, <2>2 DEF Good, NetGood
    <2> QED BY Zenon, <1>12, <2>1, <2>3
  <1>22. \A p \in Pools : PoolGood(e, e.pool[p])
    BY Zenon, <1>10, <1>14, <1>18 DEF PoolGood, PoolTyped
  <1>23. \A y \in Devices : DevGood(e, e.dev[y])
    <2>1. ASSUME NEW a \in as PROVE AddressTyped(a) /\ AddressGood(e, a)
      <3>1. DOMAIN a = {"net", "pool"} /\ a.net = n /\ a.pool \in Pools \cup {None}
        BY Zenon DEF Addresses
      <3> QED BY Zenon, <1>19, <3>1 DEF AddressTyped, AddressGood
    <2>2. DevGood(e, dv)
      BY Zenon, <1>15, <1>19, <2>1 DEF DevGood, DevTyped
    <2> QED BY Zenon, <1>10, <2>2
  <1>24. ASSUME NEW r \in e.rel PROVE RelGood(e, r)
    <2>1. PICK y \in Devices : r = [parent |-> x, child |-> y, notes |-> ""]
      <3>1. r \in rs
        BY Zenon, <1>10
      <3>2. \E y \in Devices \ {x} : r = [parent |-> x, child |-> y, notes |-> ""]
        BY <1>8, <3>1
      <3> QED BY Zenon, <3>2
    <2>2. DOMAIN r = {"parent", "child", "notes"} /\ r.parent = x /\ r.child = y
      BY Zenon, <2>1
    <2> QED BY Zenon, <1>18, <2>2 DEF RelGood, RelTyped
  <1>25. \A k \in Circuits : CirGood(e, e.cir[k])
    <2>1. CirGood(e, cv)
      BY Zenon, <1>16, <1>18 DEF CirGood, CirTyped, CircuitRefs
    <2> QED BY Zenon, <1>10, <2>1
  <1>26. \A m \in Mappings : NatGood(e, e.nat[m])
    <2>1. NatGood(e, mv)
      BY Zenon, <1>17, <1>19 DEF NatGood, NatTyped, MappingRefs
    <2> QED BY Zenon, <1>10, <2>1
  <1> QED BY Zenon, <1>11, <1>20, <1>21, <1>22, <1>23, <1>24, <1>25, <1>26 DEF Good

\* The invariant holds when the server starts.
LEMMA InventoryStart == Init => InventoryInv
  <1>1. SUFFICES ASSUME Init PROVE InventoryInv
    OBVIOUS
  <1>2. PICK c \in Datacenters, n \in Networks, x \in Devices :
          \/ db = Empty(c)
          \/ \E dc \in {c, None}, as \in {{}} \cup {{a} : a \in Addresses} :
               (\A a \in as : a.net = n) /\ db = InUse(c, n, x, dc, as)
    BY Zenon, <1>1 DEF Init
  <1>3. Good(db)
    <2>1. CASE db = Empty(c)
      BY Zenon, <2>1, EmptyGood
    <2>2. ASSUME NEW dc \in {c, None}, NEW as \in {{}} \cup {{a} : a \in Addresses}, \A a \in as : a.net = n,
                 db = InUse(c, n, x, dc, as)
          PROVE  Good(db)
      <3>1. \A a \in as : a \in Addresses /\ a.net = n
        BY Zenon, <2>2
      <3> QED BY Zenon, <2>2, <3>1, InUseGood
    <2> QED BY Zenon, <1>2, <2>1, <2>2
  <1>4. DOMAIN req = Reqs /\ (\A p \in Reqs : ReqGood(req[p])) /\ report = NoReport
    BY Zenon, <1>1, IdleGood DEF Init
  <1>5. BulkReportsHold
    BY Zenon, <1>4, IdleGood DEF BulkReportsHold
  <1> QED BY Zenon, <1>3, <1>4, <1>5 DEF InventoryInv

\* The invariant holds in every state.
LEMMA InventoryHolds == Spec => []InventoryInv
  <1>1. InventoryInv /\ [Next]_vars => InventoryInv'
    BY Zenon, InventoryStep DEF Moved
  <1> QED BY <1>1, InventoryStart, PTL DEF Spec

\* For every inventory, any number of concurrent requests and any order of
\* their steps, deletions and restarts, every reference of a live row names a
\* live row.
THEOREM ReferencesAlwaysResolve == Spec => []ReferencesResolve
  <1>1. InventoryInv => ReferencesResolve
    <2>1. SUFFICES ASSUME InventoryInv PROVE ReferencesResolve
      OBVIOUS
    <2>2. Good(db)
      BY Zenon, <2>1 DEF InventoryInv
    <2>3. \A x \in Devices : Live(db, "dev", x) =>
             /\ Ref(db, "dc", db.dev[x].dc)
             /\ \A a \in db.dev[x].addrs : Ref(db, "net", a.net) /\ Ref(db, "pool", a.pool)
      BY Zenon, <2>2 DEF Good, DevGood, AddressGood, Live
    <2>4. /\ \A n \in Networks : Live(db, "net", n) => Ref(db, "dc", db.net[n].dc)
          /\ \A p \in Pools : Live(db, "pool", p) => Live(db, "net", db.pool[p].net)
      BY Zenon, <2>2 DEF Good, NetGood, PoolGood, Live
    <2>5. \A r \in db.rel : Live(db, "dev", r.parent) /\ Live(db, "dev", r.child)
      BY Zenon, <2>2 DEF Good, RelGood
    <2>6. /\ \A k \in Circuits : Live(db, "cir", k) => CircuitRefs(db, db.cir[k])
          /\ \A m \in Mappings : Live(db, "nat", m) => MappingRefs(db, db.nat[m])
      BY Zenon, <2>2 DEF Good, CirGood, NatGood, Live
    <2> QED BY Zenon, <2>3, <2>4, <2>5, <2>6 DEF ReferencesResolve
  <1> QED BY <1>1, InventoryHolds, PTL

\* Whatever a batch holds, what a bulk create, update or delete counts as a
\* success is done in the tables it commits.
THEOREM BulkCountsAreTrue == Spec => []BulkReportsHold
  <1>1. InventoryInv => BulkReportsHold
    BY Zenon DEF InventoryInv
  <1> QED BY <1>1, InventoryHolds, PTL

\* A step takes rows of one table only: what refers to a deleted row stays,
\* pools go with their network alone, and no device loses its last address
\* when a network goes.
THEOREM DeletionsStayInTheirTable == Spec => DeletesReachTheirOwn
  <1> DEFINE Own ==
       /\ \A t, u \in {"dc", "net", "dev", "cir", "nat"} : Lost(t) # {} /\ Lost(u) # {} => t = u
       /\ \A p \in Lost("pool") : db.pool[p].net \in Lost("net")
       /\ Lost("net") # {} => \A x \in Devices :
            (db'.dev[x].addrs = {}) = (db.dev[x].addrs = {})
  <1>1. ASSUME InventoryInv, [Next]_vars PROVE Own
    <2>1. Reaches(db, db') /\ Shaped(db)
      BY Zenon, <1>1, InventoryStep DEF Moved, InventoryInv, Good
    <2>2. \A t, x : x \in Lost(t) => x \in DOMAIN db[t] /\ db[t][x].st = "live" /\ db'[t][x].st # "live"
      BY Zenon DEF Lost
    <2>3. ASSUME NEW s \in {"dc", "dev", "cir", "nat"}, Keeps(db, db', s) PROVE Own
      <3>1. \A t \in {"dc", "net", "pool", "dev", "cir", "nat"} : t # s => Lost(t) = {}
        BY Zenon, <2>2, <2>3 DEF Keeps
      <3>2. "net" # s /\ "pool" # s
        BY SMT, <2>3
      <3> QED BY Zenon, <3>1, <3>2
    <2>4. ASSUME NetGoes(db, db') PROVE Own
      <3>1. \A t \in {"dc", "dev", "cir", "nat"} : Lost(t) = {}
        <4>1. ASSUME NEW t \in {"dc", "dev", "cir", "nat"}, NEW x \in Lost(t) PROVE FALSE
          <5>1. x \in DOMAIN db[t] /\ db[t][x].st = "live" /\ db'[t][x].st # "live"
            BY Zenon, <2>2, <4>1
          <5>2. db[t][x].st = "live" => db'[t][x].st = "live"
            BY Zenon, <2>4, <4>1, <5>1 DEF NetGoes
          <5> QED BY Zenon, <5>1, <5>2
        <4> QED BY Zenon, <4>1
      <3>2. \A t, u \in {"dc", "net", "dev", "cir", "nat"} : Lost(t) # {} /\ Lost(u) # {} => t = u
        BY Zenon, <3>1
      <3>3. \A p \in Lost("pool") : db.pool[p].net \in Lost("net")
        <4>1. DOMAIN db.pool = Pools /\ DOMAIN db.net = Networks
          BY Zenon, <2>1 DEF Shaped
        <4> QED BY Zenon, <2>2, <2>4, <4>1 DEF NetGoes, Lost
      <3> QED BY Zenon, <2>4, <3>2, <3>3 DEF NetGoes
    <2> QED BY Zenon, <2>1, <2>3, <2>4 DEF Reaches
  <1>2. InventoryInv /\ [Next]_vars => [Own]_vars
    BY Zenon, <1>1
  <1> QED BY <1>2, InventoryHolds, PTL DEF Spec, DeletesReachTheirOwn

=============================================================================
