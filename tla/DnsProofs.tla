------------------------------ MODULE DnsProofs ------------------------------
(***************************************************************************)
(* Proofs about the DNS integration, for any number of records, names,     *)
(* providers, zones and requests in flight: a record that says it is       *)
(* synced was on the server (DnsSync), and a cached provider client was    *)
(* made from the secret that is stored (DnsZones).                         *)
(*                                                                         *)
(* The two have variables and specifications of their own, and each        *)
(* theorem is about one of them.                                           *)
(***************************************************************************)
EXTENDS DnsSync, ZoneTables, Integers, Sequences, TLAPS

-----------------------------------------------------------------------------
(* DnsSync: records and the server.                                            *)

RecordColumns == {"st", "name", "val", "status", "dev", "addr"}
SyncColumns == {"pc", "cur", "todo", "from", "auto", "after"}

\* The server had the value of the row under its name, by the history e.
Published(row, e) == row.name \in Names /\ row.val \in e[row.name]

\* A row that says it is synced was published.
GoodRow(row, e) == DOMAIN row = RecordColumns /\ (row.status = "synced" => Published(row, e))

\* A row in the hands of a process, and one that is of a record.
GoodItem(c, e) == DOMAIN c = {"id", "row"} /\ GoodRow(c.row, e)
Record(c, e) == GoodItem(c, e) /\ c.row.name \in Names

\* What a process between two of its steps holds: a record that it is about to
\* mark as synced, or that it read from the server, was published.
GoodProcess(q, e) ==
    /\ DOMAIN q = SyncColumns /\ GoodItem(q.cur, e)
    /\ q.pc \notin {"idle", "zone", "dropZone"} => Record(q.cur, e)
    /\ q.pc \in {"mark", "remove", "look"} => Published(q.cur.row, e)
    /\ \A c \in q.todo : Record(c, e) /\ (q.from = "import" => Published(c.row, e))
    /\ q.after = NoRow \/ Record(q.after, e)

\* Tables have the rows they began with, and the history has all of the server.
SyncTypes ==
    /\ DOMAIN rec = Recs /\ DOMAIN req = Procs
    /\ DOMAIN srv = Names /\ DOMAIN ever = Names /\ \A n \in Names : srv[n] \subseteq ever[n]

GoodRecords == \A r \in Recs : GoodRow(rec[r], ever) /\ (Live(r) => rec[r].name \in Names)

SyncInv == SyncTypes /\ GoodRecords /\ \A p \in Procs : GoodProcess(req[p], ever)

\* A process with nothing to do, and no row.
LEMMA IdleProcess ==
  ASSUME NEW e
  PROVE  /\ GoodRow(NoRec, e) /\ GoodItem(NoRow, e)
         /\ DOMAIN Idle = SyncColumns /\ Idle.pc = "idle" /\ Idle.cur = NoRow /\ Idle.todo = {}
         /\ Idle.from = "one" /\ Idle.after = NoRow
         /\ GoodProcess(Idle, e)
  <1>1. GoodRow(NoRec, e)
    BY Zenon DEF NoRec, GoodRow, RecordColumns, None
  <1>2. DOMAIN NoRow = {"id", "row"} /\ NoRow.row = NoRec
    BY Zenon DEF NoRow
  <1>3. GoodItem(NoRow, e)
    BY Zenon, <1>1, <1>2 DEF GoodItem
  <1>4. /\ DOMAIN Idle = SyncColumns /\ Idle.pc = "idle" /\ Idle.cur = NoRow /\ Idle.todo = {}
        /\ Idle.from = "one" /\ Idle.after = NoRow
    BY Zenon DEF Idle, SyncColumns
  <1> QED BY Zenon, <1>1, <1>3, <1>4 DEF GoodProcess

\* A process that goes on with the same record.
LEMMA MovedProcess ==
  ASSUME NEW q, NEW e, GoodProcess(q, e), q.pc \notin {"idle", "zone", "dropZone"},
         NEW what, what \in {"mark", "remove", "look"} => Published(q.cur.row, e),
         NEW r, r = [q EXCEPT !.pc = what]
  PROVE  GoodProcess(r, e)
  <1>1. /\ DOMAIN r = SyncColumns /\ r.pc = what /\ r.cur = q.cur /\ r.todo = q.todo
        /\ r.from = q.from /\ r.after = q.after
    BY Zenon DEF GoodProcess, SyncColumns
  <1> QED BY Zenon, <1>1 DEF GoodProcess

\* What a process does when it is done with a record.
LEMMA ContinuedProcess ==
  ASSUME SyncInv, NEW p \in Procs, NEW e, GoodProcess(req[p], e), NEW new \in Continue(p)
  PROVE  GoodProcess(new, e)
  <1>1. PICK q : q = req[p]
    OBVIOUS
  <1>2. GoodProcess(q, e) /\ DOMAIN q = SyncColumns
    BY Zenon, <1>1 DEF GoodProcess
  <1>3. CASE q.from \in {"zone", "import"} /\ q.todo # {}
    <2>1. PICK c \in q.todo :
            new = [q EXCEPT !.pc = IF q.from = "zone" THEN "get" ELSE "look", !.cur = c, !.todo = @ \ {c}]
      BY Zenon, <1>1, <1>3 DEF Continue
    <2>2. PICK what : what = IF q.from = "zone" THEN "get" ELSE "look"
      OBVIOUS
    <2>3. /\ DOMAIN new = SyncColumns /\ new.pc = what /\ new.cur = c /\ new.todo = q.todo \ {c}
          /\ new.from = q.from /\ new.after = q.after
      BY Zenon, <1>2, <2>1, <2>2 DEF SyncColumns
    <2>4. Record(c, e) /\ (q.from = "import" => Published(c.row, e))
      BY Zenon, <1>2, <2>1 DEF GoodProcess
    <2>5. what \in {"mark", "remove", "look"} => q.from = "import"
      BY Zenon, <1>3, <2>2
    <2>6. \A i \in new.todo : Record(i, e) /\ (new.from = "import" => Published(i.row, e))
      BY Zenon, <1>2, <2>3 DEF GoodProcess
    <2>7. new.after = NoRow \/ Record(new.after, e)
      BY Zenon, <1>2, <2>3 DEF GoodProcess
    <2> QED BY Zenon, <2>3, <2>4, <2>5, <2>6, <2>7 DEF GoodProcess, Record
  <1>4. CASE ~(q.from \in {"zone", "import"} /\ q.todo # {})
    <2>1. CASE q.from = "zone"
      <3>1. new = [Idle EXCEPT !.pc = "zone", !.auto = q.auto]
        BY Zenon, <1>1, <1>4, <2>1 DEF Continue
      <3>2. /\ DOMAIN new = SyncColumns /\ new.pc = "zone" /\ new.cur = NoRow /\ new.todo = {}
            /\ new.after = NoRow
        BY Zenon, <3>1, IdleProcess DEF SyncColumns
      <3> QED BY Zenon, <3>2, IdleProcess DEF GoodProcess
    <2>2. CASE q.from # "zone" /\ q.after # NoRow
      <3>1. new = [Idle EXCEPT !.pc = "write", !.from = "link", !.cur = q.after]
        BY Zenon, <1>1, <1>4, <2>2 DEF Continue
      <3>2. /\ DOMAIN new = SyncColumns /\ new.pc = "write" /\ new.cur = q.after /\ new.todo = {}
            /\ new.after = NoRow
        BY Zenon, <3>1, IdleProcess DEF SyncColumns
      <3>3. Record(q.after, e)
        BY Zenon, <1>2, <2>2 DEF GoodProcess
      <3> QED BY Zenon, <3>2, <3>3 DEF GoodProcess, Record
    <2>3. CASE q.from # "zone" /\ q.after = NoRow
      <3>1. new = Idle
        BY Zenon, <1>1, <1>4, <2>3 DEF Continue
      <3> QED BY Zenon, <3>1, IdleProcess
    <2> QED BY Zenon, <2>1, <2>2, <2>3
  <1> QED BY Zenon, <1>3, <1>4

\* The history only grows, and what was good stays so.
Grows(e, f) == \A n \in Names : e[n] \subseteq f[n]

\* A longer history has published whatever a shorter one had.
LEMMA GrowsGood ==
  ASSUME NEW e, NEW f, Grows(e, f)
  PROVE  /\ \A row : Published(row, e) => Published(row, f)
         /\ \A row : GoodRow(row, e) => GoodRow(row, f)
         /\ \A c : Record(c, e) => Record(c, f)
         /\ \A q : GoodProcess(q, e) => GoodProcess(q, f)
  <1>1. ASSUME NEW row, Published(row, e) PROVE Published(row, f)
    BY Zenon, <1>1 DEF Published, Grows
  <1>2. ASSUME NEW row, GoodRow(row, e) PROVE GoodRow(row, f)
    BY Zenon, <1>1, <1>2 DEF GoodRow
  <1>3. ASSUME NEW c, GoodItem(c, e) PROVE GoodItem(c, f)
    BY Zenon, <1>2, <1>3 DEF GoodItem
  <1>4. ASSUME NEW c, Record(c, e) PROVE Record(c, f)
    BY Zenon, <1>3, <1>4 DEF Record
  <1>5. ASSUME NEW q, GoodProcess(q, e) PROVE GoodProcess(q, f)
    BY Zenon, <1>1, <1>3, <1>4, <1>5 DEF GoodProcess
  <1> QED BY Zenon, <1>1, <1>2, <1>4, <1>5

\* A step of a process that leaves the tables good.
LEMMA ProcessMoves ==
  ASSUME SyncInv, NEW p \in Procs, NEW r, Goto(p, r), GoodProcess(r, ever'),
         DOMAIN rec' = Recs, DOMAIN srv' = Names, DOMAIN ever' = Names,
         \A n \in Names : srv'[n] \subseteq ever'[n], Grows(ever, ever'),
         \A i \in Recs : GoodRow(rec'[i], ever') /\ (rec'[i].st = "live" => rec'[i].name \in Names)
  PROVE  SyncInv'
  <1>1. DOMAIN req' = Procs /\ req'[p] = r /\ \A q \in Procs : q # p => req'[q] = req[q]
    BY Zenon DEF Goto, SyncInv, SyncTypes
  <1>2. \A q \in Procs : GoodProcess(req[q], ever')
    BY Zenon, GrowsGood DEF SyncInv
  <1>3. \A q \in Procs : GoodProcess(req'[q], ever')
    BY Zenon, <1>1, <1>2
  <1>4. SyncTypes'
    BY Zenon, <1>1 DEF SyncTypes, Procs
  <1>5. GoodRecords'
    BY Zenon DEF GoodRecords, Live
  <1> QED BY Zenon, <1>3, <1>4, <1>5 DEF SyncInv, Procs

\* A step that writes at most records.
LEMMA RecordsMove ==
  ASSUME SyncInv, NEW p \in Procs, NEW r, Goto(p, r), GoodProcess(r, ever), UNCHANGED <<srv, ever>>,
         DOMAIN rec' = Recs,
         \A i \in Recs : GoodRow(rec'[i], ever) /\ (rec'[i].st = "live" => rec'[i].name \in Names)
  PROVE  SyncInv'
  <1>1. Grows(ever, ever')
    BY Zenon DEF Grows
  <1> QED BY Zenon, <1>1, ProcessMoves DEF SyncInv, SyncTypes

\* A step that writes no table.
LEMMA ReadMoves ==
  ASSUME SyncInv, NEW p \in Procs, NEW r, Goto(p, r), GoodProcess(r, ever), UNCHANGED <<rec, srv, ever>>
  PROVE  SyncInv'
  BY Zenon, RecordsMove DEF SyncInv, SyncTypes, GoodRecords, Live

\* A step that writes one record, whole.
LEMMA RecordMoves ==
  ASSUME SyncInv, NEW p \in Procs, NEW r, Goto(p, r), GoodProcess(r, ever), UNCHANGED <<srv, ever>>,
         NEW i, NEW row, GoodRow(row, ever), row.st = "live" => row.name \in Names,
         rec' = [rec EXCEPT ![i] = row]
  PROVE  SyncInv'
  <1>1. DOMAIN rec' = Recs /\ \A j \in Recs : rec'[j] \in {rec[j], row}
    BY Zenon DEF SyncInv, SyncTypes
  <1>2. \A j \in Recs : GoodRow(rec'[j], ever) /\ (rec'[j].st = "live" => rec'[j].name \in Names)
    BY Zenon, <1>1 DEF SyncInv, GoodRecords, Live
  <1> QED BY Zenon, <1>1, <1>2, RecordsMove

\* A process that is done with a record is good.
LEMMA AdvanceMoves ==
  ASSUME SyncInv, NEW p \in Procs, Advance(p)
  PROVE  \E r : Goto(p, r) /\ GoodProcess(r, ever)
  <1>1. PICK new \in Continue(p) : Goto(p, new)
    BY Zenon DEF Advance
  <1>2. GoodProcess(req[p], ever)
    BY Zenon DEF SyncInv
  <1> QED BY Zenon, <1>1, <1>2, ContinuedProcess

\* So is one whose synchronisation failed.
LEMMA FailingMoves ==
  ASSUME SyncInv, NEW p \in Procs, Failing(p), req[p].pc \notin {"idle", "zone", "dropZone"}
  PROVE  \E r : Goto(p, r) /\ GoodProcess(r, ever)
  <1>1. PICK q : q = req[p]
    OBVIOUS
  <1>2. PICK r : r = [q EXCEPT !.pc = "fail"]
    OBVIOUS
  <1>3. GoodProcess(q, ever)
    BY Zenon, <1>1 DEF SyncInv
  <1>4. GoodProcess(r, ever)
    BY Zenon, <1>1, <1>2, <1>3, MovedProcess
  <1> QED BY Zenon, <1>1, <1>2, <1>4, AdvanceMoves DEF Failing

\* The lookup at the server, and what it decides.
LEMMA SyncRecordStep ==
  ASSUME SyncInv, NEW p \in Procs, SyncRecord(p)
  PROVE  SyncInv'
  <1>1. PICK q, n : q = req[p] /\ n = req[p].cur.row.name
    OBVIOUS
  <1>2. q.pc = "get" /\ UNCHANGED <<rec, srv, ever>> /\ GoodProcess(q, ever)
    BY Zenon, <1>1 DEF SyncRecord, At, SyncInv
  <1>3. CASE zone.st # "live"
    <2>1. Failing(p)
      BY Zenon, <1>3 DEF SyncRecord
    <2> QED BY Zenon, <1>1, <1>2, <2>1, FailingMoves, ReadMoves
  <1>4. CASE zone.st = "live"
    <2>1. PICK what : /\ Goto(p, [q EXCEPT !.pc = what])
                      /\ what \in {"add", "replace"} \/ (what = "mark" /\ q.cur.row.val \in srv[n])
      BY Zenon, <1>1, <1>4 DEF SyncRecord, ServerGet
    <2>2. n \in Names
      BY Zenon, <1>1, <1>2 DEF GoodProcess, Record
    <2>3. what = "mark" => Published(q.cur.row, ever)
      BY Zenon, <1>1, <2>1, <2>2 DEF Published, SyncInv, SyncTypes
    <2>4. PICK r : r = [q EXCEPT !.pc = what]
      OBVIOUS
    <2>5. GoodProcess(r, ever)
      BY Zenon, <1>2, <2>1, <2>3, <2>4, MovedProcess
    <2> QED BY Zenon, <1>2, <2>1, <2>4, <2>5, ReadMoves
  <1> QED BY Zenon, <1>3, <1>4

\* The record is published: the history has its value.
LEMMA ServerAddStep ==
  ASSUME SyncInv, NEW p \in Procs, ServerAdd(p)
  PROVE  SyncInv'
  <1>1. PICK q, row : q = req[p] /\ row = req[p].cur.row
    OBVIOUS
  <1>2. q.pc \in {"add", "replace"} /\ UNCHANGED rec /\ GoodProcess(q, ever)
    BY Zenon, <1>1 DEF ServerAdd, At, SyncInv
  <1>3. CASE Failing(p) /\ UNCHANGED <<srv, ever>>
    BY Zenon, <1>1, <1>2, <1>3, FailingMoves, ReadMoves
  <1>4. CASE /\ srv' = [srv EXCEPT ![row.name] = @ \cup {row.val}]
             /\ ever' = [ever EXCEPT ![row.name] = @ \cup {row.val}]
             /\ Goto(p, [req[p] EXCEPT !.pc = IF @ = "add" THEN "mark" ELSE "remove"])
    <2>1. row.name \in Names
      BY Zenon, <1>1, <1>2 DEF GoodProcess, Record
    <2>2. /\ DOMAIN srv' = Names /\ DOMAIN ever' = Names
          /\ \A n \in Names : srv'[n] = IF n = row.name THEN srv[n] \cup {row.val} ELSE srv[n]
          /\ \A n \in Names : ever'[n] = IF n = row.name THEN ever[n] \cup {row.val} ELSE ever[n]
      BY Zenon, <1>4 DEF SyncInv, SyncTypes
    <2>3. Grows(ever, ever') /\ \A n \in Names : srv'[n] \subseteq ever'[n]
      BY Zenon, <2>2 DEF Grows, SyncInv, SyncTypes
    <2>4. Published(q.cur.row, ever')
      BY Zenon, <1>1, <2>1, <2>2 DEF Published
    <2>5. GoodProcess(q, ever')
      BY Zenon, <1>2, <2>3, GrowsGood
    <2>6. PICK what, r : what = (IF q.pc = "add" THEN "mark" ELSE "remove") /\ r = [q EXCEPT !.pc = what]
      OBVIOUS
    <2>7. GoodProcess(r, ever')
      BY Zenon, <1>2, <2>4, <2>5, <2>6, MovedProcess
    <2>8. Goto(p, r)
      BY Zenon, <1>1, <1>4, <2>6
    <2>9. \A i \in Recs : GoodRow(rec'[i], ever') /\ (rec'[i].st = "live" => rec'[i].name \in Names)
      BY Zenon, <1>2, <2>3, GrowsGood DEF SyncInv, GoodRecords, Live
    <2>10. DOMAIN rec' = Recs
      BY Zenon, <1>2 DEF SyncInv, SyncTypes
    <2> QED BY Zenon, <2>2, <2>3, <2>7, <2>8, <2>9, <2>10, ProcessMoves
  <1> QED BY Zenon, <1>1, <1>3, <1>4 DEF ServerAdd

\* A name is deleted at the server; the history keeps what it had.
LEMMA ServerDeleteStep ==
  ASSUME SyncInv, NEW p \in Procs, ServerDelete(p)
  PROVE  SyncInv'
  <1>1. PICK q, n : q = req[p] /\ n = req[p].cur.row.name
    OBVIOUS
  <1>2. q.pc \in {"remove", "unpublish"} /\ UNCHANGED <<rec, ever>> /\ GoodProcess(q, ever)
    BY Zenon, <1>1 DEF ServerDelete, At, SyncInv
  <1>3. srv' = srv \/ srv' = [srv EXCEPT ![n] = {}]
    BY Zenon, <1>1 DEF ServerDelete
  <1>4. DOMAIN srv' = Names /\ \A m \in Names : srv'[m] \subseteq ever'[m]
    BY Zenon, <1>2, <1>3 DEF SyncInv, SyncTypes
  <1>5. PICK what, r : what = (IF q.pc = "remove" THEN "mark" ELSE "delete") /\ r = [q EXCEPT !.pc = what]
    OBVIOUS
  <1>6. what = "mark" => Published(q.cur.row, ever)
    BY Zenon, <1>2, <1>5 DEF GoodProcess
  <1>7. GoodProcess(r, ever')
    BY Zenon, <1>2, <1>5, <1>6, MovedProcess
  <1>8. Goto(p, r)
    BY Zenon, <1>1, <1>5 DEF ServerDelete
  <1>9. Grows(ever, ever') /\ DOMAIN ever' = Names /\ DOMAIN rec' = Recs
    BY Zenon, <1>2 DEF Grows, SyncInv, SyncTypes
  <1>10. \A i \in Recs : GoodRow(rec'[i], ever') /\ (rec'[i].st = "live" => rec'[i].name \in Names)
    BY Zenon, <1>2 DEF SyncInv, GoodRecords, Live
  <1> QED BY Zenon, <1>4, <1>7, <1>8, <1>9, <1>10, ProcessMoves

\* A row with another status.
LEMMA StatusRow ==
  ASSUME NEW row, NEW e, DOMAIN row = RecordColumns, NEW s, NEW new, new = [row EXCEPT !.status = s],
         s = "synced" => Published(row, e)
  PROVE  GoodRow(new, e) /\ new.name = row.name /\ new.val = row.val
  <1>1. /\ DOMAIN new = RecordColumns /\ new.name = row.name /\ new.val = row.val /\ new.status = s
    BY Zenon DEF RecordColumns
  <1> QED BY Zenon, <1>1 DEF GoodRow, Published

\* A row whose devices changed.
LEMMA RelinkedRow ==
  ASSUME NEW row, NEW e, GoodRow(row, e), NEW new, DOMAIN new = RecordColumns,
         new.name = row.name, new.val = row.val, new.status = row.status
  PROVE  GoodRow(new, e)
  BY Zenon DEF GoodRow, Published

\* The record is marked as synced when it was published.
LEMMA MarkSyncedStep ==
  ASSUME SyncInv, NEW p \in Procs, MarkSynced(p)
  PROVE  SyncInv'
  <1>1. PICK q, c : q = req[p] /\ c = req[p].cur
    OBVIOUS
  <1>2. PICK cur, row : cur = [c EXCEPT !.row.status = "synced"] /\ row = [c.row EXCEPT !.status = "synced"]
    OBVIOUS
  <1>3. q.pc = "mark" /\ UNCHANGED <<srv, ever>> /\ GoodProcess(q, ever)
    BY Zenon, <1>1 DEF MarkSynced, At, SyncInv
  <1>4. Record(c, ever) /\ Published(c.row, ever)
    BY Zenon, <1>1, <1>3 DEF GoodProcess
  <1>5. cur.row = row
    BY Zenon, <1>2, <1>4 DEF Record, GoodItem
  <1>6. GoodRow(row, ever) /\ row.name \in Names
    <2>1. DOMAIN c.row = RecordColumns /\ c.row.name \in Names
      BY Zenon, <1>4 DEF Record, GoodItem, GoodRow
    <2> QED BY <1>2, <1>4, <2>1, StatusRow
  <1>7. \/ rec' = [rec EXCEPT ![cur.id] = row] /\ Advance(p)
        \/ rec' = rec /\ Failing(p)
    BY Zenon, <1>1, <1>2, <1>5 DEF MarkSynced
  <1>8. PICK r : Goto(p, r) /\ GoodProcess(r, ever)
    BY Zenon, <1>1, <1>3, <1>7, AdvanceMoves, FailingMoves
  <1>9. CASE rec' = rec
    BY Zenon, <1>3, <1>8, <1>9, ReadMoves
  <1>10. CASE rec' = [rec EXCEPT ![cur.id] = row]
    BY Zenon, <1>3, <1>6, <1>8, <1>10, RecordMoves
  <1> QED BY Zenon, <1>7, <1>9, <1>10

\* The record is marked as failed.
LEMMA MarkFailedStep ==
  ASSUME SyncInv, NEW p \in Procs, MarkFailed(p)
  PROVE  SyncInv'
  <1>1. PICK q, c : q = req[p] /\ c = req[p].cur
    OBVIOUS
  <1>2. PICK cur, row : cur = [c EXCEPT !.row.status = "failed"] /\ row = [c.row EXCEPT !.status = "failed"]
    OBVIOUS
  <1>3. q.pc = "fail" /\ UNCHANGED <<srv, ever>> /\ GoodProcess(q, ever) /\ Advance(p)
    BY Zenon, <1>1 DEF MarkFailed, At, SyncInv
  <1>4. Record(c, ever)
    BY Zenon, <1>1, <1>3 DEF GoodProcess
  <1>5. cur.row = row
    BY Zenon, <1>2, <1>4 DEF Record, GoodItem
  <1>6. GoodRow(row, ever) /\ row.name \in Names
    <2>1. DOMAIN c.row = RecordColumns /\ c.row.name \in Names
      BY Zenon, <1>4 DEF Record, GoodItem, GoodRow
    <2> QED BY <1>2, <1>4, <2>1, StatusRow
  <1>7. rec' = rec \/ rec' = [rec EXCEPT ![cur.id] = row]
    BY Zenon, <1>1, <1>2, <1>5 DEF MarkFailed
  <1>8. PICK r : Goto(p, r) /\ GoodProcess(r, ever)
    BY Zenon, <1>3, AdvanceMoves
  <1>9. CASE rec' = rec
    BY Zenon, <1>3, <1>8, <1>9, ReadMoves
  <1>10. CASE rec' = [rec EXCEPT ![cur.id] = row]
    BY Zenon, <1>3, <1>6, <1>8, <1>10, RecordMoves
  <1> QED BY Zenon, <1>7, <1>9, <1>10

\* The write of a record that a request read and changed.
LEMMA WriteRecordStep ==
  ASSUME SyncInv, NEW p \in Procs, WriteRecord(p)
  PROVE  SyncInv'
  <1>1. PICK q, i, row : q = req[p] /\ i = req[p].cur.id /\ row = req[p].cur.row
    OBVIOUS
  <1>2. q.pc = "write" /\ UNCHANGED <<srv, ever>> /\ GoodProcess(q, ever)
    BY Zenon, <1>1 DEF WriteRecord, At, SyncInv
  <1>3. GoodRow(row, ever) /\ row.name \in Names
    BY Zenon, <1>1, <1>2 DEF GoodProcess, Record, GoodItem
  <1>4. PICK g : g = [q EXCEPT !.pc = "get"]
    OBVIOUS
  <1>5. GoodProcess(g, ever)
    BY Zenon, <1>2, <1>4, MovedProcess
  <1>6. Goto(p, g) \/ Advance(p)
    BY Zenon, <1>1, <1>4 DEF WriteRecord
  <1>7. PICK r : Goto(p, r) /\ GoodProcess(r, ever)
    BY Zenon, <1>5, <1>6, AdvanceMoves
  <1>8. rec' = rec \/ rec' = [rec EXCEPT ![i] = row]
    BY Zenon, <1>1 DEF WriteRecord
  <1>9. CASE rec' = rec
    BY Zenon, <1>2, <1>7, <1>9, ReadMoves
  <1>10. CASE rec' = [rec EXCEPT ![i] = row]
    BY Zenon, <1>2, <1>3, <1>7, <1>10, RecordMoves
  <1> QED BY Zenon, <1>8, <1>9, <1>10

\* A record is looked up before it is created; one of the name is changed instead.
LEMMA CreateRecordStep ==
  ASSUME SyncInv, NEW p \in Procs, CreateRecord(p)
  PROVE  SyncInv'
  <1>1. PICK q, want : q = req[p] /\ want = req[p].cur.row
    OBVIOUS
  <1>2. q.pc = "create" /\ UNCHANGED <<rec, srv, ever>> /\ GoodProcess(q, ever)
    BY Zenon, <1>1 DEF CreateRecord, At, SyncInv
  <1>3. CASE Advance(p)
    BY Zenon, <1>2, <1>3, AdvanceMoves, ReadMoves
  <1>4. CASE Goto(p, [q EXCEPT !.pc = "insert", !.auto = zone.auto])
    <2>1. PICK r : r = [q EXCEPT !.pc = "insert", !.auto = zone.auto]
      OBVIOUS
    <2>2. /\ DOMAIN r = SyncColumns /\ r.pc = "insert" /\ r.cur = q.cur /\ r.todo = q.todo
          /\ r.from = q.from /\ r.after = q.after
      BY Zenon, <1>2, <2>1 DEF GoodProcess, SyncColumns
    <2>3. GoodProcess(r, ever)
      BY Zenon, <1>2, <2>2 DEF GoodProcess
    <2> QED BY Zenon, <1>2, <1>4, <2>1, <2>3, ReadMoves
  <1>5. ASSUME NEW i \in GetDNSRecordByName(want.name),
               Goto(p, [q EXCEPT !.pc = "write",
                  !.cur = [id |-> i, row |-> Pending([rec[i] EXCEPT
                    !.val = want.val, !.dev = IF want.dev = None THEN @ ELSE want.dev])]])
        PROVE  SyncInv'
    <2>1. i \in Recs /\ rec[i].name \in Names /\ DOMAIN rec[i] = RecordColumns
      BY Zenon, <1>5 DEF GetDNSRecordByName, Rows, SyncInv, GoodRecords, GoodRow
    <2>2. PICK changed : changed = [rec[i] EXCEPT
            !.val = want.val, !.dev = IF want.dev = None THEN @ ELSE want.dev]
      OBVIOUS
    <2>3. DOMAIN changed = RecordColumns /\ changed.name = rec[i].name
      BY Zenon, <2>1, <2>2 DEF RecordColumns
    <2>4. PICK row : row = [changed EXCEPT !.status = "pending"]
      OBVIOUS
    <2>5. GoodRow(row, ever) /\ row.name \in Names
      BY <2>1, <2>3, <2>4, StatusRow
    <2>6. PICK c : c = [id |-> i, row |-> row]
      OBVIOUS
    <2>7. Record(c, ever)
      BY Zenon, <2>5, <2>6 DEF Record, GoodItem
    <2>8. PICK r : r = [q EXCEPT !.pc = "write", !.cur = c]
      OBVIOUS
    <2>9. /\ DOMAIN r = SyncColumns /\ r.pc = "write" /\ r.cur = c /\ r.todo = q.todo
          /\ r.from = q.from /\ r.after = q.after
      BY Zenon, <1>2, <2>8 DEF GoodProcess, SyncColumns
    <2>10. GoodProcess(r, ever)
      BY Zenon, <1>2, <2>7, <2>9 DEF GoodProcess, Record
    <2>11. Goto(p, r)
      BY Zenon, <1>5, <2>2, <2>4, <2>6, <2>8 DEF Pending
    <2> QED BY Zenon, <1>2, <2>10, <2>11, ReadMoves
  <1> QED BY Zenon, <1>1, <1>3, <1>4, <1>5 DEF CreateRecord

\* A record is created, and published next when the zone says so.
LEMMA InsertRecordStep ==
  ASSUME SyncInv, NEW p \in Procs, InsertRecord(p)
  PROVE  SyncInv'
  <1>1. PICK q, row : q = req[p] /\ row = req[p].cur.row
    OBVIOUS
  <1>2. q.pc = "insert" /\ UNCHANGED <<srv, ever>> /\ GoodProcess(q, ever)
    BY Zenon, <1>1 DEF InsertRecord, At, SyncInv
  <1>3. GoodRow(row, ever) /\ row.name \in Names /\ Record(q.cur, ever)
    BY Zenon, <1>1, <1>2 DEF GoodProcess, Record, GoodItem
  <1>4. CASE rec' = rec /\ Advance(p)
    BY Zenon, <1>2, <1>4, AdvanceMoves, ReadMoves
  <1>5. ASSUME NEW i, rec' = [rec EXCEPT ![i] = row], Advance(p) PROVE SyncInv'
    <2>1. PICK r : Goto(p, r) /\ GoodProcess(r, ever)
      BY Zenon, <1>5, AdvanceMoves
    <2> QED BY Zenon, <1>2, <1>3, <1>5, <2>1, RecordMoves
  <1>6. ASSUME NEW i, rec' = [rec EXCEPT ![i] = row],
               Goto(p, [q EXCEPT !.pc = "get", !.cur.id = i, !.auto = FALSE])
        PROVE  SyncInv'
    <2>1. PICK c : c = [q.cur EXCEPT !.id = i]
      OBVIOUS
    <2>2. DOMAIN c = {"id", "row"} /\ c.row = q.cur.row
      BY Zenon, <1>3, <2>1 DEF Record, GoodItem
    <2>3. Record(c, ever)
      BY Zenon, <1>3, <2>2 DEF Record, GoodItem
    <2>4. PICK r : r = [q EXCEPT !.pc = "get", !.cur.id = i, !.auto = FALSE]
      OBVIOUS
    <2>5. /\ DOMAIN r = SyncColumns /\ r.pc = "get" /\ r.cur = c /\ r.todo = q.todo
          /\ r.from = q.from /\ r.after = q.after
      BY Zenon, <1>2, <2>1, <2>4 DEF GoodProcess, SyncColumns
    <2>6. GoodProcess(r, ever)
      BY Zenon, <1>2, <2>3, <2>5 DEF GoodProcess, Record
    <2> QED BY Zenon, <1>2, <1>3, <1>6, <2>4, <2>6, RecordMoves
  <1> QED BY Zenon, <1>1, <1>4, <1>5, <1>6 DEF InsertRecord, createDNSRecordInTx

\* A row that is deleted.
LEMMA GoneRow ==
  ASSUME NEW row, NEW e, row = [NoRec EXCEPT !.st = "gone"]
  PROVE  GoodRow(row, e) /\ row.st = "gone"
  BY Zenon DEF NoRec, GoodRow, RecordColumns, None

\* A record is deleted.
LEMMA DeleteRecordStep ==
  ASSUME SyncInv, NEW p \in Procs, DeleteDNSRecord(p)
  PROVE  SyncInv'
  <1>1. PICK row, i : row = [NoRec EXCEPT !.st = "gone"] /\ i = req[p].cur.id
    OBVIOUS
  <1>2. /\ Goto(p, Idle) /\ UNCHANGED <<srv, ever>>
        /\ rec' = rec \/ rec' = [rec EXCEPT ![i] = row]
    BY Zenon, <1>1 DEF DeleteDNSRecord
  <1>3. GoodProcess(Idle, ever) /\ GoodRow(row, ever) /\ row.st = "gone"
    BY Zenon, <1>1, IdleProcess, GoneRow
  <1>4. CASE rec' = rec
    BY Zenon, <1>2, <1>3, <1>4, ReadMoves
  <1>5. CASE rec' = [rec EXCEPT ![i] = row]
    BY Zenon, <1>2, <1>3, <1>5, RecordMoves
  <1> QED BY Zenon, <1>2, <1>4, <1>5

\* The records of the zone are deleted.
LEMMA DroppedRecords ==
  ASSUME SyncInv, rec' = DropRecords
  PROVE  /\ DOMAIN rec' = Recs
         /\ \A i \in Recs : GoodRow(rec'[i], ever) /\ (rec'[i].st = "live" => rec'[i].name \in Names)
  <1>1. PICK row : row = [NoRec EXCEPT !.st = "gone"]
    OBVIOUS
  <1>2. rec' = [i \in Recs |-> IF Live(i) THEN row ELSE rec[i]]
    BY Zenon, <1>1 DEF DropRecords
  <1>3. GoodRow(row, ever) /\ row.st = "gone"
    BY Zenon, <1>1, GoneRow
  <1> QED BY Zenon, <1>2, <1>3 DEF SyncInv, GoodRecords, Live

\* The zone is written, or deleted with the records it has by then.
LEMMA ZoneSteps ==
  ASSUME SyncInv, NEW p \in Procs, UpdateDNSZone(p) \/ DeleteDNSZone(p)
  PROVE  SyncInv'
  <1>1. Goto(p, Idle) /\ UNCHANGED <<srv, ever>> /\ (rec' = rec \/ rec' = DropRecords)
    BY Zenon DEF UpdateDNSZone, DeleteDNSZone
  <1>2. GoodProcess(Idle, ever)
    BY Zenon, IdleProcess
  <1>3. CASE rec' = rec
    BY Zenon, <1>1, <1>2, <1>3, ReadMoves
  <1>4. CASE rec' = DropRecords
    <2>1. /\ DOMAIN rec' = Recs
          /\ \A i \in Recs : GoodRow(rec'[i], ever) /\ (rec'[i].st = "live" => rec'[i].name \in Names)
      BY Zenon, <1>4, DroppedRecords
    <2> QED BY Zenon, <1>1, <1>2, <2>1, RecordsMove
  <1> QED BY Zenon, <1>1, <1>3, <1>4

\* One record of the server's list: skipped, or taken over by the record of the
\* name, whose value is then the server's.
LEMMA ImportLookStep ==
  ASSUME SyncInv, NEW p \in Procs, ImportLook(p)
  PROVE  SyncInv'
  <1>1. PICK q, want : q = req[p] /\ want = req[p].cur.row
    OBVIOUS
  <1>2. q.pc = "look" /\ UNCHANGED <<rec, srv, ever>> /\ GoodProcess(q, ever)
    BY Zenon, <1>1 DEF ImportLook, At, SyncInv
  <1>3. Published(want, ever)
    BY Zenon, <1>1, <1>2 DEF GoodProcess
  <1>4. CASE Advance(p)
    BY Zenon, <1>2, <1>4, AdvanceMoves, ReadMoves
  <1>5. CASE Goto(p, [q EXCEPT !.pc = "importNew"])
    <2>1. PICK r : r = [q EXCEPT !.pc = "importNew"]
      OBVIOUS
    <2>2. GoodProcess(r, ever)
      BY Zenon, <1>2, <2>1, MovedProcess
    <2> QED BY Zenon, <1>2, <1>5, <2>1, <2>2, ReadMoves
  <1>6. ASSUME NEW i \in GetDNSRecordByName(want.name), NEW row,
               row = IF rec[i].dev = None THEN [rec[i] EXCEPT !.dev = want.dev, !.addr = want.addr]
                     ELSE rec[i],
               Goto(p, [q EXCEPT !.pc = "importWrite", !.cur =
                  [id |-> i, row |-> [row EXCEPT !.val = want.val, !.status = "synced"]]])
        PROVE  SyncInv'
    <2>1. i \in Recs /\ rec[i].name = want.name /\ GoodRow(rec[i], ever)
      BY Zenon, <1>6 DEF GetDNSRecordByName, Rows, SyncInv, GoodRecords
    <2>2. DOMAIN row = RecordColumns /\ row.name = want.name
      <3>1. PICK old : old = rec[i]
        OBVIOUS
      <3>2. CASE row = [old EXCEPT !.dev = want.dev, !.addr = want.addr]
        <4>1. GoodRow(old, ever)
          BY Zenon, <2>1, <3>1
        <4>2. DOMAIN row = RecordColumns /\ row.name = old.name
          BY Zenon, <3>2, <4>1 DEF GoodRow, RecordColumns
        <4> QED BY Zenon, <2>1, <3>1, <4>2
      <3>3. CASE row = old
        BY Zenon, <2>1, <3>1, <3>3 DEF GoodRow
      <3> QED BY Zenon, <1>6, <3>1, <3>2, <3>3
    <2>3. PICK new : new = [row EXCEPT !.val = want.val, !.status = "synced"]
      OBVIOUS
    <2>4. DOMAIN new = RecordColumns /\ new.name = want.name /\ new.val = want.val
      BY Zenon, <2>2, <2>3 DEF RecordColumns
    <2>5. GoodRow(new, ever) /\ new.name \in Names
      BY Zenon, <1>3, <2>4 DEF GoodRow, Published
    <2>6. PICK c : c = [id |-> i, row |-> new]
      OBVIOUS
    <2>7. Record(c, ever)
      BY Zenon, <2>5, <2>6 DEF Record, GoodItem
    <2>8. PICK r : r = [q EXCEPT !.pc = "importWrite", !.cur = c]
      OBVIOUS
    <2>9. /\ DOMAIN r = SyncColumns /\ r.pc = "importWrite" /\ r.cur = c /\ r.todo = q.todo
          /\ r.from = q.from /\ r.after = q.after
      BY Zenon, <1>2, <2>8 DEF GoodProcess, SyncColumns
    <2>10. GoodProcess(r, ever)
      BY Zenon, <1>2, <2>7, <2>9 DEF GoodProcess, Record
    <2>11. Goto(p, r)
      BY Zenon, <1>6, <2>3, <2>6, <2>8
    <2> QED BY Zenon, <1>2, <2>10, <2>11, ReadMoves
  <1> QED BY Zenon, <1>1, <1>4, <1>5, <1>6 DEF ImportLook

\* The imported record is written.
LEMMA ImportWriteStep ==
  ASSUME SyncInv, NEW p \in Procs, ImportWrite(p)
  PROVE  SyncInv'
  <1>1. PICK q, row : q = req[p] /\ row = req[p].cur.row
    OBVIOUS
  <1>2. /\ q.pc \in {"importWrite", "importNew"} /\ UNCHANGED <<srv, ever>> /\ GoodProcess(q, ever)
        /\ Advance(p)
    BY Zenon, <1>1 DEF ImportWrite, At, SyncInv
  <1>3. GoodRow(row, ever) /\ row.name \in Names
    BY Zenon, <1>1, <1>2 DEF GoodProcess, Record, GoodItem
  <1>4. rec' = rec \/ \E i : rec' = [rec EXCEPT ![i] = row]
    BY Zenon, <1>1 DEF ImportWrite, createDNSRecordInTx
  <1>5. PICK r : Goto(p, r) /\ GoodProcess(r, ever)
    BY Zenon, <1>2, AdvanceMoves
  <1>6. CASE rec' = rec
    BY Zenon, <1>2, <1>5, <1>6, ReadMoves
  <1>7. ASSUME NEW i, rec' = [rec EXCEPT ![i] = row] PROVE SyncInv'
    BY Zenon, <1>2, <1>3, <1>5, <1>7, RecordMoves
  <1> QED BY Zenon, <1>4, <1>6, <1>7

\* A process that begins with one record.
LEMMA BeginRecord ==
  ASSUME NEW e, NEW c, Record(c, e), NEW what, what \notin {"mark", "remove", "look"}, NEW r,
         r = [Idle EXCEPT !.pc = what, !.cur = c]
  PROVE  GoodProcess(r, e)
  <1>1. /\ DOMAIN r = SyncColumns /\ r.pc = what /\ r.cur = c /\ r.todo = {} /\ r.after = NoRow
    BY Zenon, IdleProcess DEF SyncColumns
  <1> QED BY Zenon, <1>1 DEF GoodProcess, Record

\* The same, for one that only links.
LEMMA BeginLink ==
  ASSUME NEW e, NEW c, Record(c, e), NEW r, r = [Idle EXCEPT !.pc = "write", !.from = "link", !.cur = c]
  PROVE  GoodProcess(r, e)
  <1>1. /\ DOMAIN r = SyncColumns /\ r.pc = "write" /\ r.cur = c /\ r.todo = {} /\ r.after = NoRow
    BY Zenon, IdleProcess DEF SyncColumns
  <1> QED BY Zenon, <1>1 DEF GoodProcess, Record

\* After a device is stored: its record, when the zone is synchronised.
LEMMA DeviceProcess ==
  ASSUME NEW x, dev'[x].host \in Names, NEW new, NEW e, GoodProcess(new, e)
  PROVE  GoodProcess(syncDeviceDNS(x, new), e)
  <1>1. PICK n, v : n = dev'[x].host /\ v = dev'[x].ip
    OBVIOUS
  <1>2. PICK row : row = [st |-> "live", name |-> n, val |-> v, status |-> "pending", dev |-> x,
                          addr |-> None]
    OBVIOUS
  <1>3. DOMAIN row = RecordColumns /\ row.status = "pending" /\ row.name = n
    BY Zenon, <1>2 DEF RecordColumns
  <1>4. PICK c : c = [id |-> None, row |-> row]
    OBVIOUS
  <1>5. Record(c, e)
    BY Zenon, <1>1, <1>3, <1>4 DEF Record, GoodItem, GoodRow
  <1>6. PICK r : r = [new EXCEPT !.pc = "create", !.cur = c]
    OBVIOUS
  <1>7. /\ DOMAIN r = SyncColumns /\ r.pc = "create" /\ r.cur = c /\ r.todo = new.todo
        /\ r.from = new.from /\ r.after = new.after
    BY Zenon, <1>6 DEF GoodProcess, SyncColumns
  <1>8. GoodProcess(r, e)
    BY Zenon, <1>5, <1>7 DEF GoodProcess, Record
  <1>9. PICK w : w = [Idle EXCEPT !.pc = "write", !.from = "link", !.cur = new.after]
    OBVIOUS
  <1>10. new.after # NoRow => GoodProcess(w, e)
    BY Zenon, <1>9, BeginLink DEF GoodProcess
  <1>11. syncDeviceDNS(x, new) = IF ListDNSZones # {} THEN r
                                   ELSE IF new.after = NoRow THEN Idle ELSE w
    BY Zenon, <1>1, <1>2, <1>4, <1>6, <1>9 DEF syncDeviceDNS
  <1> QED BY Zenon, <1>8, <1>10, <1>11, IdleProcess

\* PromoteRecord makes the device, and keeps the record that it will link.
LEMMA PromoteDeviceStep ==
  ASSUME SyncInv, DOMAIN dev = Devices, NEW p \in Procs, PromoteDevice(p)
  PROVE  SyncInv'
  <1>1. PICK q, c : q = req[p] /\ c = req[p].cur
    OBVIOUS
  <1>2. PICK x \in Devices :
          /\ dev' = [dev EXCEPT ![x] = [st |-> "live", host |-> c.row.name, ip |-> c.row.val]]
          /\ Goto(p, syncDeviceDNS(x, [Idle EXCEPT !.after = [c EXCEPT !.row.dev = x, !.row.addr = x]]))
          /\ q.pc = "promote" /\ UNCHANGED <<rec, srv, ever>>
    BY Zenon, <1>1 DEF PromoteDevice, At
  <1>3. Record(c, ever)
    BY Zenon, <1>1, <1>2 DEF SyncInv, GoodProcess
  <1>4. PICK row : row = [c.row EXCEPT !.dev = x, !.addr = x]
    OBVIOUS
  <1>5. GoodRow(row, ever) /\ row.name \in Names
    <2>1. GoodRow(c.row, ever) /\ c.row.name \in Names
      BY Zenon, <1>3 DEF Record, GoodItem
    <2>2. /\ DOMAIN row = RecordColumns /\ row.name = c.row.name /\ row.val = c.row.val
          /\ row.status = c.row.status
      BY Zenon, <1>4, <2>1 DEF GoodRow, RecordColumns
    <2> QED BY Zenon, <2>1, <2>2, RelinkedRow
  <1>6. PICK after : after = [c EXCEPT !.row.dev = x, !.row.addr = x]
    OBVIOUS
  <1>7. DOMAIN after = {"id", "row"} /\ after.row = row
    <2>1. PICK first : first = [c EXCEPT !.row.dev = x]
      OBVIOUS
    <2>2. DOMAIN first = {"id", "row"} /\ first.row = [c.row EXCEPT !.dev = x]
      BY Zenon, <1>3, <2>1 DEF Record, GoodItem
    <2>3. after = [first EXCEPT !.row.addr = x]
      BY Zenon, <1>6, <2>1
    <2>4. DOMAIN after = {"id", "row"} /\ after.row = [first.row EXCEPT !.addr = x]
      BY Zenon, <2>2, <2>3
    <2> QED BY Zenon, <1>4, <2>2, <2>4
  <1>8. Record(after, ever)
    BY Zenon, <1>5, <1>7 DEF Record, GoodItem
  <1>9. PICK new : new = [Idle EXCEPT !.after = after]
    OBVIOUS
  <1>10. /\ DOMAIN new = SyncColumns /\ new.pc = "idle" /\ new.cur = NoRow /\ new.todo = {}
         /\ new.after = after
    BY Zenon, <1>9, IdleProcess DEF SyncColumns
  <1>11. GoodProcess(new, ever)
    BY Zenon, <1>8, <1>10, IdleProcess DEF GoodProcess
  <1>12. dev'[x].host \in Names
    BY Zenon, <1>2, <1>3 DEF Record
  <1>13. PICK r : r = syncDeviceDNS(x, new)
    OBVIOUS
  <1>14. GoodProcess(r, ever)
    BY Zenon, <1>11, <1>12, <1>13, DeviceProcess
  <1>15. Goto(p, r)
    BY Zenon, <1>2, <1>6, <1>9, <1>13
  <1> QED BY Zenon, <1>2, <1>14, <1>15, ReadMoves

\* Requests on one record: the row as read, changed.
LEMMA RecordRequests ==
  ASSUME SyncInv, NEW p \in Reqs, NEW i \in Recs,
         \/ updateDNSRecord(p, i) \/ deleteDNSRecord(p, i) \/ promoteDNSRecord(p, i)
         \/ \E x \in Devices : linkDNSRecord(p, i, x)
  PROVE  SyncInv'
  <1>1. PICK old : old = rec[i]
    OBVIOUS
  <1>2. GoodRow(old, ever) /\ old.name \in Names /\ UNCHANGED <<rec, srv, ever>> /\ p \in Procs
    BY Zenon, <1>1 DEF SyncInv, GoodRecords, updateDNSRecord, deleteDNSRecord, promoteDNSRecord,
                linkDNSRecord, Procs
  <1>3. ASSUME NEW row, DOMAIN row = RecordColumns, row.name \in Names, UpdateRecord(p, i, row)
        PROVE  SyncInv'
    <2>1. PICK new : new = [row EXCEPT !.status = "pending"]
      OBVIOUS
    <2>2. GoodRow(new, ever) /\ new.name = row.name
      BY <1>3, <2>1, StatusRow
    <2>3. PICK c : c = [id |-> i, row |-> new]
      OBVIOUS
    <2>4. Record(c, ever)
      BY Zenon, <1>3, <2>2, <2>3 DEF Record, GoodItem
    <2>5. PICK r : r = [Idle EXCEPT !.pc = "write", !.cur = c]
      OBVIOUS
    <2>6. GoodProcess(r, ever)
      BY Zenon, <2>4, <2>5, BeginRecord
    <2>7. Goto(p, r)
      BY Zenon, <1>3, <2>1, <2>3, <2>5 DEF UpdateRecord, Pending, Begin
    <2> QED BY Zenon, <1>2, <2>6, <2>7, ReadMoves
  <1>4. CASE updateDNSRecord(p, i)
    <2>1. \/ \E v \in Values : UpdateRecord(p, i, [old EXCEPT !.val = v])
          \/ \E n \in Names : UpdateRecord(p, i, [old EXCEPT !.name = n])
          \/ \E x \in Devices : UpdateRecord(p, i, [old EXCEPT !.dev = x])
      BY Zenon, <1>1, <1>4 DEF updateDNSRecord
    <2>2. ASSUME NEW v PROVE LET row == [old EXCEPT !.val = v] IN DOMAIN row = RecordColumns /\ row.name \in Names
      BY Zenon, <1>2 DEF GoodRow, RecordColumns
    <2>3. ASSUME NEW n \in Names PROVE LET row == [old EXCEPT !.name = n] IN DOMAIN row = RecordColumns /\ row.name \in Names
      BY Zenon, <1>2 DEF GoodRow, RecordColumns
    <2>4. ASSUME NEW x PROVE LET row == [old EXCEPT !.dev = x] IN DOMAIN row = RecordColumns /\ row.name \in Names
      BY Zenon, <1>2 DEF GoodRow, RecordColumns
    <2> QED BY Zenon, <1>3, <2>1, <2>2, <2>3, <2>4
  <1>5. PICK c : c = [id |-> i, row |-> old]
    OBVIOUS
  <1>6. Record(c, ever) /\ c = GetDNSRecord(i)
    BY Zenon, <1>1, <1>2, <1>5 DEF Record, GoodItem, GetDNSRecord
  <1>7. ASSUME NEW what \in {"unpublish", "delete", "promote"},
               Begin(p, [Idle EXCEPT !.pc = what, !.cur = c])
        PROVE  SyncInv'
    <2>1. PICK r : r = [Idle EXCEPT !.pc = what, !.cur = c]
      OBVIOUS
    <2>2. GoodProcess(r, ever)
      BY Zenon, <1>6, <1>7, <2>1, BeginRecord
    <2>3. Goto(p, r)
      BY Zenon, <1>7, <2>1 DEF Begin
    <2> QED BY Zenon, <1>2, <2>2, <2>3, ReadMoves
  <1>8. CASE deleteDNSRecord(p, i)
    <2>1. PICK what : what = IF rec[i].status = "synced" THEN "unpublish" ELSE "delete"
      OBVIOUS
    <2>2. Begin(p, [Idle EXCEPT !.pc = what, !.cur = c]) /\ what \in {"unpublish", "delete"}
      BY Zenon, <1>6, <1>8, <2>1 DEF deleteDNSRecord, DeleteRecord
    <2> QED BY Zenon, <1>7, <2>2
  <1>9. CASE promoteDNSRecord(p, i)
    BY Zenon, <1>6, <1>7, <1>9 DEF promoteDNSRecord, PromoteRecord
  <1>10. ASSUME NEW x \in Devices, linkDNSRecord(p, i, x) PROVE SyncInv'
    <2>1. PICK a : Begin(p, [Idle EXCEPT !.pc = "write", !.from = "link",
                         !.cur = [id |-> i, row |-> [old EXCEPT !.dev = x, !.addr = a]]])
      BY Zenon, <1>1, <1>10 DEF linkDNSRecord, LinkRecord
    <2>2. PICK row : row = [old EXCEPT !.dev = x, !.addr = a]
      OBVIOUS
    <2>3. GoodRow(row, ever) /\ row.name = old.name
      <3>1. /\ DOMAIN row = RecordColumns /\ row.name = old.name /\ row.val = old.val
            /\ row.status = old.status
        BY Zenon, <1>2, <2>2 DEF GoodRow, RecordColumns
      <3> QED BY Zenon, <1>2, <3>1, RelinkedRow
    <2>4. PICK l : l = [id |-> i, row |-> row]
      OBVIOUS
    <2>5. Record(l, ever)
      BY Zenon, <1>2, <2>3, <2>4 DEF Record, GoodItem
    <2>6. PICK r : r = [Idle EXCEPT !.pc = "write", !.from = "link", !.cur = l]
      OBVIOUS
    <2>7. GoodProcess(r, ever)
      BY Zenon, <2>5, <2>6, BeginLink
    <2>8. Goto(p, r)
      BY Zenon, <2>1, <2>2, <2>4, <2>6 DEF Begin
    <2> QED BY Zenon, <1>2, <2>7, <2>8, ReadMoves
  <1> QED BY Zenon, <1>4, <1>8, <1>9, <1>10

\* The tool's request for a record of a name and a value.
LEMMA SaveRecordRequest ==
  ASSUME SyncInv, NEW p \in Reqs, handleDNSRecordSave(p)
  PROVE  SyncInv'
  <1>1. PICK n \in Names, v \in Values :
          Begin(p, [Idle EXCEPT !.pc = "create", !.cur.row =
            [NoRec EXCEPT !.st = "live", !.name = n, !.val = v, !.status = "pending"]])
    BY Zenon DEF handleDNSRecordSave
  <1>2. PICK row : row = [NoRec EXCEPT !.st = "live", !.name = n, !.val = v, !.status = "pending"]
    OBVIOUS
  <1>3. DOMAIN row = RecordColumns /\ row.name = n /\ row.status = "pending"
    BY Zenon, <1>2 DEF NoRec, RecordColumns
  <1>4. PICK c : c = [NoRow EXCEPT !.row = row]
    OBVIOUS
  <1>5. DOMAIN c = {"id", "row"} /\ c.row = row
    BY Zenon, <1>4 DEF NoRow
  <1>6. Record(c, ever)
    BY Zenon, <1>3, <1>5 DEF Record, GoodItem, GoodRow
  <1>7. PICK r : r = [Idle EXCEPT !.pc = "create", !.cur = c]
    OBVIOUS
  <1>8. GoodProcess(r, ever)
    BY Zenon, <1>6, <1>7, BeginRecord
  <1>9. r = [Idle EXCEPT !.pc = "create", !.cur.row = row]
    BY Zenon, <1>4, <1>7, IdleProcess DEF SyncColumns
  <1>10. Goto(p, r)
    BY Zenon, <1>1, <1>2, <1>9 DEF Begin
  <1>11. p \in Procs /\ UNCHANGED <<rec, srv, ever>>
    BY Zenon DEF Procs, handleDNSRecordSave
  <1> QED BY Zenon, <1>8, <1>10, <1>11, ReadMoves

\* A list of records is begun.
LEMMA ListProcess ==
  ASSUME NEW e, NEW p, NEW new, DOMAIN new = SyncColumns, new.cur = NoRow, new.after = NoRow,
         new.pc = "get" \/ (new.pc = "look" /\ new.from = "import"),
         \A c \in new.todo : Record(c, e) /\ (new.from = "import" => Published(c.row, e)),
         NEW r \in StartList(p, new)
  PROVE  GoodProcess(r, e)
  <1>1. CASE new.todo = {}
    <2>1. PICK what : what = IF new.pc = "get" THEN "zone" ELSE "idle"
      OBVIOUS
    <2>2. r = [new EXCEPT !.pc = what]
      BY Zenon, <1>1, <2>1 DEF StartList
    <2>3. /\ DOMAIN r = SyncColumns /\ r.pc = what /\ r.cur = NoRow /\ r.todo = {}
          /\ r.after = NoRow
      BY Zenon, <1>1, <2>2 DEF SyncColumns
    <2> QED BY Zenon, <2>1, <2>3, IdleProcess DEF GoodProcess
  <1>2. CASE new.todo # {}
    <2>1. PICK c \in new.todo : r = [new EXCEPT !.cur = c, !.todo = @ \ {c}]
      BY Zenon, <1>2 DEF StartList
    <2>2. /\ DOMAIN r = SyncColumns /\ r.pc = new.pc /\ r.cur = c /\ r.todo = new.todo \ {c}
          /\ r.from = new.from /\ r.after = NoRow
      BY Zenon, <2>1 DEF SyncColumns
    <2> QED BY Zenon, <2>1, <2>2 DEF GoodProcess, Record
  <1> QED BY Zenon, <1>1, <1>2

\* The records of the zone, as read.
LEMMA ZoneList ==
  ASSUME SyncInv, NEW p, NEW r \in StartList(p, [SyncZone EXCEPT !.pc = "get"])
  PROVE  GoodProcess(r, ever)
  <1>1. PICK todo, new : todo = ListDNSRecords /\ new = [SyncZone EXCEPT !.pc = "get"]
    OBVIOUS
  <1>2. PICK base : base = [Idle EXCEPT !.from = "zone", !.auto = zone.auto, !.todo = todo]
    OBVIOUS
  <1>3. /\ DOMAIN base = SyncColumns /\ base.cur = NoRow /\ base.after = NoRow /\ base.todo = todo
        /\ base.from = "zone"
    BY Zenon, <1>2, IdleProcess DEF SyncColumns
  <1>4. new = [base EXCEPT !.pc = "get"]
    BY Zenon, <1>1, <1>2 DEF SyncZone
  <1>5. /\ DOMAIN new = SyncColumns /\ new.cur = NoRow /\ new.after = NoRow /\ new.todo = todo
        /\ new.from = "zone" /\ new.pc = "get"
    BY Zenon, <1>3, <1>4 DEF SyncColumns
  <1>6. \A c \in todo : Record(c, ever)
    BY <1>1 DEF ListDNSRecords, GetDNSRecord, Rows, SyncInv, GoodRecords, Record, GoodItem
  <1> QED BY Zenon, <1>1, <1>5, <1>6, ListProcess

\* The list of the server: every record of it was published.
LEMMA ImportRequest ==
  ASSUME SyncInv, NEW p \in Reqs, importDNSZone(p)
  PROVE  SyncInv'
  <1>1. PICK match, r :
          /\ r \in StartList(p, [Idle EXCEPT !.pc = "look", !.from = "import",
               !.todo = {c \in ImportFromDNS : c.row.val \in srv[c.row.name] /\ c.row.dev = match[c.row.val]}])
          /\ Begin(p, r)
    BY Zenon DEF importDNSZone
  <1>2. PICK todo :
          todo = {c \in ImportFromDNS : c.row.val \in srv[c.row.name] /\ c.row.dev = match[c.row.val]}
    OBVIOUS
  <1>3. ASSUME NEW c \in todo PROVE Record(c, ever) /\ Published(c.row, ever)
    <2>1. PICK n \in Names, v \in Values, x \in Devices \cup {None} :
            c = [id |-> None, row |-> [st |-> "live", name |-> n, val |-> v, status |-> "synced",
                                         dev |-> x, addr |-> x]]
      BY <1>2 DEF ImportFromDNS
    <2>2. PICK row : row = [st |-> "live", name |-> n, val |-> v, status |-> "synced", dev |-> x, addr |-> x]
      OBVIOUS
    <2>3. DOMAIN row = RecordColumns /\ row.name = n /\ row.val = v
      BY Zenon, <2>2 DEF RecordColumns
    <2>4. DOMAIN c = {"id", "row"} /\ c.row = row
      BY Zenon, <2>1, <2>2
    <2>5. v \in srv[n]
      BY Zenon, <1>2, <2>3, <2>4
    <2>6. Published(row, ever)
      BY Zenon, <2>3, <2>5 DEF Published, SyncInv, SyncTypes
    <2> QED BY Zenon, <2>3, <2>4, <2>6 DEF Record, GoodItem, GoodRow
  <1>4. PICK new : new = [Idle EXCEPT !.pc = "look", !.from = "import", !.todo = todo]
    OBVIOUS
  <1>5. /\ DOMAIN new = SyncColumns /\ new.cur = NoRow /\ new.after = NoRow /\ new.todo = todo
        /\ new.from = "import" /\ new.pc = "look"
    BY Zenon, <1>4, IdleProcess DEF SyncColumns
  <1>6. r \in StartList(p, new)
    BY Zenon, <1>1, <1>2, <1>4
  <1>7. GoodProcess(r, ever)
    BY Zenon, <1>3, <1>5, <1>6, ListProcess
  <1>8. p \in Procs /\ UNCHANGED <<rec, srv, ever>> /\ Goto(p, r)
    BY Zenon, <1>1 DEF Procs, importDNSZone, Begin
  <1> QED BY Zenon, <1>7, <1>8, ReadMoves

\* The other requests on the zone.
LEMMA ZoneRequests ==
  ASSUME SyncInv, NEW p \in Reqs, syncDNSZone(p) \/ updateDNSZone(p) \/ deleteDNSZone(p)
  PROVE  SyncInv'
  <1>1. p \in Procs /\ UNCHANGED <<srv, ever>>
    BY Zenon DEF Procs, syncDNSZone, updateDNSZone, deleteDNSZone
  <1>2. CASE syncDNSZone(p)
    <2>1. PICK r \in StartList(p, [SyncZone EXCEPT !.pc = "get"]) : Begin(p, r) /\ rec' = rec
      BY Zenon, <1>2 DEF syncDNSZone
    <2> QED BY Zenon, <1>1, <2>1, ZoneList, ReadMoves DEF Begin
  <1>3. ASSUME NEW r, DOMAIN r = SyncColumns, r.pc \in {"zone", "dropZone"}, r.cur = NoRow, r.todo = {},
               r.after = NoRow
        PROVE  GoodProcess(r, ever)
    BY Zenon, <1>3, IdleProcess DEF GoodProcess
  <1>4. CASE updateDNSZone(p)
    <2>1. PICK auto, r : r = [Idle EXCEPT !.pc = "zone", !.auto = auto] /\ Goto(p, r) /\ rec' = rec
      BY Zenon, <1>4 DEF updateDNSZone, Begin
    <2>2. /\ DOMAIN r = SyncColumns /\ r.pc = "zone" /\ r.cur = NoRow /\ r.todo = {}
          /\ r.after = NoRow
      BY Zenon, <2>1, IdleProcess DEF SyncColumns
    <2> QED BY Zenon, <1>1, <1>3, <2>1, <2>2, ReadMoves
  <1>5. CASE deleteDNSZone(p)
    <2>1. PICK r : r = [Idle EXCEPT !.pc = "dropZone"] /\ Goto(p, r) /\ rec' = DropRecords
      BY Zenon, <1>5 DEF deleteDNSZone, Begin
    <2>2. /\ DOMAIN r = SyncColumns /\ r.pc = "dropZone" /\ r.cur = NoRow /\ r.todo = {}
          /\ r.after = NoRow
      BY Zenon, <2>1, IdleProcess DEF SyncColumns
    <2>3. /\ DOMAIN rec' = Recs
          /\ \A i \in Recs : GoodRow(rec'[i], ever) /\ (rec'[i].st = "live" => rec'[i].name \in Names)
      BY Zenon, <2>1, DroppedRecords
    <2> QED BY Zenon, <1>1, <1>3, <2>1, <2>2, <2>3, RecordsMove
  <1> QED BY Zenon, <1>2, <1>4, <1>5

\* Requests on a device: records lose the links to it, and nothing else.
LEMMA DeviceRequests ==
  ASSUME SyncInv, DOMAIN dev = Devices, NEW p \in Reqs, NEW x \in Devices,
         createDevice(p, x) \/ updateDevice(p, x) \/ deleteDevice(p, x)
  PROVE  SyncInv'
  <1>1. p \in Procs /\ UNCHANGED <<srv, ever>>
    BY Zenon DEF Procs, createDevice, updateDevice, deleteDevice
  <1>2. GoodProcess(Idle, ever)
    BY Zenon, IdleProcess
  <1>3. PICK r : Goto(p, r) /\ GoodProcess(r, ever)
    <2>1. CASE deleteDevice(p, x)
      BY Zenon, <1>2, <2>1 DEF deleteDevice, Begin
    <2>2. CASE createDevice(p, x) \/ updateDevice(p, x)
      <3>1. PICK n \in Names, v \in Values :
              /\ dev' = [dev EXCEPT ![x] = [st |-> "live", host |-> n, ip |-> v]]
              /\ Goto(p, syncDeviceDNS(x, Idle))
        BY Zenon, <2>2 DEF createDevice, updateDevice, Begin
      <3>2. dev'[x].host \in Names
        BY Zenon, <3>1
      <3> QED BY Zenon, <1>2, <3>1, <3>2, DeviceProcess
    <2> QED BY Zenon, <2>1, <2>2
  <1>4. ASSUME DOMAIN rec' = Recs, \A i \in Recs :
                 /\ DOMAIN rec'[i] = RecordColumns /\ rec'[i].st = rec[i].st /\ rec'[i].name = rec[i].name
                 /\ rec'[i].val = rec[i].val /\ rec'[i].status = rec[i].status
        PROVE  SyncInv'
    <2>1. \A i \in Recs : GoodRow(rec'[i], ever)
      BY Zenon, <1>4, RelinkedRow DEF SyncInv, GoodRecords
    <2>2. \A i \in Recs : rec'[i].st = "live" => rec'[i].name \in Names
      BY Zenon, <1>4 DEF SyncInv, GoodRecords, Live
    <2> QED BY Zenon, <1>1, <1>3, <1>4, <2>1, <2>2, RecordsMove
  <1>5. \A i \in Recs : DOMAIN rec[i] = RecordColumns
    BY Zenon DEF SyncInv, GoodRecords, GoodRow
  <1>6. CASE createDevice(p, x)
    BY Zenon, <1>1, <1>3, <1>6, ReadMoves DEF createDevice
  <1>7. CASE updateDevice(p, x)
    <2>1. rec' = [i \in Recs |-> IF rec[i].addr = x THEN [rec[i] EXCEPT !.addr = None] ELSE rec[i]]
      BY Zenon, <1>7 DEF updateDevice
    <2>2. ASSUME NEW i \in Recs
          PROVE  /\ DOMAIN rec'[i] = RecordColumns /\ rec'[i].st = rec[i].st /\ rec'[i].name = rec[i].name
                 /\ rec'[i].val = rec[i].val /\ rec'[i].status = rec[i].status
      <3>1. rec'[i] = rec[i] \/ rec'[i] = [rec[i] EXCEPT !.addr = None]
        BY Zenon, <2>1
      <3> QED BY Zenon, <1>5, <3>1 DEF RecordColumns
    <2> QED BY Zenon, <1>4, <2>1, <2>2
  <1>8. CASE deleteDevice(p, x)
    <2>1. rec' = [i \in Recs |-> IF rec[i].dev = x \/ rec[i].addr = x
                     THEN [rec[i] EXCEPT !.dev = IF @ = x THEN None ELSE @,
                                         !.addr = IF @ = x THEN None ELSE @]
                     ELSE rec[i]]
      BY Zenon, <1>8 DEF deleteDevice
    <2>2. ASSUME NEW i \in Recs
          PROVE  /\ DOMAIN rec'[i] = RecordColumns /\ rec'[i].st = rec[i].st /\ rec'[i].name = rec[i].name
                 /\ rec'[i].val = rec[i].val /\ rec'[i].status = rec[i].status
      <3>1. \/ rec'[i] = rec[i]
            \/ rec'[i] = [rec[i] EXCEPT !.dev = IF @ = x THEN None ELSE @,
                                        !.addr = IF @ = x THEN None ELSE @]
        BY Zenon, <2>1
      <3> QED BY Zenon, <1>5, <3>1 DEF RecordColumns
    <2> QED BY Zenon, <1>4, <2>1, <2>2
  <1> QED BY Zenon, <1>6, <1>7, <1>8

\* The table of devices has the rows it began with.
LEMMA DevicesStay ==
  ASSUME DOMAIN dev = Devices, [Next]_(vars)
  PROVE  DOMAIN dev' = Devices
  <1>1. dev' = dev => DOMAIN dev' = Devices
    OBVIOUS
  <1>2. ASSUME NEW x, NEW row, dev' = [dev EXCEPT ![x] = row] PROVE DOMAIN dev' = Devices
    BY Zenon, <1>2
  <1>3. UNCHANGED vars => dev' = dev
    BY Zenon DEF vars
  <1>4. ASSUME NEW p \in Procs, Step(p) PROVE DOMAIN dev' = Devices
    <2>1. CASE PromoteDevice(p)
      BY Zenon, <1>2, <2>1 DEF PromoteDevice
    <2>2. CASE ~PromoteDevice(p)
      BY Zenon, <1>1, <1>4, <2>2 DEF Step, SyncRecord, ServerAdd, ServerDelete, MarkSynced, MarkFailed,
         WriteRecord, CreateRecord, InsertRecord, DeleteDNSRecord, UpdateDNSZone,
         DeleteDNSZone, ImportLook, ImportWrite
    <2> QED BY Zenon, <2>1, <2>2
  <1>5. ASSUME NEW p \in Reqs, Request(p) PROVE DOMAIN dev' = Devices
    <2>1. ASSUME NEW x \in Devices, createDevice(p, x) \/ updateDevice(p, x) PROVE DOMAIN dev' = Devices
      BY Zenon, <1>2, <2>1 DEF createDevice, updateDevice
    <2>2. ASSUME NEW x \in Devices, deleteDevice(p, x) PROVE DOMAIN dev' = Devices
      BY Zenon, <2>2 DEF deleteDevice
    <2>3. ASSUME NEW i \in Recs,
                 \/ updateDNSRecord(p, i) \/ deleteDNSRecord(p, i) \/ promoteDNSRecord(p, i)
                 \/ \E x \in Devices : linkDNSRecord(p, i, x)
          PROVE  dev' = dev
      BY Zenon, <2>3 DEF updateDNSRecord, deleteDNSRecord, promoteDNSRecord, linkDNSRecord
    <2>4. ASSUME \/ handleDNSRecordSave(p) \/ syncDNSZone(p) \/ updateDNSZone(p)
                 \/ deleteDNSZone(p) \/ importDNSZone(p)
          PROVE  dev' = dev
      BY Zenon, <2>4 DEF handleDNSRecordSave, syncDNSZone, updateDNSZone, deleteDNSZone, importDNSZone
    <2> QED BY Zenon, <1>1, <1>5, <2>1, <2>2, <2>3, <2>4 DEF Request
  <1>6. syncZones(Worker) => dev' = dev
    BY Zenon DEF syncZones
  <1> QED BY Zenon, <1>1, <1>3, <1>4, <1>5, <1>6 DEF Next

\* Every step keeps what is called synced published.
LEMMA SyncStep ==
  ASSUME SyncInv, DOMAIN dev = Devices, [Next]_(vars)
  PROVE  SyncInv'
  <1>1. CASE UNCHANGED vars
    BY Zenon, <1>1 DEF vars, SyncInv, SyncTypes, GoodRecords, Live
  <1>2. ASSUME NEW p \in Procs, Step(p) PROVE SyncInv'
    BY Zenon, <1>2, SyncRecordStep, ServerAddStep, ServerDeleteStep, MarkSyncedStep, MarkFailedStep,
       WriteRecordStep, CreateRecordStep, InsertRecordStep, DeleteRecordStep, ZoneSteps,
       ImportLookStep, ImportWriteStep, PromoteDeviceStep DEF Step
  <1>3. ASSUME NEW p \in Reqs, Request(p) PROVE SyncInv'
    BY Zenon, <1>3, RecordRequests, SaveRecordRequest, ZoneRequests, ImportRequest, DeviceRequests DEF Request
  <1>4. CASE syncZones(Worker)
    <2>1. PICK r \in StartList(Worker, [SyncZone EXCEPT !.pc = "get"]) : Goto(Worker, r)
      BY Zenon, <1>4 DEF syncZones
    <2>2. Worker \in Procs /\ UNCHANGED <<rec, srv, ever>>
      BY Zenon, <1>4 DEF syncZones, Procs
    <2> QED BY Zenon, <2>1, <2>2, ZoneList, ReadMoves
  <1> QED BY Zenon, <1>1, <1>2, <1>3, <1>4 DEF Next

\* A zone with at most a record that is not yet synced.
LEMMA SyncStart == Init => SyncInv /\ DOMAIN dev = Devices
  <1> SUFFICES ASSUME Init PROVE SyncInv /\ DOMAIN dev = Devices
    OBVIOUS
  <1>1. PICK r1, row : /\ row = NoRec \/ row \in [st : {"live"}, name : Names, val : Values,
                             status : {"pending"}, dev : {None}, addr : {None}]
                       /\ rec = [r \in Recs |-> IF r = r1 THEN row ELSE NoRec]
    <2>1. PICK first, saved :
            /\ first = (CHOOSE r \in Recs : TRUE)
            /\ saved = [st : {"live"}, name : Names, val : Values, status : {"pending"},
                        dev : {None}, addr : {None}]
      OBVIOUS
    <2>2. PICK row \in {NoRec} \cup saved : rec = [r \in Recs |-> IF r = first THEN row ELSE NoRec]
      BY <2>1 DEF Init
    <2> QED BY <2>1, <2>2
  <1>2. GoodRow(row, ever) /\ (row.st = "live" => row.name \in Names)
    <2>1. CASE row = NoRec
      BY Zenon, <2>1, IdleProcess DEF NoRec
    <2>2. CASE row \in [st : {"live"}, name : Names, val : Values, status : {"pending"},
                        dev : {None}, addr : {None}]
      BY Zenon, <2>2 DEF GoodRow, RecordColumns
    <2> QED BY Zenon, <1>1, <2>1, <2>2
  <1>3. GoodRow(NoRec, ever) /\ NoRec.st = "fresh"
    BY Zenon, IdleProcess DEF NoRec
  <1>4. GoodRecords
    BY Zenon, <1>1, <1>2, <1>3 DEF GoodRecords, Live
  <1>5. SyncTypes /\ DOMAIN dev = Devices
    BY Zenon, <1>1 DEF Init, SyncTypes
  <1>6. \A p \in Procs : GoodProcess(req[p], ever)
    BY Zenon, IdleProcess DEF Init
  <1> QED BY Zenon, <1>4, <1>5, <1>6 DEF SyncInv

\* A record that says it is synced has a value that the DNS server really had
\* under that name, although rows are kept over calls to the server, written
\* whole, and an update or an import may come between.
THEOREM SyncedRecordsWerePublished == Spec => []SyncedWasPublished
  <1> DEFINE Inv == SyncInv /\ DOMAIN dev = Devices
  <1>1. Inv => SyncedWasPublished
    BY Zenon DEF SyncInv, GoodRecords, GoodRow, Published, SyncedWasPublished, Rows
  <1>2. Inv /\ [Next]_(vars) => Inv'
    BY Zenon, SyncStep, DevicesStay
  <1> HIDE DEF Inv
  <1>3. Init => Inv
    BY SyncStart DEF Inv
  <1> QED BY <1>1, <1>2, <1>3, PTL DEF Spec

-----------------------------------------------------------------------------
(* DnsZones: providers and their cached clients.                               *)

ZoneColumns == {"pc", "id", "row", "new"}

\* What a request that will write a provider, or make a client of it, holds.
ProviderRequest(r) ==
    /\ r.pc \in {"createProvider", "updateProvider"} => r.row.st = "live"
    /\ r.pc = "createProvider" => r.id \in Providers /\ prov[r.id].st = "fresh"
    /\ r.pc = "client" => r.id \in Providers /\ prov[r.id].st # "fresh"

ProviderRequests ==
    /\ \A p \in ZoneReqs : DOMAIN zReq[p] = ZoneColumns /\ ProviderRequest(zReq[p])
    /\ \A p, q \in ZoneReqs : /\ p # q /\ zReq[p].pc = "createProvider" /\ zReq[q].pc = "createProvider"
                          => zReq[p].id # zReq[q].id

\* Of a provider whose updates overlapped nothing: a cached client is of its
\* row, and there is none while a new secret is on its way.
Current(i) ==
    /\ prov[i].st = "live" /\ cache[i] # 0 => cache[i] = prov[i].ver
    /\ \A p \in ZoneReqs : zReq[p].pc = "updateProvider" /\ zReq[p].id = i /\ zReq[p].new => cache[i] = 0

ClientsInv ==
    /\ DOMAIN prov = Providers /\ DOMAIN cache = Providers /\ DOMAIN zReq = ZoneReqs
    /\ ProviderRequests
    /\ \A i \in Providers : /\ prov[i].st = "fresh" => cache[i] = 0
                            /\ i \notin overlap => Current(i)

\* The requests that write a provider or make a client of it.
Loud == {"createProvider", "updateProvider", "client"}

\* One request moves: the others hold what they held.
LEMMA OneMoves ==
  ASSUME ClientsInv, NEW p \in ZoneReqs, NEW r, DOMAIN r = ZoneColumns, zReq' = [zReq EXCEPT ![p] = r]
  PROVE  /\ DOMAIN zReq' = ZoneReqs /\ zReq'[p] = r /\ \A q \in ZoneReqs : q # p => zReq'[q] = zReq[q]
         /\ \A q \in ZoneReqs : DOMAIN zReq'[q] = ZoneColumns
  <1>1. DOMAIN zReq' = ZoneReqs /\ zReq'[p] = r /\ \A q \in ZoneReqs : q # p => zReq'[q] = zReq[q]
    BY Zenon DEF ClientsInv
  <1> QED BY Zenon, <1>1 DEF ClientsInv, ProviderRequests

\* A step that has nothing to do with providers.
LEMMA QuietStep ==
  ASSUME ClientsInv, NEW p \in ZoneReqs, NEW r, DOMAIN r = ZoneColumns, r.pc \notin Loud,
         zReq' = [zReq EXCEPT ![p] = r], UNCHANGED <<prov, cache, overlap>>
  PROVE  ClientsInv'
  <1>1. /\ DOMAIN zReq' = ZoneReqs /\ zReq'[p] = r /\ \A q \in ZoneReqs : q # p => zReq'[q] = zReq[q]
        /\ \A q \in ZoneReqs : DOMAIN zReq'[q] = ZoneColumns
    BY Zenon, OneMoves
  <1>2. \A q \in ZoneReqs : zReq'[q] = zReq[q] \/ zReq'[q].pc \notin Loud
    BY Zenon, <1>1
  <1>3. ProviderRequests'
    BY Zenon, <1>1, <1>2 DEF ClientsInv, ProviderRequests, ProviderRequest, Loud
  <1>4. \A i \in Providers : i \notin overlap => Current(i)'
    BY Zenon, <1>2 DEF ClientsInv, Current, Loud
  <1> QED BY Zenon, <1>1, <1>3, <1>4 DEF ClientsInv

\* A request that is over.
LEMMA IdleRequest == DOMAIN Z!Idle = ZoneColumns /\ Z!Idle.pc = "idle"
  BY Zenon DEF Z!Idle, ZoneColumns

\* A request of another kind begins.
LEMMA QuietBegin ==
  ASSUME ClientsInv, NEW p \in ZoneReqs, NEW what, what \notin Loud, NEW x, NEW row, NEW new,
         Z!Begin(p, what, x, row, new), UNCHANGED <<prov, cache, overlap>>
  PROVE  ClientsInv'
  <1>1. PICK r : r = [pc |-> what, id |-> x, row |-> row, new |-> new]
    OBVIOUS
  <1>2. DOMAIN r = ZoneColumns /\ r.pc = what
    BY Zenon, <1>1 DEF ZoneColumns
  <1>3. zReq' = [zReq EXCEPT ![p] = r]
    BY Zenon, <1>1 DEF Z!Begin
  <1> QED BY Zenon, <1>2, <1>3, QuietStep

\* A request ends, and nothing of providers changed.
LEMMA QuietEnd ==
  ASSUME ClientsInv, NEW p \in ZoneReqs, Z!End(p), UNCHANGED <<prov, cache, overlap>>
  PROVE  ClientsInv'
  BY Zenon, IdleRequest, QuietStep DEF Z!End, Loud

\* A request goes on, and nothing of providers changed.
LEMMA QuietGoto ==
  ASSUME ClientsInv, NEW p \in ZoneReqs, NEW what, what \notin Loud, Z!Goto(p, what),
         UNCHANGED <<prov, cache, overlap>>
  PROVE  ClientsInv'
  <1>1. PICK r : r = [zReq[p] EXCEPT !.pc = what]
    OBVIOUS
  <1>2. DOMAIN r = ZoneColumns /\ r.pc = what
    BY Zenon, <1>1 DEF ClientsInv, ProviderRequests, ZoneColumns
  <1>3. zReq' = [zReq EXCEPT ![p] = r]
    BY Zenon, <1>1 DEF Z!Goto
  <1> QED BY Zenon, <1>2, <1>3, QuietStep

\* A provider is about to be created, under an identifier no request has.
LEMMA CreateProviderStep ==
  ASSUME ClientsInv, NEW p \in ZoneReqs, NEW i \in Providers, Z!createDNSProvider(p, i)
  PROVE  ClientsInv'
  <1>1. PICK n, t : /\ Z!Begin(p, "createProvider", i,
                         [st |-> "live", name |-> n, type |-> t, ver |-> zCount + 1], FALSE)
                    /\ prov[i].st = "fresh" /\ \A q \in ZoneReqs : zReq[q].id # i
    BY Zenon DEF Z!createDNSProvider, Z!CreateProvider
  <1>2. PICK row : row = [st |-> "live", name |-> n, type |-> t, ver |-> zCount + 1]
    OBVIOUS
  <1>3. PICK r : r = [pc |-> "createProvider", id |-> i, row |-> row, new |-> FALSE]
    OBVIOUS
  <1>4. /\ DOMAIN r = ZoneColumns /\ r.pc = "createProvider" /\ r.id = i /\ r.row = row
        /\ row.st = "live"
    BY Zenon, <1>2, <1>3 DEF ZoneColumns
  <1>5. zReq' = [zReq EXCEPT ![p] = r] /\ UNCHANGED <<prov, cache, overlap>>
    BY Zenon, <1>1, <1>2, <1>3 DEF Z!Begin, Z!createDNSProvider
  <1>6. /\ DOMAIN zReq' = ZoneReqs /\ zReq'[p] = r /\ \A q \in ZoneReqs : q # p => zReq'[q] = zReq[q]
        /\ \A q \in ZoneReqs : DOMAIN zReq'[q] = ZoneColumns
    BY Zenon, <1>4, <1>5, OneMoves
  <1>7. ProviderRequests'
    BY <1>1, <1>4, <1>5, <1>6 DEF ClientsInv, ProviderRequests, ProviderRequest
  <1>8. \A j \in Providers : j \notin overlap => Current(j)'
    BY Zenon, <1>4, <1>5, <1>6 DEF ClientsInv, Current
  <1> QED BY Zenon, <1>5, <1>6, <1>7, <1>8 DEF ClientsInv

\* An update of a provider begins: a new secret drops the cached client.
LEMMA UpdateProviderStep ==
  ASSUME ClientsInv, NEW p \in ZoneReqs, NEW i \in Providers, Z!updateDNSProvider(p, i)
  PROVE  ClientsInv'
  <1>1. PICK n \in ZoneNames, t \in {"technitium", "bind"}, new \in BOOLEAN : Z!UpdateProvider(p, i, n, t, new)
    BY Zenon DEF Z!updateDNSProvider
  <1>2. PICK ver : ver = IF new THEN zCount + 1 ELSE prov[i].ver
    OBVIOUS
  <1>3. PICK row : row = [st |-> "live", name |-> n, type |-> t, ver |-> ver]
    OBVIOUS
  <1>4. PICK r : r = [pc |-> "updateProvider", id |-> i, row |-> row, new |-> new]
    OBVIOUS
  <1>5. /\ DOMAIN r = ZoneColumns /\ r.pc = "updateProvider" /\ r.id = i /\ r.row = row
        /\ r.new = new /\ row.st = "live"
    BY Zenon, <1>3, <1>4 DEF ZoneColumns
  <1>6. /\ zReq' = [zReq EXCEPT ![p] = r] /\ UNCHANGED <<prov, overlap>> /\ prov[i].st = "live"
        /\ cache' = IF new THEN [cache EXCEPT ![i] = 0] ELSE cache
    BY Zenon, <1>1, <1>2, <1>3, <1>4 DEF Z!Begin, Z!UpdateProvider, Z!updateDNSProvider, Z!GetDNSProvider
  <1>7. /\ DOMAIN zReq' = ZoneReqs /\ zReq'[p] = r /\ \A q \in ZoneReqs : q # p => zReq'[q] = zReq[q]
        /\ \A q \in ZoneReqs : DOMAIN zReq'[q] = ZoneColumns
    BY Zenon, <1>5, <1>6, OneMoves
  <1>8. /\ DOMAIN cache' = Providers /\ \A j \in Providers : cache'[j] = cache[j] \/ cache'[j] = 0
        /\ new => cache'[i] = 0
    BY Zenon, <1>6 DEF ClientsInv
  <1>9. ProviderRequests'
    BY <1>5, <1>6, <1>7 DEF ClientsInv, ProviderRequests, ProviderRequest
  <1>10. \A j \in Providers : j \notin overlap => Current(j)'
    BY Zenon, <1>5, <1>6, <1>7, <1>8 DEF ClientsInv, Current
  <1>11. \A j \in Providers : prov'[j].st = "fresh" => cache'[j] = 0
    BY Zenon, <1>6, <1>8 DEF ClientsInv
  <1> QED BY Zenon, <1>6, <1>7, <1>8, <1>9, <1>10, <1>11 DEF ClientsInv

\* A client is about to be made from the row that is read.
LEMMA TestProviderStep ==
  ASSUME ClientsInv, NEW p \in ZoneReqs, NEW i \in Providers, Z!testDNSProvider(p, i)
  PROVE  ClientsInv'
  <1>1. PICK r : r = [pc |-> "client", id |-> i, row |-> prov[i], new |-> FALSE]
    OBVIOUS
  <1>2. DOMAIN r = ZoneColumns /\ r.pc = "client" /\ r.id = i
    BY Zenon, <1>1 DEF ZoneColumns
  <1>3. zReq' = [zReq EXCEPT ![p] = r] /\ UNCHANGED <<prov, cache, overlap>> /\ prov[i].st = "live"
    BY Zenon, <1>1 DEF Z!Begin, Z!testDNSProvider
  <1>4. /\ DOMAIN zReq' = ZoneReqs /\ zReq'[p] = r /\ \A q \in ZoneReqs : q # p => zReq'[q] = zReq[q]
        /\ \A q \in ZoneReqs : DOMAIN zReq'[q] = ZoneColumns
    BY Zenon, <1>2, <1>3, OneMoves
  <1>5. ProviderRequests'
    BY <1>2, <1>3, <1>4 DEF ClientsInv, ProviderRequests, ProviderRequest
  <1>6. \A j \in Providers : j \notin overlap => Current(j)'
    BY Zenon, <1>2, <1>3, <1>4 DEF ClientsInv, Current
  <1> QED BY Zenon, <1>3, <1>4, <1>5, <1>6 DEF ClientsInv

\* The provider is created: it had no client yet.
LEMMA InsertProviderStep ==
  ASSUME ClientsInv, NEW p \in ZoneReqs, Z!CreateDNSProvider(p)
  PROVE  ClientsInv'
  <1>1. PICK i, row : i = zReq[p].id /\ row = zReq[p].row
    OBVIOUS
  <1>2. /\ zReq[p].pc = "createProvider" /\ zReq' = [zReq EXCEPT ![p] = Z!Idle] /\ UNCHANGED <<cache, overlap>>
        /\ prov' = prov \/ prov' = [prov EXCEPT ![i] = row]
    BY Zenon, <1>1 DEF Z!CreateDNSProvider, Z!createDNSProviderInTx, Z!At, Z!End
  <1>3. i \in Providers /\ prov[i].st = "fresh" /\ row.st = "live" /\ cache[i] = 0
    BY Zenon, <1>1, <1>2 DEF ClientsInv, ProviderRequests, ProviderRequest
  <1>4. /\ DOMAIN zReq' = ZoneReqs /\ zReq'[p].pc = "idle" /\ \A q \in ZoneReqs : q # p => zReq'[q] = zReq[q]
        /\ \A q \in ZoneReqs : DOMAIN zReq'[q] = ZoneColumns
    BY Zenon, <1>2, OneMoves, IdleRequest
  <1>5. CASE prov' = prov
    BY Zenon, <1>2, <1>5, IdleRequest, QuietStep DEF Loud
  <1>6. CASE prov' = [prov EXCEPT ![i] = row]
    <2>1. DOMAIN prov' = Providers /\ prov'[i] = row /\ \A j \in Providers : j # i => prov'[j] = prov[j]
      BY Zenon, <1>3, <1>6 DEF ClientsInv
    <2>2. \A q \in ZoneReqs : q # p /\ zReq[q].pc \in {"createProvider", "client"} => zReq[q].id # i
      BY <1>1, <1>2, <1>3 DEF ClientsInv, ProviderRequests, ProviderRequest
    <2>3. ProviderRequests'
      BY <1>4, <2>1, <2>2 DEF ClientsInv, ProviderRequests, ProviderRequest
    <2>4. \A j \in Providers : j \notin overlap => Current(j)'
      BY <1>2, <1>3, <1>4, <2>1 DEF ClientsInv, Current
    <2>5. \A j \in Providers : prov'[j].st = "fresh" => cache'[j] = 0
      BY Zenon, <1>2, <1>3, <2>1 DEF ClientsInv
    <2> QED BY Zenon, <1>2, <1>4, <2>1, <2>3, <2>4, <2>5 DEF ClientsInv
  <1> QED BY Zenon, <1>2, <1>5, <1>6

\* An update is written: one with a new secret finds no client, one without
\* keeps the secret or overlapped another.
LEMMA WriteProviderStep ==
  ASSUME ClientsInv, NEW p \in ZoneReqs, Z!UpdateDNSProvider(p)
  PROVE  ClientsInv'
  <1>1. PICK i, row, new : i = zReq[p].id /\ row = zReq[p].row /\ new = zReq[p].new
    OBVIOUS
  <1>2. /\ zReq[p].pc = "updateProvider" /\ zReq' = [zReq EXCEPT ![p] = Z!Idle] /\ UNCHANGED cache
        /\ \/ prov' = prov /\ overlap' = overlap
           \/ /\ prov[i].st = "live" /\ prov' = [prov EXCEPT ![i] = row]
              /\ overlap' = IF ~new /\ row.ver # prov[i].ver THEN overlap \cup {i} ELSE overlap
    BY Zenon, <1>1 DEF Z!UpdateDNSProvider, Z!At, Z!End
  <1>3. row.st = "live"
    BY Zenon, <1>1, <1>2 DEF ClientsInv, ProviderRequests, ProviderRequest
  <1>4. /\ DOMAIN zReq' = ZoneReqs /\ zReq'[p].pc = "idle" /\ \A q \in ZoneReqs : q # p => zReq'[q] = zReq[q]
        /\ \A q \in ZoneReqs : DOMAIN zReq'[q] = ZoneColumns
    BY Zenon, <1>2, OneMoves, IdleRequest
  <1>5. CASE prov' = prov /\ overlap' = overlap
    BY Zenon, <1>2, <1>5, IdleRequest, QuietStep DEF Loud
  <1>6. CASE /\ prov[i].st = "live" /\ prov' = [prov EXCEPT ![i] = row]
             /\ overlap' = IF ~new /\ row.ver # prov[i].ver THEN overlap \cup {i} ELSE overlap
    <2>1. /\ DOMAIN prov' = Providers /\ overlap \subseteq overlap'
          /\ \A j \in Providers : prov'[j] = IF j = i THEN row ELSE prov[j]
      BY Zenon, <1>6 DEF ClientsInv
    <2>2. ProviderRequests'
      BY <1>3, <1>4, <1>6, <2>1 DEF ClientsInv, ProviderRequests, ProviderRequest
    <2>3. ASSUME NEW j \in Providers, j \notin overlap' PROVE Current(j)'
      <3>1. Current(j)
        BY Zenon, <2>1, <2>3 DEF ClientsInv
      <3>2. CASE j # i
        BY Zenon, <1>2, <1>4, <2>1, <3>1, <3>2 DEF Current
      <3>3. CASE j = i
        <4>1. new \/ row.ver = prov[i].ver
          BY Zenon, <1>6, <2>3, <3>3
        <4>2. new => cache[i] = 0
          BY Zenon, <1>1, <1>2, <3>1, <3>3 DEF Current
        <4>3. cache[i] # 0 => cache[i] = row.ver
          BY Zenon, <1>6, <3>1, <3>3, <4>1, <4>2 DEF Current
        <4> QED BY Zenon, <1>2, <1>4, <2>1, <3>1, <3>3, <4>3 DEF Current
      <3> QED BY Zenon, <3>2, <3>3
    <2>4. \A j \in Providers : prov'[j].st = "fresh" => cache'[j] = 0
      BY Zenon, <1>2, <1>3, <2>1 DEF ClientsInv
    <2> QED BY Zenon, <1>2, <1>4, <2>1, <2>2, <2>3, <2>4 DEF ClientsInv
  <1> QED BY Zenon, <1>2, <1>5, <1>6

\* The provider is deleted.
LEMMA DeleteProviderStep ==
  ASSUME ClientsInv, NEW p \in ZoneReqs, Z!DeleteDNSProvider(p)
  PROVE  ClientsInv'
  <1>1. PICK i, gone : i = zReq[p].id /\ gone = [Z!NoProv EXCEPT !.st = "gone"]
    OBVIOUS
  <1>2. gone.st = "gone"
    BY Zenon, <1>1 DEF Z!NoProv
  <1>3. CASE prov[i].st # "live"
    BY Zenon, <1>1, <1>3, QuietEnd DEF Z!DeleteDNSProvider
  <1>4. CASE prov[i].st = "live"
    <2>1. prov' = [prov EXCEPT ![i] = gone] /\ Z!Goto(p, "dropClient") /\ UNCHANGED <<cache, overlap>>
      BY Zenon, <1>1, <1>4 DEF Z!DeleteDNSProvider
    <2>2. PICK r : r = [zReq[p] EXCEPT !.pc = "dropClient"]
      OBVIOUS
    <2>3. DOMAIN r = ZoneColumns /\ r.pc = "dropClient"
      BY Zenon, <2>2 DEF ClientsInv, ProviderRequests, ZoneColumns
    <2>4. zReq' = [zReq EXCEPT ![p] = r]
      BY Zenon, <2>1, <2>2 DEF Z!Goto
    <2>5. /\ DOMAIN zReq' = ZoneReqs /\ zReq'[p] = r /\ \A q \in ZoneReqs : q # p => zReq'[q] = zReq[q]
          /\ \A q \in ZoneReqs : DOMAIN zReq'[q] = ZoneColumns
      BY Zenon, <2>3, <2>4, OneMoves
    <2>6. DOMAIN prov' = Providers /\ \A j \in Providers : prov'[j] = IF j = i THEN gone ELSE prov[j]
      BY Zenon, <2>1 DEF ClientsInv
    <2>7. ProviderRequests'
      BY <1>2, <1>4, <2>3, <2>5, <2>6 DEF ClientsInv, ProviderRequests, ProviderRequest
    <2>8. \A j \in Providers : j \notin overlap => Current(j)'
      BY <1>2, <2>1, <2>3, <2>5, <2>6 DEF ClientsInv, Current
    <2>9. \A j \in Providers : prov'[j].st = "fresh" => cache'[j] = 0
      BY Zenon, <1>2, <2>1, <2>6 DEF ClientsInv
    <2> QED BY Zenon, <2>1, <2>5, <2>6, <2>7, <2>8, <2>9 DEF ClientsInv
  <1> QED BY Zenon, <1>3, <1>4

\* The cached client of a deleted provider is dropped.
LEMMA DropClientStep ==
  ASSUME ClientsInv, NEW p \in ZoneReqs, Z!DropClient(p)
  PROVE  ClientsInv'
  <1>1. PICK i : i = zReq[p].id
    OBVIOUS
  <1>2. /\ zReq' = [zReq EXCEPT ![p] = Z!Idle] /\ cache' = [cache EXCEPT ![i] = 0]
        /\ UNCHANGED <<prov, overlap>>
    BY Zenon, <1>1 DEF Z!DropClient, Z!End
  <1>3. /\ DOMAIN zReq' = ZoneReqs /\ zReq'[p].pc = "idle" /\ \A q \in ZoneReqs : q # p => zReq'[q] = zReq[q]
        /\ \A q \in ZoneReqs : DOMAIN zReq'[q] = ZoneColumns
    BY Zenon, <1>2, OneMoves, IdleRequest
  <1>4. DOMAIN cache' = Providers /\ \A j \in Providers : cache'[j] = cache[j] \/ cache'[j] = 0
    BY Zenon, <1>2 DEF ClientsInv
  <1>5. ProviderRequests'
    BY <1>2, <1>3 DEF ClientsInv, ProviderRequests, ProviderRequest
  <1>6. \A j \in Providers : j \notin overlap => Current(j)'
    BY Zenon, <1>2, <1>3, <1>4 DEF ClientsInv, Current
  <1> QED BY Zenon, <1>2, <1>3, <1>4, <1>5, <1>6 DEF ClientsInv

\* A client is cached: of the row as it is, or the two overlapped.
LEMMA CacheClientStep ==
  ASSUME ClientsInv, NEW p \in ZoneReqs, Z!getProvider(p)
  PROVE  ClientsInv'
  <1>1. PICK i, v : i = zReq[p].id /\ v = zReq[p].row.ver
    OBVIOUS
  <1>2. PICK busy : busy <=> (\/ prov[i].ver # v
                              \/ \E q \in ZoneReqs : zReq[q].pc = "updateProvider" /\ zReq[q].id = i)
    OBVIOUS
  <1>3. /\ zReq[p].pc = "client" /\ zReq' = [zReq EXCEPT ![p] = Z!Idle] /\ cache' = [cache EXCEPT ![i] = v]
        /\ overlap \subseteq overlap' /\ (busy => i \in overlap') /\ UNCHANGED prov
    BY Zenon, <1>1, <1>2 DEF Z!getProvider, Z!At, Z!End
  <1>4. i \in Providers /\ prov[i].st # "fresh"
    BY Zenon, <1>1, <1>3 DEF ClientsInv, ProviderRequests, ProviderRequest
  <1>5. /\ DOMAIN zReq' = ZoneReqs /\ zReq'[p].pc = "idle" /\ \A q \in ZoneReqs : q # p => zReq'[q] = zReq[q]
        /\ \A q \in ZoneReqs : DOMAIN zReq'[q] = ZoneColumns
    BY Zenon, <1>3, OneMoves, IdleRequest
  <1>6. DOMAIN cache' = Providers /\ \A j \in Providers : cache'[j] = IF j = i THEN v ELSE cache[j]
    BY Zenon, <1>3, <1>4 DEF ClientsInv
  <1>7. ProviderRequests'
    BY <1>3, <1>5 DEF ClientsInv, ProviderRequests, ProviderRequest
  <1>8. ASSUME NEW j \in Providers, j \notin overlap' PROVE Current(j)'
    <2>1. Current(j)
      BY Zenon, <1>3, <1>8 DEF ClientsInv
    <2>2. CASE j # i
      BY Zenon, <1>3, <1>5, <1>6, <2>1, <2>2 DEF Current
    <2>3. CASE j = i
      <3>1. prov[i].ver = v /\ \A q \in ZoneReqs : ~(zReq[q].pc = "updateProvider" /\ zReq[q].id = i)
        BY Zenon, <1>2, <1>3, <1>8, <2>3
      <3> QED BY Zenon, <1>3, <1>5, <1>6, <2>3, <3>1 DEF Current
    <2> QED BY Zenon, <2>2, <2>3
  <1>9. \A j \in Providers : prov'[j].st = "fresh" => cache'[j] = 0
    BY Zenon, <1>3, <1>4, <1>6 DEF ClientsInv
  <1> QED BY Zenon, <1>3, <1>5, <1>6, <1>7, <1>8, <1>9 DEF ClientsInv

\* The requests on zones leave providers and clients alone.
LEMMA ZoneQuietSteps ==
  ASSUME ClientsInv, NEW p \in ZoneReqs,
         \/ \E z \in Zones : \/ Z!createDNSZone(p, z) \/ Z!updateDNSZone(p, z) \/ Z!deleteDNSZone(p, z)
                             \/ Z!handleDNSZoneSave(p, z)
         \/ Z!CreateDNSZone(p) \/ Z!UpdateDNSZone(p)
         \/ Z!DeleteDNSZone(p) \/ Z!FindPTRZone(p) \/ Z!DeletePTRZone(p)
  PROVE  ClientsInv'
  <1>1. \A what \in {"createZone", "updateZone", "deleteZone", "findPTRZone", "deletePTRZone"} :
          what \notin Loud
    BY Zenon DEF Loud
  <1>2. ASSUME NEW z \in Zones, Z!createDNSZone(p, z) PROVE ClientsInv'
    <2>1. \E row : Z!Begin(p, "createZone", z, row, FALSE)
      BY Zenon, <1>2 DEF Z!createDNSZone, Z!CreateZone
    <2> QED BY Zenon, <1>1, <1>2, <2>1, QuietBegin DEF Z!createDNSZone
  <1>3. ASSUME NEW z \in Zones, NEW n, NEW w, NEW t, Z!UpdateZone(p, z, n, w, t),
               UNCHANGED <<prov, cache, overlap>>
        PROVE  ClientsInv'
    <2>1. \E row : Z!Begin(p, "updateZone", z, row, FALSE)
      BY Zenon, <1>3 DEF Z!UpdateZone
    <2> QED BY Zenon, <1>1, <1>3, <2>1, QuietBegin
  <1>4. ASSUME NEW z \in Zones, Z!updateDNSZone(p, z) PROVE ClientsInv'
    BY Zenon, <1>3, <1>4 DEF Z!updateDNSZone
  <1>5. ASSUME NEW z \in Zones, Z!deleteDNSZone(p, z) PROVE ClientsInv'
    <2>1. \E row : Z!Begin(p, "deleteZone", z, row, FALSE)
      BY Zenon, <1>5 DEF Z!deleteDNSZone, Z!DeleteZone
    <2> QED BY Zenon, <1>1, <1>5, <2>1, QuietBegin DEF Z!deleteDNSZone
  <1>6. ASSUME NEW z \in Zones, Z!handleDNSZoneSave(p, z) PROVE ClientsInv'
    BY Zenon, <1>2, <1>3, <1>6 DEF Z!handleDNSZoneSave
  <1>7. CASE Z!CreateDNSZone(p) \/ Z!UpdateDNSZone(p) \/ Z!DeletePTRZone(p)
    BY Zenon, <1>7, QuietEnd DEF Z!CreateDNSZone, Z!UpdateDNSZone, Z!DeletePTRZone
  <1>8. CASE Z!DeleteDNSZone(p)
    BY Zenon, <1>1, <1>8, QuietEnd, QuietGoto DEF Z!DeleteDNSZone
  <1>9. CASE Z!FindPTRZone(p)
    <2>1. CASE Z!End(p)
      BY Zenon, <1>9, <2>1, QuietEnd DEF Z!FindPTRZone
    <2>2. ASSUME NEW z, zReq' = [zReq EXCEPT ![p].pc = "deletePTRZone", ![p].id = z] PROVE ClientsInv'
      <3>1. PICK first : first = [zReq[p] EXCEPT !.pc = "deletePTRZone"]
        OBVIOUS
      <3>2. PICK r : r = [first EXCEPT !.id = z]
        OBVIOUS
      <3>3. DOMAIN first = ZoneColumns /\ first.pc = "deletePTRZone"
        BY Zenon, <3>1 DEF ClientsInv, ProviderRequests, ZoneColumns
      <3>4. DOMAIN r = ZoneColumns /\ r.pc = "deletePTRZone"
        BY Zenon, <3>2, <3>3 DEF ZoneColumns
      <3>5. zReq' = [zReq EXCEPT ![p] = r]
        BY Zenon, <2>2, <3>1, <3>2 DEF ClientsInv
      <3> QED BY Zenon, <1>1, <1>9, <3>4, <3>5, QuietStep DEF Z!FindPTRZone
    <2> QED BY Zenon, <1>9, <2>1, <2>2 DEF Z!FindPTRZone
  <1> QED BY Zenon, <1>2, <1>4, <1>5, <1>6, <1>7, <1>8, <1>9

\* Every step keeps the cached clients current, but for overlapping updates.
LEMMA ClientsStep == ClientsInv /\ [Z!Next]_(Z!vars) => ClientsInv'
  <1> SUFFICES ASSUME ClientsInv, [Z!Next]_(Z!vars) PROVE ClientsInv'
    OBVIOUS
  <1>1. ASSUME UNCHANGED <<prov, cache, overlap, zReq>> PROVE ClientsInv'
    BY <1>1 DEF ClientsInv, ProviderRequests, ProviderRequest, Current
  <1>2. ASSUME NEW p \in ZoneReqs, NEW i \in Providers,
               \/ Z!createDNSProvider(p, i) \/ Z!updateDNSProvider(p, i) \/ Z!handleDNSProviderSave(p, i)
               \/ Z!testDNSProvider(p, i)
        PROVE  ClientsInv'
    BY Zenon, <1>2, CreateProviderStep, UpdateProviderStep, TestProviderStep DEF Z!handleDNSProviderSave
  <1>3. ASSUME NEW p \in ZoneReqs, NEW i \in Providers, Z!deleteDNSProvider(p, i) PROVE ClientsInv'
    <2>1. Z!Begin(p, "deleteProvider", i, Z!NoProv, FALSE) /\ UNCHANGED <<prov, cache, overlap>>
      BY Zenon, <1>3 DEF Z!deleteDNSProvider, Z!DeleteProvider
    <2>2. "deleteProvider" \notin Loud
      BY Zenon DEF Loud
    <2> QED BY Zenon, <2>1, <2>2, QuietBegin
  <1>4. ASSUME NEW w \in Networks, Z!deleteNetwork(w) PROVE ClientsInv'
    BY Zenon, <1>1, <1>4 DEF Z!deleteNetwork
  <1>5. CASE UNCHANGED Z!vars
    BY Zenon, <1>1, <1>5 DEF Z!vars
  <1> QED BY Zenon, <1>2, <1>3, <1>4, <1>5, InsertProviderStep, WriteProviderStep, DeleteProviderStep,
             DropClientStep, CacheClientStep, ZoneQuietSteps DEF Z!Next

\* In the beginning there are neither providers nor clients.
LEMMA ClientsStart == Z!Init => ClientsInv
  <1> SUFFICES ASSUME Z!Init PROVE ClientsInv
    OBVIOUS
  <1>1. /\ DOMAIN prov = Providers /\ DOMAIN cache = Providers /\ DOMAIN zReq = ZoneReqs
        /\ \A i \in Providers : cache[i] = 0
        /\ \A p \in ZoneReqs : zReq[p] = Z!Idle
    BY Zenon DEF Z!Init
  <1> QED BY Zenon, <1>1, IdleRequest DEF ClientsInv, ProviderRequests, ProviderRequest, Current

\* A cached client has the endpoint and the token of its provider's row, unless
\* updates of the provider overlapped one another or the making of the client:
\* a new secret drops the client before the row is written.
THEOREM CachedClientsAreCurrent == Z!Spec => []ClientsAreCurrent
  <1>1. ClientsInv => ClientsAreCurrent
    BY DEF ClientsInv, Current, ClientsAreCurrent, Z!ClientsAreCurrent
  <1> QED BY <1>1, ClientsStart, ClientsStep, PTL DEF Z!Spec
=============================================================================
