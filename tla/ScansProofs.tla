---------------------------- MODULE ScansProofs ------------------------------
(***************************************************************************)
(* Proofs about Scans, for every number of scans, hosts, workers and       *)
(* cancellations: a scan that ends by itself is recorded with what it      *)
(* found, a scan that is over stays over, and a host gets two rows only    *)
(* from scans that ran at the same time. And about Promotion, for every    *)
(* number of discovered hosts, devices, rules and requests: a device that  *)
(* was made of a discovered host stays linked to it.                       *)
(***************************************************************************)
EXTENDS Scans, Promotions, Sequences, TLAPS

-----------------------------------------------------------------------------
(* The inductive invariant.                                                    *)

View == [st : Status, found : Nat]
Row == [st : Status \cup {"fresh", "gone"}, found : Nat]
Early == {"none", "register"}
Before == {"none", "register", "begin"}
After == {"completed", "cleanup", "end"}
Mains == Before \cup After \cup {"started", "loop", "acquire", "wait"}

TypeOK ==
    /\ row \in [Scans -> Row]
    /\ mem \in [Scans -> View]
    /\ scans \in SUBSET Scans /\ cancelFuncs \in SUBSET Scans /\ done \in SUBSET Scans
    /\ main \in [Scans -> Mains]
    /\ next \in [Scans -> 1 .. NHosts + 1]
    /\ host \in [Scans -> [Hosts -> InFlight \cup {"idle", "end"}]]
    /\ copy \in [Scans -> [Hosts -> View]]
    /\ foundCount \in [Scans -> Nat]
    /\ dd \in SUBSET (Scans \X Hosts)
    /\ call \in [Cancels -> [pc : {"idle", "cancel", "forget", "save"}, scan : Scans]]
    /\ answered \in SUBSET Scans

InCall(c, s) == call[c].pc # "idle" /\ call[c].scan = s

\* The loop starts each host once, and what precedes the registration of the
\* scan is seen by nobody.
Looped(s) ==
    /\ row[s].st = "fresh" => main[s] = "none"
    /\ main[s] \in Early => s \notin scans /\ s \notin cancelFuncs /\ s \notin done
    /\ main[s] = "none" => next[s] = 1
    /\ main[s] = "acquire" => next[s] \in Hosts
    /\ \A h \in Hosts : h >= next[s] => host[s][h] = "idle"

\* Until a scan is cancelled, its shared object has the count or a host is
\* left that will store it, and the row of an ended scan is the object.
Counted(s) ==
    /\ main[s] \in {"completed", "cleanup"} => mem[s].st = "completed"
    /\ s \notin done =>
         /\ mem[s].found = foundCount[s] \/ \E h \in Hosts : host[s][h] = "report"
         /\ main[s] \in After => mem[s].st = "completed" /\ \A h \in Hosts : host[s][h] \notin InFlight
         /\ main[s] \in {"cleanup", "end"} /\ RowExists(s) => row[s] = mem[s]

\* While the object says that the scan has not ended, or its goroutine may
\* still say so, at most one CancelScan is under way, and none has answered.
Cancelled(s) ==
    /\ s \in answered => s \in done /\ s \notin cancelFuncs /\ main[s] \notin Early
    /\ \A c \in Cancels : InCall(c, s) =>
         /\ main[s] \notin Early
         /\ call[c].pc \in {"forget", "save"} => s \in done
         /\ call[c].pc = "save" => s \notin cancelFuncs
         /\ main[s] = "end" => mem[s].st \in Terminal
         /\ mem[s].st \notin Terminal \/ main[s] \in Before =>
              s \notin answered /\ \A d \in Cancels : InCall(d, s) => d = c
         /\ main[s] \in Before => mem[s].st \in Terminal
    /\ main[s] = "end" /\ s \in scans => mem[s].st \in Terminal

Good(s) == Looped(s) /\ Counted(s) /\ Cancelled(s)

\* Scans that run together have met, and so have a scan about to insert a
\* host and the scan that inserted it since.
Met ==
    /\ \A s, t \in Scans : s # t /\ Active(s) /\ Active(t) => {s, t} \in met
    /\ \A s, t \in Scans, h \in Hosts :
         host[s][h] = "create" /\ s \notin done /\ s # t /\ <<t, h>> \in dd => {s, t} \in met

Inv == TypeOK /\ (\A s \in Scans : Good(s)) /\ Met /\ NoDuplicateWithoutOverlap

-----------------------------------------------------------------------------
(* What a step leaves alone.                                                   *)

\* A scan that a step does not touch.
Same(t) ==
    /\ row'[t] = row[t] /\ mem'[t] = mem[t] /\ main'[t] = main[t] /\ next'[t] = next[t]
    /\ host'[t] = host[t] /\ foundCount'[t] = foundCount[t]
    /\ t \in scans' => t \in scans
    /\ t \in cancelFuncs' => t \in cancelFuncs
    /\ t \in done' <=> t \in done
    /\ t \in answered' <=> t \in answered
    /\ \A c \in Cancels : InCall(c, t)' => InCall(c, t) /\ call'[c].pc = call[c].pc

\* A scan that a step does not touch stays as good as it was.
LEMMA Frame ==
  ASSUME NEW t \in Scans, Good(t), Same(t)
  PROVE  Good(t)'
  <1>1. Looped(t)'
    BY Zenon DEF Good, Looped, Same
  <1>2. Counted(t)'
    BY Zenon DEF Good, Counted, Same, RowExists
  <1>3. Cancelled(t)'
    BY Zenon DEF Good, Cancelled, Same
  <1> QED BY Zenon, <1>1, <1>2, <1>3 DEF Good

\* A step that starts no scan, takes no host to its insert and inserts nothing.
LEMMA NothingInserted ==
  ASSUME Met, NoDuplicateWithoutOverlap, dd' \subseteq dd, met' = met, done \subseteq done',
         \A s \in Scans : Active(s)' => Active(s),
         \A s \in Scans, h \in Hosts : host'[s][h] = "create" => host[s][h] = "create"
  PROVE  Met' /\ NoDuplicateWithoutOverlap'
  <1>1. Met'
    BY Zenon DEF Met
  <1>2. NoDuplicateWithoutOverlap'
    BY Zenon DEF NoDuplicateWithoutOverlap
  <1> QED BY Zenon, <1>1, <1>2

\* The constants of the types.
LEMMA Values ==
  /\ NewView \in View /\ NewView \in Row /\ NewView.st = "pending" /\ NewView.found = 0
  /\ View \subseteq Row
  /\ \A v \in View : v.st \in Status /\ v.found \in Nat
  /\ \A v \in Row : v.st \in Status \cup {"fresh", "gone"}
  /\ \A v \in Row : v.st \in Status => v \in View
  BY Zenon DEF NewView, View, Row, Status, Terminal

\* What the update of a row makes of the rows.
LEMMA UpdateRows ==
  ASSUME TypeOK, NEW s \in Scans, NEW v \in View, UpdateDiscoveryScan(s, v)
  PROVE  /\ row' \in [Scans -> Row]
         /\ \A t \in Scans \ {s} : row'[t] = row[t]
         /\ row'[s] = IF RowExists(s) /\ s \notin done THEN v ELSE row[s]
  BY Zenon, Values DEF UpdateDiscoveryScan, TypeOK

\* What setting the status makes of the objects.
LEMMA StatusSet ==
  ASSUME TypeOK, NEW s \in Scans, NEW st \in Status, SetStatus(s, st)
  PROVE  /\ mem' \in [Scans -> View]
         /\ \A t \in Scans \ {s} : mem'[t] = mem[t]
         /\ mem'[s].st = st /\ mem'[s].found = mem[s].found
  BY Zenon DEF SetStatus, TypeOK, View

-----------------------------------------------------------------------------
(* The goroutine of a scan.                                                    *)

\* ScanWithOptions up to the insert of the row.
LEMMA ScanKeeps ==
  ASSUME Inv, NEW s \in Scans, Scan(s)
  PROVE  Inv'
  <1>1. /\ row[s].st = "fresh" /\ main[s] = "none"
        /\ row' = [row EXCEPT ![s] = NewView] /\ main' = [main EXCEPT ![s] = "register"]
        /\ met' = met \cup {{s, t} : t \in {u \in Scans : Active(u)}}
        /\ UNCHANGED <<mem, scans, cancelFuncs, done, next, host, copy, foundCount, dd, call, answered>>
    BY Zenon DEF Inv, Good, Looped, Scan, Go
  <1>2. TypeOK'
    BY Zenon, <1>1, Values DEF Inv, TypeOK, Mains, Before
  <1>3. \A t \in Scans \ {s} : Same(t)
    BY <1>1 DEF Same, InCall
  <1>4. row'[s].st = "pending" /\ main'[s] = "register"
    BY Zenon, <1>1, Values DEF Inv, TypeOK
  <1>5. Good(s)'
    <2>1. Looped(s)'
      BY <1>1, <1>4 DEF Inv, Good, Looped, Early
    <2>2. Counted(s)'
      BY Zenon, <1>1, <1>4 DEF Inv, Good, Counted, After
    <2>3. Cancelled(s)'
      BY Zenon, <1>1, <1>4 DEF Inv, Good, Cancelled, InCall, Early, Before
    <2> QED BY Zenon, <2>1, <2>2, <2>3 DEF Good
  <1>6. \A t \in Scans : Active(t)' <=> t = s \/ Active(t)
    BY Zenon, <1>1 DEF Active, Ended, Inv, TypeOK
  <1>7. \A t \in Scans : Active(t) => {s, t} \in met' /\ {t, s} \in met'
    BY Zenon, <1>1
  <1>8. Met'
    BY Zenon, <1>1, <1>6, <1>7 DEF Inv, Met
  <1>9. NoDuplicateWithoutOverlap'
    BY Zenon, <1>1 DEF Inv, NoDuplicateWithoutOverlap
  <1> QED BY Zenon, <1>2, <1>3, <1>5, <1>8, <1>9, Frame DEF Inv


\* A step of the goroutine of a scan keeps the invariant if it keeps it of its scan.
LEMMA OwnStep ==
  ASSUME Inv, NEW s \in Scans, NEW pc, main[s] \notin Ended, Go(s, pc), TypeOK', Good(s)',
         \A t \in Scans \ {s} : /\ row'[t] = row[t] /\ mem'[t] = mem[t] /\ next'[t] = next[t]
                                /\ host'[t] = host[t]
                                /\ t \in scans' => t \in scans
                                /\ t \in cancelFuncs' => t \in cancelFuncs,
         \A h \in Hosts : host'[s][h] = "create" => host[s][h] = "create",
         UNCHANGED <<foundCount, done, dd, call, answered, met>>
  PROVE  Inv'
  <1>1. \A t \in Scans \ {s} : main'[t] = main[t]
    BY Zenon DEF Go, Inv, TypeOK
  <1>2. \A t \in Scans \ {s} : Same(t)
    BY Zenon, <1>1 DEF Same, InCall
  <1>3. \A t \in Scans : Active(t)' => Active(t)
    BY Zenon, <1>1 DEF Active
  <1>4. \A t \in Scans, h \in Hosts : host'[t][h] = "create" => host[t][h] = "create"
    OBVIOUS
  <1>5. Met' /\ NoDuplicateWithoutOverlap'
    BY Zenon, <1>3, <1>4, NothingInserted DEF Inv
  <1> QED BY Zenon, <1>2, <1>5, Frame DEF Inv

\* Registering the scan, and the status at the start.
LEMMA RegisterKeeps ==
  ASSUME Inv, NEW s \in Scans, Register(s)
  PROVE  Inv'
  <1>1. /\ main[s] = "register" /\ scans' = scans \cup {s} /\ cancelFuncs' = cancelFuncs \cup {s}
        /\ main' = [main EXCEPT ![s] = "begin"]
        /\ UNCHANGED <<row, mem, done, next, host, copy, foundCount, dd, call, answered, met>>
    BY Zenon DEF Register, Go
  <1>2. TypeOK'
    BY Zenon, <1>1 DEF Inv, TypeOK, Mains, Before
  <1>3. Good(s)'
    <2>0. main'[s] = "begin"
      BY Zenon, <1>1 DEF Inv, TypeOK
    <2>1. Looped(s)'
      BY Zenon, <1>1, <2>0 DEF Inv, Good, Looped, Early
    <2>2. Counted(s)'
      BY Zenon, <1>1, <2>0 DEF Inv, Good, Counted, After, RowExists
    <2>3. Cancelled(s)'
      BY Zenon, <1>1, <2>0 DEF Inv, Good, Cancelled, InCall, Early, Before
    <2> QED BY Zenon, <2>1, <2>2, <2>3 DEF Good
  <1> QED BY Zenon, <1>1, <1>2, <1>3, OwnStep DEF Go, Ended

\* The status at the start, which may undo the mark of a CancelScan.
LEMMA BeginKeeps ==
  ASSUME Inv, NEW s \in Scans, Begin(s)
  PROVE  Inv'
  <1>1. /\ main[s] = "begin" /\ SetStatus(s, "running") /\ main' = [main EXCEPT ![s] = "started"]
        /\ UNCHANGED <<row, scans, cancelFuncs, done, next, host, copy, foundCount, dd, call, answered, met>>
    BY Zenon DEF Begin, Go
  <1>2. /\ mem' \in [Scans -> View] /\ \A t \in Scans \ {s} : mem'[t] = mem[t]
        /\ mem'[s].st = "running" /\ mem'[s].found = mem[s].found
    BY Zenon, <1>1, StatusSet DEF Inv, Status
  <1>3. TypeOK'
    BY Zenon, <1>1, <1>2 DEF Inv, TypeOK, Mains
  <1>4. Good(s)'
    <2>0. main'[s] = "started"
      BY Zenon, <1>1 DEF Inv, TypeOK
    <2>1. Looped(s)'
      BY Zenon, <1>1, <2>0 DEF Inv, Good, Looped, Early
    <2>2. Counted(s)'
      BY Zenon, <1>1, <1>2, <2>0 DEF Inv, Good, Counted, After, RowExists
    <2>3. Cancelled(s)'
      BY <1>1, <1>2, <2>0 DEF Inv, Good, Cancelled, InCall, Early, Before
    <2> QED BY Zenon, <2>1, <2>2, <2>3 DEF Good
  <1> QED BY Zenon, <1>1, <1>2, <1>3, <1>4, OwnStep DEF Go, Ended

\* The updates of the row by the goroutine itself, which the cancellation stops.
LEMMA SavesKeep ==
  ASSUME Inv, NEW s \in Scans, SaveStarted(s) \/ SaveCompleted(s)
  PROVE  Inv'
  <1>1. PICK pc : /\ \/ main[s] = "started" /\ pc = "loop"
                     \/ main[s] = "completed" /\ pc = "cleanup"
                  /\ Go(s, pc)
    BY Zenon DEF SaveStarted, SaveCompleted
  <1>2. /\ UpdateDiscoveryScan(s, mem[s]) /\ mem[s] \in View
        /\ UNCHANGED <<mem, scans, cancelFuncs, done, next, host, copy, foundCount, dd, call, answered, met>>
    BY Zenon DEF SaveStarted, SaveCompleted, Inv, TypeOK
  <1>3. /\ row' \in [Scans -> Row] /\ \A t \in Scans \ {s} : row'[t] = row[t]
        /\ row'[s] = IF RowExists(s) /\ s \notin done THEN mem[s] ELSE row[s]
    BY Zenon, <1>2, UpdateRows DEF Inv
  <1>4. main' \in [Scans -> Mains] /\ main'[s] = pc
    BY Zenon, <1>1 DEF Inv, TypeOK, Go, Mains, After
  <1>5. TypeOK'
    BY Zenon, <1>2, <1>3, <1>4 DEF Inv, TypeOK
  <1>6. Good(s)'
    <2>1. Looped(s)'
      BY ZenonT(30), <1>1, <1>2, <1>3, <1>4, Values DEF Inv, TypeOK, Good, Looped, Early, RowExists, Status, Terminal
    <2>2. Counted(s)'
      BY Zenon, <1>1, <1>2, <1>3, <1>4 DEF Inv, Good, Counted, After, RowExists
    <2>3. Cancelled(s)'
      BY Zenon, <1>1, <1>2, <1>4 DEF Inv, Good, Cancelled, InCall, Early, Before
    <2> QED BY Zenon, <2>1, <2>2, <2>3 DEF Good
  <1>7. main[s] \notin Ended
    BY Zenon, <1>1 DEF Ended
  <1> QED BY Zenon, <1>1, <1>2, <1>3, <1>5, <1>6, <1>7, OwnStep

\* The head of the loop, and the wait for the hosts.
LEMMA LoopHeadKeeps ==
  ASSUME Inv, NEW s \in Scans, LoopHead(s)
  PROVE  Inv'
  <1>1. /\ main[s] = "loop"
        /\ UNCHANGED <<row, scans, cancelFuncs, done, next, host, copy, foundCount, dd, call, answered, met>>
    BY Zenon DEF LoopHead
  <1>2. PICK pc : /\ pc \in {"wait", "end", "acquire"} /\ Go(s, pc)
                  /\ pc = "acquire" => next[s] <= NHosts
                  /\ pc = "end" => s \in done /\ SetStatus(s, "failed")
                  /\ pc # "end" => UNCHANGED mem
    BY Zenon DEF LoopHead
  <1>3. main' \in [Scans -> Mains] /\ main'[s] = pc
    BY Zenon, <1>2 DEF Inv, TypeOK, Go, Mains, After
  <1>4. /\ mem' \in [Scans -> View] /\ \A t \in Scans \ {s} : mem'[t] = mem[t]
        /\ mem'[s].found = mem[s].found
        /\ mem'[s].st = IF pc = "end" THEN "failed" ELSE mem[s].st
    BY Zenon, <1>2, StatusSet DEF Inv, TypeOK, Status, Terminal
  <1>5. TypeOK'
    BY Zenon, <1>1, <1>3, <1>4 DEF Inv, TypeOK
  <1>6. next[s] \in Nat /\ next[s] >= 1
    BY ScansAssumption DEF Inv, TypeOK
  <1>7. Good(s)'
    <2>1. Looped(s)'
      BY <1>1, <1>2, <1>3, <1>6, ScansAssumption DEF Inv, Good, Looped, Early, Hosts
    <2>2. Counted(s)'
      BY Zenon, <1>1, <1>2, <1>3, <1>4 DEF Inv, Good, Counted, After, RowExists
    <2>3. Cancelled(s)'
      BY <1>1, <1>2, <1>3, <1>4 DEF Inv, Good, Cancelled, InCall, Early, Before, Terminal
    <2> QED BY Zenon, <2>1, <2>2, <2>3 DEF Good
  <1>8. main[s] \notin Ended
    BY Zenon, <1>1 DEF Ended
  <1> QED BY Zenon, <1>1, <1>2, <1>4, <1>5, <1>7, <1>8, OwnStep

\* The start of a host: it was idle before.
LEMMA SpawnKeeps ==
  ASSUME Inv, NEW s \in Scans, Spawn(s)
  PROVE  Inv'
  <1>1. /\ main[s] = "acquire" /\ Go(s, "loop")
        /\ host' = [host EXCEPT ![s][next[s]] = "probe"] /\ next' = [next EXCEPT ![s] = @ + 1]
        /\ UNCHANGED <<row, mem, scans, cancelFuncs, done, copy, foundCount, dd, call, answered, met>>
    BY Zenon DEF Spawn, HostGo
  <1>2. next[s] \in Hosts
    BY Zenon, <1>1 DEF Inv, Good, Looped
  <1>3. main' \in [Scans -> Mains] /\ main'[s] = "loop"
    BY Zenon, <1>1 DEF Inv, TypeOK, Go, Mains
  <1>4. /\ next' \in [Scans -> 1 .. NHosts + 1] /\ next'[s] = next[s] + 1
        /\ \A t \in Scans \ {s} : next'[t] = next[t]
    BY <1>1, <1>2, ScansAssumption DEF Inv, TypeOK, Hosts
  <1>5. /\ host' \in [Scans -> [Hosts -> InFlight \cup {"idle", "end"}]]
        /\ \A t \in Scans \ {s} : host'[t] = host[t]
        /\ \A h \in Hosts : host'[s][h] = IF h = next[s] THEN "probe" ELSE host[s][h]
    BY Zenon, <1>1, <1>2 DEF Inv, TypeOK, InFlight
  <1>6. TypeOK'
    BY Zenon, <1>1, <1>3, <1>4, <1>5 DEF Inv, TypeOK
  <1>7. Good(s)'
    <2>1. Looped(s)'
      <3>1. /\ row[s].st # "fresh" /\ UNCHANGED <<row, scans, cancelFuncs, done>>
            /\ \A h \in Hosts : h >= next[s] => host[s][h] = "idle"
        BY Zenon, <1>1 DEF Inv, Good, Looped
      <3>2. ASSUME NEW h \in Hosts, h >= next'[s] PROVE host'[s][h] = "idle"
        <4>1. h >= next[s] /\ h # next[s]
          BY <1>2, <1>4, <3>2, ScansAssumption DEF Hosts
        <4> QED BY Zenon, <1>5, <3>1, <4>1
      <3>3. main'[s] # "none" /\ main'[s] # "acquire" /\ main'[s] \notin Early
        BY Zenon, <1>3 DEF Early
      <3> QED BY Zenon, <3>1, <3>2, <3>3 DEF Looped
    <2>2. host[s][next[s]] = "idle"
      BY <1>2, ScansAssumption DEF Inv, Good, Looped, Hosts
    <2>3. Counted(s)'
      BY <1>1, <1>3, <1>5, <2>2 DEF Inv, Good, Counted, After, RowExists
    <2>4. Cancelled(s)'
      BY <1>1, <1>3 DEF Inv, Good, Cancelled, InCall, Early, Before
    <2> QED BY Zenon, <2>1, <2>3, <2>4 DEF Good
  <1>8. main[s] \notin Ended
    BY Zenon, <1>1 DEF Ended
  <1> QED BY Zenon, <1>1, <1>4, <1>5, <1>6, <1>7, <1>8, OwnStep

\* The end of the wait: no host is left that could report.
LEMMA WaitKeeps ==
  ASSUME Inv, NEW s \in Scans, Wait(s)
  PROVE  Inv'
  <1>1. /\ main[s] = "wait" /\ Busy(s) = {} /\ SetStatus(s, "completed") /\ Go(s, "completed")
        /\ UNCHANGED <<row, scans, cancelFuncs, done, next, host, copy, foundCount, dd, call, answered, met>>
    BY Zenon DEF Wait
  <1>2. /\ mem' \in [Scans -> View] /\ \A t \in Scans \ {s} : mem'[t] = mem[t]
        /\ mem'[s].st = "completed" /\ mem'[s].found = mem[s].found
    BY Zenon, <1>1, StatusSet DEF Inv, Status, Terminal
  <1>3. main' \in [Scans -> Mains] /\ main'[s] = "completed"
    BY Zenon, <1>1 DEF Inv, TypeOK, Go, Mains, After
  <1>4. TypeOK'
    BY Zenon, <1>1, <1>2, <1>3 DEF Inv, TypeOK
  <1>5. Good(s)'
    <2>1. Looped(s)'
      BY Zenon, <1>1, <1>3 DEF Inv, Good, Looped, Early
    <2>2. Counted(s)'
      BY Zenon, <1>1, <1>2, <1>3 DEF Inv, Good, Counted, After, RowExists, Busy
    <2>3. Cancelled(s)'
      BY Zenon, <1>1, <1>2, <1>3 DEF Inv, Good, Cancelled, InCall, Early, Before, Terminal
    <2> QED BY Zenon, <2>1, <2>2, <2>3 DEF Good
  <1>6. main[s] \notin Ended
    BY Zenon, <1>1 DEF Ended
  <1> QED BY Zenon, <1>1, <1>2, <1>4, <1>5, <1>6, OwnStep

\* cleanupCompletedScans drops objects of other scans.
LEMMA CleanupKeeps ==
  ASSUME Inv, NEW s \in Scans, Cleanup(s)
  PROVE  Inv'
  <1>1. /\ main[s] = "cleanup" /\ Go(s, "end") /\ scans' \subseteq scans
        /\ UNCHANGED <<row, mem, cancelFuncs, done, next, host, copy, foundCount, dd, call, answered, met>>
    BY Zenon DEF Cleanup
  <1>2. main' \in [Scans -> Mains] /\ main'[s] = "end"
    BY Zenon, <1>1 DEF Inv, TypeOK, Go, Mains, After
  <1>3. TypeOK'
    BY Zenon, <1>1, <1>2 DEF Inv, TypeOK
  <1>4. Good(s)'
    <2>1. Looped(s)'
      BY Zenon, <1>1, <1>2 DEF Inv, Good, Looped, Early
    <2>2. Counted(s)'
      BY Zenon, <1>1, <1>2 DEF Inv, Good, Counted, After, RowExists
    <2>3. Cancelled(s)'
      BY Zenon, <1>1, <1>2 DEF Inv, Good, Counted, Cancelled, InCall, Early, Before, Terminal
    <2> QED BY Zenon, <2>1, <2>2, <2>3 DEF Good
  <1>5. main[s] \notin Ended
    BY Zenon, <1>1 DEF Ended
  <1> QED BY Zenon, <1>1, <1>3, <1>4, <1>5, OwnStep

-----------------------------------------------------------------------------
(* The goroutine of a host.                                                    *)

\* A host in flight of a scan that is not cancelled belongs to a running scan.
LEMMA HostsOfRunning ==
  ASSUME Inv, NEW s \in Scans, NEW h \in Hosts, host[s][h] \in InFlight
  PROVE  main[s] # "none" /\ (s \notin done => Active(s) /\ main[s] \notin After)
  <1>1. main[s] # "none"
    BY ScansAssumption DEF Inv, Good, Looped, Hosts, InFlight
  <1>2. s \notin done => main[s] \notin After
    BY Zenon DEF Inv, Good, Counted
  <1> QED BY Zenon, <1>1, <1>2 DEF Active, Ended, After

\* A step of one host keeps what concerns its scan, if the count is reported.
LEMMA HostStepKeeps ==
  ASSUME Inv, NEW s \in Scans, NEW h \in Hosts, NEW pc \in InFlight \cup {"end"},
         host[s][h] \in InFlight, HostGo(s, h, pc), UNCHANGED scanOthers,
         row' \in [Scans -> Row], mem' \in [Scans -> View], copy' \in [Scans -> [Hosts -> View]],
         foundCount' \in [Scans -> Nat], dd' \in SUBSET (Scans \X Hosts),
         \A t \in Scans \ {s} : row'[t] = row[t] /\ mem'[t] = mem[t] /\ foundCount'[t] = foundCount[t],
         mem'[s].st = mem[s].st,
         row'[s].st = "fresh" => row[s].st = "fresh",
         s \notin done => mem'[s].found = foundCount'[s] \/ \E x \in Hosts : host'[s][x] = "report"
  PROVE  TypeOK' /\ \A t \in Scans : Good(t)'
  <1>1. UNCHANGED <<scans, cancelFuncs, done, main, next, call, answered, met>>
    BY Zenon DEF scanOthers
  <1>2. /\ host' \in [Scans -> [Hosts -> InFlight \cup {"idle", "end"}]]
        /\ \A t \in Scans \ {s} : host'[t] = host[t]
        /\ \A x \in Hosts : host'[s][x] = IF x = h THEN pc ELSE host[s][x]
    BY Zenon DEF HostGo, Inv, TypeOK
  <1>3. TypeOK'
    BY Zenon, <1>1, <1>2 DEF Inv, TypeOK
  <1>4. \A t \in Scans \ {s} : Same(t)
    BY Zenon, <1>1, <1>2 DEF Same, InCall
  <1>5. Looped(s)'
    BY SMTT(30), <1>1, <1>2 DEF Inv, Good, Looped, InFlight
  <1>6. s \notin done => main[s] \notin After
    BY Zenon, HostsOfRunning
  <1>7. Counted(s)'
    BY Zenon, <1>1, <1>2, <1>6 DEF Inv, Good, Counted, After
  <1>8. Cancelled(s)'
    BY <1>1 DEF Inv, Good, Cancelled, InCall
  <1> QED BY Zenon, <1>3, <1>4, <1>5, <1>7, <1>8, Frame DEF Inv, Good

\* The steps of a host that leave discovered_devices alone and do not lead to an insert.
LEMMA QuietHostKeeps ==
  ASSUME Inv, NEW s \in Scans, NEW h \in Hosts,
         Probe(s, h) \/ Count(s, h) \/ Report(s, h) \/ Write(s, h)
  PROVE  Inv'
  <1> DEFINE Kept == TypeOK' /\ \A t \in Scans : Good(t)'
             Counts == mem[s].found = foundCount[s] \/ \E x \in Hosts : host[s][x] = "report"
  <1>c. s \notin done => Counts
    BY Zenon DEF Inv, Good, Counted
  <1>t. TypeOK /\ mem[s] \in View /\ copy[s][h] \in View /\ foundCount[s] \in Nat
    BY DEF Inv, TypeOK
  <1>h. ASSUME NEW pc, HostGo(s, h, pc)
        PROVE  /\ \A x \in Hosts : host'[s][x] = IF x = h THEN pc ELSE host[s][x]
               /\ \A t \in Scans \ {s} : host'[t] = host[t]
    BY Zenon, <1>t, <1>h DEF HostGo, TypeOK
  <1>1. CASE Probe(s, h)
    <2>1. PICK pc : pc \in {"report", "lookup"} /\ HostGo(s, h, pc)
      BY Zenon, <1>1 DEF Probe
    <2>2. host[s][h] = "probe" /\ UNCHANGED <<row, mem, copy, foundCount, dd>> /\ UNCHANGED scanOthers
      BY Zenon, <1>1 DEF Probe
    <2>3. s \notin done => mem'[s].found = foundCount'[s] \/ \E x \in Hosts : host'[s][x] = "report"
      BY Zenon, <1>c, <1>h, <2>1, <2>2
    <2>4. Kept
      BY Zenon, <1>t, <2>1, <2>2, <2>3, HostStepKeeps DEF InFlight, TypeOK
    <2>5. \A t \in Scans, x \in Hosts : host'[t][x] = "create" => host[t][x] = "create"
      BY Zenon, <1>h, <2>1
    <2> QED BY Zenon, <2>2, <2>4, <2>5, NothingInserted DEF Inv, scanOthers, Active
  <1>2. CASE Count(s, h)
    <2>1. /\ host[s][h] = "count" /\ HostGo(s, h, "report") /\ foundCount' = [foundCount EXCEPT ![s] = @ + 1]
          /\ UNCHANGED <<row, mem, copy, dd>> /\ UNCHANGED scanOthers
      BY Zenon, <1>2 DEF Count
    <2>2. foundCount' \in [Scans -> Nat] /\ \A t \in Scans \ {s} : foundCount'[t] = foundCount[t]
      BY <1>t, <2>1 DEF TypeOK
    <2>3. host'[s][h] = "report"
      BY Zenon, <1>h, <2>1
    <2>4. Kept
      BY Zenon, <1>t, <2>1, <2>2, <2>3, HostStepKeeps DEF InFlight, TypeOK
    <2>5. \A t \in Scans, x \in Hosts : host'[t][x] = "create" => host[t][x] = "create"
      BY <1>h, <2>1
    <2> QED BY Zenon, <2>1, <2>4, <2>5, NothingInserted DEF Inv, scanOthers, Active
  <1>3. CASE Report(s, h)
    <2>1. /\ host[s][h] = "report" /\ HostGo(s, h, "write") /\ mem' = [mem EXCEPT ![s].found = foundCount[s]]
          /\ copy' = [copy EXCEPT ![s][h] = mem'[s]]
          /\ UNCHANGED <<row, foundCount, dd>> /\ UNCHANGED scanOthers
      BY Zenon, <1>3 DEF Report
    <2>2. /\ mem' \in [Scans -> View] /\ mem'[s].st = mem[s].st /\ mem'[s].found = foundCount[s]
          /\ \A t \in Scans \ {s} : mem'[t] = mem[t]
      BY Zenon, <1>t, <2>1 DEF TypeOK, View
    <2>3. copy' \in [Scans -> [Hosts -> View]]
      BY Zenon, <1>t, <2>1, <2>2 DEF TypeOK
    <2>4. Kept
      BY <1>t, <2>1, <2>2, <2>3, HostStepKeeps DEF InFlight, TypeOK
    <2>5. \A t \in Scans, x \in Hosts : host'[t][x] = "create" => host[t][x] = "create"
      BY <1>h, <2>1
    <2> QED BY Zenon, <2>1, <2>4, <2>5, NothingInserted DEF Inv, scanOthers, Active
  <1>4. CASE Write(s, h)
    <2>1. /\ host[s][h] = "write" /\ HostGo(s, h, "end") /\ UpdateDiscoveryScan(s, copy[s][h])
          /\ UNCHANGED <<mem, copy, foundCount, dd>> /\ UNCHANGED scanOthers
      BY Zenon, <1>4 DEF Write
    <2>2. /\ row' \in [Scans -> Row] /\ \A t \in Scans \ {s} : row'[t] = row[t]
          /\ row'[s].st = "fresh" => row[s].st = "fresh"
      BY SMTT(30), <1>t, <2>1, UpdateRows, Values DEF Status, Terminal
    <2>3. s \notin done => mem'[s].found = foundCount'[s] \/ \E x \in Hosts : host'[s][x] = "report"
      BY Zenon, <1>c, <1>h, <2>1
    <2>4. Kept
      BY Zenon, <1>t, <2>1, <2>2, <2>3, HostStepKeeps DEF InFlight, TypeOK
    <2>5. \A t \in Scans, x \in Hosts : host'[t][x] = "create" => host[t][x] = "create"
      BY <1>h, <2>1
    <2> QED BY Zenon, <2>1, <2>4, <2>5, NothingInserted DEF Inv, scanOthers, Active
  <1> QED BY Zenon, <1>1, <1>2, <1>3, <1>4

\* The lookup and the insert: a scan inserts a host that it found no row of, and
\* a row that appeared since is one of a scan that runs at the same time.
LEMMA InsertKeeps ==
  ASSUME Inv, NEW s \in Scans, NEW h \in Hosts, Lookup(s, h) \/ CreateDiscoveredDevice(s, h)
  PROVE  Inv'
  <1>t. TypeOK
    BY Zenon DEF Inv
  <1>1. PICK pc \in {"create", "count"} : HostGo(s, h, pc)
    BY Zenon DEF Lookup, CreateDiscoveredDevice
  <1>2. /\ host[s][h] \in {"lookup", "create"} /\ UNCHANGED <<row, mem, copy, foundCount>>
        /\ UNCHANGED <<scans, cancelFuncs, done, main, next, call, answered, met>>
        /\ UNCHANGED scanOthers
        /\ dd' \subseteq dd \cup {<<s, h>>}
    BY Zenon DEF Lookup, CreateDiscoveredDevice, scanOthers
  <1>3. /\ \A x \in Hosts : host'[s][x] = IF x = h THEN pc ELSE host[s][x]
        /\ \A t \in Scans \ {s} : host'[t] = host[t]
    BY Zenon, <1>t, <1>1 DEF HostGo, TypeOK
  <1>4. s \notin done => mem'[s].found = foundCount'[s] \/ \E x \in Hosts : host'[s][x] = "report"
    BY SMTT(30), <1>2, <1>3 DEF Inv, Good, Counted
  <1>5. TypeOK' /\ \A t \in Scans : Good(t)'
    <2>1. dd' \in SUBSET (Scans \X Hosts)
      BY SMTT(30), <1>t, <1>2 DEF TypeOK
    <2>2. pc \in InFlight /\ host[s][h] \in InFlight
      BY Zenon, <1>1, <1>2 DEF InFlight
    <2>3. /\ row' \in [Scans -> Row] /\ mem' \in [Scans -> View]
          /\ copy' \in [Scans -> [Hosts -> View]] /\ foundCount' \in [Scans -> Nat]
      BY Zenon, <1>t, <1>2 DEF TypeOK
    <2> QED BY Zenon, <1>1, <1>2, <1>4, <2>1, <2>2, <2>3, HostStepKeeps
  <1>6. \A t \in Scans : Active(t)' <=> Active(t)
    BY Zenon, <1>2 DEF Active
  <1>7. CASE Lookup(s, h)
    <2>1. dd' = dd /\ (s \notin done /\ (\E t \in Scans : <<t, h>> \in dd) => pc # "create")
      <3>1. dd' = dd /\ HostGo(s, h, IF s \notin done /\ \E t \in Scans : <<t, h>> \in dd THEN "count" ELSE "create")
        BY Zenon, <1>7 DEF Lookup
      <3>2. host'[s][h] = IF s \notin done /\ \E t \in Scans : <<t, h>> \in dd THEN "count" ELSE "create"
        BY Zenon, <1>t, <3>1 DEF HostGo, TypeOK
      <3> QED BY Zenon, <1>3, <3>1, <3>2
    <2>2. Met'
      <3>1. ASSUME NEW a \in Scans, NEW b \in Scans, NEW x \in Hosts,
                   host'[a][x] = "create", a \notin done, a # b, <<b, x>> \in dd
            PROVE  {a, b} \in met
        <4>1. CASE a = s /\ x = h
          BY Zenon, <1>3, <2>1, <3>1, <4>1
        <4>2. CASE ~(a = s /\ x = h)
          BY Zenon, <1>3, <3>1, <4>2 DEF Inv, Met
        <4> QED BY Zenon, <4>1, <4>2
      <3> QED BY Zenon, <1>2, <1>6, <2>1, <3>1 DEF Inv, Met
    <2>3. NoDuplicateWithoutOverlap'
      BY Zenon, <1>2, <2>1 DEF Inv, NoDuplicateWithoutOverlap
    <2> QED BY Zenon, <1>5, <2>2, <2>3 DEF Inv
  <1>8. CASE CreateDiscoveredDevice(s, h)
    <2>1. /\ host[s][h] = "create" /\ host'[s][h] = "count"
          /\ dd' = IF s \in done THEN dd ELSE dd \cup {<<s, h>>}
      BY SMTT(30), <1>t, <1>8 DEF CreateDiscoveredDevice, HostGo, TypeOK
    \* Who is about to insert the same host runs at the same time.
    <2>2. ASSUME s \notin done, NEW a \in Scans, a # s, host[a][h] = "create", a \notin done
          PROVE  {a, s} \in met
      <3>1. Active(a) /\ Active(s)
        BY Zenon, <2>1, <2>2, HostsOfRunning DEF InFlight
      <3> QED BY Zenon, <2>2, <3>1 DEF Inv, Met
    \* And who has inserted it since the lookup did.
    <2>3. ASSUME s \notin done, NEW b \in Scans, b # s, <<b, h>> \in dd
          PROVE  {s, b} \in met
      BY Zenon, <2>1, <2>3 DEF Inv, Met
    <2>4. Met'
      <3>1. ASSUME NEW a \in Scans, NEW b \in Scans, NEW x \in Hosts,
                   host'[a][x] = "create", a \notin done, a # b, <<b, x>> \in dd'
            PROVE  {a, b} \in met
        <4>1. host[a][x] = "create" /\ ~(a = s /\ x = h)
          BY Zenon, <1>3, <2>1, <3>1
        <4>2. CASE <<b, x>> \in dd
          BY Zenon, <3>1, <4>1, <4>2 DEF Inv, Met
        <4>3. CASE <<b, x>> \notin dd
          <5>1. b = s /\ x = h /\ s \notin done
            BY Zenon, <2>1, <3>1, <4>3
          <5> QED BY Zenon, <2>2, <3>1, <4>1, <5>1
        <4> QED BY Zenon, <4>2, <4>3
      <3> QED BY Zenon, <1>2, <1>6, <3>1 DEF Inv, Met
    <2>5. NoDuplicateWithoutOverlap'
      <3> SUFFICES ASSUME NEW x \in dd', NEW y \in dd', x[2] = y[2], x[1] # y[1]
                   PROVE  {x[1], y[1]} \in met
        BY Zenon, <1>2 DEF NoDuplicateWithoutOverlap
      <3>1. CASE x \in dd /\ y \in dd
        BY Zenon, <3>1 DEF Inv, NoDuplicateWithoutOverlap
      <3>2. CASE x \in dd /\ y \notin dd
        <4>1. y = <<s, h>> /\ s \notin done
          BY Zenon, <2>1, <3>2
        <4>2. x = <<x[1], h>> /\ x[1] \in Scans /\ x[1] # s
          BY <1>t, <3>2, <4>1 DEF TypeOK
        <4>3. {s, x[1]} \in met
          BY Zenon, <2>3, <3>2, <4>1, <4>2
        <4>4. {x[1], y[1]} = {s, x[1]}
          BY Zenon, <4>1
        <4> QED BY Zenon, <4>3, <4>4
      <3>3. CASE x \notin dd /\ y \in dd
        <4>1. x = <<s, h>> /\ s \notin done
          BY Zenon, <2>1, <3>3
        <4>2. y = <<y[1], h>> /\ y[1] \in Scans /\ y[1] # s
          BY <1>t, <3>3, <4>1 DEF TypeOK
        <4> QED BY Zenon, <2>3, <3>3, <4>1, <4>2
      <3>4. CASE x \notin dd /\ y \notin dd
        BY Zenon, <2>1, <3>4
      <3> QED BY Zenon, <3>1, <3>2, <3>3, <3>4
    <2> QED BY Zenon, <1>5, <2>4, <2>5 DEF Inv
  <1> QED BY Zenon, <1>7, <1>8

-----------------------------------------------------------------------------
(* CancelScan, and what happens to the rows and to the server.                 *)

\* A call that moves on keeps its scan.
LEMMA CallRecord ==
  ASSUME Inv, NEW c \in Cancels, NEW pc, call' = [call EXCEPT ![c].pc = pc]
  PROVE  call' = [call EXCEPT ![c] = [pc |-> pc, scan |-> call[c].scan]]
  <1>1. call \in [Cancels -> [pc : {"idle", "cancel", "forget", "save"}, scan : Scans]]
    BY Zenon DEF Inv, TypeOK
  <1>2. [call[c] EXCEPT !.pc = pc] = [pc |-> pc, scan |-> call[c].scan]
    BY <1>1
  <1>3. call' = [call EXCEPT ![c] = [call[c] EXCEPT !.pc = pc]]
    BY Zenon, <1>1
  <1> QED BY Zenon, <1>2, <1>3

\* A step of a CancelScan keeps the invariant if it keeps it of the scan.
LEMMA CallStep ==
  ASSUME Inv, NEW c \in Cancels, NEW s \in Scans, NEW pc \in {"idle", "cancel", "forget", "save"},
         call' = [call EXCEPT ![c] = [pc |-> pc, scan |-> s]],
         call[c].pc # "idle" => call[c].scan = s,
         row' \in [Scans -> Row], mem' \in [Scans -> View],
         \A t \in Scans \ {s} : /\ row'[t] = row[t] /\ mem'[t] = mem[t]
                                /\ t \in cancelFuncs' => t \in cancelFuncs
                                /\ t \in done' <=> t \in done
                                /\ t \in answered' <=> t \in answered,
         cancelFuncs' \in SUBSET Scans, done' \in SUBSET Scans, answered' \in SUBSET Scans,
         done \subseteq done', UNCHANGED <<scans, main, next, host, copy, foundCount, dd, met>>,
         Good(s)'
  PROVE  Inv'
  <1>1. /\ call' \in [Cancels -> [pc : {"idle", "cancel", "forget", "save"}, scan : Scans]]
        /\ call'[c].pc = pc /\ call'[c].scan = s
        /\ \A d \in Cancels \ {c} : call'[d] = call[d]
    BY DEF Inv, TypeOK
  <1>2. TypeOK'
    BY Zenon, <1>1 DEF Inv, TypeOK
  <1>3. ASSUME NEW t \in Scans \ {s} PROVE Same(t)
    <2>1. \A d \in Cancels : InCall(d, t)' => InCall(d, t) /\ call'[d].pc = call[d].pc
      BY Zenon, <1>1 DEF InCall
    <2> QED BY Zenon, <2>1 DEF Same
  <1>4. Met' /\ NoDuplicateWithoutOverlap'
    BY Zenon, NothingInserted DEF Inv, Active
  <1> QED BY Zenon, <1>2, <1>3, <1>4, Frame DEF Inv

\* CancelScan marks the object as failed.
LEMMA MarkKeeps ==
  ASSUME Inv, NEW c \in Cancels, NEW s \in Scans, Mark(c, s)
  PROVE  Inv'
  <1>1. /\ call[c].pc = "idle" /\ s \in scans /\ s \in cancelFuncs
        /\ mem[s].st \in {"pending", "running"} /\ SetStatus(s, "failed")
        /\ call' = [call EXCEPT ![c] = [pc |-> "cancel", scan |-> s]]
        /\ UNCHANGED <<row, cancelFuncs, done, answered>>
        /\ UNCHANGED <<scans, main, next, host, copy, foundCount, dd, met>>
    BY Zenon DEF Mark, runOthers
  <1>2. /\ mem' \in [Scans -> View] /\ \A t \in Scans \ {s} : mem'[t] = mem[t]
        /\ mem'[s].st = "failed" /\ mem'[s].found = mem[s].found
    BY Zenon, <1>1, StatusSet DEF Inv, Status, Terminal
  <1>3. \A d \in Cancels : call'[d] = IF d = c THEN [pc |-> "cancel", scan |-> s] ELSE call[d]
    BY Zenon, <1>1 DEF Inv, TypeOK
  <1>4. main[s] \notin Early /\ s \notin answered /\ mem[s].st \notin Terminal
    BY Zenon, <1>1 DEF Inv, Good, Looped, Cancelled, Terminal
  <1>5. \A d \in Cancels : main[s] \in Before => ~InCall(d, s)
    BY Zenon, <1>4 DEF Inv, Good, Cancelled
  <1>6. Good(s)'
    <2>1. Looped(s)'
      BY Zenon, <1>1 DEF Inv, Good, Looped
    <2>2. Counted(s)'
      BY Zenon, <1>1, <1>2, <1>4 DEF Inv, Good, Counted, After, RowExists, Terminal
    <2>3. Cancelled(s)'
      <3>1. ASSUME NEW d \in Cancels, InCall(d, s)'
            PROVE  /\ call'[d].pc \in {"forget", "save"} => s \in done
                   /\ call'[d].pc = "save" => s \notin cancelFuncs
        BY SMTT(30), <1>3, <3>1 DEF Inv, Good, Cancelled, InCall
      <3>2. ASSUME NEW d \in Cancels, InCall(d, s)', main[s] \in Before
            PROVE  \A e \in Cancels : InCall(e, s)' => e = d
        BY Zenon, <1>3, <1>5, <3>2 DEF InCall
      <3> QED BY Zenon, <1>1, <1>2, <1>4, <3>1, <3>2 DEF Cancelled, Terminal
    <2> QED BY Zenon, <2>1, <2>2, <2>3 DEF Good
  <1>7. row' \in [Scans -> Row] /\ cancelFuncs' \in SUBSET Scans /\ done' \in SUBSET Scans
        /\ answered' \in SUBSET Scans
    BY Zenon, <1>1 DEF Inv, TypeOK
  <1> QED BY Zenon, <1>1, <1>2, <1>6, <1>7, CallStep

\* CancelScan cancels the context.
LEMMA FireKeeps ==
  ASSUME Inv, NEW c \in Cancels, Fire(c)
  PROVE  Inv'
  <1>s. PICK s \in Scans : s = call[c].scan
    BY Zenon DEF Inv, TypeOK
  <1>1. /\ call[c].pc = "cancel" /\ done' = done \cup {s}
        /\ UNCHANGED <<row, mem, cancelFuncs, answered>>
        /\ UNCHANGED <<scans, main, next, host, copy, foundCount, dd, met>>
    BY Zenon, <1>s DEF Fire, runOthers
  <1>2. call' = [call EXCEPT ![c] = [pc |-> "forget", scan |-> s]]
    BY Zenon, <1>s, CallRecord DEF Fire
  <1>3. \A d \in Cancels : call'[d] = IF d = c THEN [pc |-> "forget", scan |-> s] ELSE call[d]
    BY Zenon, <1>2 DEF Inv, TypeOK
  <1>4. \A d \in Cancels : /\ InCall(d, s)' <=> InCall(d, s)
                           /\ call'[d].pc = "save" => call[d].pc = "save"
    BY <1>s, <1>1, <1>3 DEF InCall
  <1>5. InCall(c, s)
    BY Zenon, <1>s, <1>1 DEF InCall
  <1>6. Good(s)'
    <2>1. Looped(s)'
      BY Zenon, <1>1, <1>5 DEF Inv, Good, Looped, Cancelled
    <2>2. Counted(s)'
      BY Zenon, <1>1 DEF Inv, Good, Counted, RowExists
    <2>3. Cancelled(s)'
      BY Zenon, <1>1, <1>4 DEF Inv, Good, Cancelled
    <2> QED BY Zenon, <2>1, <2>2, <2>3 DEF Good
  <1>7. row' \in [Scans -> Row] /\ mem' \in [Scans -> View] /\ cancelFuncs' \in SUBSET Scans
        /\ done' \in SUBSET Scans /\ answered' \in SUBSET Scans
    BY Zenon, <1>1 DEF Inv, TypeOK
  <1> QED BY Zenon, <1>s, <1>1, <1>2, <1>6, <1>7, CallStep

\* CancelScan forgets the cancel function, so that no other call finds it.
LEMMA ForgetKeeps ==
  ASSUME Inv, NEW c \in Cancels, Forget(c)
  PROVE  Inv'
  <1>s. PICK s \in Scans : s = call[c].scan
    BY Zenon DEF Inv, TypeOK
  <1>1. /\ call[c].pc = "forget" /\ cancelFuncs' = cancelFuncs \ {s}
        /\ UNCHANGED <<row, mem, done, answered>>
        /\ UNCHANGED <<scans, main, next, host, copy, foundCount, dd, met>>
    BY Zenon, <1>s DEF Forget, runOthers
  <1>2. call' = [call EXCEPT ![c] = [pc |-> "save", scan |-> s]]
    BY Zenon, <1>s, CallRecord DEF Forget
  <1>3. \A d \in Cancels : call'[d] = IF d = c THEN [pc |-> "save", scan |-> s] ELSE call[d]
    BY Zenon, <1>2 DEF Inv, TypeOK
  <1>4. \A d \in Cancels : /\ InCall(d, s)' <=> InCall(d, s)
                           /\ call'[d].pc \in {"forget", "save"} => call[d].pc \in {"forget", "save"}
    BY <1>s, <1>1, <1>3 DEF InCall
  <1>5. Good(s)'
    <2>1. Looped(s)'
      BY Zenon, <1>1 DEF Inv, Good, Looped
    <2>2. Counted(s)'
      BY Zenon, <1>1 DEF Inv, Good, Counted, RowExists
    <2>3. Cancelled(s)'
      BY Zenon, <1>1, <1>4 DEF Inv, Good, Cancelled
    <2> QED BY Zenon, <2>1, <2>2, <2>3 DEF Good
  <1>6. row' \in [Scans -> Row] /\ mem' \in [Scans -> View] /\ cancelFuncs' \in SUBSET Scans
        /\ done' \in SUBSET Scans /\ answered' \in SUBSET Scans
    BY Zenon, <1>1 DEF Inv, TypeOK
  <1> QED BY Zenon, <1>s, <1>1, <1>2, <1>5, <1>6, CallStep

\* CancelScan saves the object and answers.
LEMMA SaveCancelledKeeps ==
  ASSUME Inv, NEW c \in Cancels, SaveCancelled(c)
  PROVE  Inv'
  <1>s. PICK s \in Scans : s = call[c].scan
    BY Zenon DEF Inv, TypeOK
  <1>1. /\ call[c].pc = "save" /\ answered' = answered \cup {s}
        /\ row' = [row EXCEPT ![s] = IF RowExists(s) THEN mem[s] ELSE @]
        /\ UNCHANGED <<mem, cancelFuncs, done>>
        /\ UNCHANGED <<scans, main, next, host, copy, foundCount, dd, met>>
    BY Zenon, <1>s DEF SaveCancelled, runOthers
  <1>2. call' = [call EXCEPT ![c] = [pc |-> "idle", scan |-> s]]
    BY Zenon, <1>s, CallRecord DEF SaveCancelled
  <1>3. \A d \in Cancels : call'[d] = IF d = c THEN [pc |-> "idle", scan |-> s] ELSE call[d]
    BY Zenon, <1>2 DEF Inv, TypeOK
  <1>4. \A d \in Cancels : InCall(d, s)' => InCall(d, s) /\ d # c /\ call'[d].pc = call[d].pc
    BY SMTT(30), <1>3 DEF InCall
  <1>5. InCall(c, s) /\ s \in done /\ s \notin cancelFuncs /\ main[s] \notin Early
    BY Zenon, <1>s, <1>1 DEF InCall, Inv, Good, Cancelled
  <1>6. /\ row' \in [Scans -> Row] /\ \A t \in Scans \ {s} : row'[t] = row[t]
        /\ row'[s] = IF RowExists(s) THEN mem[s] ELSE row[s]
    BY Zenon, <1>1, Values DEF Inv, TypeOK
  <1>7. Good(s)'
    <2>1. Looped(s)'
      <3>1. mem[s].st # "fresh"
        BY Zenon, Values DEF Inv, TypeOK, Status, Terminal
      <3>2. row'[s].st = "fresh" => row[s].st = "fresh"
        BY Zenon, <1>6, <3>1
      <3> QED BY <1>1, <3>2 DEF Inv, Good, Looped
    <2>2. Counted(s)'
      BY Zenon, <1>1, <1>5 DEF Inv, Good, Counted
    <2>3. Cancelled(s)'
      <3>1. ASSUME NEW d \in Cancels, InCall(d, s)', mem[s].st \notin Terminal \/ main[s] \in Before
            PROVE  FALSE
        BY Zenon, <1>4, <1>5, <3>1 DEF Inv, Good, Cancelled
      <3> QED BY Zenon, <1>1, <1>4, <1>5, <3>1 DEF Inv, Good, Cancelled
    <2> QED BY Zenon, <2>1, <2>2, <2>3 DEF Good
  <1>8. mem' \in [Scans -> View] /\ cancelFuncs' \in SUBSET Scans
        /\ done' \in SUBSET Scans /\ answered' \in SUBSET Scans
    BY Zenon, <1>1 DEF Inv, TypeOK
  <1> QED BY Zenon, <1>s, <1>1, <1>2, <1>6, <1>7, <1>8, CallStep

\* Rows that are deleted, of scans or of discovered devices.
LEMMA DeletesKeep ==
  ASSUME Inv, DeleteDiscovered \/ \E s \in Scans : DeleteScan(s)
  PROVE  Inv'
  <1>1. CASE DeleteDiscovered
    <2>1. dd' \subseteq dd /\ UNCHANGED <<row, mem, scans, cancelFuncs, done, main, next, host, copy,
                                          foundCount, call, answered, met>>
      BY Zenon, <1>1 DEF DeleteDiscovered, memory
    <2>2. TypeOK' /\ \A t \in Scans : Same(t)
      BY Zenon, <2>1 DEF Inv, TypeOK, Same, InCall
    <2>3. Met' /\ NoDuplicateWithoutOverlap'
      BY Zenon, <2>1, NothingInserted DEF Inv, Active
    <2> QED BY Zenon, <2>2, <2>3, Frame DEF Inv
  <1>2. ASSUME NEW s \in Scans, DeleteScan(s) PROVE Inv'
    <2>1. /\ RowExists(s) /\ row' = [row EXCEPT ![s].st = "gone"]
          /\ UNCHANGED <<mem, scans, cancelFuncs, done, main, next, host, copy,
                         foundCount, call, answered, met, dd>>
      BY Zenon, <1>2 DEF DeleteScan, memory
    <2>2. /\ row' \in [Scans -> Row] /\ row'[s].st = "gone"
          /\ \A t \in Scans \ {s} : row'[t] = row[t]
      BY <2>1 DEF Inv, TypeOK, Row
    <2>3. TypeOK' /\ \A t \in Scans \ {s} : Same(t)
      BY Zenon, <2>1, <2>2 DEF Inv, TypeOK, Same, InCall
    <2>4. Good(s)'
      <3>1. Looped(s)'
        BY <2>1, <2>2 DEF Inv, Good, Looped
      <3>2. Counted(s)'
        BY Zenon, <2>1, <2>2 DEF Inv, Good, Counted, RowExists, Status, Terminal
      <3>3. Cancelled(s)'
        BY Zenon, <2>1 DEF Inv, Good, Cancelled, InCall
      <3> QED BY Zenon, <3>1, <3>2, <3>3 DEF Good
    <2>5. Met' /\ NoDuplicateWithoutOverlap'
      BY Zenon, <2>1, NothingInserted DEF Inv, Active
    <2> QED BY Zenon, <2>3, <2>4, <2>5, Frame DEF Inv
  <1> QED BY Zenon, <1>1, <1>2

\* A restart ends every scan that had begun.
LEMMA CrashKeeps ==
  ASSUME Inv, Crash
  PROVE  Inv'
  <1>1. /\ scans' = {} /\ cancelFuncs' = {}
        /\ main' = [s \in Scans |-> IF main[s] = "none" THEN "none" ELSE "end"]
        /\ host' = [s \in Scans |-> [h \in Hosts |-> "idle"]]
        /\ call' = [c \in Cancels |-> [call[c] EXCEPT !.pc = "idle"]]
        /\ done' = done \cup {s \in Scans : main[s] # "none"}
        /\ UNCHANGED <<row, mem, next, copy, foundCount, dd, answered, met>>
    BY Zenon DEF Crash
  <1>2. TypeOK'
    BY <1>1 DEF Inv, TypeOK, Mains, Before, After
  <1>3. \A c \in Cancels, s \in Scans : ~InCall(c, s)'
    BY Zenon, <1>1 DEF Inv, TypeOK, InCall
  <1>4. ASSUME NEW s \in Scans PROVE Good(s)'
    <2>1. /\ main'[s] = IF main[s] = "none" THEN "none" ELSE "end"
          /\ \A h \in Hosts : host'[s][h] = "idle"
          /\ s \in done' <=> s \in done \/ main[s] # "none"
      BY Zenon, <1>1
    <2>2. Looped(s)'
      BY Zenon, <1>1, <2>1 DEF Inv, Good, Looped, Early
    <2>3. main[s] = "none" => \A h \in Hosts : host[s][h] = "idle"
      BY ScansAssumption DEF Inv, Good, Looped, Hosts
    <2>4. Counted(s)'
      BY Zenon, <1>1, <2>1, <2>3 DEF Inv, Good, Counted, After
    <2>5. Cancelled(s)'
      BY Zenon, <1>1, <1>3, <2>1 DEF Inv, Good, Cancelled, Early
    <2> QED BY Zenon, <2>2, <2>4, <2>5 DEF Good
  <1>5. Met' /\ NoDuplicateWithoutOverlap'
    <2>1. \A s \in Scans : ~Active(s)'
      BY Zenon, <1>1 DEF Active, Ended
    <2>2. \A s \in Scans, h \in Hosts : host'[s][h] # "create"
      BY Zenon, <1>1
    <2> QED BY Zenon, <1>1, <2>1, <2>2, NothingInserted DEF Inv
  <1> QED BY Zenon, <1>2, <1>4, <1>5 DEF Inv

-----------------------------------------------------------------------------
(* The theorems.                                                               *)

\* The invariant holds when no scan was ever started.
LEMMA InitHolds == Init => Inv
  <1> SUFFICES ASSUME Init PROVE Inv
    OBVIOUS
  <1> USE DEF Init
  <1>1. (CHOOSE s \in Scans : TRUE) \in Scans
    BY Zenon, ScansAssumption
  <1>2. [NewView EXCEPT !.st = "fresh"] \in Row
    BY Zenon DEF NewView, Row
  <1>3. TypeOK
    BY <1>1, <1>2, Values, ScansAssumption DEF TypeOK, Mains, Before
  <1>4. ASSUME NEW s \in Scans PROVE Good(s)
    <2>1. \A c \in Cancels : ~InCall(c, s)
      BY Zenon DEF InCall
    <2>2. mem[s].found = 0 /\ mem[s].st = "pending" /\ main[s] = "none" /\ foundCount[s] = 0
      BY Zenon, Values
    <2> QED BY Zenon, <2>1, <2>2 DEF Good, Looped, Counted, Cancelled, Early, Before, After
  <1>5. Met /\ NoDuplicateWithoutOverlap
    BY Zenon DEF Met, NoDuplicateWithoutOverlap, Active, Ended
  <1> QED BY Zenon, <1>3, <1>4, <1>5 DEF Inv

\* Every step keeps the invariant.
LEMMA NextKeeps == Inv /\ [Next]_vars => Inv'
  <1> SUFFICES ASSUME Inv, [Next]_vars PROVE Inv'
    OBVIOUS
  <1>1. CASE UNCHANGED vars
    <2>1. TypeOK' /\ \A t \in Scans : Same(t)
      BY Zenon, <1>1 DEF vars, Inv, TypeOK, Same, InCall
    <2>2. Met' /\ NoDuplicateWithoutOverlap'
      BY Zenon, <1>1, NothingInserted DEF vars, Inv, Active
    <2> QED BY Zenon, <2>1, <2>2, Frame DEF Inv
  <1>2. ASSUME NEW s \in Scans, Scan(s) \/ MainStep(s) PROVE Inv'
    BY Zenon, <1>2, ScanKeeps, RegisterKeeps, BeginKeeps, SavesKeep, LoopHeadKeeps, SpawnKeeps, WaitKeeps,
       CleanupKeeps DEF MainStep
  <1>3. ASSUME NEW s \in Scans, NEW h \in Hosts, HostStep(s, h) PROVE Inv'
    BY Zenon, <1>3, QuietHostKeeps, InsertKeeps DEF HostStep
  <1>4. ASSUME NEW c \in Cancels, CancelStep(c) \/ \E s \in Scans : Mark(c, s) PROVE Inv'
    BY Zenon, <1>4, MarkKeeps, FireKeeps, ForgetKeeps, SaveCancelledKeeps DEF CancelStep
  <1>5. CASE DeleteDiscovered \/ Crash \/ \E s \in Scans : DeleteScan(s)
    BY Zenon, <1>5, DeletesKeep, CrashKeeps
  <1> QED BY Zenon, <1>1, <1>2, <1>3, <1>4, <1>5 DEF Next, Work

\* The invariant holds in every reachable state.
LEMMA AlwaysInv == Spec => []Inv
  BY InitHolds, NextKeeps, PTL DEF Spec

\* The row of a scan that ended by itself says completed and has the number of
\* hosts found, for any number of hosts and workers and in whatever order the
\* goroutines of the hosts count, report and write.
THEOREM CountsAreExact == Spec => []FoundIsExact
  <1>1. Inv => FoundIsExact
    <2> SUFFICES ASSUME Inv, NEW s \in Scans, main[s] = "end", s \notin done, RowExists(s)
                 PROVE  row[s].st = "completed" /\ row[s].found = foundCount[s]
      BY Zenon DEF FoundIsExact
    <2>1. row[s] = mem[s] /\ mem[s].st = "completed" /\ \A h \in Hosts : host[s][h] # "report"
      BY Zenon DEF Inv, Good, Counted, After, InFlight
    <2> QED BY SMTT(30), <2>1 DEF Inv, Good, Counted
  <1> QED BY AlwaysInv, <1>1, PTL

\* Two rows for one host are the work of two scans of the network that ran at the
\* same time: the lookup before the insert suffices for scans that follow each
\* other, cancelled ones included.
THEOREM DuplicatesNeedOverlap == Spec => []NoDuplicateWithoutOverlap
  <1>1. Inv => NoDuplicateWithoutOverlap
    BY DEF Inv
  <1> QED BY AlwaysInv, <1>1, PTL

\* A row that says that a scan is over never says again that it runs, once its
\* CancelScan has answered or its goroutine has ended.
THEOREM EndedScansStayEnded == Spec => OverIsOver
  <1> DEFINE Over == \A s \in Scans :
       (s \in answered \/ main[s] = "end") /\ row[s].st \in Terminal =>
         row'[s].st \in Terminal \cup {"gone"}
  <1>1. Inv /\ [Next]_vars => [Over]_vars
    <2> SUFFICES ASSUME Inv, Next, NEW s \in Scans, s \in answered \/ main[s] = "end",
                        row[s].st \in Terminal
                 PROVE  row'[s].st \in Terminal \cup {"gone"}
      OBVIOUS
    <2>t. TypeOK /\ Good(s)
      BY Zenon DEF Inv
    <2>1. CASE row'[s] = row[s]
      BY Zenon, <2>1
    <2>2. ASSUME NEW t \in Scans, Scan(t) \/ MainStep(t) PROVE row'[s] = row[s]
      <3>1. CASE UNCHANGED row
        BY Zenon, <3>1
      <3>2. CASE Scan(t)
        BY Zenon, <2>t, <3>2 DEF Scan, TypeOK, Terminal
      <3>3. CASE SaveStarted(t) \/ SaveCompleted(t)
        <4>1. UpdateDiscoveryScan(t, mem[t]) /\ main[t] # "end"
          BY Zenon, <3>3 DEF SaveStarted, SaveCompleted
        <4> QED BY Zenon, <2>t, <4>1 DEF UpdateDiscoveryScan, Good, Cancelled, TypeOK
      <3> QED BY Zenon, <2>2, <3>1, <3>2, <3>3
              DEF MainStep, Register, Begin, LoopHead, Spawn, Wait, Cleanup
    <2>3. ASSUME NEW t \in Scans, NEW h \in Hosts, HostStep(t, h) PROVE row'[s] = row[s]
      <3>1. CASE UNCHANGED row
        BY Zenon, <3>1
      <3>2. CASE Write(t, h)
        <4>1. host[t][h] \in InFlight /\ UpdateDiscoveryScan(t, copy[t][h])
          BY Zenon, <3>2 DEF Write, InFlight
        <4>2. t = s => s \in done
          BY Zenon, <2>t, <4>1, HostsOfRunning DEF Good, Cancelled, After
        <4> QED BY Zenon, <2>t, <4>1, <4>2 DEF UpdateDiscoveryScan, TypeOK
      <3> QED BY Zenon, <2>3, <3>1, <3>2 DEF HostStep, Probe, Lookup, CreateDiscoveredDevice, Count, Report
    <2>4. ASSUME NEW c \in Cancels, CancelStep(c) \/ \E t \in Scans : Mark(c, t)
          PROVE  row'[s] = row[s] \/ row'[s].st \in Terminal
      <3>1. CASE UNCHANGED row
        BY Zenon, <3>1
      <3>2. CASE SaveCancelled(c)
        <4>1. CASE call[c].scan # s
          BY Zenon, <2>t, <3>2, <4>1 DEF SaveCancelled, TypeOK
        <4>2. CASE call[c].scan = s
          <5>1. InCall(c, s) /\ row' = [row EXCEPT ![s] = IF RowExists(s) THEN mem[s] ELSE @]
            BY Zenon, <3>2, <4>2 DEF SaveCancelled, InCall
          <5>2. mem[s].st \in Terminal
            BY Zenon, <2>t, <5>1 DEF Good, Cancelled
          <5> QED BY Zenon, <2>t, <5>1, <5>2 DEF TypeOK
        <4> QED BY Zenon, <4>1, <4>2
      <3> QED BY Zenon, <2>4, <3>1, <3>2 DEF CancelStep, Mark, Fire, Forget
    <2>5. ASSUME NEW t \in Scans, DeleteScan(t) PROVE row'[s] = row[s] \/ row'[s].st = "gone"
      BY <2>t, <2>5 DEF DeleteScan, TypeOK, Row
    <2>6. CASE DeleteDiscovered \/ Crash
      BY Zenon, <2>6 DEF DeleteDiscovered, Crash
    <2> QED BY Zenon, <2>1, <2>2, <2>3, <2>4, <2>5, <2>6 DEF Next, Work
  <1>2. Spec => [][Over]_vars
    BY AlwaysInv, <1>1, PTL DEF Spec
  <1> QED BY Zenon, <1>2 DEF OverIsOver

-----------------------------------------------------------------------------
(* Promotion.                                                                  *)

DiscoveredColumns == {"st", "ip", "net", "to", "old"}

\* Tables and requests have the rows they began with.
PromotionTypes ==
    /\ DOMAIN found = Discovered /\ \A d \in Discovered : DOMAIN found[d] = DiscoveredColumns
    /\ DOMAIN dev = Devices /\ DOMAIN req = Requests

\* The scan that is about to create a row has an identifier for it.
HostHasRoom ==
    recording.pc = "save" /\ recording.row = {} => \E d \in Discovered : found[d].st = "fresh"

PromotionInv == PromotionTypes /\ HostHasRoom /\ PromotedAreNamed

\* Nothing of a device's name is lost when links stay, or are taken by what
\* takes links, and no device is made.
LEMMA NamesKept ==
  ASSUME PromotionInv, parted \subseteq parted',
         \A x \in Devices : dev'[x] = "live" => dev[x] = "live",
         \A d \in P!Rows : \A x \in found[d].to : (found'[d].st = "live" /\ x \in found'[d].to) \/ x \in parted',
         \A p \in Requests : req[p].pc = "link" =>
           \/ req'[p].pc = "link" /\ req'[p].dev = req[p].dev
           \/ req[p].dev \in parted'
           \/ \E d \in Discovered : found'[d].st = "live" /\ req[p].dev \in found'[d].to
  PROVE  PromotedAreNamed'
  <1> SUFFICES ASSUME NEW x \in Devices, dev'[x] = "live"
               PROVE  \/ \E d \in Discovered : found'[d].st = "live" /\ x \in found'[d].to
                      \/ \E p \in Requests : req'[p].pc = "link" /\ req'[p].dev = x
                      \/ x \in parted'
    BY Zenon DEF PromotedAreNamed, P!PromotedAreNamed, P!Rows
  <1>1. \/ \E d \in P!Rows : x \in found[d].to
        \/ \E p \in Requests : req[p].pc = "link" /\ req[p].dev = x
        \/ x \in parted
    BY Zenon DEF PromotionInv, PromotedAreNamed, P!PromotedAreNamed
  <1>2. CASE \E d \in P!Rows : x \in found[d].to
    BY Zenon, <1>2 DEF P!Rows
  <1>3. CASE \E p \in Requests : req[p].pc = "link" /\ req[p].dev = x
    BY Zenon, <1>3
  <1>4. CASE x \in parted
    BY Zenon, <1>4
  <1> QED BY Zenon, <1>1, <1>2, <1>3, <1>4

\* A step of the table alone: rows keep their links, but for those that it parts.
LEMMA TableStep ==
  ASSUME PromotionInv, UNCHANGED <<dev, req>>, parted \subseteq parted',
         DOMAIN found' = Discovered, \A d \in Discovered : DOMAIN found'[d] = DiscoveredColumns,
         \A d \in P!Rows : \A x \in found[d].to : (found'[d].st = "live" /\ x \in found'[d].to) \/ x \in parted',
         \/ recording' = P!Idle
         \/ recording' = recording /\ \A d \in Discovered : found[d].st = "fresh" => found'[d] = found[d]
  PROVE  PromotionInv'
  <1>1. PromotionTypes'
    BY Zenon DEF PromotionInv, PromotionTypes
  <1>2. HostHasRoom'
    BY DEF PromotionInv, HostHasRoom, P!Idle
  <1>3. PromotedAreNamed'
    BY Zenon, NamesKept
  <1> QED BY Zenon, <1>1, <1>2, <1>3 DEF PromotionInv

\* A step that changes neither the rows nor the devices, and no promotion.
LEMMA OtherStep ==
  ASSUME PromotionInv, UNCHANGED <<found, dev, parted>>, DOMAIN req' = Requests,
         \A p \in Requests : req[p].pc = "link" => req'[p] = req[p],
         \/ recording' = P!Idle \/ recording' = recording
         \/ recording'.row # {} \/ \E d \in Discovered : found[d].st = "fresh"
  PROVE  PromotionInv'
  <1>1. PromotionTypes'
    BY Zenon DEF PromotionInv, PromotionTypes
  <1>2. HostHasRoom'
    BY DEF PromotionInv, HostHasRoom, P!Idle
  <1>3. \A d \in P!Rows : \A x \in found[d].to : found'[d].st = "live" /\ x \in found'[d].to
    BY Zenon DEF P!Rows
  <1>4. PromotedAreNamed'
    BY Zenon, <1>3, NamesKept
  <1> QED BY Zenon, <1>1, <1>2, <1>4 DEF PromotionInv

\* A request that arrives takes the place of an idle one.
LEMMA ArriveStep ==
  ASSUME PromotionInv, NEW r, P!Arrives(r), UNCHANGED <<found, dev, recording, parted>>
  PROVE  PromotionInv'
  <1>1. PICK idle : idle = {p \in Requests : req[p] = P!Idle}
    OBVIOUS
  <1>2. idle # {} /\ P!Go(P!NewId(Requests, idle), r)
    BY Zenon, <1>1 DEF P!Arrives
  <1>3. PICK p : p = P!NewId(Requests, idle)
    OBVIOUS
  <1>4. p \in Requests /\ p \in idle
    BY Zenon, <1>1, <1>2, <1>3 DEF P!NewId
  <1>5. req' = [req EXCEPT ![p] = r] /\ req[p].pc = "idle"
    BY <1>1, <1>2, <1>3, <1>4 DEF P!Go, P!Idle
  <1>6. DOMAIN req' = Requests /\ \A q \in Requests : req[q].pc = "link" => req'[q] = req[q]
    BY Zenon, <1>4, <1>5 DEF PromotionInv, PromotionTypes
  <1> QED BY Zenon, <1>6, OtherStep

\* A request that is not at its link moves on.
LEMMA GoStep ==
  ASSUME PromotionInv, NEW p \in Requests, NEW r, P!Go(p, r), req[p].pc # "link",
         UNCHANGED <<found, dev, recording, parted>>
  PROVE  PromotionInv'
  <1>1. DOMAIN req' = Requests /\ \A q \in Requests : req[q].pc = "link" => req'[q] = req[q]
    BY Zenon DEF P!Go, PromotionInv, PromotionTypes
  <1> QED BY Zenon, <1>1, OtherStep

\* Rows that are deleted part the devices they name.
LEMMA DeleteRowsStep ==
  ASSUME PromotionInv, NEW D, D \subseteq P!Rows, P!DeleteDiscoveredRows(D), UNCHANGED <<dev, req, recording>>
  PROVE  PromotionInv'
  <1>1. PICK gone : gone = [P!NewRow EXCEPT !.st = "gone"]
    OBVIOUS
  <1>2. DOMAIN gone = DiscoveredColumns
    BY Zenon, <1>1 DEF P!NewRow, DiscoveredColumns
  <1>3. found' = [d \in Discovered |-> IF d \in D THEN gone ELSE found[d]]
    BY Zenon, <1>1 DEF P!DeleteDiscoveredRows
  <1>4. parted \subseteq parted' /\ \A d \in D : \A x \in found[d].to : x \in parted'
    BY Zenon DEF P!DeleteDiscoveredRows, P!LinkedTo
  <1>5. DOMAIN found' = Discovered /\ \A d \in Discovered : DOMAIN found'[d] = DiscoveredColumns
    BY Zenon, <1>2, <1>3 DEF PromotionInv, PromotionTypes
  <1>6. \A d \in P!Rows : \A x \in found[d].to : (found'[d].st = "live" /\ x \in found'[d].to) \/ x \in parted'
    BY Zenon, <1>3, <1>4 DEF P!Rows
  <1>7. \A d \in Discovered : found[d].st = "fresh" => found'[d] = found[d]
    BY Zenon, <1>3 DEF P!Rows
  <1> QED BY Zenon, <1>4, <1>5, <1>6, <1>7, TableStep

\* The clean-up takes no row that names a device.
LEMMA CleanupStep ==
  ASSUME PromotionInv, P!CleanupOldDiscoveries, UNCHANGED <<dev, req, recording, parted>>
  PROVE  PromotionInv'
  <1>1. PICK gone : gone = [P!NewRow EXCEPT !.st = "gone"]
    OBVIOUS
  <1>2. DOMAIN gone = DiscoveredColumns
    BY Zenon, <1>1 DEF P!NewRow, DiscoveredColumns
  <1>3. found' = [d \in Discovered |-> IF d \in P!Rows /\ found[d].old /\ found[d].to = {} THEN gone ELSE found[d]]
    BY Zenon, <1>1 DEF P!CleanupOldDiscoveries
  <1>4. DOMAIN found' = Discovered /\ \A d \in Discovered : DOMAIN found'[d] = DiscoveredColumns
    BY Zenon, <1>2, <1>3 DEF PromotionInv, PromotionTypes
  <1>5. \A d \in P!Rows : \A x \in found[d].to : found'[d].st = "live" /\ x \in found'[d].to
    BY Zenon, <1>3 DEF P!Rows
  <1>6. \A d \in Discovered : found[d].st = "fresh" => found'[d] = found[d]
    BY Zenon, <1>3 DEF P!Rows
  <1> QED BY Zenon, <1>4, <1>5, <1>6, TableStep

\* One row is replaced by one that is live and has its links.
LEMMA RowStep ==
  ASSUME PromotionInv, NEW d \in Discovered, NEW entry, DOMAIN entry = DiscoveredColumns,
         found' = [found EXCEPT ![d] = entry], UNCHANGED <<dev, req>>, parted \subseteq parted',
         d \in P!Rows => entry.st = "live" /\ \A x \in found[d].to : x \in entry.to \/ x \in parted',
         recording' = P!Idle \/ (recording' = recording /\ d \in P!Rows)
  PROVE  PromotionInv'
  <1>1. /\ DOMAIN found' = Discovered /\ found'[d] = entry /\ \A e \in Discovered : e # d => found'[e] = found[e]
    BY Zenon DEF PromotionInv, PromotionTypes
  <1>2. \A e \in Discovered : DOMAIN found'[e] = DiscoveredColumns
    BY Zenon, <1>1 DEF PromotionInv, PromotionTypes
  <1>3. \A e \in P!Rows : \A x \in found[e].to : (found'[e].st = "live" /\ x \in found'[e].to) \/ x \in parted'
    BY Zenon, <1>1 DEF P!Rows
  <1>4. d \in P!Rows => \A e \in Discovered : found[e].st = "fresh" => found'[e] = found[e]
    BY Zenon, <1>1 DEF P!Rows
  <1> QED BY Zenon, <1>1, <1>2, <1>3, <1>4, TableStep

\* A host is recorded: a new row takes an identifier that is new, a row that is
\* there keeps its link.
LEMMA SaveHostStep ==
  ASSUME PromotionInv, P!SaveHost
  PROVE  PromotionInv'
  <1>1. recording.pc = "save" /\ recording' = P!Idle /\ UNCHANGED <<dev, req, parted>>
    BY Zenon DEF P!SaveHost
  <1>2. CASE recording.row = {}
    <2>1. PICK n, ip : P!CreateDiscoveredDevice(n, ip)
      BY Zenon, <1>2 DEF P!SaveHost
    <2>2. CASE net[n] # "live"
      BY Zenon, <1>1, <2>1, <2>2, OtherStep DEF P!CreateDiscoveredDevice, PromotionInv, PromotionTypes
    <2>3. CASE net[n] = "live"
      <3>1. PICK fresh : fresh = {e \in Discovered : found[e].st = "fresh"}
        OBVIOUS
      <3>2. PICK d : d = P!NewId(Discovered, fresh)
        OBVIOUS
      <3>3. PICK entry : entry = [P!NewRow EXCEPT !.st = "live", !.ip = ip, !.net = n]
        OBVIOUS
      <3>4. d \in Discovered /\ d \in fresh
        BY Zenon, <1>1, <1>2, <3>1, <3>2 DEF P!NewId, PromotionInv, HostHasRoom
      <3>5. DOMAIN entry = DiscoveredColumns /\ d \notin P!Rows
        BY Zenon, <3>1, <3>3, <3>4 DEF P!NewRow, DiscoveredColumns, P!Rows
      <3>6. found' = [found EXCEPT ![d] = entry]
        BY Zenon, <2>1, <2>3, <3>1, <3>2, <3>3 DEF P!CreateDiscoveredDevice
      <3> QED BY Zenon, <1>1, <3>4, <3>5, <3>6, RowStep
    <2> QED BY Zenon, <2>2, <2>3
  <1>3. CASE recording.row # {}
    <2>1. PICK d, seen : P!UpdateDiscoveredDevice(d, seen)
      BY Zenon, <1>3 DEF P!SaveHost
    <2>2. CASE d \notin P!Rows
      BY Zenon, <1>1, <2>1, <2>2, OtherStep DEF P!UpdateDiscoveredDevice, PromotionInv, PromotionTypes
    <2>3. CASE d \in P!Rows
      <3>1. d \in Discovered /\ found[d].st = "live" /\ DOMAIN found[d] = DiscoveredColumns
        BY Zenon, <2>3 DEF P!Rows, PromotionInv, PromotionTypes
      <3>2. PICK first : first = [found[d] EXCEPT !.old = FALSE]
        OBVIOUS
      <3>3. PICK entry : entry = [first EXCEPT !.ip = seen.ip]
        OBVIOUS
      <3>4. DOMAIN first = DiscoveredColumns /\ first.st = "live" /\ first.to = found[d].to
        BY Zenon, <3>1, <3>2 DEF DiscoveredColumns
      <3>5. DOMAIN entry = DiscoveredColumns /\ entry.st = "live" /\ entry.to = found[d].to
        BY Zenon, <3>3, <3>4 DEF DiscoveredColumns
      <3>6. found' = [found EXCEPT ![d] = entry]
        BY Zenon, <2>1, <2>3, <3>1, <3>2, <3>3 DEF P!UpdateDiscoveredDevice, PromotionInv, PromotionTypes
      <3> QED BY Zenon, <1>1, <3>1, <3>5, <3>6, RowStep
    <2> QED BY Zenon, <2>2, <2>3
  <1> QED BY Zenon, <1>2, <1>3

\* The row of a host that is not seen grows old.
LEMMA GrowStep ==
  ASSUME PromotionInv, NEW d \in Discovered, P!Grow(d)
  PROVE  PromotionInv'
  <1>1. d \in P!Rows /\ found[d].st = "live" /\ DOMAIN found[d] = DiscoveredColumns
    BY Zenon DEF P!Grow, P!Rows, PromotionInv, PromotionTypes
  <1>2. PICK entry : entry = [found[d] EXCEPT !.old = TRUE]
    OBVIOUS
  <1>3. DOMAIN entry = DiscoveredColumns /\ entry.st = "live" /\ entry.to = found[d].to
    BY Zenon, <1>1, <1>2 DEF DiscoveredColumns
  <1>4. found' = [found EXCEPT ![d] = entry] /\ UNCHANGED <<dev, req, recording, parted>>
    BY Zenon, <1>2 DEF P!Grow
  <1> QED BY Zenon, <1>1, <1>3, <1>4, RowStep

\* A promotion makes its device and goes on to the link.
LEMMA CreatePromotedStep ==
  ASSUME PromotionInv, NEW p \in Requests, P!CreatePromoted(p)
  PROVE  PromotionInv'
  <1>1. PICK x, r : /\ r.pc = "link" /\ r.dev = x /\ dev' = [dev EXCEPT ![x] = "live"]
                    /\ req' = [req EXCEPT ![p] = r] /\ req[p].pc = "create"
                    /\ UNCHANGED <<found, recording, parted>>
    <2>1. PICK x : x = P!NewId(Devices, {y \in Devices : dev[y] = "fresh"})
      OBVIOUS
    <2>2. PICK r : r = [pc |-> "link", row |-> req[p].row, dev |-> x]
      OBVIOUS
    <2>3. r.pc = "link" /\ r.dev = x
      BY Zenon, <2>2
    <2>4. /\ dev' = [dev EXCEPT ![x] = "live"] /\ req' = [req EXCEPT ![p] = r]
          /\ req[p].pc = "create" /\ UNCHANGED <<found, recording, parted>>
      BY Zenon, <2>1, <2>2 DEF P!CreatePromoted, P!Go
    <2> QED BY Zenon, <2>3, <2>4
  <1>2. /\ DOMAIN req' = Requests /\ req'[p] = r /\ \A q \in Requests : q # p => req'[q] = req[q]
        /\ DOMAIN dev' = Devices /\ \A y \in Devices : y # x => dev'[y] = dev[y]
    BY Zenon, <1>1 DEF PromotionInv, PromotionTypes
  <1>3. PromotionTypes' /\ HostHasRoom'
    BY Zenon, <1>1, <1>2 DEF PromotionInv, PromotionTypes, HostHasRoom
  <1>4. ASSUME NEW y \in Devices, dev'[y] = "live"
        PROVE  \/ \E d \in Discovered : found'[d].st = "live" /\ y \in found'[d].to
               \/ \E q \in Requests : req'[q].pc = "link" /\ req'[q].dev = y
               \/ y \in parted'
    <2>1. CASE y = x
      BY Zenon, <1>1, <1>2, <2>1
    <2>2. CASE y # x
      <3>1. \/ \E d \in P!Rows : y \in found[d].to
            \/ \E q \in Requests : req[q].pc = "link" /\ req[q].dev = y
            \/ y \in parted
        BY Zenon, <1>2, <1>4, <2>2 DEF PromotionInv, PromotedAreNamed, P!PromotedAreNamed
      <3> QED BY Zenon, <1>1, <1>2, <3>1 DEF P!Rows
    <2> QED BY Zenon, <2>1, <2>2
  <1>5. PromotedAreNamed'
    BY Zenon, <1>4 DEF PromotedAreNamed, P!PromotedAreNamed, P!Rows
  <1> QED BY Zenon, <1>3, <1>5 DEF PromotionInv

\* A promotion links its device to the row, or the row or the device is gone.
LEMMA LinkPromotedStep ==
  ASSUME PromotionInv, NEW p \in Requests, P!LinkPromoted(p)
  PROVE  PromotionInv'
  <1>1. PICK d, x : d = req[p].row /\ x = req[p].dev
    OBVIOUS
  <1>2. /\ P!PromoteDiscoveredDevice(d, x) /\ UNCHANGED <<dev, recording>>
        /\ req' = [req EXCEPT ![p] = P!Idle]
    BY Zenon, <1>1 DEF P!LinkPromoted, P!Go
  <1>3. DOMAIN req' = Requests /\ \A q \in Requests : q # p => req'[q] = req[q]
    BY Zenon, <1>2 DEF PromotionInv, PromotionTypes
  <1>4. CASE d \in P!Rows /\ dev[x] = "live"
    <2>1. d \in Discovered /\ found[d].st = "live" /\ DOMAIN found[d] = DiscoveredColumns
      BY Zenon, <1>4 DEF P!Rows, PromotionInv, PromotionTypes
    <2>2. PICK entry : entry = [found[d] EXCEPT !.to = {x}]
      OBVIOUS
    <2>3. DOMAIN entry = DiscoveredColumns /\ entry.st = "live" /\ entry.to = {x}
      BY Zenon, <2>1, <2>2 DEF DiscoveredColumns
    <2>4. found' = [found EXCEPT ![d] = entry] /\ parted' = parted \cup (found[d].to \ {x})
      BY Zenon, <1>2, <1>4, <2>2 DEF P!PromoteDiscoveredDevice, P!LinkedTo
    <2>5. /\ DOMAIN found' = Discovered /\ found'[d] = entry /\ \A e \in Discovered : e # d => found'[e] = found[e]
      BY Zenon, <2>1, <2>4 DEF PromotionInv, PromotionTypes
    <2>6. PromotionTypes'
      BY Zenon, <1>2, <1>3, <2>3, <2>5 DEF PromotionInv, PromotionTypes
    <2>7. HostHasRoom'
      BY Zenon, <1>2, <2>1, <2>5 DEF PromotionInv, HostHasRoom
    <2>8. \A e \in P!Rows : \A y \in found[e].to : (found'[e].st = "live" /\ y \in found'[e].to) \/ y \in parted'
      BY Zenon, <2>3, <2>4, <2>5 DEF P!Rows
    <2>9. \A q \in Requests : req[q].pc = "link" =>
            \/ req'[q].pc = "link" /\ req'[q].dev = req[q].dev
            \/ \E e \in Discovered : found'[e].st = "live" /\ req[q].dev \in found'[e].to
      BY Zenon, <1>1, <1>3, <2>1, <2>3, <2>5
    <2>10. PromotedAreNamed'
      BY Zenon, <1>2, <2>4, <2>8, <2>9, NamesKept
    <2> QED BY Zenon, <2>6, <2>7, <2>10 DEF PromotionInv
  <1>5. CASE ~(d \in P!Rows /\ dev[x] = "live")
    <2>1. found' = found /\ parted' = parted \cup {x}
      BY Zenon, <1>2, <1>5 DEF P!PromoteDiscoveredDevice
    <2>2. PromotionTypes' /\ HostHasRoom'
      BY Zenon, <1>2, <1>3, <2>1 DEF PromotionInv, PromotionTypes, HostHasRoom
    <2>3. \A e \in P!Rows : \A y \in found[e].to : found'[e].st = "live" /\ y \in found'[e].to
      BY Zenon, <2>1 DEF P!Rows
    <2>4. \A q \in Requests : req[q].pc = "link" =>
            \/ req'[q].pc = "link" /\ req'[q].dev = req[q].dev
            \/ req[q].dev \in parted'
      BY Zenon, <1>1, <1>3, <2>1
    <2>5. PromotedAreNamed'
      BY Zenon, <1>2, <2>1, <2>3, <2>4, NamesKept
    <2> QED BY Zenon, <2>2, <2>5 DEF PromotionInv
  <1> QED BY Zenon, <1>4, <1>5

\* A crash parts the devices that were made and not yet linked.
LEMMA CrashStep ==
  ASSUME PromotionInv, P!Crash
  PROVE  PromotionInv'
  <1>1. /\ req' = [p \in Requests |-> P!Idle] /\ recording' = P!Idle /\ UNCHANGED <<found, dev>>
        /\ parted' = parted \cup {req[p].dev : p \in {q \in Requests : req[q].pc = "link"}}
    BY Zenon DEF P!Crash
  <1>2. PromotionTypes' /\ HostHasRoom'
    BY Zenon, <1>1 DEF PromotionInv, PromotionTypes, HostHasRoom, P!Idle
  <1>3. \A e \in P!Rows : \A y \in found[e].to : found'[e].st = "live" /\ y \in found'[e].to
    BY Zenon, <1>1 DEF P!Rows
  <1>4. parted \subseteq parted' /\ \A q \in Requests : req[q].pc = "link" => req[q].dev \in parted'
    BY Zenon, <1>1
  <1>5. PromotedAreNamed'
    BY Zenon, <1>1, <1>3, <1>4, NamesKept
  <1> QED BY Zenon, <1>2, <1>5 DEF PromotionInv

\* The scan looks a host up.
LEMMA FoundHostStep ==
  ASSUME PromotionInv, NEW n, NEW ip, P!FoundHost(n, ip)
  PROVE  PromotionInv'
  <1>1. PICK seen : seen = P!GetDiscoveredDeviceByIP(n, ip)
    OBVIOUS
  <1>2. /\ seen # {} \/ \E d \in Discovered : found[d].st = "fresh"
        /\ recording'.row = seen /\ UNCHANGED <<found, dev, req, parted>>
    BY Zenon, <1>1 DEF P!FoundHost
  <1>3. DOMAIN req' = Requests /\ \A p \in Requests : req'[p] = req[p]
    BY Zenon, <1>2 DEF PromotionInv, PromotionTypes
  <1> QED BY Zenon, <1>2, <1>3, OtherStep

\* A device is deleted when no row names it.
LEMMA DeleteDeviceRowStep ==
  ASSUME PromotionInv, NEW x \in Devices, P!deleteDevice(x)
  PROVE  PromotionInv'
  <1>1. dev' = [dev EXCEPT ![x] = "gone"] /\ UNCHANGED <<found, req, recording, parted>>
    BY Zenon DEF P!deleteDevice, P!DeleteDevice
  <1>2. PromotionTypes' /\ HostHasRoom'
    BY Zenon, <1>1 DEF PromotionInv, PromotionTypes, HostHasRoom
  <1>3. \A y \in Devices : dev'[y] = "live" => dev[y] = "live"
    BY Zenon, <1>1 DEF PromotionInv, PromotionTypes
  <1>4. \A e \in P!Rows : \A y \in found[e].to : found'[e].st = "live" /\ y \in found'[e].to
    BY Zenon, <1>1 DEF P!Rows
  <1>5. PromotedAreNamed'
    BY Zenon, <1>1, <1>3, <1>4, NamesKept
  <1> QED BY Zenon, <1>2, <1>5 DEF PromotionInv

\* Every step of a request, of a scan, of the scheduler and of time keeps the names.
LEMMA PromotionStep == PromotionInv /\ [P!Next]_(P!vars) => PromotionInv'
  <1> SUFFICES ASSUME PromotionInv, [P!Next]_(P!vars) PROVE PromotionInv'
    OBVIOUS
  <1>1. ASSUME UNCHANGED <<found, dev, req, recording, parted>> PROVE PromotionInv'
    BY Zenon, <1>1, OtherStep DEF PromotionInv, PromotionTypes
  <1>2. CASE UNCHANGED P!vars
    BY Zenon, <1>1, <1>2 DEF P!vars
  <1>3. ASSUME NEW d \in Discovered, P!promoteDevice(d) \/ P!deleteDiscoveredDevice(d) PROVE PromotionInv'
    <2>1. CASE P!promoteDevice(d)
      BY Zenon, <2>1, ArriveStep DEF P!promoteDevice, P!DiscoveryPromoteDevice
    <2>2. CASE P!deleteDiscoveredDevice(d)
      BY Zenon, <2>2, DeleteRowsStep DEF P!deleteDiscoveredDevice, P!DeleteDiscoveredDevice
    <2> QED BY Zenon, <1>3, <2>1, <2>2
  <1>4. CASE P!deleteDiscoveredDevicesByNetwork
    <2>1. PICK N : P!DeleteDiscoveredDevicesByNetwork(N)
      BY Zenon, <1>4 DEF P!deleteDiscoveredDevicesByNetwork, P!DiscoveryDeleteDevicesByNetwork
    <2>2. PICK D : D = {d \in P!Rows : found[d].net \in N}
      OBVIOUS
    <2>3. D \subseteq P!Rows /\ P!DeleteDiscoveredRows(D)
      BY Zenon, <2>1, <2>2 DEF P!DeleteDiscoveredDevicesByNetwork
    <2> QED BY Zenon, <1>4, <2>3, DeleteRowsStep DEF P!deleteDiscoveredDevicesByNetwork
  <1>5. ASSUME NEW n \in Networks,
               P!deleteNetwork(n) \/ P!startScan(n) \/ P!deleteDiscoveryScan(n) \/ P!EndScan(n)
        PROVE  PromotionInv'
    BY Zenon, <1>1, <1>5 DEF P!deleteNetwork, P!startScan, P!deleteDiscoveryScan, P!EndScan
  <1>6. ASSUME NEW n \in Networks, NEW on \in BOOLEAN, P!createDiscoveryRule(n, on) PROVE PromotionInv'
    BY Zenon, <1>1, <1>6 DEF P!createDiscoveryRule
  <1>7. ASSUME NEW p \in Requests, NEW on \in BOOLEAN, P!UpdateRule(p, on) PROVE PromotionInv'
    <2>1. req[p].pc # "link" /\ P!Go(p, P!Idle) /\ UNCHANGED <<found, dev, recording, parted>>
      BY Zenon, <1>7 DEF P!UpdateRule
    <2> QED BY Zenon, <2>1, GoStep
  <1>8. ASSUME NEW u \in Rules, P!updateDiscoveryRule(u) \/ P!deleteDiscoveryRule(u) PROVE PromotionInv'
    <2>1. CASE P!updateDiscoveryRule(u)
      <3>1. PICK r : r = [pc |-> "rule", rule |-> u, net |-> rule[u].net]
        OBVIOUS
      <3>2. P!Arrives(r) /\ UNCHANGED <<found, dev, recording, parted>>
        BY Zenon, <2>1, <3>1 DEF P!updateDiscoveryRule
      <3> QED BY Zenon, <3>2, ArriveStep
    <2>2. CASE P!deleteDiscoveryRule(u)
      BY Zenon, <1>1, <2>2 DEF P!deleteDiscoveryRule
    <2> QED BY Zenon, <1>8, <2>1, <2>2
  <1>9. CASE P!runScheduledScans
    <2>1. CASE P!ListRules
      BY Zenon, <1>1, <2>1 DEF P!ListRules
    <2>2. CASE P!EndPass
      BY Zenon, <2>2, CleanupStep DEF P!EndPass
    <2>3. ASSUME NEW n \in Networks, P!ScanRule(n) PROVE PromotionInv'
      BY Zenon, <1>1, <2>3 DEF P!ScanRule
    <2> QED BY Zenon, <1>9, <2>1, <2>2, <2>3 DEF P!runScheduledScans
  <1> QED BY <1>2, <1>3, <1>4, <1>5, <1>6, <1>7, <1>8, <1>9, CreatePromotedStep, LinkPromotedStep,
             DeleteDeviceRowStep, FoundHostStep, SaveHostStep, GrowStep, CrashStep
          DEF P!Next, P!Requested

\* In the beginning no device was made.
LEMMA PromotionStart == P!Init => PromotionInv
  <1> SUFFICES ASSUME P!Init PROVE PromotionInv
    OBVIOUS
  <1>1. PromotionTypes
    BY Zenon DEF P!Init, PromotionTypes, P!NewRow, DiscoveredColumns
  <1>2. HostHasRoom /\ PromotedAreNamed
    BY Zenon DEF P!Init, HostHasRoom, P!Idle, PromotedAreNamed, P!PromotedAreNamed
  <1> QED BY Zenon, <1>1, <1>2 DEF PromotionInv

\* A device made by a promotion is named by its discovered row, unless a request
\* deleted or re-linked the row or a crash came before the link: a scan that
\* looked the host up before and writes it after, and the clean-up, keep it.
THEOREM PromotionsKeepTheirNames == P!Spec => []PromotedAreNamed
  <1>1. PromotionInv => PromotedAreNamed
    BY DEF PromotionInv
  <1> QED BY <1>1, PromotionStart, PromotionStep, PTL DEF P!Spec
=============================================================================
