------------------------------- MODULE Scans --------------------------------
(***************************************************************************)
(* Discovery scans of one network: the goroutine of a scan, the goroutines *)
(* it starts for hosts, CancelScan, and the rows of discovery_scans and    *)
(* discovered_devices.                                                     *)
(*                                                                         *)
(* A scan lives twice: as an object in memory that its goroutine, its      *)
(* hosts and CancelScan share by pointer, and as a row that each of them   *)
(* overwrites with what it sees.  A statement made with the context of the *)
(* scan does nothing once the context is cancelled.                        *)
(***************************************************************************)
EXTENDS Integers, FiniteSets

CONSTANTS Scans, Cancels,   \* scan identifiers; requests to cancel
          NHosts,           \* addresses of the subnet
          Workers           \* size of the semaphore

ASSUME ScansAssumption == Scans # {} /\ NHosts \in Nat /\ Workers \in Nat \ {0}

VARIABLES row,      \* rows of discovery_scans
          mem,      \* the shared objects
          scans,    \* UnifiedScanner.scans
          cancelFuncs,
          done,     \* scans whose context is cancelled
          main,     \* main[s]: where the goroutine of s is
          next,     \* next[s]: the next host of its loop
          host,     \* host[s][h]: where the goroutine of host h is
          copy,     \* copy[s][h]: its scanCopy
          foundCount,
          dd,       \* discovered_devices: <<s, h>> is the row of h that s created
          call,     \* call[c]: where a CancelScan is, and of which scan
          answered, \* history: scans whose CancelScan returned nil
          met       \* history: {s, t} for scans that ran at the same time

vars == <<row, mem, scans, cancelFuncs, done, main, next, host, copy, foundCount, dd, call,
          answered, met>>

Hosts == 1 .. NHosts
Terminal == {"completed", "failed"}
Status == {"pending", "running"} \cup Terminal
NewView == [st |-> "pending", found |-> 0]
InFlight == {"probe", "lookup", "create", "count", "report", "write"}
Ended == {"none", "end"}

Init ==
  /\ row = [s \in Scans |-> [NewView EXCEPT !.st = "fresh"]]
  /\ mem = [s \in Scans |-> NewView]
  /\ scans = {} /\ cancelFuncs = {} /\ done = {}
  /\ main = [s \in Scans |-> "none"]
  /\ next = [s \in Scans |-> 1]
  /\ host = [s \in Scans |-> [h \in Hosts |-> "idle"]]
  /\ copy = [s \in Scans |-> [h \in Hosts |-> NewView]]
  /\ foundCount = [s \in Scans |-> 0]
  /\ dd = {}
  /\ call = [c \in Cancels |-> [pc |-> "idle", scan |-> CHOOSE s \in Scans : TRUE]]
  /\ answered = {} /\ met = {}
-----------------------------------------------------------------------------
Busy(s) == {h \in Hosts : host[s][h] \in InFlight}
Active(s) == main[s] \notin Ended
RowExists(s) == row[s].st \in Status

Go(s, pc) == main' = [main EXCEPT ![s] = pc]
HostGo(s, h, pc) == host' = [host EXCEPT ![s][h] = pc]
SetStatus(s, st) == mem' = [mem EXCEPT ![s].st = st]

\* Mutant: a statement is not stopped by the cancelled context.
SaveAnyway(s, view) == row' = [row EXCEPT ![s] = IF RowExists(s) THEN view ELSE @]

\* UpdateDiscoveryScan(ctx, scan) with the context of the scan.
UpdateDiscoveryScan(s, view) ==
  row' = [row EXCEPT ![s] = IF RowExists(s) /\ s \notin done THEN view ELSE @]
-----------------------------------------------------------------------------
(* The goroutine of a scan *)

\* ScanWithOptions inserts the row ...
Scan(s) ==
  /\ row[s].st = "fresh"
  /\ row' = [row EXCEPT ![s] = NewView]
  /\ Go(s, "register")
  /\ met' = met \cup {{s, t} : t \in {u \in Scans : Active(u)}}
  /\ UNCHANGED <<mem, scans, cancelFuncs, done, next, host, copy, foundCount, dd, call, answered>>

\* ... then registers the object and starts the goroutine.
Register(s) ==
  /\ main[s] = "register"
  /\ scans' = scans \cup {s}
  /\ cancelFuncs' = cancelFuncs \cup {s}
  /\ Go(s, "begin")
  /\ UNCHANGED <<row, mem, done, next, host, copy, foundCount, dd, call, answered, met>>

Begin(s) ==
  /\ main[s] = "begin"
  /\ SetStatus(s, "running")
  /\ Go(s, "started")
  /\ UNCHANGED <<row, scans, cancelFuncs, done, next, host, copy, foundCount, dd, call, answered, met>>

SaveStarted(s) ==
  /\ main[s] = "started"
  /\ UpdateDiscoveryScan(s, mem[s])
  /\ Go(s, "loop")
  /\ UNCHANGED <<mem, scans, cancelFuncs, done, next, host, copy, foundCount, dd, call, answered, met>>

\* The head of the loop over the hosts.  A cancelled scan returns at once:
\* it waits for no host, and its own update of the row is refused.
LoopHead(s) ==
  /\ main[s] = "loop"
  /\ \/ next[s] > NHosts /\ Go(s, "wait") /\ UNCHANGED mem
     \/ next[s] <= NHosts /\ s \in done /\ SetStatus(s, "failed") /\ Go(s, "end")
     \/ next[s] <= NHosts /\ s \notin done /\ Go(s, "acquire") /\ UNCHANGED mem
  /\ UNCHANGED <<row, scans, cancelFuncs, done, next, host, copy, foundCount, dd, call, answered, met>>

Spawn(s) ==
  /\ main[s] = "acquire"
  /\ Cardinality(Busy(s)) < Workers
  /\ HostGo(s, next[s], "probe")
  /\ next' = [next EXCEPT ![s] = @ + 1]
  /\ Go(s, "loop")
  /\ UNCHANGED <<row, mem, scans, cancelFuncs, done, copy, foundCount, dd, call, answered, met>>

Wait(s) ==
  /\ main[s] = "wait"
  /\ Busy(s) = {}
  /\ SetStatus(s, "completed")
  /\ Go(s, "completed")
  /\ UNCHANGED <<row, scans, cancelFuncs, done, next, host, copy, foundCount, dd, call, answered, met>>

SaveCompleted(s) ==
  /\ main[s] = "completed"
  /\ UpdateDiscoveryScan(s, mem[s])
  /\ Go(s, "cleanup")
  /\ UNCHANGED <<mem, scans, cancelFuncs, done, next, host, copy, foundCount, dd, call, answered, met>>

\* cleanupCompletedScans drops other scans that ended long enough ago.
Cleanup(s) ==
  /\ main[s] = "cleanup"
  /\ \E D \in SUBSET {t \in scans \ {s} : mem[t].st \in Terminal} : scans' = scans \ D
  /\ Go(s, "end")
  /\ UNCHANGED <<row, mem, cancelFuncs, done, next, host, copy, foundCount, dd, call, answered, met>>
-----------------------------------------------------------------------------
(* The goroutine of a host *)

scanOthers == <<scans, cancelFuncs, done, main, next, call, answered, met>>

\* Mutant: a host given up because of the cancellation never reports.
ProbeGivesUp(s, h) ==
  /\ host[s][h] = "probe"
  /\ s \notin done
  /\ HostGo(s, h, "report")
  /\ UNCHANGED <<row, mem, copy, foundCount, dd, scanOthers>>

\* discoverHostWithOptions: nothing when the scan is cancelled, else a
\* device if a port is open.
Probe(s, h) ==
  /\ host[s][h] = "probe"
  /\ \/ HostGo(s, h, "report")
     \/ s \notin done /\ HostGo(s, h, "lookup")
  /\ UNCHANGED <<row, mem, copy, foundCount, dd, scanOthers>>

\* A device that has a row is updated; the error of a lookup is dropped.
Lookup(s, h) ==
  /\ host[s][h] = "lookup"
  /\ HostGo(s, h, IF s \notin done /\ \E t \in Scans : <<t, h>> \in dd THEN "count" ELSE "create")
  /\ UNCHANGED <<row, mem, copy, foundCount, dd, scanOthers>>

\* Mutant: the insert is not stopped by the cancelled context.
CreateAnyway(s, h) ==
  /\ host[s][h] = "create"
  /\ dd' = dd \cup {<<s, h>>}
  /\ HostGo(s, h, "count")
  /\ UNCHANGED <<row, mem, copy, foundCount, scanOthers>>

CreateDiscoveredDevice(s, h) ==
  /\ host[s][h] = "create"
  /\ dd' = IF s \in done THEN dd ELSE dd \cup {<<s, h>>}
  /\ HostGo(s, h, "count")
  /\ UNCHANGED <<row, mem, copy, foundCount, scanOthers>>

Count(s, h) ==
  /\ host[s][h] = "count"
  /\ foundCount' = [foundCount EXCEPT ![s] = @ + 1]
  /\ HostGo(s, h, "report")
  /\ UNCHANGED <<row, mem, copy, dd, scanOthers>>

\* Mutant: the count does not reach the shared object.
ReportStale(s, h) ==
  /\ host[s][h] = "report"
  /\ copy' = [copy EXCEPT ![s][h] = mem[s]]
  /\ HostGo(s, h, "write")
  /\ UNCHANGED <<row, mem, foundCount, dd, scanOthers>>

Report(s, h) ==
  /\ host[s][h] = "report"
  /\ mem' = [mem EXCEPT ![s].found = foundCount[s]]
  /\ copy' = [copy EXCEPT ![s][h] = mem'[s]]
  /\ HostGo(s, h, "write")
  /\ UNCHANGED <<row, foundCount, dd, scanOthers>>

Write(s, h) ==
  /\ host[s][h] = "write"
  /\ UpdateDiscoveryScan(s, copy[s][h])
  /\ HostGo(s, h, "end")
  /\ UNCHANGED <<mem, copy, foundCount, dd, scanOthers>>
-----------------------------------------------------------------------------
(* CancelScan, with the context of its own request *)

runOthers == <<scans, main, next, host, copy, foundCount, dd, met>>

Mark(c, s) ==
  /\ call[c].pc = "idle"
  /\ s \in scans /\ s \in cancelFuncs
  /\ mem[s].st \in {"pending", "running"}
  /\ SetStatus(s, "failed")
  /\ call' = [call EXCEPT ![c] = [pc |-> "cancel", scan |-> s]]
  /\ UNCHANGED <<row, cancelFuncs, done, answered, runOthers>>

Fire(c) ==
  /\ call[c].pc = "cancel"
  /\ done' = done \cup {call[c].scan}
  /\ call' = [call EXCEPT ![c].pc = "forget"]
  /\ UNCHANGED <<row, mem, cancelFuncs, answered, runOthers>>

Forget(c) ==
  /\ call[c].pc = "forget"
  /\ cancelFuncs' = cancelFuncs \ {call[c].scan}
  /\ call' = [call EXCEPT ![c].pc = "save"]
  /\ UNCHANGED <<row, mem, done, answered, runOthers>>

SaveCancelled(c) ==
  LET s == call[c].scan IN
  /\ call[c].pc = "save"
  /\ row' = [row EXCEPT ![s] = IF RowExists(s) THEN mem[s] ELSE @]
  /\ answered' = answered \cup {s}
  /\ call' = [call EXCEPT ![c].pc = "idle"]
  /\ UNCHANGED <<mem, cancelFuncs, done, runOthers>>
-----------------------------------------------------------------------------
memory == <<mem, scans, cancelFuncs, done, main, next, host, copy, foundCount, call, answered, met>>

DeleteScan(s) ==
  /\ RowExists(s)
  /\ row' = [row EXCEPT ![s].st = "gone"]
  /\ UNCHANGED <<memory, dd>>

\* DeleteDevice, DeleteDevicesByNetwork and CleanupOldDiscoveries.
DeleteDiscovered ==
  /\ \E D \in SUBSET dd : D # {} /\ dd' = dd \ D
  /\ UNCHANGED <<memory, row>>

\* The server stops and starts again: what is in memory is lost.
Crash ==
  /\ \E s \in Scans : Active(s)
  /\ scans' = {} /\ cancelFuncs' = {}
  /\ main' = [s \in Scans |-> IF main[s] = "none" THEN "none" ELSE "end"]
  /\ host' = [s \in Scans |-> [h \in Hosts |-> "idle"]]
  /\ call' = [c \in Cancels |-> [call[c] EXCEPT !.pc = "idle"]]
  /\ done' = done \cup {s \in Scans : main[s] # "none"}
  /\ UNCHANGED <<row, mem, next, copy, foundCount, dd, answered, met>>

MainStep(s) ==
  \/ Register(s) \/ Begin(s) \/ SaveStarted(s) \/ LoopHead(s) \/ Spawn(s) \/ Wait(s)
  \/ SaveCompleted(s) \/ Cleanup(s)
HostStep(s, h) ==
  \/ Probe(s, h) \/ Lookup(s, h) \/ CreateDiscoveredDevice(s, h) \/ Count(s, h)
  \/ Report(s, h) \/ Write(s, h)
CancelStep(c) == Fire(c) \/ Forget(c) \/ SaveCancelled(c)

Work ==
  \/ \E s \in Scans : Scan(s) \/ MainStep(s)
  \/ \E s \in Scans, h \in Hosts : HostStep(s, h)
  \/ \E c \in Cancels : CancelStep(c) \/ \E s \in Scans : Mark(c, s)

Next ==
  \/ Work
  \/ \E s \in Scans : DeleteScan(s)
  \/ DeleteDiscovered
  \/ Crash

Fairness ==
  /\ \A s \in Scans : WF_vars(MainStep(s)) /\ \A h \in Hosts : WF_vars(HostStep(s, h))
  /\ \A c \in Cancels : WF_vars(CancelStep(c))

Spec == Init /\ [][Next]_vars
FairSpec == Init /\ [][Next]_vars /\ Fairness
-----------------------------------------------------------------------------
(* Properties *)

\* Once CancelScan has answered, or the goroutine has ended, a row that says
\* the scan is over never says again that it runs, although hosts are left
\* that hold copies they took while it ran.  (Between the mark and the
\* cancellation it may: an older copy is written after a newer one.)
OverIsOver ==
  [][\A s \in Scans :
       (s \in answered \/ main[s] = "end") /\ row[s].st \in Terminal =>
         row'[s].st \in Terminal \cup {"gone"}]_vars

\* A scan that ended by itself is recorded as completed, with the number of
\* hosts that were found, whatever order the hosts reported in.
FoundIsExact ==
  \A s \in Scans :
    main[s] = "end" /\ s \notin done /\ RowExists(s) =>
      row[s].st = "completed" /\ row[s].found = foundCount[s]

\* Scans that follow each other never leave two rows for a host, not even
\* when the first was cancelled and left hosts behind: it takes two scans of
\* the network that run at the same time.
NoDuplicateWithoutOverlap ==
  \A x, y \in dd : x[2] = y[2] /\ x[1] # y[1] => {x[1], y[1]} \in met

\* The goroutine of a scan ends: neither the semaphore nor the wait for the
\* hosts blocks for ever, cancelled or not.
ScanEnds == \A s \in Scans : Active(s) ~> ~Active(s)
=============================================================================
