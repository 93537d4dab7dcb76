----------------------------- MODULE AuditQueue -----------------------------
(***************************************************************************)
(* The audit log: a storage operation commits its change and then offers   *)
(* an entry to a channel of fixed size, without waiting; one goroutine     *)
(* takes the entries out and inserts them.  A change that has no audit     *)
(* context (SystemContext apart, every service call has one) offers none.  *)
(***************************************************************************)
EXTENDS Integers, Sequences

CONSTANTS Writers, Changes,
          Capacity,     \* of auditChan
          MaxStops

VARIABLES at,        \* at[w]: the change w has committed and not yet logged
          committed, \* changes in the database
          auditChan, hand,
          logged,    \* rows of audit_logs, in the order of their inserts
          dropped,   \* history: entries that met a full channel
          cut,       \* history: entries that a stop of the server lost
          failed,    \* history: entries whose insert failed
          stops

vars == <<at, committed, auditChan, hand, logged, dropped, cut, failed, stops>>

Range(s) == {s[i] : i \in DOMAIN s}

Init ==
  /\ at = [w \in Writers |-> {}]
  /\ committed = {} /\ auditChan = <<>> /\ hand = {}
  /\ logged = <<>> /\ dropped = {} /\ cut = {} /\ failed = {} /\ stops = 0

\* A change of the storage commits ...
Commit(w, x) ==
  /\ at[w] = {} /\ x \notin committed
  /\ committed' = committed \cup {x}
  /\ at' = [at EXCEPT ![w] = {x}]
  /\ UNCHANGED <<auditChan, hand, logged, dropped, cut, failed, stops>>

\* Mutant: the last place of the channel is never used.
RoomLess == Len(auditChan) < Capacity - 1

Room == Len(auditChan) < Capacity

\* ... then offers its entry: select with a default.
auditLog(w) ==
  /\ at[w] # {}
  /\ LET x == CHOOSE y \in at[w] : TRUE IN
     IF Room
     THEN auditChan' = Append(auditChan, x) /\ UNCHANGED dropped
     ELSE dropped' = dropped \cup {<<x, Len(auditChan)>>} /\ UNCHANGED auditChan
  /\ at' = [at EXCEPT ![w] = {}]
  /\ UNCHANGED <<committed, hand, logged, cut, failed, stops>>

auditWorker ==
  /\ hand = {} /\ auditChan # <<>>
  /\ hand' = {Head(auditChan)}
  /\ auditChan' = Tail(auditChan)
  /\ UNCHANGED <<at, committed, logged, dropped, cut, failed, stops>>

\* The insert, or an error that is written to the server's own log.
CreateAuditLog ==
  /\ hand # {}
  /\ \/ logged' = Append(logged, CHOOSE x \in hand : TRUE) /\ UNCHANGED failed
     \/ failed' = failed \cup hand /\ UNCHANGED logged
  /\ hand' = {}
  /\ UNCHANGED <<at, committed, auditChan, dropped, cut, stops>>

\* The process ends: nobody waits for the channel to drain.
Stop ==
  /\ stops < MaxStops /\ stops' = stops + 1
  /\ cut' = cut \cup Range(auditChan) \cup hand \cup UNION Range(at)
  /\ auditChan' = <<>> /\ hand' = {} /\ at' = [w \in Writers |-> {}]
  /\ UNCHANGED <<committed, logged, dropped, failed>>

Worker == auditWorker \/ CreateAuditLog

Next ==
  \/ \E w \in Writers : auditLog(w) \/ \E x \in Changes : Commit(w, x)
  \/ Worker
  \/ Stop

Spec == Init /\ [][Next]_vars

-----------------------------------------------------------------------------
(* Properties *)

\* A committed change is in the log or on its way there, unless the channel
\* was full to its capacity when the entry was offered, its insert failed or
\* the server stopped; nothing is logged twice, or that did not commit.
ChangesAreLogged ==
  /\ committed = Range(logged) \cup Range(auditChan) \cup hand \cup (UNION Range(at))
                   \cup {d[1] : d \in dropped} \cup cut \cup failed
  /\ \A d \in dropped : d[2] = Capacity
  /\ \A i, j \in DOMAIN logged : logged[i] = logged[j] => i = j

=============================================================================
