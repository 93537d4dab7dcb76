---------------------------- MODULE ServerProofs -----------------------------
(***************************************************************************)
(* Proofs about the parts of the server that run beside the requests: how  *)
(* it stops (Lifecycle), what it sends (Webhooks), what it logs            *)
(* (AuditQueue), what it runs on a schedule (Schedules) and what it keeps  *)
(* encrypted (Credentials).                                                *)
(*                                                                         *)
(* Each part has variables and a specification of its own, and each        *)
(* theorem is about one of them.                                           *)
(***************************************************************************)
EXTENDS Server, Setup, Integers, Sequences, TLAPS

-----------------------------------------------------------------------------
(* How the server stops.                                                       *)

\* Each stage of the stop has brought to an end what it waited for, and nothing
\* starts it again.
Stopped ==
    /\ loop \in [L!Loops -> {"select", "pass", "done"}]
    /\ job \in [Jobs -> {"idle", "runs"}]
    /\ req \in [Calls -> {"none", "runs", "left", "done"}]
    /\ signal \in {"cron", "requests", "sent"} => loop["scheduler"] = "done" /\ ~cron
    /\ signal \in {"requests", "sent"} => ~listening /\ \A j \in Jobs : job[j] = "idle"
    /\ signal = "sent" /\ ~late => \A p \in Calls : req[p] # "runs"
    /\ main \in {"stops", "exited"} => signal = "sent"
    /\ main = "exited" => loop["dns"] = "done"

\* Each step of the server keeps it.
LEMMA StoppedKept == Stopped /\ [L!Next]_(L!vars) => Stopped'
  <1> SUFFICES ASSUME Stopped, [L!Next]_(L!vars) PROVE Stopped'
    OBVIOUS
  <1>l. L!Loops = {"scheduler", "dns"}
    BY Zenon DEF L!Loops, L!Scheduler, L!DNS
  <1>1. CASE UNCHANGED L!vars
    BY Zenon, <1>1 DEF Stopped, L!vars
  <1>2. ASSUME NEW l \in L!Loops, L!TickLoop(l) \/ L!EndPass(l) \/ L!ContextDone(l) PROVE Stopped'
    BY <1>2, <1>l DEF Stopped, L!TickLoop, L!EndPass, L!ContextDone, L!others, L!Exited
  <1>3. ASSUME NEW j \in Jobs, L!FireJob(j) \/ L!EndJob(j) PROVE Stopped'
    BY <1>3 DEF Stopped, L!FireJob, L!EndJob
  <1>4. ASSUME NEW p \in Calls, L!BeginRequest(p) \/ L!TimeoutRequest(p) \/ L!EndRequest(p)
        PROVE  Stopped'
    BY <1>4 DEF Stopped, L!BeginRequest, L!TimeoutRequest, L!EndRequest
  <1>5. CASE L!Signal \/ L!StopScheduledWorker
    BY Zenon, <1>5 DEF Stopped, L!Signal, L!StopScheduledWorker, L!StopCron, L!Waited, L!Scheduler, L!Exited
  <1>6. CASE L!Shutdown
    BY Zenon, <1>6 DEF Stopped, L!Shutdown, L!CronDone, L!Exited
  <1>8. CASE L!ShutdownEnds
    <2>1. ~late' => \A p \in Calls : req'[p] # "runs"
      BY Zenon, <1>8 DEF L!ShutdownEnds
    <2> QED BY Zenon, <1>8, <2>1 DEF Stopped, L!ShutdownEnds, L!Exited
  <1>7. CASE L!Receive \/ L!ListenFails \/ L!Exit
    BY <1>7 DEF Stopped, L!Receive, L!ListenFails, L!Exit, L!Waited, L!DNS
  <1> QED BY Zenon, <1>1, <1>2, <1>3, <1>4, <1>5, <1>6, <1>7, <1>8 DEF L!Next, L!Stopping

\* When the process ends after a signal, with any number of cron jobs and of
\* requests in flight, no pass of a worker and no job is cut off, and a request
\* only if server.Shutdown ran out of its 30 seconds.
THEOREM StopsInOrder == L!Spec => []NothingIsCutOff
  <1>1. L!Init => Stopped
    BY Zenon DEF L!Init, Stopped
  <1>2. Stopped => NothingIsCutOff
    BY DEF Stopped, NothingIsCutOff, L!NothingIsCutOff, L!Loops, L!Scheduler, L!DNS
  <1> QED BY <1>1, <1>2, StoppedKept, PTL DEF L!Spec

-----------------------------------------------------------------------------
(* What the webhooks send.                                                     *)

DeliveryRow == [st : {"none", "live", "gone"}, n : Nat,
                status : {"none", "success", "retrying", "failed", "abandoned"},
                next : {"none", "later", "due"}]
Outcomes == {"ok", "error"}
InHand(d) == batch.pc \in {"send"} \cup Outcomes /\ batch.id = d

DeliveriesType ==
    /\ row \in [W!Ids -> DeliveryRow]
    /\ event \in [Events -> [pc : {"new", "published", "deliver", "lost"}, left : SUBSET Hooks]]
    /\ flight \in [W!Ids -> {"none", "send"} \cup Outcomes]
    /\ batch \in [pc : {"idle", "next", "send"} \cup Outcomes, left : SUBSET (W!Ids \X Nat),
                  id : W!Ids \cup {<<>>}, n : Nat]
    /\ batch.pc \in {"send"} \cup Outcomes => batch.id \in W!Ids
    /\ sent \in [W!Ids -> Nat] /\ crashes \in Nat

\* Before its first attempt a delivery has left no trace; after it the attempts
\* are counted in the row.
First(d) ==
    /\ event[d[2]].pc \in {"new", "published"} \/ d[1] \in event[d[2]].left =>
         sent[d] = 0 /\ flight[d] = "none" /\ row[d].st = "none"
    /\ flight[d] = "send" => sent[d] = 0 /\ row[d].st = "none"
    /\ flight[d] \in Outcomes => sent[d] = 1 /\ row[d].st = "none"
    /\ row[d].next # "none" => row[d].st = "live" /\ row[d].n < W!MostAttempts
    /\ row[d].st = "live" /\ ~InHand(d) => sent[d] <= row[d].n + crashes
    /\ sent[d] <= W!MostAttempts + crashes

\* A copy in the batch has the count of its row, while there is one, and the
\* delivery in hand is one attempt ahead of it.
Copies(d) ==
    /\ \A n \in Nat : <<d, n>> \in batch.left =>
         /\ row[d].st # "none" /\ n < W!MostAttempts /\ sent[d] <= n + crashes
         /\ row[d].st = "live" => row[d].n = n
         /\ ~InHand(d) /\ \A m \in Nat : <<d, m>> \in batch.left => m = n
    /\ InHand(d) =>
         /\ row[d].st # "none" /\ batch.n <= W!MostAttempts
         /\ row[d].st = "live" => row[d].n + 1 = batch.n
         /\ sent[d] <= (IF batch.pc = "send" THEN batch.n - 1 ELSE batch.n) + crashes

Deliveries == DeliveriesType /\ \A d \in W!Ids : First(d) /\ Copies(d)

\* The bound is at least one, and leaves room for one retry where one is configured.
LEMMA RoomForRetry ==
  ASSUME MaxRetries \in Nat
  PROVE  /\ W!MostAttempts \in Nat /\ W!MostAttempts >= 1
         /\ MaxRetries > 0 => W!MostAttempts >= 2
         /\ \A n \in Nat : n < MaxRetries => n < W!MostAttempts
  BY DEF W!MostAttempts

\* Rows that are removed: the copies in a batch outlive them.
LEMMA RowsGo ==
  ASSUME Deliveries, NEW G,
         row' = [d \in W!Ids |-> IF d \in W!Rows /\ d \in G THEN [W!NoRow EXCEPT !.st = "gone"] ELSE row[d]],
         UNCHANGED <<event, flight, batch, sent, crashes>>
  PROVE  Deliveries'
  <1>1. [W!NoRow EXCEPT !.st = "gone"] = [st |-> "gone", status |-> "none", n |-> 0, next |-> "none"]
    BY DEF W!NoRow
  <1>2. DeliveriesType'
    BY <1>1 DEF Deliveries, DeliveriesType, DeliveryRow
  <1>3. ASSUME NEW d \in W!Ids PROVE First(d)' /\ Copies(d)'
    <2>1. row'[d] = row[d] \/ (row'[d].st = "gone" /\ row'[d].next = "none" /\ row[d].st = "live")
      BY Zenon, <1>1 DEF W!Rows
    <2>2. First(d)'
      BY Zenon, <2>1 DEF Deliveries, First, InHand
    <2>3. Copies(d)'
      BY Zenon, <2>1 DEF Deliveries, Copies, InHand
    <2> QED BY Zenon, <2>2, <2>3
  <1> QED BY Zenon, <1>2, <1>3 DEF Deliveries

\* Requests for subscriptions touch no delivery; removing one ends its rows.
LEMMA SubscriptionsKeep ==
  ASSUME Deliveries, W!Requests
  PROVE  Deliveries'
  <1>1. CASE UNCHANGED <<row, event, flight, batch, sent, crashes>>
    BY <1>1 DEF Deliveries, DeliveriesType, First, Copies, InHand
  <1>2. ASSUME NEW w \in Hooks, W!deleteWebhook(w) PROVE Deliveries'
    <2>1. /\ row' = [d \in W!Ids |-> IF d \in W!Rows /\ d[1] = w THEN [W!NoRow EXCEPT !.st = "gone"] ELSE row[d]]
          /\ UNCHANGED <<event, flight, batch, sent, crashes>>
      BY Zenon, <1>2 DEF W!deleteWebhook, W!WebhookDelete, W!DeleteWebhook
    <2>2. row' = [d \in W!Ids |-> IF d \in W!Rows /\ d \in {x \in W!Ids : x[1] = w}
                                  THEN [W!NoRow EXCEPT !.st = "gone"] ELSE row[d]]
      BY Zenon, <2>1
    <2> QED BY Zenon, <2>1, <2>2, RowsGo
  <1> QED BY Zenon, <1>1, <1>2 DEF W!Requests, W!handleWebhookSave, W!createWebhook, W!updateWebhook, W!UpdateWebhook

\* Publishing an event and finding its subscribers: nothing was sent for it yet.
LEMMA EventsKeep ==
  ASSUME Deliveries, NEW e \in Events, W!Publish(e) \/ W!handleEvent(e)
  PROVE  Deliveries'
  <1>1. /\ event[e].pc \in {"new", "published"} /\ UNCHANGED <<row, flight, batch, sent, crashes>>
        /\ event' \in [Events -> [pc : {"new", "published", "deliver", "lost"}, left : SUBSET Hooks]]
        /\ \A x \in Events \ {e} : event'[x] = event[x]
    <2>1. PICK v \in [pc : {"new", "published", "deliver", "lost"}, left : SUBSET Hooks] :
             event' = [event EXCEPT ![e] = v]
      <3>1. event[e] \in [pc : {"new", "published", "deliver", "lost"}, left : SUBSET Hooks]
        BY Zenon DEF Deliveries, DeliveriesType
      <3>2. CASE W!Publish(e)
        BY Zenon, <3>1, <3>2 DEF W!Publish
      <3>3. CASE W!handleEvent(e)
        BY Zenon, <3>3 DEF W!handleEvent, W!GetWebhooksForEvent
      <3> QED BY Zenon, <3>2, <3>3
    <2>2. event[e].pc \in {"new", "published"} /\ UNCHANGED <<row, flight, batch, sent, crashes>>
      BY Zenon DEF W!Publish, W!handleEvent
    <2> QED BY Zenon, <2>1, <2>2 DEF Deliveries, DeliveriesType
  <1>2. DeliveriesType'
    BY Zenon, <1>1 DEF Deliveries, DeliveriesType
  <1>3. ASSUME NEW d \in W!Ids PROVE First(d)' /\ Copies(d)'
    <2>1. d[2] \in Events /\ (d[2] = e => sent[d] = 0 /\ flight[d] = "none" /\ row[d].st = "none")
      BY Zenon, <1>1 DEF Deliveries, First, W!Ids
    <2>2. First(d)'
      BY Zenon, <1>1, <2>1 DEF Deliveries, First, InHand
    <2>3. Copies(d)'
      BY Zenon, <1>1 DEF Deliveries, Copies, InHand
    <2> QED BY Zenon, <2>2, <2>3
  <1> QED BY Zenon, <1>2, <1>3 DEF Deliveries

\* The goroutine of a first delivery starts.
LEMMA AcquireKeeps ==
  ASSUME Deliveries, NEW e \in Events, W!Acquire(e)
  PROVE  Deliveries'
  <1>1. PICK w \in event[e].left : /\ event' = [event EXCEPT ![e].left = @ \ {w}]
                                   /\ flight' = [flight EXCEPT ![<<w, e>>] = "send"]
    BY Zenon DEF W!Acquire
  <1>2. event[e].pc = "deliver" /\ UNCHANGED <<row, batch, sent, crashes>>
    BY Zenon DEF W!Acquire
  <1>3. w \in Hooks /\ <<w, e>> \in W!Ids
    BY Zenon DEF Deliveries, DeliveriesType, W!Ids
  <1>4. /\ event' \in [Events -> [pc : {"new", "published", "deliver", "lost"}, left : SUBSET Hooks]]
        /\ event'[e].pc = "deliver" /\ event'[e].left = event[e].left \ {w}
        /\ \A x \in Events \ {e} : event'[x] = event[x]
    BY Zenon, <1>1, <1>2 DEF Deliveries, DeliveriesType
  <1>5. /\ flight' \in [W!Ids -> {"none", "send"} \cup Outcomes] /\ flight'[<<w, e>>] = "send"
        /\ \A d \in W!Ids \ {<<w, e>>} : flight'[d] = flight[d]
    BY Zenon, <1>1, <1>3 DEF Deliveries, DeliveriesType
  <1>6. DeliveriesType'
    BY Zenon, <1>2, <1>4, <1>5 DEF Deliveries, DeliveriesType
  <1>7. ASSUME NEW d \in W!Ids PROVE First(d)' /\ Copies(d)'
    <2>1. CASE d = <<w, e>>
      <3>1. sent[d] = 0 /\ flight[d] = "none" /\ row[d].st = "none"
        BY Zenon, <1>1, <2>1 DEF Deliveries, First
      <3> QED BY Zenon, <1>2, <1>4, <1>5, <2>1, <3>1 DEF Deliveries, First, Copies, InHand, Outcomes
    <2>2. CASE d # <<w, e>>
      <3>1. d[1] \in Hooks /\ d[2] \in Events /\ (d[1] # w \/ d[2] # e)
        BY <2>2 DEF W!Ids
      <3>2. (event'[d[2]].pc \in {"new", "published"} \/ d[1] \in event'[d[2]].left) =>
            (event[d[2]].pc \in {"new", "published"} \/ d[1] \in event[d[2]].left)
        BY Zenon, <1>4, <3>1
      <3>3. First(d)'
        BY Zenon, <1>2, <1>5, <2>2, <3>2 DEF Deliveries, First, InHand
      <3>4. Copies(d)'
        BY Zenon, <1>2 DEF Deliveries, Copies, InHand
      <3> QED BY Zenon, <3>3, <3>4
    <2> QED BY Zenon, <2>1, <2>2
  <1> QED BY Zenon, <1>6, <1>7 DEF Deliveries

\* The first attempt, and the row it leaves if the subscription still exists.
LEMMA FirstAttemptKeeps ==
  ASSUME MaxRetries \in Nat, Deliveries, NEW x \in W!Ids, W!Deliver(x) \/ W!Record(x)
  PROVE  Deliveries'
  <1>1. CASE W!Deliver(x)
    <2>1. PICK o \in Outcomes : flight' = [flight EXCEPT ![x] = o]
      BY Zenon, <1>1 DEF W!Deliver, Outcomes
    <2>2. flight[x] = "send" /\ sent' = [sent EXCEPT ![x] = @ + 1] /\ UNCHANGED <<row, event, batch, crashes>>
      BY Zenon, <1>1 DEF W!Deliver, W!Send
    <2>3. /\ flight' \in [W!Ids -> {"none", "send"} \cup Outcomes] /\ flight'[x] = o
          /\ sent' \in [W!Ids -> Nat] /\ sent'[x] = sent[x] + 1
          /\ \A d \in W!Ids \ {x} : flight'[d] = flight[d] /\ sent'[d] = sent[d]
      BY <2>1, <2>2 DEF Deliveries, DeliveriesType
    <2>4. DeliveriesType'
      BY Zenon, <2>2, <2>3 DEF Deliveries, DeliveriesType
    <2>5. ASSUME NEW d \in W!Ids \ {x} PROVE First(d)' /\ Copies(d)'
      BY Zenon, <2>2, <2>3 DEF Deliveries, First, Copies, InHand
    <2>6. sent[x] = 0 /\ row[x].st = "none" /\ sent'[x] = 1
      BY <2>2, <2>3 DEF Deliveries, First
    <2>7. First(x)'
      BY SMTT(30), <2>2, <2>3, <2>6, RoomForRetry DEF Deliveries, DeliveriesType, First, InHand, Outcomes
    <2>8. Copies(x)'
      BY Zenon, <2>2, <2>6 DEF Deliveries, Copies, InHand
    <2> QED BY Zenon, <2>4, <2>5, <2>7, <2>8 DEF Deliveries
  <1>2. CASE W!Record(x)
    <2>1. /\ flight[x] \in Outcomes /\ flight' = [flight EXCEPT ![x] = "none"]
          /\ row' = IF W!GetWebhook(x[1]) THEN [row EXCEPT ![x] = W!FirstRow(flight[x])] ELSE row
          /\ UNCHANGED <<event, batch, sent, crashes>>
      BY Zenon, <1>2 DEF W!Record, W!CreateDelivery, Outcomes
    <2>2. /\ W!FirstRow(flight[x]) \in DeliveryRow /\ W!FirstRow(flight[x]).n = 1
          /\ W!FirstRow(flight[x]).st = "live"
          /\ W!FirstRow(flight[x]).next # "none" => MaxRetries > 0
      BY Zenon, <2>1 DEF W!FirstRow, DeliveryRow, Outcomes
    <2>3. /\ flight' \in [W!Ids -> {"none", "send"} \cup Outcomes] /\ flight'[x] = "none"
          /\ row' \in [W!Ids -> DeliveryRow]
          /\ row'[x] = row[x] \/ row'[x] = W!FirstRow(flight[x])
          /\ \A d \in W!Ids \ {x} : flight'[d] = flight[d] /\ row'[d] = row[d]
      BY Zenon, <2>1, <2>2 DEF Deliveries, DeliveriesType
    <2>4. DeliveriesType'
      BY Zenon, <2>1, <2>3 DEF Deliveries, DeliveriesType
    <2>5. ASSUME NEW d \in W!Ids \ {x} PROVE First(d)' /\ Copies(d)'
      BY SMTT(30), <2>1, <2>3 DEF Deliveries, First, Copies, InHand
    <2>6. /\ sent[x] = 1 /\ row[x].st = "none" /\ ~InHand(x) /\ \A n \in Nat : <<x, n>> \notin batch.left
          /\ ~(event[x[2]].pc \in {"new", "published"} \/ x[1] \in event[x[2]].left)
      BY Zenon, <2>1 DEF Deliveries, First, Copies, Outcomes
    <2>7. First(x)'
      BY SMTT(30), <2>1, <2>2, <2>3, <2>6, RoomForRetry DEF Deliveries, DeliveriesType, First, InHand, Outcomes
    <2>8. Copies(x)'
      BY Zenon, <2>1, <2>6 DEF Copies, InHand
    <2> QED BY Zenon, <2>4, <2>5, <2>7, <2>8 DEF Deliveries
  <1> QED BY Zenon, <1>1, <1>2

\* The retry time of a row comes.
LEMMA DueKeeps ==
  ASSUME Deliveries, NEW x \in W!Ids, W!Due(x)
  PROVE  Deliveries'
  <1>1. /\ row[x].st = "live" /\ row[x].next = "later" /\ row' = [row EXCEPT ![x].next = "due"]
        /\ UNCHANGED <<event, flight, batch, sent, crashes>>
    BY Zenon DEF W!Due, W!Rows
  <1>2. /\ row' \in [W!Ids -> DeliveryRow]
        /\ \A d \in W!Ids : row'[d].st = row[d].st /\ row'[d].n = row[d].n
        /\ \A d \in W!Ids \ {x} : row'[d] = row[d]
    <2>1. PICK v : v = [row[x] EXCEPT !.next = "due"]
      OBVIOUS
    <2>2. v \in DeliveryRow /\ v.st = row[x].st /\ v.n = row[x].n
      BY ZenonT(30), <2>1 DEF Deliveries, DeliveriesType, DeliveryRow
    <2>3. row' = [row EXCEPT ![x] = v]
      BY Zenon, <1>1, <2>1
    <2> QED BY Zenon, <2>2, <2>3 DEF Deliveries, DeliveriesType
  <1>3. DeliveriesType'
    BY Zenon, <1>1, <1>2 DEF Deliveries, DeliveriesType
  <1>4. ASSUME NEW d \in W!Ids PROVE First(d)' /\ Copies(d)'
    <2>1. row'[d].next # "none" => row[d].next # "none"
      BY Zenon, <1>1, <1>2
    <2>2. First(d)'
      BY Zenon, <1>1, <1>2, <2>1 DEF Deliveries, First, InHand
    <2>3. Copies(d)'
      BY <1>1, <1>2 DEF Deliveries, Copies, InHand
    <2> QED BY Zenon, <2>2, <2>3
  <1> QED BY Zenon, <1>3, <1>4 DEF Deliveries

\* The query for the batch: each copy has the count of its row.
LEMMA QueryKeeps ==
  ASSUME Deliveries, W!processRetries
  PROVE  Deliveries'
  <1> DEFINE left == {<<d, row[d].n>> : d \in W!GetPendingDeliveries}
  <1>1. /\ batch.pc = "idle" /\ batch' = [pc |-> "next", left |-> left, id |-> <<>>, n |-> 0]
        /\ UNCHANGED <<row, event, flight, sent, crashes>>
    BY Zenon DEF W!processRetries, W!NoBatch
  <1>2. \A d \in W!GetPendingDeliveries : d \in W!Ids /\ row[d].st = "live" /\ row[d].next = "due"
    BY Zenon DEF W!GetPendingDeliveries, W!Rows
  <1>3. left \in SUBSET (W!Ids \X Nat)
    BY <1>2 DEF Deliveries, DeliveriesType, DeliveryRow
  <1>4. \A d \in W!Ids, n \in Nat : <<d, n>> \in left =>
           row[d].st = "live" /\ row[d].next = "due" /\ row[d].n = n
    BY Zenon, <1>2
  <1> HIDE DEF left
  <1>5. DeliveriesType'
    BY Zenon, <1>1, <1>3 DEF Deliveries, DeliveriesType, Outcomes
  <1>6. ASSUME NEW d \in W!Ids PROVE First(d)' /\ Copies(d)'
    <2>1. ~InHand(d) /\ ~InHand(d)'
      BY Zenon, <1>1 DEF InHand, Outcomes
    <2>2. First(d)'
      BY Zenon, <1>1, <2>1 DEF Deliveries, First
    <2>3. Copies(d)'
      BY <1>1, <1>4, <2>1 DEF Deliveries, First, Copies
    <2> QED BY Zenon, <2>2, <2>3
  <1> QED BY Zenon, <1>5, <1>6 DEF Deliveries

\* The next copy of the batch: it is sent again, or its row is abandoned.
LEMMA TakeKeeps ==
  ASSUME MaxRetries \in Nat, Deliveries, W!ProcessPendingRetries
  PROVE  Deliveries'
  <1>1. PICK x \in batch.left :
          \/ /\ batch' = [pc |-> "send", left |-> batch.left \ {x}, id |-> x[1], n |-> x[2] + 1]
             /\ UNCHANGED row
          \/ /\ W!UpdateDelivery(x[1], [row[x[1]] EXCEPT !.status = "abandoned"])
             /\ batch' = [batch EXCEPT !.left = batch.left \ {x}]
    BY Zenon DEF W!ProcessPendingRetries
  <1>2. batch.pc = "next" /\ UNCHANGED <<event, flight, sent, crashes>>
    BY Zenon DEF W!ProcessPendingRetries
  <1>x. x[1] \in W!Ids /\ x[2] \in Nat /\ x = <<x[1], x[2]>>
    BY DEF Deliveries, DeliveriesType
  <1>h. \A d \in W!Ids : ~InHand(d)
    BY Zenon, <1>2 DEF InHand, Outcomes
  <1>3. CASE /\ batch' = [pc |-> "send", left |-> batch.left \ {x}, id |-> x[1], n |-> x[2] + 1]
             /\ UNCHANGED row
    <2>1. DeliveriesType'
      BY <1>2, <1>x, <1>3 DEF Deliveries, DeliveriesType
    <2>2. ASSUME NEW d \in W!Ids PROVE First(d)' /\ Copies(d)'
      <3>1. batch'.left = batch.left \ {x} /\ batch'.n = x[2] + 1 /\ batch'.pc = "send"
            /\ (InHand(d)' <=> d = x[1])
        BY Zenon, <1>3 DEF InHand
      <3>2. First(d)'
        <4>1. First(d) /\ (row[d].st = "live" => sent[d] <= row[d].n + crashes)
          BY Zenon, <1>h DEF Deliveries, First
        <4> QED BY Zenon, <1>2, <1>3, <4>1 DEF First
      <3>3. <<d, x[2]>> \in batch.left /\ d = x[1] =>
              /\ row[d].st # "none" /\ x[2] < W!MostAttempts /\ sent[d] <= x[2] + crashes
              /\ row[d].st = "live" => row[d].n = x[2]
              /\ \A m \in Nat : <<d, m>> \in batch.left => m = x[2]
        BY Zenon, <1>x DEF Deliveries, Copies
      <3>4. d = x[1] => \A m \in Nat : <<d, m>> \notin batch'.left
        BY Zenon, <1>x, <3>1, <3>3
      <3>5. Copies(d)'
        <4>1. CASE d = x[1]
          <5>1. W!MostAttempts \in Nat /\ crashes \in Nat /\ sent[d] \in Nat
            BY Zenon, RoomForRetry DEF Deliveries, DeliveriesType
          <5>2. row[d].n + 1 = x[2] + 1 \/ row[d].st # "live"
            BY Zenon, <1>x, <3>3, <4>1
          <5> QED BY SMTT(30), <1>2, <1>3, <1>x, <3>1, <3>3, <3>4, <4>1, <5>1, <5>2 DEF Copies
        <4>2. CASE d # x[1]
          BY Zenon, <1>2, <1>3, <3>1, <4>2 DEF Deliveries, Copies
        <4> QED BY Zenon, <4>1, <4>2
      <3> QED BY Zenon, <3>2, <3>5
    <2> QED BY Zenon, <2>1, <2>2 DEF Deliveries
  <1>4. CASE /\ W!UpdateDelivery(x[1], [row[x[1]] EXCEPT !.status = "abandoned"])
             /\ batch' = [batch EXCEPT !.left = batch.left \ {x}]
    <2>1. /\ row' \in [W!Ids -> DeliveryRow]
          /\ \A d \in W!Ids : row'[d].st = row[d].st /\ row'[d].n = row[d].n /\ row'[d].next = row[d].next
      <3>1. PICK v : v = [row[x[1]] EXCEPT !.status = "abandoned"]
        OBVIOUS
      <3>2. v \in DeliveryRow /\ v.st = row[x[1]].st /\ v.n = row[x[1]].n /\ v.next = row[x[1]].next
        <4>1. row[x[1]] \in DeliveryRow
          BY Zenon, <1>x DEF Deliveries, DeliveriesType
        <4> QED BY Zenon, <3>1, <4>1 DEF DeliveryRow
      <3>3. row' = row \/ row' = [row EXCEPT ![x[1]] = v]
        BY Zenon, <1>4, <3>1 DEF W!UpdateDelivery
      <3> QED BY ZenonT(30), <1>x, <3>2, <3>3 DEF Deliveries, DeliveriesType
    <2>2. /\ batch' \in [pc : {"idle", "next", "send"} \cup Outcomes, left : SUBSET (W!Ids \X Nat),
                         id : W!Ids \cup {<<>>}, n : Nat]
          /\ batch'.pc = "next" /\ batch'.left = batch.left \ {x}
      BY Zenon, <1>2, <1>4 DEF Deliveries, DeliveriesType
    <2>3. DeliveriesType'
      BY Zenon, <1>2, <2>1, <2>2 DEF Deliveries, DeliveriesType, Outcomes
    <2>4. ASSUME NEW d \in W!Ids PROVE First(d)' /\ Copies(d)'
      <3>1. ~InHand(d)'
        BY Zenon, <2>2 DEF InHand, Outcomes
      <3>2. First(d)'
        BY Zenon, <1>2, <1>h, <2>1, <3>1 DEF Deliveries, First
      <3>3. Copies(d)'
        BY Zenon, <1>2, <1>h, <2>1, <2>2, <3>1 DEF Deliveries, Copies
      <3> QED BY Zenon, <3>2, <3>3
    <2> QED BY Zenon, <2>3, <2>4 DEF Deliveries
  <1> QED BY Zenon, <1>1, <1>3, <1>4

\* The attempt of a retry, and its record.
LEMMA RetryKeeps ==
  ASSUME MaxRetries \in Nat, Deliveries, W!Resend \/ W!RecordRetry
  PROVE  Deliveries'
  <1>m. W!MostAttempts \in Nat /\ crashes \in Nat
    BY Zenon, RoomForRetry DEF Deliveries, DeliveriesType
  <1>1. CASE W!Resend
    <2>1. PICK o \in Outcomes : batch' = [batch EXCEPT !.pc = o]
      BY Zenon, <1>1 DEF W!Resend, Outcomes
    <2>x. PICK x : x = batch.id
      OBVIOUS
    <2>2. /\ batch.pc = "send" /\ x \in W!Ids /\ sent' = [sent EXCEPT ![x] = @ + 1]
          /\ UNCHANGED <<row, event, flight, crashes>>
      BY Zenon, <1>1, <2>x DEF W!Resend, W!Send, Deliveries, DeliveriesType
    <2>3. /\ batch' \in [pc : {"idle", "next", "send"} \cup Outcomes, left : SUBSET (W!Ids \X Nat),
                         id : W!Ids \cup {<<>>}, n : Nat]
          /\ batch'.pc = o /\ batch'.left = batch.left /\ batch'.id = x /\ batch'.n = batch.n
      BY Zenon, <2>1, <2>x DEF Deliveries, DeliveriesType
    <2>4. /\ sent' \in [W!Ids -> Nat] /\ sent'[x] = sent[x] + 1 /\ sent[x] \in Nat
          /\ \A d \in W!Ids \ {x} : sent'[d] = sent[d]
      BY <2>2 DEF Deliveries, DeliveriesType
    <2>5. DeliveriesType'
      BY Zenon, <2>2, <2>3, <2>4 DEF Deliveries, DeliveriesType
    <2>6. InHand(x) /\ \A d \in W!Ids : InHand(d)' <=> InHand(d)
      BY Zenon, <2>x, <2>2, <2>3 DEF InHand
    <2>7. ASSUME NEW d \in W!Ids \ {x} PROVE First(d)' /\ Copies(d)'
      <3>1. ~InHand(d)
        BY Zenon, <2>x DEF InHand
      <3> QED BY <2>2, <2>3, <2>4, <2>6, <3>1 DEF Deliveries, First, Copies
    <2>8. /\ row[x].st # "none" /\ batch.n <= W!MostAttempts /\ sent[x] <= batch.n - 1 + crashes
          /\ row[x].st = "live" => row[x].n + 1 = batch.n
          /\ \A n \in Nat : <<x, n>> \notin batch.left
      BY Zenon, <2>2, <2>6 DEF Deliveries, Copies
    <2>9. batch.n \in Nat
      BY Zenon DEF Deliveries, DeliveriesType
    <2>10. First(x)'
      BY <1>m, <2>2, <2>4, <2>6, <2>8, <2>9 DEF Deliveries, First, Outcomes
    <2>11. o # "send"
      BY Zenon DEF Outcomes
    <2>12. Copies(x)'
      BY SMTT(30), <1>m, <2>2, <2>3, <2>4, <2>6, <2>8, <2>9, <2>11 DEF Copies
    <2> QED BY Zenon, <2>5, <2>7, <2>10, <2>12 DEF Deliveries
  <1>2. CASE W!RecordRetry
    <2>x. PICK x : x = batch.id
      OBVIOUS
    <2>v. PICK v : v = W!RetriedRow(batch.pc, batch.n)
      OBVIOUS
    <2>1. /\ batch.pc \in Outcomes /\ x \in W!Ids /\ batch.n \in Nat
          /\ row' = IF x \in W!Rows THEN [row EXCEPT ![x] = v] ELSE row
          /\ batch' = [pc |-> "next", left |-> batch.left, id |-> <<>>, n |-> 0]
          /\ UNCHANGED <<event, flight, sent, crashes>>
      BY Zenon, <1>2, <2>x, <2>v DEF W!RecordRetry, W!UpdateDelivery, W!NoBatch, Deliveries, DeliveriesType, Outcomes
    <2>2. /\ v \in DeliveryRow /\ v.n = batch.n /\ v.st = "live"
          /\ v.next # "none" => batch.n < W!MostAttempts
      BY Zenon, <2>1, <2>v, RoomForRetry DEF W!RetriedRow, W!Again, DeliveryRow, Outcomes
    <2>3. /\ row' \in [W!Ids -> DeliveryRow]
          /\ row'[x] = IF row[x].st = "live" THEN v ELSE row[x]
          /\ \A d \in W!Ids \ {x} : row'[d] = row[d]
      BY Zenon, <2>1, <2>2 DEF Deliveries, DeliveriesType, W!Rows
    <2>4. DeliveriesType'
      BY Zenon, <2>1, <2>3 DEF Deliveries, DeliveriesType, Outcomes
    <2>5. InHand(x) /\ \A d \in W!Ids : ~InHand(d)'
      BY Zenon, <2>x, <2>1 DEF InHand, Outcomes
    <2>6. ASSUME NEW d \in W!Ids \ {x} PROVE First(d)' /\ Copies(d)'
      <3>1. ~InHand(d)
        BY Zenon, <2>x DEF InHand
      <3> QED BY Zenon, <2>1, <2>3, <2>5, <3>1 DEF Deliveries, First, Copies
    <2>7. /\ row[x].st # "none" /\ sent[x] <= batch.n + crashes
          /\ \A n \in Nat : <<x, n>> \notin batch.left
      BY Zenon, <2>1, <2>5 DEF Deliveries, Copies, Outcomes
    <2>8. First(x)'
      <3>1. /\ row'[x].st = row[x].st
            /\ row'[x].next # "none" => row'[x].st = "live" /\ row'[x].n < W!MostAttempts
            /\ row'[x].st = "live" => sent[x] <= row'[x].n + crashes
        <4>1. CASE row[x].st = "live"
          BY Zenon, <2>2, <2>3, <2>7, <4>1
        <4>2. CASE row[x].st # "live"
          BY Zenon, <2>1, <2>3, <4>2 DEF Deliveries, First
        <4> QED BY Zenon, <4>1, <4>2
      <3> QED BY Zenon, <2>1, <3>1 DEF Deliveries, First
    <2>9. Copies(x)'
      BY Zenon, <2>1, <2>5, <2>7 DEF Copies
    <2> QED BY Zenon, <2>4, <2>6, <2>8, <2>9 DEF Deliveries
  <1> QED BY Zenon, <1>1, <1>2

\* The end of a batch drops old rows.
LEMMA CleanupKeeps ==
  ASSUME Deliveries, W!cleanup
  PROVE  Deliveries'
  <1>1. PICK G \in SUBSET W!Rows : W!DeleteOldDeliveries(G)
    BY Zenon DEF W!cleanup
  <1>2. /\ batch.pc = "next" /\ batch.left = {} /\ UNCHANGED <<event, flight, sent, crashes>>
        /\ batch' = [pc |-> "idle", left |-> {}, id |-> <<>>, n |-> 0]
    BY Zenon DEF W!cleanup, W!NoBatch
  <1>3. row' = [d \in W!Ids |-> IF d \in G THEN [st |-> "gone", status |-> "none", n |-> 0, next |-> "none"]
                                ELSE row[d]]
    BY SMTT(30), <1>1 DEF W!DeleteOldDeliveries, W!NoRow
  <1>4. DeliveriesType'
    BY Zenon, <1>2, <1>3 DEF Deliveries, DeliveriesType, DeliveryRow, Outcomes
  <1>5. ASSUME NEW d \in W!Ids PROVE First(d)' /\ Copies(d)'
    <2>1. row'[d] = row[d] \/ (row'[d].st = "gone" /\ row'[d].next = "none" /\ row[d].st = "live")
      BY Zenon, <1>1, <1>3 DEF W!Rows
    <2>2. ~InHand(d) /\ ~InHand(d)'
      BY Zenon, <1>2 DEF InHand, Outcomes
    <2>3. First(d)'
      BY Zenon, <1>2, <2>1, <2>2 DEF Deliveries, First
    <2>4. Copies(d)'
      BY Zenon, <1>2, <2>2 DEF Copies
    <2> QED BY Zenon, <2>3, <2>4
  <1> QED BY Zenon, <1>4, <1>5 DEF Deliveries

\* A crash loses the record of the attempt in hand, which it may repeat.
LEMMA CrashKeeps ==
  ASSUME MaxRetries \in Nat, Deliveries, W!Crash
  PROVE  Deliveries'
  <1>1. /\ crashes' = crashes + 1 /\ flight' = [d \in W!Ids |-> "none"]
        /\ event' = [e \in Events |-> IF event[e].pc \in {"published", "deliver"}
                                      THEN [pc |-> "lost", left |-> {}] ELSE event[e]]
        /\ batch' = [pc |-> "idle", left |-> {}, id |-> <<>>, n |-> 0]
        /\ UNCHANGED <<row, sent>>
    BY Zenon DEF W!Crash, W!NoBatch
  <1>2. DeliveriesType'
    BY <1>1 DEF Deliveries, DeliveriesType, Outcomes
  <1>3. ASSUME NEW d \in W!Ids PROVE First(d)' /\ Copies(d)'
    <2>1. ~InHand(d)' /\ batch'.left = {}
      BY Zenon, <1>1 DEF InHand, Outcomes
    <2>2. /\ d[2] \in Events /\ row[d].n \in Nat /\ sent[d] \in Nat /\ crashes \in Nat /\ batch.n \in Nat
          /\ W!MostAttempts \in Nat
      BY Zenon, RoomForRetry DEF Deliveries, DeliveriesType, DeliveryRow, W!Ids
    <2>3. row[d].st = "live" => sent[d] <= row[d].n + crashes + 1
      BY SMTT(30), <2>2 DEF Deliveries, First, Copies
    <2>4. event'[d[2]].pc \in {"new", "published"} \/ d[1] \in event'[d[2]].left =>
            sent[d] = 0 /\ row[d].st = "none"
      BY Zenon, <1>1, <2>2 DEF Deliveries, First
    <2>5. First(d)'
      BY <1>1, <2>1, <2>2, <2>3, <2>4 DEF Deliveries, First, Outcomes
    <2>6. Copies(d)'
      BY Zenon, <2>1 DEF Copies
    <2> QED BY Zenon, <2>5, <2>6
  <1> QED BY Zenon, <1>2, <1>3 DEF Deliveries

\* Whatever the subscriptions do, however deliveries, retries and crashes
\* interleave and for every MaxRetries, a delivery is sent at most MostAttempts
\* times, and once more for each crash.
THEOREM SendsAreBounded == ASSUME MaxRetries \in Nat PROVE W!Spec => []AttemptsBounded
  <1>1. W!Init => Deliveries
    <2> SUFFICES ASSUME W!Init PROVE Deliveries
      OBVIOUS
    <2>1. DeliveriesType
      BY Zenon DEF W!Init, W!NoRow, W!NoBatch, DeliveriesType, DeliveryRow, Outcomes
    <2>2. ASSUME NEW d \in W!Ids PROVE First(d) /\ Copies(d)
      BY RoomForRetry DEF W!Init, W!NoRow, W!NoBatch, First, Copies, InHand, Outcomes
    <2> QED BY Zenon, <2>1, <2>2 DEF Deliveries
  <1>2. Deliveries /\ [W!Next]_(W!vars) => Deliveries'
    <2> SUFFICES ASSUME Deliveries, [W!Next]_(W!vars) PROVE Deliveries'
      OBVIOUS
    <2>1. CASE UNCHANGED W!vars
      BY <2>1 DEF W!vars, Deliveries, DeliveriesType, First, Copies, InHand
    <2>2. CASE W!Requests \/ W!Crash
      BY Zenon, <2>2, SubscriptionsKeep, CrashKeeps
    <2>3. CASE W!Goroutines
      BY Zenon, <2>3, EventsKeep, AcquireKeeps, FirstAttemptKeeps DEF W!Goroutines
    <2>4. CASE W!Ticker
      BY Zenon, <2>4, QueryKeeps, TakeKeeps, RetryKeeps, CleanupKeeps DEF W!Ticker
    <2>5. ASSUME NEW d \in W!Ids, W!Due(d) PROVE Deliveries'
      BY Zenon, <2>5, DueKeeps
    <2>6. ASSUME NEW e \in Events, W!Publish(e) PROVE Deliveries'
      BY Zenon, <2>6, EventsKeep
    <2> QED BY Zenon, <2>1, <2>2, <2>3, <2>4, <2>5, <2>6 DEF W!Next
  <1>3. Deliveries => AttemptsBounded
    BY Zenon DEF Deliveries, First, AttemptsBounded, W!AttemptsBounded
  <1>4. W!Spec => W!Init /\ [][W!Next]_(W!vars)
    BY DEF W!Spec
  <1> QED BY <1>1, <1>2, <1>3, <1>4, PTL

-----------------------------------------------------------------------------
(* What is logged.                                                             *)

\* Where a committed change may be, element by element.
Accounted ==
    \A y : y \in committed <=>
             \/ y \in A!Range(logged) \/ y \in A!Range(auditChan) \/ y \in hand
             \/ \E w \in Writers : y \in at[w]
             \/ \E d \in dropped : y = d[1]
             \/ y \in lost \/ y \in failed

\* The writers, the channel, the worker's hand and the log share no entry.
Audited ==
    /\ at \in [Writers -> SUBSET Changes] /\ hand \in SUBSET Changes
    /\ auditChan \in Seq(Changes) /\ logged \in Seq(Changes)
    /\ \A w \in Writers : \A x, y \in at[w] : x = y
    /\ \A x, y \in hand : x = y
    /\ \A w, v \in Writers : w # v => at[w] \cap at[v] = {}
    /\ \A w \in Writers : at[w] \cap (A!Range(auditChan) \cup hand \cup A!Range(logged)) = {}
    /\ hand \cap (A!Range(auditChan) \cup A!Range(logged)) = {}
    /\ A!Range(auditChan) \cap A!Range(logged) = {}
    /\ \A i, j \in 1 .. Len(auditChan) : auditChan[i] = auditChan[j] => i = j
    /\ Len(auditChan) <= Capacity
    /\ \A i, j \in DOMAIN logged : logged[i] = logged[j] => i = j
    /\ \A d \in dropped : d[2] = Capacity
    /\ Accounted

\* What Append and Tail make of the entries of a sequence.
LEMMA RangeAppend ==
  ASSUME NEW T, NEW s \in Seq(T), NEW x \in T
  PROVE  A!Range(Append(s, x)) = A!Range(s) \cup {x}
  <1>1. /\ DOMAIN Append(s, x) = 1 .. Len(s) + 1 /\ DOMAIN s = 1 .. Len(s) /\ Len(s) \in Nat
        /\ \A i \in 1 .. Len(s) : Append(s, x)[i] = s[i]
        /\ Append(s, x)[Len(s) + 1] = x
    OBVIOUS
  <1>2. 1 .. Len(s) + 1 = 1 .. Len(s) \cup {Len(s) + 1}
    BY <1>1
  <1> QED BY <1>1, <1>2 DEF A!Range

\* The entries of a sequence without repetitions, apart from the first.
LEMMA RangeTail ==
  ASSUME NEW T, NEW s \in Seq(T), s # <<>>, \A i, j \in 1 .. Len(s) : s[i] = s[j] => i = j
  PROVE  /\ A!Range(s) = A!Range(Tail(s)) \cup {Head(s)} /\ Head(s) \notin A!Range(Tail(s))
         /\ \A i, j \in 1 .. Len(Tail(s)) : Tail(s)[i] = Tail(s)[j] => i = j
         /\ Tail(s) \in Seq(T) /\ Len(Tail(s)) = Len(s) - 1 /\ Head(s) \in T
  <1>1. /\ Len(s) \in Nat \ {0} /\ DOMAIN s = 1 .. Len(s) /\ Tail(s) \in Seq(T)
        /\ DOMAIN Tail(s) = 1 .. Len(s) - 1 /\ Len(Tail(s)) = Len(s) - 1
        /\ \A i \in 1 .. Len(s) - 1 : Tail(s)[i] = s[i + 1]
        /\ Head(s) = s[1] /\ s[1] \in T
    OBVIOUS
  <1>2. \A i \in 2 .. Len(s) : i - 1 \in 1 .. Len(s) - 1 /\ s[i] = Tail(s)[i - 1]
    BY <1>1
  <1>3. A!Range(s) = A!Range(Tail(s)) \cup {Head(s)}
    <2>1. ASSUME NEW y \in A!Range(s) PROVE y \in A!Range(Tail(s)) \cup {Head(s)}
      <3>1. PICK i \in 1 .. Len(s) : y = s[i]
        BY Zenon, <1>1 DEF A!Range
      <3>2. CASE i = 1
        BY Zenon, <1>1, <3>1, <3>2
      <3>3. CASE i # 1
        <4>1. i \in 2 .. Len(s)
          BY <1>1, <3>3
        <4>2. i - 1 \in DOMAIN Tail(s) /\ y = Tail(s)[i - 1]
          BY Zenon, <1>1, <1>2, <3>1, <4>1
        <4> QED BY Zenon, <4>2 DEF A!Range
      <3> QED BY Zenon, <3>2, <3>3
    <2>2. ASSUME NEW y \in A!Range(Tail(s)) PROVE y \in A!Range(s)
      <3>1. PICK i \in 1 .. Len(s) - 1 : y = Tail(s)[i]
        BY Zenon, <1>1 DEF A!Range
      <3>2. i + 1 \in 1 .. Len(s) /\ y = s[i + 1]
        BY <1>1, <3>1
      <3> QED BY Zenon, <1>1, <3>2 DEF A!Range
    <2>3. Head(s) \in A!Range(s)
      BY <1>1 DEF A!Range
    <2> QED BY Zenon, <2>1, <2>2, <2>3
  <1>4. Head(s) \notin A!Range(Tail(s))
    <2> SUFFICES ASSUME NEW i \in 1 .. Len(s) - 1, Tail(s)[i] = Head(s) PROVE FALSE
      BY <1>1 DEF A!Range
    <2>1. i + 1 \in 1 .. Len(s) /\ 1 \in 1 .. Len(s) /\ s[i + 1] = s[1] /\ i + 1 # 1
      BY <1>1
    <2> QED BY Zenon, <2>1
  <1>5. ASSUME NEW i \in 1 .. Len(s) - 1, NEW j \in 1 .. Len(s) - 1, Tail(s)[i] = Tail(s)[j] PROVE i = j
    <2>1. i + 1 \in 1 .. Len(s) /\ j + 1 \in 1 .. Len(s) /\ s[i + 1] = s[j + 1]
      BY <1>1, <1>5
    <2>2. i + 1 = j + 1
      BY Zenon, <2>1
    <2> QED BY <2>2
  <1> QED BY Zenon, <1>1, <1>3, <1>4, <1>5

\* The changes that writers hold.
LEMMA Held ==
  ASSUME at \in [Writers -> SUBSET Changes]
  PROVE  \A x : x \in UNION A!Range(at) <=> \E w \in Writers : x \in at[w]
  BY Zenon DEF A!Range

\* A change that commits is new, so that nobody holds it yet.
LEMMA CommitKeeps ==
  ASSUME Audited, NEW w \in Writers, NEW x \in Changes, A!Commit(w, x)
  PROVE  Audited'
  <1>1. /\ at[w] = {} /\ x \notin committed /\ committed' = committed \cup {x}
        /\ at' = [at EXCEPT ![w] = {x}]
        /\ UNCHANGED <<auditChan, hand, logged, dropped, lost, failed>>
    BY Zenon DEF A!Commit
  <1>2. /\ at' \in [Writers -> SUBSET Changes] /\ at'[w] = {x}
        /\ \A v \in Writers \ {w} : at'[v] = at[v]
    BY <1>1 DEF Audited
  <1>3. \A y : (\E v \in Writers : y \in at'[v]) <=> y = x \/ \E v \in Writers : y \in at[v]
    BY Zenon, <1>1, <1>2
  <1>4. x \notin A!Range(auditChan) /\ x \notin hand /\ x \notin A!Range(logged)
        /\ \A v \in Writers : x \notin at[v]
    BY Zenon, <1>1 DEF Audited, Accounted
  <1>5. Accounted'
    BY Zenon, <1>1, <1>3 DEF Audited, Accounted
  <1> QED BY <1>1, <1>2, <1>4, <1>5 DEF Audited

\* The offer to the channel: an entry is dropped only when the channel is full.
LEMMA OfferKeeps ==
  ASSUME Capacity \in Nat, Audited, NEW w \in Writers, A!auditLog(w)
  PROVE  Audited'
  <1>1. PICK x \in at[w] : x = CHOOSE y \in at[w] : TRUE
    BY Zenon DEF A!auditLog
  <1>2. /\ at' = [at EXCEPT ![w] = {}] /\ UNCHANGED <<committed, hand, logged, lost, failed>>
        /\ IF A!Room THEN auditChan' = Append(auditChan, x) /\ UNCHANGED dropped
                     ELSE dropped' = dropped \cup {<<x, Len(auditChan)>>} /\ UNCHANGED auditChan
    BY Zenon, <1>1 DEF A!auditLog
  <1>3. /\ at' \in [Writers -> SUBSET Changes] /\ at'[w] = {}
        /\ \A v \in Writers \ {w} : at'[v] = at[v]
    BY <1>2 DEF Audited
  <1>4. at[w] = {x} /\ x \in Changes
    BY SMTT(30) DEF Audited
  <1>5. \A y : (\E v \in Writers : y \in at[v]) <=> y = x \/ \E v \in Writers : y \in at'[v]
    BY Zenon, <1>3, <1>4
  <1>6. Len(auditChan) \in Nat /\ auditChan \in Seq(Changes)
    BY SMTT(30) DEF Audited
  <1>7. CASE A!Room
    <2>1. A!Range(auditChan') = A!Range(auditChan) \cup {x}
      BY ZenonT(30), <1>2, <1>4, <1>6, <1>7, RangeAppend
    <2>2. /\ auditChan' \in Seq(Changes) /\ Len(auditChan') = Len(auditChan) + 1
          /\ \A i \in 1 .. Len(auditChan) : auditChan'[i] = auditChan[i]
          /\ auditChan'[Len(auditChan) + 1] = x
      BY <1>2, <1>4, <1>6, <1>7
    <2>3. \A i \in 1 .. Len(auditChan) : auditChan[i] # x
      <3>1. x \notin A!Range(auditChan)
        BY Zenon, <1>4 DEF Audited
      <3>2. DOMAIN auditChan = 1 .. Len(auditChan)
        BY SMTT(30), <1>6
      <3> QED BY Zenon, <3>1, <3>2 DEF A!Range
    <2>4. \A i, j \in 1 .. Len(auditChan') : auditChan'[i] = auditChan'[j] => i = j
      <3>1. ASSUME NEW i \in 1 .. Len(auditChan'), NEW j \in 1 .. Len(auditChan'), auditChan'[i] = auditChan'[j]
            PROVE  i = j
        <4>1. i \in 1 .. Len(auditChan) \/ i = Len(auditChan) + 1
          BY SMTT(30), <1>6, <2>2
        <4>2. j \in 1 .. Len(auditChan) \/ j = Len(auditChan) + 1
          BY SMTT(30), <1>6, <2>2
        <4>3. \A m, n \in 1 .. Len(auditChan) : auditChan[m] = auditChan[n] => m = n
          BY Zenon DEF Audited
        <4> QED BY Zenon, <2>2, <2>3, <3>1, <4>1, <4>2, <4>3
      <3> QED BY Zenon, <3>1
    <2>5. Len(auditChan') <= Capacity
      BY SMTT(30), <1>6, <1>7, <2>2 DEF A!Room
    <2>6. Accounted' /\ UNCHANGED dropped
      BY Zenon, <1>2, <1>5, <1>7, <2>1 DEF Audited, Accounted
    <2>7. /\ \A v \in Writers : at'[v] \cap (A!Range(auditChan') \cup hand \cup A!Range(logged)) = {}
          /\ hand \cap (A!Range(auditChan') \cup A!Range(logged)) = {}
          /\ A!Range(auditChan') \cap A!Range(logged) = {}
      BY SMTT(30), <1>3, <1>4, <2>1 DEF Audited
    <2> QED BY ZenonT(30), <1>2, <1>3, <2>2, <2>4, <2>5, <2>6, <2>7 DEF Audited
  <1>8. CASE ~A!Room
    <2>1. dropped' = dropped \cup {<<x, Len(auditChan)>>} /\ UNCHANGED auditChan
      BY Zenon, <1>2, <1>8
    <2>2. Len(auditChan) = Capacity
      BY <1>6, <1>8 DEF Audited, A!Room
    <2>3. \A y : (\E d \in dropped' : y = d[1]) <=> y = x \/ \E d \in dropped : y = d[1]
      <3>1. \A d : d \in dropped' <=> d \in dropped \/ d = <<x, Len(auditChan)>>
        BY Zenon, <2>1
      <3>2. <<x, Len(auditChan)>>[1] = x
        OBVIOUS
      <3> QED BY Zenon, <3>1, <3>2
    <2>4. Accounted'
      BY Zenon, <1>2, <1>5, <2>1, <2>3 DEF Audited, Accounted
    <2>5. \A d \in dropped' : d[2] = Capacity
      BY <2>1, <2>2 DEF Audited
    <2> QED BY <1>2, <1>3, <2>1, <2>4, <2>5 DEF Audited
  <1> QED BY Zenon, <1>7, <1>8

\* The worker takes the first entry of the channel.
LEMMA WorkerKeeps ==
  ASSUME Capacity \in Nat, Audited, A!auditWorker
  PROVE  Audited'
  <1>1. /\ hand = {} /\ auditChan # <<>> /\ hand' = {Head(auditChan)} /\ auditChan' = Tail(auditChan)
        /\ UNCHANGED <<at, committed, logged, dropped, lost, failed>>
    BY Zenon DEF A!auditWorker
  <1>2. /\ A!Range(auditChan) = A!Range(auditChan') \cup {Head(auditChan)}
        /\ Head(auditChan) \notin A!Range(auditChan')
        /\ \A i, j \in 1 .. Len(auditChan') : auditChan'[i] = auditChan'[j] => i = j
        /\ auditChan' \in Seq(Changes) /\ Len(auditChan') = Len(auditChan) - 1 /\ Head(auditChan) \in Changes
    <2>1. auditChan \in Seq(Changes) /\ \A i, j \in 1 .. Len(auditChan) : auditChan[i] = auditChan[j] => i = j
      BY Zenon DEF Audited
    <2>2. /\ A!Range(auditChan) = A!Range(Tail(auditChan)) \cup {Head(auditChan)}
          /\ Head(auditChan) \notin A!Range(Tail(auditChan))
          /\ \A i, j \in 1 .. Len(Tail(auditChan)) : Tail(auditChan)[i] = Tail(auditChan)[j] => i = j
          /\ Tail(auditChan) \in Seq(Changes) /\ Len(Tail(auditChan)) = Len(auditChan) - 1
          /\ Head(auditChan) \in Changes
      BY Zenon, <1>1, <2>1, RangeTail
    <2> QED BY <1>1, <2>2
  <1>3. Accounted'
    BY Zenon, <1>1, <1>2 DEF Audited, Accounted
  <1>4. Len(auditChan') <= Capacity
    <2>1. Len(auditChan) \in Nat /\ Len(auditChan) <= Capacity
      BY DEF Audited
    <2> QED BY <1>2, <2>1
  <1> QED BY <1>1, <1>2, <1>3, <1>4 DEF Audited

\* The insert, or its error.
LEMMA InsertKeeps ==
  ASSUME Audited, A!CreateAuditLog
  PROVE  Audited'
  <1>1. PICK x \in hand : x = CHOOSE y \in hand : TRUE
    BY Zenon DEF A!CreateAuditLog
  <1>2. hand = {x} /\ x \in Changes /\ x \notin A!Range(logged) /\ logged \in Seq(Changes)
    BY DEF Audited
  <1>3. hand' = {} /\ UNCHANGED <<at, committed, auditChan, dropped, lost>>
    BY Zenon DEF A!CreateAuditLog
  <1>4. CASE logged' = Append(logged, x) /\ UNCHANGED failed
    <2>1. A!Range(logged') = A!Range(logged) \cup {x} /\ logged' \in Seq(Changes)
          /\ Len(logged') = Len(logged) + 1
      BY <1>2, <1>4, RangeAppend
    <2>2. \A i, j \in DOMAIN logged' : logged'[i] = logged'[j] => i = j
      <3>1. /\ DOMAIN logged = 1 .. Len(logged) /\ DOMAIN logged' = 1 .. Len(logged) + 1
            /\ Len(logged) \in Nat /\ logged'[Len(logged) + 1] = x
            /\ \A i \in 1 .. Len(logged) : logged'[i] = logged[i]
        BY SMTT(30), <1>2, <1>4
      <3>2. \A i \in 1 .. Len(logged) : logged[i] # x
        BY Zenon, <1>2, <3>1 DEF A!Range
      <3>3. \A i, j \in 1 .. Len(logged) : logged[i] = logged[j] => i = j
        BY Zenon, <3>1 DEF Audited
      <3> QED BY SMTT(30), <3>1, <3>2, <3>3
    <2>3. Accounted'
      BY Zenon, <1>2, <1>3, <1>4, <2>1 DEF Audited, Accounted
    <2> QED BY SMTT(30), <1>2, <1>3, <2>1, <2>2, <2>3 DEF Audited
  <1>5. CASE failed' = failed \cup hand /\ UNCHANGED logged
    <2>1. Accounted'
      BY Zenon, <1>3, <1>5 DEF Audited, Accounted
    <2> QED BY Zenon, <1>3, <1>5, <2>1 DEF Audited
  <1> QED BY Zenon, <1>1, <1>4, <1>5 DEF A!CreateAuditLog

\* A stop of the server loses what is on its way.
LEMMA StopKeeps ==
  ASSUME Capacity \in Nat, Audited, A!Stop
  PROVE  Audited'
  <1>1. /\ lost' = lost \cup A!Range(auditChan) \cup hand \cup UNION A!Range(at)
        /\ auditChan' = <<>> /\ hand' = {} /\ at' = [w \in Writers |-> {}]
        /\ UNCHANGED <<committed, logged, dropped, failed>>
    BY Zenon DEF A!Stop
  <1>2. A!Range(auditChan') = {} /\ auditChan' \in Seq(Changes) /\ Len(auditChan') = 0
    BY <1>1 DEF A!Range
  <1>3. at' \in [Writers -> SUBSET Changes] /\ \A w \in Writers : at'[w] = {}
    BY Zenon, <1>1
  <1>4. \A y : y \in lost' <=> y \in lost \/ y \in A!Range(auditChan) \/ y \in hand
                             \/ \E w \in Writers : y \in at[w]
    BY Zenon, <1>1, Held DEF Audited
  <1>5. Accounted'
    BY Zenon, <1>1, <1>2, <1>3, <1>4 DEF Audited, Accounted
  <1> QED BY <1>1, <1>2, <1>3, <1>5 DEF Audited

\* Every committed change is in the log, on its way there, or lost to one of the
\* three causes that the code leaves open, whatever the size of the channel and
\* the number of writers; and nothing is logged twice.
THEOREM EveryChangeIsAccountedFor == ASSUME Capacity \in Nat PROVE A!Spec => []ChangesAreLogged
  <1>1. A!Init => Audited
    <2> SUFFICES ASSUME A!Init PROVE Audited
      OBVIOUS
    <2>1. A!Range(auditChan) = {} /\ A!Range(logged) = {} /\ Len(auditChan) = 0 /\ Len(logged) = 0
          /\ auditChan \in Seq(Changes) /\ logged \in Seq(Changes)
      BY DEF A!Init, A!Range
    <2>2. at \in [Writers -> SUBSET Changes] /\ \A w \in Writers : at[w] = {}
      BY Zenon DEF A!Init
    <2>4. Accounted
      BY Zenon, <2>1, <2>2 DEF A!Init, Accounted
    <2> QED BY <2>1, <2>2, <2>4 DEF A!Init, Audited
  <1>2. Audited /\ [A!Next]_(A!vars) => Audited'
    <2> SUFFICES ASSUME Audited, [A!Next]_(A!vars) PROVE Audited'
      OBVIOUS
    <2>1. CASE UNCHANGED A!vars
      BY Zenon, <2>1 DEF A!vars, Audited, Accounted
    <2> QED BY Zenon, <2>1, CommitKeeps, OfferKeeps, WorkerKeeps, InsertKeeps, StopKeeps DEF A!Next, A!Worker
  <1>3. Audited => ChangesAreLogged
    <2> SUFFICES ASSUME Audited PROVE ChangesAreLogged
      OBVIOUS
    <2> DEFINE H == UNION A!Range(at)
               D == {d[1] : d \in dropped}
               R == A!Range(logged)
               Q == A!Range(auditChan)
    <2>1. \A y : y \in H <=> \E w \in Writers : y \in at[w]
      BY Zenon, Held DEF Audited
    <2>2. \A y : y \in D <=> \E d \in dropped : y = d[1]
      OBVIOUS
    <2>3. \A y : y \in committed <=> \/ y \in R \/ y \in Q \/ y \in hand \/ y \in H \/ y \in D
                                     \/ y \in lost \/ y \in failed
      BY Zenon, <2>1, <2>2 DEF Audited, Accounted
    <2>4. committed = R \cup Q \cup hand \cup H \cup D \cup lost \cup failed
      <3> HIDE DEF H, D, R, Q
      <3> QED BY Zenon, <2>3
    <2>5. (\A d \in dropped : d[2] = Capacity) /\ \A i, j \in DOMAIN logged : logged[i] = logged[j] => i = j
      BY Zenon DEF Audited
    <2> QED BY <2>4, <2>5 DEF ChangesAreLogged, A!ChangesAreLogged
  <1> QED BY <1>1, <1>2, <1>3, PTL DEF A!Spec
-----------------------------------------------------------------------------
(* What the schedules say.                                                     *)

\* A request asks for three things of a schedule.
AreConfigs == \A c \in Configs : c = [on |-> c.on, cron |-> c.cron, prof |-> c.prof]

IsRow(r) == r = [st |-> r.st, ran |-> r.ran, on |-> r.on, cron |-> r.cron, prof |-> r.prof]

\* The worker's copies are rows, and a run has the copy it will write back.
Scheduled ==
    /\ DOMAIN sched = Schedules /\ \A s \in Schedules : IsRow(sched[s])
    /\ DOMAIN jobs = Schedules
    /\ \A s \in Schedules : jobs[s] = <<>> \/ \E r : IsRow(r) /\ jobs[s] = <<r>>
    /\ run \in SUBSET Schedules /\ \A s \in run : jobs[s] # <<>>
    /\ ~up => run = {}
    /\ DOMAIN asked = Schedules
    /\ ConfigIsItsOwn

\* The rows that the operations write.
LEMMA RowsAreRows ==
  /\ \A c, b : IsRow(S!Row(c, b)) /\ S!Row(c, b).st = "live"
  /\ \A st : IsRow(S!Absent(st)) /\ S!Absent(st).st = st
  /\ AreConfigs => \A c \in Configs : \A b : S!ConfigOf(S!Row(c, b)) = c
  <1>1. \A c, b : IsRow(S!Row(c, b)) /\ S!Row(c, b).st = "live"
    BY Zenon DEF S!Row, IsRow
  <1>2. ASSUME NEW st PROVE IsRow(S!Absent(st)) /\ S!Absent(st).st = st
    <2>1. PICK r : r = S!Row(S!NoConfig, FALSE)
      OBVIOUS
    <2>2. PICK a, b, c, d, e : r = [st |-> a, ran |-> b, on |-> c, cron |-> d, prof |-> e]
      BY Zenon, <2>1 DEF S!Row
    <2>3. S!Absent(st) = [r EXCEPT !.st = st]
      BY Zenon, <2>1, Zenon DEF S!Absent
    <2>4. S!Absent(st) = [st |-> st, ran |-> b, on |-> c, cron |-> d, prof |-> e]
      BY Zenon, <2>2, <2>3
    <2> QED BY <2>4 DEF IsRow
  <1>3. ASSUME AreConfigs, NEW c \in Configs, NEW b PROVE S!ConfigOf(S!Row(c, b)) = c
    <2>1. S!ConfigOf(S!Row(c, b)) = [on |-> c.on, cron |-> c.cron, prof |-> c.prof]
      BY Zenon DEF S!Row, S!ConfigOf
    <2> QED BY Zenon, <1>3, <2>1 DEF AreConfigs
  <1> QED BY Zenon, <1>1, <1>2, <1>3

\* A request for one schedule leaves the others, and the copies, alone.
LEMMA ScheduleRequestsKeep ==
  ASSUME AreConfigs, Scheduled, NEW s \in Schedules,
         \/ \E c \in Configs : S!createScheduledScan(s, c) \/ S!updateScheduledScan(s, c)
         \/ S!deleteScheduledScan(s)
  PROVE  Scheduled'
  <1>1. up /\ UNCHANGED <<up, jobs, run>>
    BY Zenon DEF S!createScheduledScan, S!updateScheduledScan, S!deleteScheduledScan
  <1>2. CASE S!deleteScheduledScan(s)
    <2>1. sched' = [sched EXCEPT ![s] = S!Absent("gone")] /\ UNCHANGED asked
      BY Zenon, <1>2 DEF S!deleteScheduledScan, S!DeleteSchedule
    <2>2. /\ DOMAIN sched' = Schedules /\ sched'[s] = S!Absent("gone")
          /\ \A t \in Schedules \ {s} : sched'[t] = sched[t]
      BY Zenon, <2>1 DEF Scheduled
    <2>3. ConfigIsItsOwn'
      BY <1>1, <2>1, <2>2, RowsAreRows DEF Scheduled, ConfigIsItsOwn, S!ConfigIsItsOwn, S!LiveScheds
    <2> QED BY Zenon, <1>1, <2>1, <2>2, <2>3, RowsAreRows DEF Scheduled
  <1>3. ASSUME NEW c \in Configs, S!createScheduledScan(s, c) \/ S!updateScheduledScan(s, c)
        PROVE  Scheduled'
    <2>1. sched' = [sched EXCEPT ![s] = S!Row(c, FALSE)] /\ asked' = [asked EXCEPT ![s] = c]
      BY Zenon, <1>3 DEF S!createScheduledScan, S!updateScheduledScan, S!ScheduledScanCreate, S!CreateSchedule,
                  S!ScheduledScanUpdate, S!UpdateSchedule, S!Ask, S!LiveScheds
    <2>2. /\ DOMAIN sched' = Schedules /\ sched'[s] = S!Row(c, FALSE)
          /\ DOMAIN asked' = Schedules /\ asked'[s] = c
          /\ \A t \in Schedules \ {s} : sched'[t] = sched[t] /\ asked'[t] = asked[t]
      BY Zenon, <2>1 DEF Scheduled
    <2>3. S!ConfigOf(sched'[s]) = asked'[s] /\ IsRow(sched'[s])
      <3>1. S!ConfigOf(S!Row(c, FALSE)) = c /\ IsRow(S!Row(c, FALSE))
        BY Zenon, RowsAreRows, Zenon
      <3> QED BY Zenon, <2>2, <3>1
    <2>4. ConfigIsItsOwn'
      BY Zenon, <1>1, <2>2, <2>3 DEF Scheduled, ConfigIsItsOwn, S!ConfigIsItsOwn, S!LiveScheds
    <2> QED BY Zenon, <1>1, <2>2, <2>3, <2>4 DEF Scheduled
  <1> QED BY Zenon, <1>2, <1>3

\* The write-back of a run brings back what the worker's copy says.
LEMMA WriteBackKeeps ==
  ASSUME Scheduled, NEW s \in Schedules, S!WriteBack(s)
  PROVE  Scheduled'
  <1>1. /\ s \in run /\ run' = run \ {s} /\ UNCHANGED <<up, asked>>
        /\ jobs' = [jobs EXCEPT ![s][1].ran = TRUE]
        /\ sched' = [sched EXCEPT ![s] = IF @.st = "live" THEN jobs'[s][1] ELSE @]
    BY Zenon DEF S!WriteBack, S!UpdateSchedule
  <1>2. PICK r : IsRow(r) /\ jobs[s] = <<r>>
    BY Zenon, <1>1 DEF Scheduled
  <1>3. PICK q : q = [r EXCEPT !.ran = TRUE]
    OBVIOUS
  <1>4. IsRow(q) /\ S!ConfigOf(q) = S!ConfigOf(r)
    <2>1. PICK a, c, d, e, b : r = [st |-> a, ran |-> b, on |-> c, cron |-> d, prof |-> e]
      BY Zenon, <1>2 DEF IsRow
    <2>2. q = [st |-> a, ran |-> TRUE, on |-> c, cron |-> d, prof |-> e]
      BY Zenon, <1>3, <2>1
    <2> QED BY Zenon, <2>1, <2>2 DEF IsRow, S!ConfigOf
  <1>5. [jobs[s] EXCEPT ![1].ran = TRUE] = <<q>>
    <2>1. <<r>>[1] = r /\ [<<r>> EXCEPT ![1] = q] = <<q>>
      OBVIOUS
    <2> QED BY Zenon, <1>2, <1>3, <2>1
  <1>6. /\ DOMAIN jobs' = Schedules /\ jobs'[s] = <<q>> /\ jobs'[s][1] = q
        /\ \A t \in Schedules \ {s} : jobs'[t] = jobs[t]
    BY Zenon, <1>1, <1>5 DEF Scheduled
  <1>10. sched' = [sched EXCEPT ![s] = IF sched[s].st = "live" THEN q ELSE sched[s]]
    <2>1. \A z : z = jobs'[s][1] => sched' = [sched EXCEPT ![s] = IF sched[s].st = "live" THEN z ELSE sched[s]]
      BY Zenon, <1>1, Zenon
    <2> QED BY Zenon, <1>6, <2>1, Zenon
  <1>7. /\ DOMAIN sched' = Schedules /\ sched'[s] = IF sched[s].st = "live" THEN q ELSE sched[s]
        /\ \A t \in Schedules \ {s} : sched'[t] = sched[t]
    BY Zenon, <1>10 DEF Scheduled
  <1>8. jobs'[s] # <<>>
    BY SMTT(30), <1>6
  <1>9. ConfigIsItsOwn'
    <2> SUFFICES ASSUME up, NEW t \in Schedules, sched'[t].st = "live"
                 PROVE  \/ S!ConfigOf(sched'[t]) = asked'[t]
                        \/ jobs'[t] # <<>> /\ S!ConfigOf(sched'[t]) = S!ConfigOf(jobs'[t][1])
      BY Zenon, <1>1 DEF ConfigIsItsOwn, S!ConfigIsItsOwn, S!LiveScheds
    <2>1. CASE t = s
      BY Zenon, <1>6, <1>7, <1>8, <2>1
    <2>2. CASE t # s
      BY Zenon, <1>1, <1>6, <1>7, <2>2 DEF Scheduled, ConfigIsItsOwn, S!ConfigIsItsOwn, S!LiveScheds
    <2> QED BY Zenon, <2>1, <2>2
  <1> QED BY <1>1, <1>4, <1>6, <1>7, <1>8, <1>9 DEF Scheduled

\* For any set of schedules, a row says what was last asked of it, or what it said
\* at the start of this process; a write-back never brings it another's.
THEOREM SchedulesKeepTheirConfig == ASSUME AreConfigs PROVE S!Spec => []ConfigIsItsOwn
  <1>1. S!Init => Scheduled
    <2> SUFFICES ASSUME S!Init PROVE Scheduled
      OBVIOUS
    <2>1. \A s \in Schedules : sched[s].st = "fresh" /\ IsRow(sched[s])
      BY Zenon, RowsAreRows DEF S!Init
    <2> QED BY Zenon, <2>1 DEF S!Init, Scheduled, ConfigIsItsOwn, S!ConfigIsItsOwn, S!LiveScheds
  <1>2. Scheduled /\ [S!Next]_(S!vars) => Scheduled'
    <2> SUFFICES ASSUME Scheduled, [S!Next]_(S!vars) PROVE Scheduled'
      OBVIOUS
    <2>1. ASSUME UNCHANGED <<up, sched, jobs, run, asked>> PROVE Scheduled'
      BY Zenon, <2>1 DEF Scheduled, ConfigIsItsOwn, S!ConfigIsItsOwn, S!LiveScheds
    <2>2. ASSUME NEW s \in Schedules, S!runScheduledScan(s) PROVE Scheduled'
      BY Zenon, <2>2 DEF S!runScheduledScan, Scheduled, ConfigIsItsOwn, S!ConfigIsItsOwn, S!LiveScheds
    <2>3. CASE S!Start
      <3>1. /\ ~up /\ asked' = [s \in Schedules |-> S!ConfigOf(sched[s])] /\ UNCHANGED <<sched, run>>
            /\ jobs' = [s \in Schedules |-> IF s \in S!Scheduled THEN <<sched[s]>> ELSE <<>>]
        BY Zenon, <2>3 DEF S!Start, S!scheduleJob
      <3>2. ConfigIsItsOwn'
        BY Zenon, <3>1 DEF ConfigIsItsOwn, S!ConfigIsItsOwn, S!LiveScheds
      <3> QED BY Zenon, <3>1, <3>2 DEF Scheduled
    <2>4. CASE S!Stop
      BY Zenon, <2>4 DEF S!Stop, Scheduled, ConfigIsItsOwn, S!ConfigIsItsOwn
    <2>5. ASSUME NEW s \in Schedules, NEW c \in Configs, S!createScheduledScan(s, c) \/ S!updateScheduledScan(s, c)
          PROVE  Scheduled'
      BY Zenon, <2>5, ScheduleRequestsKeep
    <2>6. ASSUME NEW s \in Schedules, S!deleteScheduledScan(s) \/ S!WriteBack(s) PROVE Scheduled'
      BY Zenon, <2>6, ScheduleRequestsKeep, WriteBackKeeps
    <2> QED BY Zenon, <2>1, <2>2, <2>3, <2>4, <2>5, <2>6
            DEF S!Next, S!vars, S!createProfile, S!updateProfile, S!deleteProfile
  <1>3. Scheduled => ConfigIsItsOwn
    BY DEF Scheduled
  <1> QED BY <1>1, <1>2, <1>3, PTL DEF S!Spec

-----------------------------------------------------------------------------
(* What the credentials hold.                                                  *)

\* Every live row that no earlier key wrote is readable, whether the server is up
\* or not.
Readable ==
    /\ DOMAIN cred = Credentials
    /\ \A c \in Credentials : cred[c].st = "live" /\ c \notin old =>
         /\ C!GetCredential(c)
         /\ IF cred[c].type = "snmp" THEN cred[c].community # <<>> ELSE cred[c].keyRef # <<>>

\* A cell that was just written decrypts, and is empty only for an empty secret.
LEMMA EncryptReads ==
  ASSUME NEW v
  PROVE  C!Decrypts(C!Encrypt(v)) /\ (v # {} => C!Encrypt(v) # <<>>)
  <1>1. CASE v = {}
    BY Zenon, <1>1 DEF C!Encrypt, C!Decrypts
  <1>2. CASE v # {}
    <2>1. C!Encrypt(v) = <<cKey, v>>
      BY Zenon, <1>2 DEF C!Encrypt
    <2> QED BY <2>1 DEF C!Decrypts
  <1> QED BY Zenon, <1>1, <1>2

\* Creating and updating write both cells under the key of the server.
LEMMA WritesReadable ==
  ASSUME Readable, NEW c \in Credentials, C!createCredential(c) \/ C!updateCredential(c)
  PROVE  Readable'
  <1>1. PICK t, com, ref :
          /\ t \in C!Types /\ C!Validate(t, com, ref)
          /\ cred' = [cred EXCEPT ![c] = [st |-> "live", type |-> t, community |-> C!Encrypt(com),
                                          keyRef |-> C!Encrypt(ref)]]
    BY Zenon DEF C!createCredential, C!CredentialCreate, C!CreateCredential, C!updateCredential,
           C!CredentialUpdate, C!UpdateCredential
  <1>2. cKey' = cKey /\ \A x \in Credentials \ {c} : x \notin old' => x \notin old
    BY Zenon DEF C!createCredential, C!updateCredential
  <1>3. /\ DOMAIN cred' = Credentials /\ cred'[c].type = t
        /\ cred'[c].community = C!Encrypt(com) /\ cred'[c].keyRef = C!Encrypt(ref)
        /\ \A x \in Credentials \ {c} : cred'[x] = cred[x]
    BY Zenon, <1>1 DEF Readable
  <1>4. \A cell : C!Decrypts(cell)' <=> C!Decrypts(cell)
    BY Zenon, <1>2 DEF C!Decrypts
  <1> QED BY Zenon, <1>1, <1>2, <1>3, <1>4, EncryptReads DEF Readable, C!GetCredential, C!Validate, C!Decrypts

\* For any secrets and keys, and over every sequence of starts with new keys, a
\* row that was written under the present key can be read.
THEOREM CredentialsStayReadable == C!Spec => []CredentialsRead
  <1>1. C!Init => Readable
    BY DEF C!Init, C!NoCred, Readable
  <1>2. Readable /\ [C!Next]_(C!vars) => Readable'
    <2> SUFFICES ASSUME Readable, [C!Next]_(C!vars) PROVE Readable'
      OBVIOUS
    <2>1. CASE UNCHANGED C!vars \/ C!Stop
      BY Zenon, <2>1 DEF C!vars, C!Stop, Readable, C!GetCredential, C!Decrypts
    <2>2. ASSUME NEW c \in Credentials, C!deleteCredential(c) PROVE Readable'
      <3>1. cred' = [cred EXCEPT ![c] = C!NoCred("gone")] /\ old' = old \ {c} /\ cKey' = cKey
        BY Zenon, <2>2 DEF C!deleteCredential, C!DeleteCredential
      <3>2. DOMAIN cred' = Credentials /\ cred'[c].st = "gone" /\ \A x \in Credentials \ {c} : cred'[x] = cred[x]
        BY Zenon, <3>1 DEF Readable, C!NoCred
      <3> QED BY Zenon, <3>1, <3>2 DEF Readable, C!GetCredential, C!Decrypts
    <2>3. ASSUME NEW k \in EncryptionKeys, C!Start(k) PROVE Readable'
      BY Zenon, <2>3 DEF C!Start, Readable, C!LiveCreds, C!GetCredential, C!Decrypts
    <2> QED BY Zenon, <2>1, <2>2, <2>3, WritesReadable DEF C!Next
  <1>3. Readable => CredentialsRead
    BY DEF Readable, CredentialsRead, C!CredentialsRead, C!LiveCreds
  <1> QED BY <1>1, <1>2, <1>3, PTL DEF C!Spec
=============================================================================
