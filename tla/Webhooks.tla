-------------------------------- MODULE Webhooks --------------------------------
(* Webhook delivery: events published on the bus, the worker's goroutines that  *)
(* send them under a semaphore, the ticker that retries what failed, and the    *)
(* handlers that change the subscriptions meanwhile.  A delivery row is known   *)
(* by its hook and its event.  The URL, the secret and the payload are left     *)
(* out; a send succeeds or fails as it pleases.  The package is modelled as its *)
(* tests run it: the server creates no worker and publishes no event.           *)
EXTENDS Naturals, FiniteSets

CONSTANTS Hooks, Events,
          MaxRetries,               \* DeliveryConfig.MaxRetries
          maxConcurrentDeliveries,  \* the semaphore's capacity
          MaxRequests, MaxCrashes   \* bounds on a behaviour

VARIABLES hook,    \* webhooks rows: st, active, subs (the event's type is subscribed to)
          row,     \* webhook_deliveries: st, status, n (attempt_number), next (next_retry)
          event,   \* per event: pc, and the hooks handleEvent has still to start
          flight,  \* delivery goroutines: what they are doing
          batch,   \* the ticker's goroutine: pc, rows left, the copy in hand
          req,     \* a handler between its read and its write
          sent,    \* sends of each delivery so far
          count, crashes

vars == <<hook, row, event, flight, batch, req, sent, count, crashes>>

Ids == Hooks \X Events
NoRow == [st |-> "none", status |-> "none", n |-> 0, next |-> "none"]
NoBatch == [pc |-> "idle", left |-> {}, id |-> <<>>, n |-> 0]
Idle == [pc |-> "idle", w |-> "none", active |-> FALSE, subs |-> FALSE]
Rows == {d \in Ids : row[d].st = "live"}

-----------------------------------------------------------------------------
(* The store.                                                                  *)

GetWebhook(w) == hook[w].st = "live"
GetWebhooksForEvent == {w \in Hooks : GetWebhook(w) /\ hook[w].active /\ hook[w].subs}

\* INSERT; webhook_id REFERENCES webhooks, and the error is only logged.
CreateDelivery(d, r) == row' = IF GetWebhook(d[1]) THEN [row EXCEPT ![d] = r] ELSE row

\* UPDATE ... WHERE id: a row that is gone stays so.
UpdateDelivery(d, r) == row' = IF d \in Rows THEN [row EXCEPT ![d] = r] ELSE row

GetPendingDeliveries == {d \in Rows : row[d].status \in {"pending", "retrying"} /\ row[d].next = "due"}

DeleteOldDeliveries(old) == row' = [d \in Ids |-> IF d \in old THEN [NoRow EXCEPT !.st = "gone"] ELSE row[d]]

\* The rows of the hook cascade; the second DELETE finds none.
DeleteWebhook(w) ==
    /\ GetWebhook(w)
    /\ hook' = [hook EXCEPT ![w] = [st |-> "gone", active |-> FALSE, subs |-> FALSE]]
    /\ row' = [d \in Ids |-> IF d \in Rows /\ d[1] = w THEN [NoRow EXCEPT !.st = "gone"] ELSE row[d]]

-----------------------------------------------------------------------------
(* Subscriptions.                                                              *)

Begin == req.pc = "idle" /\ count < MaxRequests /\ count' = count + 1

CreateWebhook(w, active) ==
    hook' = [hook EXCEPT ![w] = [st |-> "live", active |-> active, subs |-> TRUE]]

\* A name, a valid URL and at least one event type are asked for.
WebhookCreate(w, active) == hook[w].st = "none" /\ CreateWebhook(w, active)
createWebhook(w, active) ==
    /\ Begin /\ WebhookCreate(w, active)
    /\ UNCHANGED <<row, event, flight, batch, req, sent, crashes>>

\* Update reads the row; the fields that are given replace those read.
WebhookUpdate(w, active, subs) ==
    /\ GetWebhook(w)
    /\ req' = [pc |-> "write", w |-> w, active |-> active, subs |-> subs]
updateWebhook(w, active, subs) ==
    /\ Begin /\ WebhookUpdate(w, active, subs)
    /\ UNCHANGED <<hook, row, event, flight, batch, sent, crashes>>

\* UPDATE of the whole row; one that is gone is an error.
UpdateWebhook ==
    /\ req.pc = "write"
    /\ hook' = IF GetWebhook(req.w)
               THEN [hook EXCEPT ![req.w] = [st |-> "live", active |-> req.active, subs |-> req.subs]]
               ELSE hook
    /\ req' = Idle
    /\ UNCHANGED <<row, event, flight, batch, sent, count, crashes>>

\* The tool of the MCP server: an empty id creates; the events of an update
\* are kept when it gives none.
handleWebhookSave(w) == \E active \in BOOLEAN :
    \/ createWebhook(w, active)
    \/ \E subs \in {TRUE, hook[w].subs} : updateWebhook(w, active, subs)

WebhookDelete(w) == DeleteWebhook(w)
deleteWebhook(w) ==
    /\ Begin /\ WebhookDelete(w)
    /\ UNCHANGED <<event, flight, batch, req, sent, crashes>>

-----------------------------------------------------------------------------
(* First deliveries.                                                           *)

\* The bus starts one goroutine per subscriber of the bus: the worker is the only one.
Publish(e) ==
    /\ event[e].pc = "new"
    /\ event' = [event EXCEPT ![e].pc = "published"]
    /\ UNCHANGED <<hook, row, flight, batch, req, sent, count, crashes>>

handleEvent(e) ==
    /\ event[e].pc = "published"
    /\ event' = [event EXCEPT ![e] = [pc |-> "deliver", left |-> GetWebhooksForEvent]]
    /\ UNCHANGED <<hook, row, flight, batch, req, sent, count, crashes>>

Busy == {d \in Ids : flight[d] # "none"}

\* w.sem <- struct{}{}: waits for a place, then starts the goroutine.
Acquire(e) ==
    /\ event[e].pc = "deliver" /\ Cardinality(Busy) < maxConcurrentDeliveries
    /\ \E w \in event[e].left :
          /\ event' = [event EXCEPT ![e].left = @ \ {w}]
          /\ flight' = [flight EXCEPT ![<<w, e>>] = "send"]
    /\ UNCHANGED <<hook, row, batch, req, sent, count, crashes>>

\* sendHTTPRequest: an answer, or an error within HTTPTimeout.
Send(d) == sent' = [sent EXCEPT ![d] = @ + 1]

Deliver(d) ==
    /\ flight[d] = "send"
    /\ Send(d)
    /\ \E outcome \in {"ok", "error"} : flight' = [flight EXCEPT ![d] = outcome]
    /\ UNCHANGED <<hook, row, event, batch, req, count, crashes>>

\* What the first attempt leaves: with retries configured a failure is due again.
FirstRow(outcome) ==
    [st |-> "live", n |-> 1,
     status |-> IF outcome = "ok" THEN "success" ELSE IF MaxRetries > 0 THEN "retrying" ELSE "failed",
     next |-> IF outcome = "error" /\ MaxRetries > 0 THEN "later" ELSE "none"]

\* The row, and the deferred release of the semaphore.
Record(d) ==
    /\ flight[d] \in {"ok", "error"}
    /\ CreateDelivery(d, FirstRow(flight[d]))
    /\ flight' = [flight EXCEPT ![d] = "none"]
    /\ UNCHANGED <<hook, event, batch, req, sent, count, crashes>>

-----------------------------------------------------------------------------
(* The ticker.                                                                 *)

\* next_retry passes.
Due(d) ==
    /\ d \in Rows /\ row[d].next = "later"
    /\ row' = [row EXCEPT ![d].next = "due"]
    /\ UNCHANGED <<hook, event, flight, batch, req, sent, count, crashes>>

\* One query for the whole batch; the rest works on the copies.
processRetries ==
    /\ batch.pc = "idle" /\ GetPendingDeliveries # {}
    /\ batch' = [NoBatch EXCEPT !.pc = "next", !.left = {<<d, row[d].n>> : d \in GetPendingDeliveries}]
    /\ UNCHANGED <<hook, row, event, flight, req, sent, count, crashes>>

\* The hook of the next delivery is looked up; a missing or inactive one abandons it.
ProcessPendingRetries ==
    /\ batch.pc = "next"
    /\ \E x \in batch.left :
          LET d == x[1]
              left == batch.left \ {x}
          IN IF GetWebhook(d[1]) /\ hook[d[1]].active
             THEN batch' = [pc |-> "send", left |-> left, id |-> d, n |-> x[2] + 1] /\ UNCHANGED row
             ELSE /\ UpdateDelivery(d, [row[d] EXCEPT !.status = "abandoned"])
                  /\ batch' = [batch EXCEPT !.left = left]
    /\ UNCHANGED <<hook, event, flight, req, sent, count, crashes>>

Resend ==
    /\ batch.pc = "send"
    /\ Send(batch.id)
    /\ \E outcome \in {"ok", "error"} : batch' = [batch EXCEPT !.pc = outcome]
    /\ UNCHANGED <<hook, row, event, flight, req, count, crashes>>

\* Mutant: one attempt too many.
AgainOnce(n) == n <= MaxRetries
Again(n) == n < MaxRetries

\* Mutant: next_retry is cleared and not set again.
RetriedRowLost(outcome, n) ==
    [st |-> "live", n |-> n, next |-> "none",
     status |-> IF outcome = "ok" THEN "success" ELSE IF Again(n) THEN "retrying" ELSE "failed"]
RetriedRow(outcome, n) ==
    [st |-> "live", n |-> n,
     status |-> IF outcome = "ok" THEN "success" ELSE IF Again(n) THEN "retrying" ELSE "failed",
     next |-> IF outcome = "error" /\ Again(n) THEN "later" ELSE "none"]

RecordRetry ==
    /\ batch.pc \in {"ok", "error"}
    /\ UpdateDelivery(batch.id, RetriedRow(batch.pc, batch.n))
    /\ batch' = [NoBatch EXCEPT !.pc = "next", !.left = batch.left]
    /\ UNCHANGED <<hook, event, flight, req, sent, count, crashes>>

\* The batch is done: rows past the retention go, and the ticker waits.
cleanup ==
    /\ batch.pc = "next" /\ batch.left = {}
    /\ \E old \in SUBSET Rows : DeleteOldDeliveries(old)
    /\ batch' = NoBatch
    /\ UNCHANGED <<hook, event, flight, req, sent, count, crashes>>

\* The process dies: goroutines, batch and events not yet sent are lost.
Crash ==
    /\ crashes < MaxCrashes /\ crashes' = crashes + 1
    /\ event' = [e \in Events |-> IF event[e].pc \in {"published", "deliver"}
                                  THEN [pc |-> "lost", left |-> {}] ELSE event[e]]
    /\ flight' = [d \in Ids |-> "none"]
    /\ batch' = NoBatch /\ req' = Idle
    /\ UNCHANGED <<hook, row, sent, count>>

-----------------------------------------------------------------------------
\* One active hook that is subscribed, the others not yet created.
Init ==
    /\ \E w0 \in Hooks :
          hook = [w \in Hooks |-> [st |-> IF w = w0 THEN "live" ELSE "none", active |-> w = w0,
                                   subs |-> w = w0]]
    /\ row = [d \in Ids |-> NoRow]
    /\ event = [e \in Events |-> [pc |-> "new", left |-> {}]]
    /\ flight = [d \in Ids |-> "none"]
    /\ batch = NoBatch /\ req = Idle
    /\ sent = [d \in Ids |-> 0]
    /\ count = 0 /\ crashes = 0

Requests ==
    \/ UpdateWebhook
    \/ \E w \in Hooks : \/ deleteWebhook(w) \/ handleWebhookSave(w)
                        \/ \E a \in BOOLEAN : \/ createWebhook(w, a)
                                              \/ \E s \in BOOLEAN : updateWebhook(w, a, s)
Goroutines ==
    \/ \E e \in Events : handleEvent(e) \/ Acquire(e)
    \/ \E d \in Ids : Deliver(d) \/ Record(d)
Ticker == processRetries \/ ProcessPendingRetries \/ Resend \/ RecordRetry \/ cleanup

Next ==
    \/ Requests \/ Goroutines \/ Ticker \/ Crash
    \/ \E d \in Ids : Due(d)
    \/ \E e \in Events : Publish(e)

\* Goroutines run, the client's timeout ends every send, time passes and the
\* ticker ticks.
Fairness ==
    /\ \A e \in Events : WF_vars(handleEvent(e)) /\ WF_vars(Acquire(e))
    /\ \A d \in Ids : WF_vars(Deliver(d)) /\ WF_vars(Record(d)) /\ WF_vars(Due(d))
    /\ WF_vars(Ticker)

Spec == Init /\ [][Next]_vars /\ Fairness

-----------------------------------------------------------------------------
(* Properties.                                                                 *)

\* The first attempt looks only at whether retries are configured, so that one
\* retry is made even if MaxRetries is 1.
MostAttempts == IF MaxRetries < 2 THEN MaxRetries + 1 ELSE MaxRetries

\* A delivery is sent at most MostAttempts times in all, the first time included;
\* each crash may repeat the one attempt whose record it lost.
AttemptsBounded == \A d \in Ids : sent[d] <= MostAttempts + crashes

\* A delivery that waits for a retry comes to an end: no retry is forgotten.
RetriesEnd ==
    \A d \in Ids : (d \in Rows /\ row[d].status = "retrying")
                       ~> ~(d \in Rows /\ row[d].status = "retrying")

=============================================================================
