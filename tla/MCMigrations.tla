---------------------------- MODULE MCMigrations ----------------------------
(* The server's start, what runs behind its requests and its stop, one module  *)
(* of them per behaviour: Migrations, the webhook worker, the audit goroutine  *)
(* or the life of the workers runs, and the variables of the others stay as    *)
(* they began.                                                                 *)
EXTENDS Migrations, Server

VARIABLE which

hVars == <<hook, row, event, flight, batch, hReq, sent, count, crashes>>
aVars == <<at, committed, auditChan, hand, logged, dropped, lost, failed, stops>>
lVars == <<loop, running, cancelled, job, cron, req, listening, signal, main, late>>

MCInit ==
  /\ which \in {"migrations", "webhooks", "audit", "lifecycle"}
  /\ Init /\ W!Init /\ A!Init /\ L!Init
  /\ which # "webhooks" => W!GetWebhook(CHOOSE w \in Hooks : TRUE)
  /\ which # "lifecycle" => loop[L!Scheduler] = "select"

MCNext ==
  /\ UNCHANGED which
  /\ \/ which = "migrations" /\ Next /\ UNCHANGED <<hVars, aVars, lVars>>
     \/ which = "webhooks" /\ W!Next /\ UNCHANGED <<vars, aVars, lVars>>
     \/ which = "audit" /\ A!Next /\ UNCHANGED <<vars, hVars, lVars>>
     \/ which = "lifecycle" /\ L!Next /\ UNCHANGED <<vars, hVars, aVars>>

\* The fairness of the module that runs.
MCFairness ==
  /\ \A e \in Events : /\ WF_hVars(which = "webhooks" /\ W!handleEvent(e))
                       /\ WF_hVars(which = "webhooks" /\ W!Acquire(e))
  /\ \A d \in W!Ids : /\ WF_hVars(which = "webhooks" /\ W!Deliver(d))
                      /\ WF_hVars(which = "webhooks" /\ W!Record(d))
                      /\ WF_hVars(which = "webhooks" /\ W!Due(d))
  /\ WF_hVars(which = "webhooks" /\ W!Ticker)
  /\ WF_lVars(which = "lifecycle" /\ L!Stopping)
  /\ \A l \in L!Loops : /\ WF_lVars(which = "lifecycle" /\ L!EndPass(l))
                        /\ SF_lVars(which = "lifecycle" /\ L!ContextDone(l))
  /\ \A j \in Jobs : WF_lVars(which = "lifecycle" /\ L!EndJob(j))

MCSpec == MCInit /\ [][MCNext]_<<which, vars, hVars, aVars, lVars>> /\ MCFairness
=============================================================================
