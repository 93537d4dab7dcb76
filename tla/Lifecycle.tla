----------------------------- MODULE Lifecycle ------------------------------
(***************************************************************************)
(* How the server stops: the goroutine that waits for the signal, the main *)
(* goroutine, the two workers built as a loop over a ticker and a context  *)
(* (Scheduler and DNSWorker), the jobs of ScheduledScanWorker's cron and   *)
(* the requests in flight.                                                 *)
(*                                                                         *)
(* A select whose channels are both ready takes either.                    *)
(***************************************************************************)
EXTENDS Integers, FiniteSets

CONSTANTS Jobs,         \* cron entries
          Requests

Scheduler == "scheduler"
DNS == "dns"
Loops == {Scheduler, DNS}

VARIABLES loop,       \* loop[l]: "select", "pass" or "done"
          running,    \* the flag of each worker
          cancelled,  \* loops whose context is cancelled
          job,        \* job[j]: "idle" or "runs"
          cron,       \* the cron starts jobs
          req,        \* req[p]: "none", "runs", "left" (answered by the
                      \* timeout while its handler goes on) or "done"
          listening,
          signal,     \* where the goroutine of the signal is
          main,       \* where RunWithAdvancedFeatures is
          late        \* history: server.Shutdown gave up on its 30 seconds

vars == <<loop, running, cancelled, job, cron, req, listening, signal, main, late>>

\* NewScheduler.Start, ScheduledScanWorker.Start, DNSWorker.Start, and
\* ListenAndServe: the DNS worker's first pass is made at once, the
\* scheduler's if DiscoveryScanOnStartup is set.
Init ==
  /\ loop \in {f \in [Loops -> {"select", "pass"}] : f[DNS] = "pass"}
  /\ running = [l \in Loops |-> TRUE]
  /\ cancelled = {}
  /\ job = [j \in Jobs |-> "idle"]
  /\ cron = TRUE
  /\ req = [p \in Requests |-> "none"]
  /\ listening = TRUE
  /\ signal = "waits" /\ main = "serves"
  /\ late = FALSE

Exited == main \in {"exited", "failed"}
-----------------------------------------------------------------------------
(* The workers, the cron and the requests *)

others == <<running, cancelled, job, cron, req, listening, signal, main, late>>

\* run: the ticker fires, the pass is made ...
TickLoop(l) ==
  /\ ~Exited /\ loop[l] = "select"
  /\ loop' = [loop EXCEPT ![l] = "pass"]
  /\ UNCHANGED others

\* ... statement by statement, each refused once the context is cancelled.
EndPass(l) ==
  /\ ~Exited /\ loop[l] = "pass"
  /\ loop' = [loop EXCEPT ![l] = "select"]
  /\ UNCHANGED others

ContextDone(l) ==
  /\ ~Exited /\ loop[l] = "select" /\ l \in cancelled
  /\ loop' = [loop EXCEPT ![l] = "done"]
  /\ UNCHANGED others

FireJob(j) ==
  /\ ~Exited /\ cron /\ job[j] = "idle"
  /\ job' = [job EXCEPT ![j] = "runs"]
  /\ UNCHANGED <<loop, running, cancelled, cron, req, listening, signal, main, late>>

EndJob(j) ==
  /\ ~Exited /\ job[j] = "runs"
  /\ job' = [job EXCEPT ![j] = "idle"]
  /\ UNCHANGED <<loop, running, cancelled, cron, req, listening, signal, main, late>>

BeginRequest(p) ==
  /\ listening /\ req[p] = "none"
  /\ req' = [req EXCEPT ![p] = "runs"]
  /\ UNCHANGED <<loop, running, cancelled, job, cron, listening, signal, main, late>>

\* http.TimeoutHandler answers for a handler that is still at work.
TimeoutRequest(p) ==
  /\ ~Exited /\ req[p] = "runs"
  /\ req' = [req EXCEPT ![p] = "left"]
  /\ UNCHANGED <<loop, running, cancelled, job, cron, listening, signal, main, late>>

EndRequest(p) ==
  /\ ~Exited /\ req[p] \in {"runs", "left"}
  /\ req' = [req EXCEPT ![p] = "done"]
  /\ UNCHANGED <<loop, running, cancelled, job, cron, listening, signal, main, late>>
-----------------------------------------------------------------------------
(* Stop of a worker: the flag, the context, then the wait for the loop *)

\* Mutant: the context is not cancelled.
StopLoopOnly(l) == running' = [running EXCEPT ![l] = FALSE] /\ UNCHANGED cancelled

StopLoop(l) == running' = [running EXCEPT ![l] = FALSE] /\ cancelled' = cancelled \cup {l}

\* Mutant: nobody waits for the loop.
WaitedNot(l) == TRUE

Waited(l) == loop[l] = "done"

StopCron == cron' = FALSE

\* Mutant: the jobs in flight are left to themselves.
CronDoneAtOnce == TRUE

CronDone == \A j \in Jobs : job[j] = "idle"
-----------------------------------------------------------------------------
(* The goroutine of the signal *)

Signal ==
  /\ ~Exited /\ signal = "waits"
  /\ StopLoop(Scheduler)
  /\ signal' = "scheduler"
  /\ UNCHANGED <<loop, job, cron, req, listening, main, late>>

StopScheduledWorker ==
  /\ ~Exited /\ signal = "scheduler" /\ Waited(Scheduler)
  /\ StopCron
  /\ signal' = "cron"
  /\ UNCHANGED <<loop, running, cancelled, job, req, listening, main, late>>

\* The listener closes; ListenAndServe returns at once.
Shutdown ==
  /\ ~Exited /\ signal = "cron" /\ CronDone
  /\ listening' = FALSE
  /\ signal' = "requests"
  /\ UNCHANGED <<loop, running, cancelled, job, cron, req, main, late>>

ShutdownEnds ==
  /\ ~Exited /\ signal = "requests"
  /\ late' = \E p \in Requests : req[p] = "runs"
  /\ signal' = "sent"
  /\ UNCHANGED <<loop, running, cancelled, job, cron, req, listening, main>>

\* The main goroutine receives from errCh; its deferred calls stop the DNS
\* worker and the session manager, then the process ends.
Receive ==
  /\ main = "serves" /\ signal = "sent"
  /\ StopLoop(DNS)
  /\ main' = "stops"
  /\ UNCHANGED <<loop, job, cron, req, listening, signal, late>>

\* ListenAndServe fails by itself: only the deferred calls are made.
ListenFails ==
  /\ main = "serves" /\ listening
  /\ listening' = FALSE
  /\ StopLoop(DNS)
  /\ main' = "aborts"
  /\ UNCHANGED <<loop, job, cron, req, signal, late>>

Exit ==
  /\ main \in {"stops", "aborts"} /\ Waited(DNS)
  /\ main' = IF main = "stops" THEN "exited" ELSE "failed"
  /\ UNCHANGED <<loop, running, cancelled, job, cron, req, listening, signal, late>>

Stopping == StopScheduledWorker \/ Shutdown \/ ShutdownEnds \/ Receive \/ Exit

Next ==
  \/ \E l \in Loops : TickLoop(l) \/ EndPass(l) \/ ContextDone(l)
  \/ \E j \in Jobs : FireJob(j) \/ EndJob(j)
  \/ \E p \in Requests : BeginRequest(p) \/ TimeoutRequest(p) \/ EndRequest(p)
  \/ Signal
  \/ ListenFails
  \/ Stopping

Spec == Init /\ [][Next]_vars

\* The passes, which do nothing more once their context is cancelled, and
\* the jobs, which start a scan and return, end.  A select does not take the
\* ticker for ever when the context is done.  Of a request nothing is
\* assumed: ShutdownEnds is the end of the requests or of the 30 seconds.
FairSpec ==
  /\ Spec /\ WF_vars(Stopping)
  /\ \A l \in Loops : WF_vars(EndPass(l)) /\ SF_vars(ContextDone(l))
  /\ \A j \in Jobs : WF_vars(EndJob(j))
-----------------------------------------------------------------------------
(* Properties *)

\* When the process ends after a signal, no pass of a worker and no scheduled
\* job is cut off in the middle; an unanswered request is only when Shutdown
\* ran out of its 30 seconds.
NothingIsCutOff ==
  main = "exited" =>
    /\ \A l \in Loops : loop[l] = "done"
    /\ \A j \in Jobs : job[j] = "idle"
    /\ (\E p \in Requests : req[p] = "runs") => late

\* The server ends after the signal: no worker waits for another.
SignalEnds == signal # "waits" ~> Exited
=============================================================================
