------------------------------- MODULE Server -------------------------------
(* The parts of the server that run beside the requests, side by side: how it  *)
(* stops (Lifecycle), what it sends (Webhooks) and what it logs (AuditQueue).  *)
(* Each is an instance with variables and a specification of its own.          *)

CONSTANTS Jobs, Calls,
          Hooks, Events, MaxRetries, maxConcurrentDeliveries, MaxRequests, MaxCrashes,
          Writers, Changes, Capacity, MaxStops

VARIABLES loop, running, cancelled, job, cron, req, listening, signal, main, late,
          hook, row, event, flight, batch, hReq, sent, count, crashes,
          at, committed, auditChan, hand, logged, dropped, lost, failed, stops

L == INSTANCE Lifecycle WITH Requests <- Calls
W == INSTANCE Webhooks WITH req <- hReq
A == INSTANCE AuditQueue WITH cut <- lost
-----------------------------------------------------------------------------
(* Properties *)

\* A server that ends after a signal cuts off no pass and no job, and a request
\* only if server.Shutdown gave up on it.
NothingIsCutOff == L!NothingIsCutOff

\* A server that gets the signal ends.
SignalEnds == L!SignalEnds

\* A delivery is sent at most MaxRetries times, and once more per crash.
AttemptsBounded == W!AttemptsBounded

\* A delivery that waits for a retry comes to an end.
RetriesEnd == W!RetriesEnd

\* A committed change is in the audit log or on its way there, except for the
\* losses on record.
ChangesAreLogged == A!ChangesAreLogged
=============================================================================
