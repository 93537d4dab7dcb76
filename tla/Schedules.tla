----------------------------- MODULE Schedules ------------------------------
(***************************************************************************)
(* Scheduled scans and scan profiles: the requests that change them, what  *)
(* a start of the server does to them, and ScheduledScanWorker, which runs *)
(* the schedules it found at the start.                                    *)
(*                                                                         *)
(* The worker keeps a copy of each enabled schedule.  No request reaches   *)
(* it: AddSchedule and RemoveSchedule have no caller.  A run that started  *)
(* its scan writes the whole copy back.                                    *)
(***************************************************************************)
EXTENDS Integers, FiniteSets

CONSTANTS Schedules, Profiles,
          Configs,        \* what requests ask of a schedule
          DefaultName,    \* the seeded profiles: [identifier -> name]
          Names,          \* names of profiles, the seeded ones among them
          MaxStarts

VARIABLES up,
          sched,     \* rows of scheduled_scans
          prof,      \* rows of scan_profiles
          jobs,      \* jobs[s]: <<>>, or <<copy>> of the schedule of a cron entry
          run,       \* schedules whose run has started its scan
          asked,     \* history: what the last request, or the start, left of s
          starts

vars == <<up, sched, prof, jobs, run, asked, starts>>

NoConfig == CHOOSE c \in Configs : TRUE
ConfigOf(row) == [on |-> row.on, cron |-> row.cron, prof |-> row.prof]
\* on: enabled; cron: whether the expression parses; ran: last_run_at is set.
Row(c, ran) == [st |-> "live", ran |-> ran, on |-> c.on, cron |-> c.cron, prof |-> c.prof]
Absent(st) == [Row(NoConfig, FALSE) EXCEPT !.st = st]
NoProfile(st) == [st |-> st, name |-> "none", edited |-> FALSE]

Init ==
  /\ up = FALSE
  /\ sched = [s \in Schedules |-> Absent("fresh")]
  /\ prof = [p \in Profiles |-> NoProfile("fresh")]
  /\ jobs = [s \in Schedules |-> <<>>]
  /\ run = {} /\ starts = 0
  /\ asked = [s \in Schedules |-> NoConfig]

LiveScheds == {s \in Schedules : sched[s].st = "live"}
-----------------------------------------------------------------------------
(* Scheduled scans *)

\* The expression parses and its runs are five minutes apart.
Validate(c) == c.cron = "ok"

CreateSchedule(s, c) ==
  /\ sched[s].st = "fresh" /\ Validate(c)
  /\ sched' = [sched EXCEPT ![s] = Row(c, FALSE)]

\* Mutant: the statement does not name the schedule, only its profile.
UpdateScheduleOfProfile(s, row) ==
  sched' = [t \in Schedules |->
              IF t \in LiveScheds /\ (t = s \/ sched[t].prof = row.prof) THEN row ELSE sched[t]]

\* The whole row, unvalidated; no row is not an error for the worker.
UpdateSchedule(s, row) == sched' = [sched EXCEPT ![s] = IF @.st = "live" THEN row ELSE @]

DeleteSchedule(s) == s \in LiveScheds /\ sched' = [sched EXCEPT ![s] = Absent("gone")]

Ask(s, c) == asked' = [asked EXCEPT ![s] = c]

ScheduledScanCreate(s, c) == CreateSchedule(s, c) /\ Ask(s, c)

createScheduledScan(s, c) ==
  /\ up /\ ScheduledScanCreate(s, c)
  /\ UNCHANGED <<up, prof, jobs, run, starts>>

\* The row of the request, without a time of the last run.
ScheduledScanUpdate(s, c) == s \in LiveScheds /\ UpdateSchedule(s, Row(c, FALSE)) /\ Ask(s, c)

updateScheduledScan(s, c) ==
  /\ up /\ ScheduledScanUpdate(s, c)
  /\ UNCHANGED <<up, prof, jobs, run, starts>>

deleteScheduledScan(s) ==
  /\ up /\ DeleteSchedule(s)
  /\ UNCHANGED <<up, prof, jobs, run, asked, starts>>
-----------------------------------------------------------------------------
(* Scan profiles *)

ProfileNamed(name) == {p \in Profiles : prof[p].st = "live" /\ prof[p].name = name}

CreateProfile(p, name) ==
  /\ prof[p].st # "live" /\ ProfileNamed(name) = {}
  /\ prof' = [prof EXCEPT ![p] = [st |-> "live", name |-> name, edited |-> FALSE]]

UpdateProfile(p, name) ==
  /\ prof[p].st = "live" /\ ProfileNamed(name) \subseteq {p}
  /\ prof' = [prof EXCEPT ![p] = [st |-> "live", name |-> name, edited |-> TRUE]]

DeleteProfile(p) == prof[p].st = "live" /\ prof' = [prof EXCEPT ![p] = NoProfile("gone")]

\* Each default whose identifier is free is created; where its name is
\* taken the error is dropped.
seedDefaults(before) ==
  [p \in Profiles |->
     IF p \in DOMAIN DefaultName /\ before[p].st # "live" /\ ProfileNamed(DefaultName[p]) = {}
     THEN [st |-> "live", name |-> DefaultName[p], edited |-> FALSE]
     ELSE before[p]]

\* The identifier of a new profile is a new one.
ScanProfileCreate(p, name) == prof[p].st = "fresh" /\ CreateProfile(p, name)

createProfile(p, name) ==
  /\ up /\ ScanProfileCreate(p, name)
  /\ UNCHANGED <<up, sched, jobs, run, asked, starts>>

updateProfile(p, name) ==
  /\ up /\ UpdateProfile(p, name)
  /\ UNCHANGED <<up, sched, jobs, run, asked, starts>>

deleteProfile(p) ==
  /\ up /\ DeleteProfile(p)
  /\ UNCHANGED <<up, sched, jobs, run, asked, starts>>
-----------------------------------------------------------------------------
(* ScheduledScanWorker *)

\* AddFunc refuses an expression that does not parse.
Scheduled == {s \in LiveScheds : sched[s].on /\ sched[s].cron = "ok"}

\* Each job's copy is written back with the time of the next run.
scheduleJob(s) == <<sched[s]>>

\* The server starts: the defaults, the worker.  It
\* takes requests only afterwards.
Start ==
  /\ ~up /\ starts < MaxStarts
  /\ up' = TRUE /\ starts' = starts + 1
  /\ prof' = seedDefaults(prof)
  /\ jobs' = [s \in Schedules |-> IF s \in Scheduled THEN scheduleJob(s) ELSE <<>>]
  /\ asked' = [s \in Schedules |-> ConfigOf(sched[s])]
  /\ UNCHANGED <<sched, run>>

\* A cron entry fires.  A missing profile or network ends the run; else the
\* scan is started.
runScheduledScan(s) ==
  /\ up /\ jobs[s] # <<>> /\ s \notin run
  /\ prof[jobs[s][1].prof].st = "live"
  /\ run' = run \cup {s}
  /\ UNCHANGED <<up, sched, prof, jobs, asked, starts>>

WriteBack(s) ==
  /\ s \in run
  /\ jobs' = [jobs EXCEPT ![s][1].ran = TRUE]
  /\ UpdateSchedule(s, jobs'[s][1])
  /\ run' = run \ {s}
  /\ UNCHANGED <<up, prof, asked, starts>>

\* A stop waits for the runs in flight, a crash does not.
Stop ==
  /\ up /\ up' = FALSE
  /\ jobs' = [s \in Schedules |-> <<>>] /\ run' = {}
  /\ UNCHANGED <<sched, prof, asked, starts>>

Next ==
  \/ \E s \in Schedules, c \in Configs : createScheduledScan(s, c) \/ updateScheduledScan(s, c)
  \/ \E s \in Schedules : deleteScheduledScan(s) \/ runScheduledScan(s) \/ WriteBack(s)
  \/ \E p \in Profiles, n \in Names : createProfile(p, n) \/ updateProfile(p, n)
  \/ \E p \in Profiles : deleteProfile(p)
  \/ Start
  \/ Stop

Spec == Init /\ [][Next]_vars
-----------------------------------------------------------------------------
(* Properties *)

\* What a schedule says is what the last request asked for or what it said
\* when this process started, which is as much as a write-back can undo; and
\* never what another schedule says.
ConfigIsItsOwn ==
  up => \A s \in LiveScheds :
          \/ ConfigOf(sched[s]) = asked[s]
          \/ jobs[s] # <<>> /\ ConfigOf(sched[s]) = ConfigOf(jobs[s][1])

=============================================================================
