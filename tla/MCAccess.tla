------------------------------ MODULE MCAccess ------------------------------
(* What an administrator sets up, one module of it per behaviour: Access,      *)
(* Schedules, Credentials or the limiter of their requests runs, and the       *)
(* variables of the others stay as they began.                                 *)
EXTENDS Access, Setup, Limiter, TLC

VARIABLE which

sVars == <<up, sched, prof, jobs, run, asked, starts>>
cVars == <<cUp, cKey, cred, old, cStarts>>
lVars == <<clients, bucket, lReq, spent, raced>>

MCGrantable == {<<"users", "delete">>}
MCConfigs == {[on |-> TRUE, cron |-> "ok", prof |-> "quick"],
              [on |-> FALSE, cron |-> "ok", prof |-> "quick"],
              [on |-> TRUE, cron |-> "ok", prof |-> "mine"],
              [on |-> TRUE, cron |-> "bad", prof |-> "mine"]}
MCDefaultName == [p \in {"quick"} |-> "Quick Scan"]
Sym == Permutations(Reqs)

MCInit ==
  /\ which \in {"access", "schedules", "credentials", "limiter"}
  /\ Init /\ S!Init /\ C!Init /\ L!Init
  /\ which # "credentials" => cKey = CHOOSE k \in EncryptionKeys : TRUE

MCNext ==
  /\ UNCHANGED which
  /\ \/ which = "access" /\ Next /\ UNCHANGED <<sVars, cVars, lVars>>
     \/ which = "schedules" /\ S!Next /\ UNCHANGED <<vars, cVars, lVars>>
     \/ which = "credentials" /\ C!Next /\ UNCHANGED <<vars, sVars, lVars>>
     \/ which = "limiter" /\ L!Next /\ UNCHANGED <<vars, sVars, cVars>>

MCSpec == MCInit /\ [][MCNext]_<<which, vars, sVars, cVars, lVars>>
=============================================================================
