------------------------------- MODULE Setup --------------------------------
(* What an administrator sets up besides the accounts, side by side: scheduled *)
(* scans with their profiles (Schedules) and encrypted credentials             *)
(* (Credentials).  Each is an instance with variables and a specification of   *)
(* its own.                                                                    *)

CONSTANTS Schedules, Profiles, Configs, DefaultName, ProfileNames, MaxRestarts,
          Credentials, Secrets, EncryptionKeys, MaxStarts

VARIABLES up, sched, prof, jobs, run, asked, starts,
          cUp, cKey, cred, old, cStarts

S == INSTANCE Schedules WITH Names <- ProfileNames, MaxStarts <- MaxRestarts
C == INSTANCE Credentials WITH Keys <- EncryptionKeys, up <- cUp, key <- cKey, starts <- cStarts
-----------------------------------------------------------------------------
(* Properties *)

\* The row of a schedule has the configuration of one request as a whole, also
\* after the write-back of a run.
ConfigIsItsOwn == S!ConfigIsItsOwn

\* Every credential written under the present key decrypts to what its type
\* needs.
CredentialsRead == C!CredentialsRead
=============================================================================
