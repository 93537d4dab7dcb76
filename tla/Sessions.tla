------------------------------- MODULE Sessions -------------------------------
(* Login sessions over the three session stores (SQLite, Valkey, memory), with *)
(* the operations that are meant to end them: logout, change and reset of the  *)
(* password, removal of the user, expiry and its cleanup, and a server restart.*)
(* Every authenticated request refreshes its session: it reads the session,    *)
(* reads it again, and saves it with a new deadline.  Permission checks are    *)
(* Access's subject; here the caller passes them.                              *)
EXTENDS Naturals, FiniteSets

CONSTANTS Reqs, Users, Tokens, NoUser, NoToken,
          MaxEpoch       \* bound on password changes and removals

VARIABLES store,   \* which store the server is configured with
          user,    \* users rows: st, active
          epoch,   \* per user: password changes and removals so far
          sess,    \* the stored sessions
          idx,     \* Valkey's set of tokens per user
          used,    \* tokens handed out
          req,     \* requests in flight
          dead,    \* tokens that were logged out or swept
          late     \* tokens whose survival a race or a crash explains

vars == <<store, user, epoch, sess, idx, used, req, dead, late>>

None == [u |-> NoUser, g |-> 0, exp |-> FALSE]
Idle == [pc |-> "idle", op |-> "none", u |-> NoUser, t |-> NoToken, s |-> None,
         row |-> FALSE, found |-> {}, dirty |-> FALSE]

Live(t) == sess[t] # None

-----------------------------------------------------------------------------
(* The stores.                                                                 *)

\* INSERT ... ON CONFLICT DO UPDATE, with the foreign key on users (SQLite); a
\* map entry (memory); SET.  A failed save is ignored by its callers.
Save(t, s) ==
    sess' = IF store = "sqlite" /\ user[s.u].st # "live" THEN sess
            ELSE [sess EXCEPT ![t] = s]

\* The index entry Valkey keeps beside the session.
SaveIndex(t, u) == idx' = IF store = "valkey" THEN [idx EXCEPT ![u] = @ \cup {t}] ELSE idx

Delete(t) ==
    /\ sess' = [sess EXCEPT ![t] = None]
    /\ idx' = [u \in Users |-> idx[u] \ {t}]

\* The tokens DeleteByUser removes: the rows of the user, or those the index names.
ByUser(u, found) == IF store = "valkey" THEN found ELSE {t \in Tokens : Live(t) /\ sess[t].u = u}

\* Requests that have read what they are about to save for user u.
Saving(q, u) == q.pc \in {"verify", "save"} /\ q.u = u

-----------------------------------------------------------------------------
Keep(p, r) == req' = [req EXCEPT ![p] = r]

\* Login: the row is read, the user is active, the password fits.
Login(p, u) ==
    /\ req[p].pc = "idle"
    /\ user[u].st = "live" /\ user[u].active
    /\ Keep(p, [Idle EXCEPT !.pc = "verify", !.u = u, !.s.u = u, !.s.g = epoch[u]])
    /\ UNCHANGED <<store, user, epoch, sess, idx, used, dead, late>>

login(p, u) == Login(p, u)

\* A token saved by a request that had read before a sweep, or while one runs.
Excused(p, t) ==
    late' = IF req[p].dirty \/ \E q \in Reqs : req[q].pc = "sweepDel" /\ req[q].u = req[p].u
            THEN late \cup {t} ELSE late

CreateSession(p, t) ==
    /\ req[p].pc = "verify" /\ t \notin used
    /\ Save(t, req[p].s) /\ SaveIndex(t, req[p].u)
    /\ used' = used \cup {t}
    /\ Excused(p, t)
    /\ Keep(p, Idle)
    /\ UNCHANGED <<store, user, epoch, dead>>

\* AuthMiddlewareWithSessions: an expired session is removed, a live one goes on
\* to be refreshed and then to the handler.
GetSession(p, t, op) ==
    /\ req[p].pc = "idle" /\ Live(t)
    /\ IF sess[t].exp
       THEN Delete(t) /\ UNCHANGED req
       ELSE Keep(p, [Idle EXCEPT !.pc = "refresh", !.op = op, !.t = t, !.u = sess[t].u,
                                 !.s = sess[t]])
            /\ UNCHANGED <<sess, idx>>
    /\ UNCHANGED <<store, user, epoch, used, dead, late>>

\* The handler: a read is over, a logout and a password change go on.
Serve(q) ==
    IF q.op = "look" THEN Idle
    ELSE [q EXCEPT !.pc = IF q.op = "logout" THEN "logout" ELSE "load",
                   !.s = None, !.dirty = FALSE]

\* Mutant: the refresh saves the session the middleware read.
RefreshSessionBlind(p) ==
    /\ req[p].pc = "refresh"
    /\ Save(req[p].t, req[p].s) /\ SaveIndex(req[p].t, req[p].u)
    /\ Keep(p, Serve(req[p]))
    /\ UNCHANGED <<store, user, epoch, used, dead, late>>
\* RefreshSession reads again; when that fails the request is served all the same.
RefreshSession(p) ==
    LET q == req[p]
    IN /\ q.pc = "refresh"
       /\ Keep(p, IF Live(q.t) /\ ~sess[q.t].exp
                  THEN [q EXCEPT !.pc = "save", !.s = sess[q.t]] ELSE Serve(q))
       /\ UNCHANGED <<store, user, epoch, sess, idx, used, dead, late>>

SaveRefreshed(p) ==
    /\ req[p].pc = "save"
    /\ Save(req[p].t, req[p].s) /\ SaveIndex(req[p].t, req[p].u)
    /\ Excused(p, req[p].t)
    /\ Keep(p, Serve(req[p]))
    /\ UNCHANGED <<store, user, epoch, used, dead>>

\* Logout removes the token it was called with.
Logout(p) ==
    /\ req[p].pc = "logout"
    /\ Delete(req[p].t)
    /\ dead' = dead \cup {req[p].t}
    /\ req' = [q \in Reqs |-> IF q = p THEN Idle
                              ELSE [req[q] EXCEPT !.dirty = @ \/ req[q].pc = "save"]]
    /\ UNCHANGED <<store, user, epoch, used, late>>

\* Another user's request on u: resetPassword, deleteUser or updateUser.
Manage(p, u, op) ==
    /\ req[p].pc = "idle" /\ user[u].st # "fresh"
    /\ Keep(p, [Idle EXCEPT !.pc = "load", !.op = op, !.u = u])
    /\ UNCHANGED <<store, user, epoch, sess, idx, used, dead, late>>

\* GetUser: a missing row ends the request; the rest of it is written back later.
Load(p) ==
    LET q == req[p]
    IN /\ q.pc = "load"
       /\ Keep(p, IF user[q.u].st # "live" THEN Idle
                  ELSE [q EXCEPT !.pc = "write", !.row = user[q.u].active])
       /\ UNCHANGED <<store, user, epoch, sess, idx, used, dead, late>>

\* Mutant: a reset leaves the user's sessions alone.
AfterWriteReset(op) == IF op \in {"change", "delete"} THEN "sweep" ELSE "idle"
\* What follows UpdateUser or DeleteUser: only an update ends no session.
AfterWrite(op) == IF op \in {"change", "reset", "delete"} THEN "sweep" ELSE "idle"

\* UpdateUser writes the whole row read before; a row that is gone is an error.
\* DeleteUser takes the user's SQLite sessions with it.
WriteUser(p) ==
    LET q == req[p]
    IN /\ q.pc = "write"
       /\ IF user[q.u].st # "live"
          THEN Keep(p, Idle) /\ UNCHANGED <<user, epoch, sess>>
          ELSE /\ q.op = "update" \/ epoch[q.u] < MaxEpoch
               /\ user' = [user EXCEPT ![q.u] =
                             CASE q.op = "delete" -> [st |-> "gone", active |-> FALSE]
                               [] q.op = "update" -> [@ EXCEPT !.active = ~q.row]
                               [] OTHER -> [@ EXCEPT !.active = q.row]]
               /\ epoch' = IF q.op = "update" THEN epoch ELSE [epoch EXCEPT ![q.u] = @ + 1]
               /\ sess' = IF q.op = "delete" /\ store = "sqlite"
                          THEN [t \in Tokens |-> IF sess[t].u = q.u THEN None ELSE sess[t]]
                          ELSE sess
               /\ Keep(p, IF AfterWrite(q.op) = "idle" THEN Idle
                          ELSE [Idle EXCEPT !.pc = AfterWrite(q.op), !.u = q.u])
       /\ UNCHANGED <<store, idx, used, dead, late>>

\* Valkey reads the user's index first and removes in a second command.
SMembers(p) ==
    /\ req[p].pc = "sweep" /\ store = "valkey"
    /\ Keep(p, [req[p] EXCEPT !.pc = "sweepDel", !.found = idx[req[p].u]])
    /\ UNCHANGED <<store, user, epoch, sess, idx, used, dead, late>>

\* InvalidateUserSessions.
DeleteByUser(p) ==
    LET u == req[p].u
        gone == ByUser(u, req[p].found)
    IN /\ req[p].pc = IF store = "valkey" THEN "sweepDel" ELSE "sweep"
       /\ sess' = [t \in Tokens |-> IF t \in gone THEN None ELSE sess[t]]
       /\ idx' = [idx EXCEPT ![u] = IF gone = {} THEN @ ELSE {}]
       /\ dead' = dead \cup gone
       /\ req' = [q \in Reqs |-> IF q = p THEN Idle
                                 ELSE [req[q] EXCEPT !.dirty = @ \/ Saving(req[q], u)]]
       /\ UNCHANGED <<store, user, epoch, used, late>>

\* A deadline passes.
Expire(t) ==
    /\ Live(t) /\ ~sess[t].exp
    /\ sess' = [sess EXCEPT ![t].exp = TRUE]
    /\ UNCHANGED <<store, user, epoch, idx, used, req, dead, late>>

\* The minute ticker removes what has expired; Valkey does so by itself, and the
\* index may keep the token.
Cleanup ==
    /\ \E t \in Tokens : Live(t) /\ sess[t].exp
    /\ sess' = [t \in Tokens |-> IF sess[t].exp THEN None ELSE sess[t]]
    /\ UNCHANGED <<store, user, epoch, idx, used, req, dead, late>>

\* The server dies and starts again: memory is lost, and so is a sweep that was due.
Restart ==
    /\ \E p \in Reqs : req[p].pc # "idle"
    /\ req' = [p \in Reqs |-> Idle]
    /\ sess' = IF store = "memory" THEN [t \in Tokens |-> None] ELSE sess
    /\ late' = late \cup {t \in Tokens : Live(t) /\ \E p \in Reqs :
                            req[p].pc \in {"sweep", "sweepDel"} /\ req[p].u = sess[t].u}
    /\ UNCHANGED <<store, user, epoch, idx, used, dead>>

-----------------------------------------------------------------------------
Init ==
    /\ store \in {"sqlite", "memory", "valkey"}
    /\ user = [u \in Users |-> [st |-> "live", active |-> TRUE]]
    /\ epoch = [u \in Users |-> 0]
    /\ sess = [t \in Tokens |-> None]
    /\ idx = [u \in Users |-> {}]
    /\ req = [p \in Reqs |-> Idle]
    /\ used = {} /\ dead = {} /\ late = {}

Next ==
    \/ Cleanup \/ Restart
    \/ \E t \in Tokens : Expire(t)
    \/ \E p \in Reqs :
        \/ \E u \in Users : \/ login(p, u)
                            \/ \E op \in {"reset", "delete", "update"} : Manage(p, u, op)
        \/ \E t \in Tokens : \/ CreateSession(p, t)
                             \/ \E op \in {"look", "logout", "change"} : GetSession(p, t, op)
        \/ RefreshSession(p) \/ SaveRefreshed(p) \/ Logout(p)
        \/ Load(p) \/ WriteUser(p) \/ SMembers(p) \/ DeleteByUser(p)

Spec == Init /\ [][Next]_vars

-----------------------------------------------------------------------------
(* Properties.                                                                 *)

\* A session opened before a change or reset of the password, or before the
\* removal of its user, is gone once that request's sweep has run, unless a
\* request that had read before the sweep saved after it (or, on Valkey, during
\* it), or the server died before the sweep.
OldSessionsEnd ==
    \A t \in Tokens : Live(t) /\ sess[t].g < epoch[sess[t].u] =>
        \/ t \in late
        \/ \E p \in Reqs : req[p].pc \in {"sweep", "sweepDel"} /\ req[p].u = sess[t].u

\* A token that was logged out or swept is not stored again, unless its refresh
\* had read it before and saved it afterwards.
DeadStayDead == \A t \in dead : Live(t) => t \in late

=============================================================================
