------------------------------- MODULE Logins -------------------------------
(* The two kinds of credentials a login leads to, side by side: OAuth, and     *)
(* Sessions as an instance with variables of its own.                          *)
EXTENDS OAuth

CONSTANTS Users, Tokens, NoUser, NoToken, MaxEpoch

VARIABLES store, sUser, epoch, sess, idx, used, sReq, dead, late

S == INSTANCE Sessions WITH user <- sUser, req <- sReq
-----------------------------------------------------------------------------
(* Properties *)

\* A session opened before a password change or a removal ends with the sweep of
\* InvalidateUserSessions, or a race or a crash that is on record explains it.
OldSessionsEnd == S!OldSessionsEnd

\* A token that InvalidateSession or the sweep deleted is stored again only by a
\* refresh that had read it before.
DeadStayDead == S!DeadStayDead
=============================================================================
