------------------------------ MODULE Limiter -------------------------------
(* RateLimit as an instance with variables of its own, to stand beside the     *)
(* requests it limits.                                                         *)

CONSTANTS Clients, Buckets, Requests, requests, window

VARIABLES clients, bucket, lReq, spent, raced

L == INSTANCE RateLimit WITH req <- lReq
-----------------------------------------------------------------------------
(* Properties *)

\* In a window's time a client is given no more than two windows' tokens.
LimitHolds == L!LimitHolds
=============================================================================
