----------------------------- MODULE RateLimit ------------------------------
(***************************************************************************)
(* RateLimiter: a fixed window of `requests' tokens per client, held in a  *)
(* bucket of its own that a map leads to.  The map and the bucket have     *)
(* locks of their own, so that a request finds its bucket in one step and  *)
(* takes from it in a later one, with the clean-up in between.             *)
(***************************************************************************)
EXTENDS Integers

CONSTANTS Clients, Buckets, Requests,
          requests,     \* tokens per window
          window        \* ticks; the clean-up is at twice the window

cleanup == 2 * window

VARIABLES clients,   \* the map: {} or {the bucket of c}
          bucket,    \* bucket[b]: tokens and age, the ticks since lastReset
          req,
          spent,     \* history: spent[c][a]: tokens c was given in the last a ticks and this one
          raced      \* history: clients that two buckets served

vars == <<clients, bucket, req, spent, raced>>

Idle == [pc |-> "idle"]
Unused == [tokens |-> 0, age |-> -1]

Init ==
  /\ clients = [c \in Clients |-> {}]
  /\ bucket = [b \in Buckets |-> Unused]
  /\ req = [p \in Requests |-> Idle]
  /\ spent = [c \in Clients |-> [a \in 0 .. window |-> 0]]
  /\ raced = {}

Held(b) == \E p \in Requests : req[p].pc = "take" /\ req[p].bucket = b
Free(b) == ~Held(b) /\ \A c \in Clients : b \notin clients[c]

\* Allow: the look-up under the read lock ...
Allow(p, c) ==
  /\ req[p] = Idle
  /\ req' = [req EXCEPT ![p] = IF clients[c] = {} THEN [pc |-> "make", client |-> c]
                               ELSE [pc |-> "take", client |-> c,
                                     bucket |-> CHOOSE b \in clients[c] : TRUE]]
  /\ UNCHANGED <<clients, bucket, spent, raced>>

\* Every request passes here first; a client is an address or a bearer token.
RateLimitMiddleware(p, c) == Allow(p, c)

\* ... a full bucket in its place where there was none ...
NewBucket(p) ==
  /\ req[p].pc = "make"
  /\ \E b \in Buckets :
       /\ b = CHOOSE x \in Buckets : Free(x)
       /\ Free(b)
       /\ bucket' = [bucket EXCEPT ![b] = [tokens |-> requests, age |-> 0]]
       /\ clients' = [clients EXCEPT ![req[p].client] = {b}]
       /\ req' = [req EXCEPT ![p] = [pc |-> "take", client |-> req[p].client, bucket |-> b]]
  /\ raced' = IF clients[req[p].client] = {} THEN raced ELSE raced \cup {req[p].client}
  /\ UNCHANGED spent

Refill(b) == IF b.age > window THEN [tokens |-> requests, age |-> 0] ELSE b

\* ... then, under the lock of the bucket, the new window and the token.
Take(p) ==
  LET b == req[p].bucket
      c == req[p].client
      full == Refill(bucket[b])
  IN
  /\ req[p].pc = "take"
  /\ IF full.tokens > 0
     THEN /\ bucket' = [bucket EXCEPT ![b] = [full EXCEPT !.tokens = @ - 1]]
          /\ spent' = [spent EXCEPT ![c] = [a \in 0 .. window |-> @[a] + 1]]
     ELSE bucket' = [bucket EXCEPT ![b] = full] /\ UNCHANGED spent
  /\ req' = [req EXCEPT ![p] = Idle]
  /\ raced' = IF clients[c] = {b} THEN raced ELSE raced \cup {c}
  /\ UNCHANGED clients

\* Mutant: a bucket goes as soon as it is a tick old.
cleanupLoopEarly ==
  /\ clients' = [c \in Clients |-> {b \in clients[c] : bucket[b].age = 0}]
  /\ clients' # clients
  /\ UNCHANGED <<bucket, req, spent, raced>>

cleanupLoop ==
  /\ clients' = [c \in Clients |-> {b \in clients[c] : bucket[b].age <= cleanup}]
  /\ clients' # clients
  /\ UNCHANGED <<bucket, req, spent, raced>>

Older(n) == IF n > cleanup THEN n ELSE n + 1

Tick ==
  /\ bucket' = [b \in Buckets |-> IF Free(b) THEN Unused ELSE [bucket[b] EXCEPT !.age = Older(@)]]
  /\ spent' = [c \in Clients |-> [a \in 0 .. window |-> IF a = 0 THEN 0 ELSE spent[c][a - 1]]]
  /\ UNCHANGED <<clients, req, raced>>

Next ==
  \/ \E p \in Requests : NewBucket(p) \/ Take(p) \/ \E c \in Clients : RateLimitMiddleware(p, c)
  \/ cleanupLoop
  \/ Tick

Spec == Init /\ [][Next]_vars
-----------------------------------------------------------------------------
(* Properties *)

\* In a window's time, wherever it begins, a client is given no more than
\* two windows' tokens, whatever its requests, the refills and the clean-up
\* do between each other's steps, except when two of its first requests each
\* made a bucket, or one held a bucket that the clean-up then dropped.
LimitHolds == \A c \in Clients \ raced : spent[c][window] <= 2 * requests

=============================================================================
