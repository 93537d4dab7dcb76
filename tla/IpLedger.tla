------------------------------ MODULE IpLedger ------------------------------
(***************************************************************************)
(* What the reservation feature promises, whatever the tables, the retry   *)
(* loop and the interleaving of requests look like: a ledger in which a    *)
(* reservation is written once for one address of one pool, and in which   *)
(* an address is held by at most one reservation at a time.                *)
(*                                                                         *)
(* A reservation may let go of its address and may take it again while     *)
(* nobody else holds it.  It never moves to another address.               *)
(***************************************************************************)
CONSTANTS Rids,     \* reservation identifiers (UUIDs in the code)
          Keys,     \* the addresses that can be held: <<pool, ip>> pairs
          NoKey     \* a reservation that has not been written yet

VARIABLES key,      \* key[r]: the address r was written for
          holders   \* the reservations that hold their address now

ledgerVars == <<key, holders>>

LedgerInit ==
  /\ key = [r \in Rids |-> NoKey]
  /\ holders = {}

Holder(k) == {r \in holders : key[r] = k}

\* A new reservation takes a free address, or an earlier one takes its
\* address back while it is free.
Acquire(r, k) ==
  /\ r \notin holders
  /\ key[r] \in {NoKey, k}
  /\ Holder(k) = {}
  /\ key' = [key EXCEPT ![r] = k]
  /\ holders' = holders \cup {r}

\* Release, claim, deletion, expiry of several at once, deletion of a pool.
Drop(S) ==
  /\ holders' = holders \ S
  /\ UNCHANGED key

LedgerNext ==
  \/ \E r \in Rids, k \in Keys : Acquire(r, k)
  \/ \E S \in SUBSET holders : Drop(S)

LedgerSpec == LedgerInit /\ [][LedgerNext]_ledgerVars
=============================================================================
