---------------------------- MODULE OAuthProofs ----------------------------
(***************************************************************************)
(* Theorems about OAuth, for any number of clients, codes, scopes, tokens  *)
(* and requests in flight, and about Sessions, for any number of users and *)
(* tokens and over each of the three stores.                               *)
(***************************************************************************)
EXTENDS Logins, FiniteSetTheorems, TLAPS

State == {"none", "live", "gone"}
CodeRow == [st : State, c : Clients \cup {"none"}, scope : SUBSET Scopes,
            pkce : BOOLEAN, used : BOOLEAN, exp : BOOLEAN]
TokRow == [st : State, type : {"none", "access", "refresh"}, c : Clients \cup {"none"},
           k : Codes \cup {"none"}, scope : SUBSET Scopes, exp : BOOLEAN,
           revoked : BOOLEAN, parent : Nat]
Request == [pc : {"idle", "mark", "access", "refresh", "revoke", "chain", "self", "pair", "drop"},
            op : {"none", "exchange", "refresh", "drop"}, k : Codes \cup {"none"}, i : Nat,
            c : Clients \cup {"none"}, scope : SUBSET Scopes, ok : BOOLEAN, j : Nat,
            again : BOOLEAN]

TypeOK ==
    /\ client \in [Clients -> State] /\ user.st \in {"live", "gone"}
    /\ code \in [Codes -> CodeRow]
    /\ tok \in [Ids -> TokRow]
    /\ req \in [Reqs -> Request]
    /\ spent \subseteq Ids

\* Numbers are given out without gaps: the next one is free.
Numbered == \E n \in 0 .. MaxTokens : Issued = 1 .. n

\* The access token a code was exchanged for, and the request about to issue it.
Root(i, k) == /\ tok[i].st # "none" /\ tok[i].type = "access"
              /\ tok[i].parent = 0 /\ tok[i].k = k
Holder(q, k) == q.pc = "access" /\ q.i = 0 /\ q.k = k

CodesOK == \A k \in Codes : /\ code[k].used => code[k].st # "none"
                            /\ code[k].st = "live" => code[k].c \in Clients

\* Every token traces back to a code that was issued, and stays within its scope.
TokensOK ==
    \A i \in Ids : tok[i].st # "none" =>
        /\ tok[i].k \in Codes /\ tok[i].c \in Clients
        /\ code[tok[i].k].st # "none" /\ tok[i].scope \subseteq code[tok[i].k].scope
        /\ Root(i, tok[i].k) => code[tok[i].k].used

Carries(q) ==
    /\ q.pc \in {"mark", "access", "refresh"} =>
          /\ q.k \in Codes /\ q.c \in Clients
          /\ code[q.k].st # "none" /\ q.scope \subseteq code[q.k].scope
    /\ q.pc = "mark" => q.i = 0 /\ q.op = "exchange"
    /\ q.pc = "access" => q.op = "refresh" \/ q.i = 0
    /\ q.pc = "revoke" => q.op = "refresh"
    /\ q.pc \in {"idle", "chain", "self", "pair", "drop"} => q.op # "refresh"
    /\ q.op = "refresh" => q.i \in Ids /\ tok[q.i].st # "none"
    /\ q.pc = "drop" => q.c \in Clients
    /\ q.pc = "access" /\ q.i = 0 => code[q.k].used /\ \A i \in Ids : ~Root(i, q.k)
    /\ ~q.again

\* At most one request is about to issue a code's access token, and at most one
\* has been issued.
OneHolder ==
    \A p, q \in Reqs : \A k \in Codes : Holder(req[p], k) /\ Holder(req[q], k) => p = q
OneRoot == \A k \in Codes : \A i, j \in Ids : Root(i, k) /\ Root(j, k) => i = j

\* A rotated refresh token is revoked or its row is gone.
SpentOK == \A i \in spent : tok[i].st # "none" /\ (tok[i].st = "live" => tok[i].revoked)

Inv == /\ TypeOK /\ Numbered /\ CodesOK /\ TokensOK /\ (\A p \in Reqs : Carries(req[p]))
       /\ OneHolder /\ OneRoot /\ SpentOK /\ TokensHaveOwners

-----------------------------------------------------------------------------
(* How rows age: a token row keeps what it was issued with and never comes back *)
(* to life; a code, once issued, keeps its client and scope, and stays used.   *)

TokAges(a, b) ==
    /\ b \in TokRow
    /\ b.type = a.type /\ b.c = a.c /\ b.k = a.k /\ b.scope = a.scope /\ b.parent = a.parent
    /\ b.st = "none" <=> a.st = "none"
    /\ b.st = "live" => a.st = "live"
    /\ a.revoked => b.revoked
CodeAges(a, b) ==
    /\ b \in CodeRow
    /\ a.st # "none" => b.st # "none" /\ b.c = a.c /\ b.scope = a.scope
    /\ a.used => b.used
    /\ b.used => b.st # "none"
    /\ b.st = "live" => b.c \in Clients
Ages ==
    /\ tok' \in [Ids -> TokRow] /\ code' \in [Codes -> CodeRow]
    /\ \A i \in Ids : TokAges(tok[i], tok'[i])
    /\ \A k \in Codes : CodeAges(code[k], code'[k])

\* Tokens and codes that do not change age.
LEMMA StillAges ==
  ASSUME Inv
  PROVE  /\ UNCHANGED tok => tok' \in [Ids -> TokRow] /\ \A i \in Ids : TokAges(tok[i], tok'[i])
         /\ UNCHANGED code => code' \in [Codes -> CodeRow]
                              /\ \A k \in Codes : CodeAges(code[k], code'[k])
  BY Zenon DEF Inv, TypeOK, CodesOK, TokAges, CodeAges

\* Revoking rows ages them.
LEMMA RevokeAges ==
  ASSUME Inv, NEW ids, Revoke(ids)
  PROVE  /\ tok' \in [Ids -> TokRow]
         /\ \A i \in Ids : TokAges(tok[i], tok'[i]) /\ tok'[i].st = tok[i].st
         /\ \A i \in ids \cap Ids : tok'[i].st = "live" => tok'[i].revoked
  <1>1. ASSUME NEW i \in Ids
        PROVE  TokAges(tok[i], tok'[i]) /\ tok'[i].st = tok[i].st
               /\ (i \in ids /\ tok'[i].st = "live" => tok'[i].revoked)
    <2>0. tok[i] \in TokRow
      BY Zenon DEF Inv, TypeOK
    <2>1. CASE i \in ids \cap Rows
      <3>1. tok'[i] = [tok[i] EXCEPT !.revoked = TRUE]
        BY Zenon, <2>1 DEF Revoke
      <3> QED BY Zenon, <2>0, <3>1 DEF TokRow, TokAges
    <2>2. CASE i \notin ids \cap Rows
      <3>1. tok'[i] = tok[i]
        BY Zenon, <2>2 DEF Revoke
      <3> QED BY Zenon, <2>0, <2>2, <3>1 DEF TokAges, Rows
    <2> QED BY Zenon, <2>1, <2>2
  <1>2. tok' \in [Ids -> TokRow]
    <2>1. tok' = [i \in Ids |-> tok'[i]]
      BY Zenon DEF Revoke
    <2> QED BY Zenon, <1>1, <2>1 DEF TokAges
  <1> QED BY Zenon, <1>1, <1>2

\* Ageing keeps the roots of the codes, and what requests and rows rest on.
LEMMA AgeingKeeps ==
  ASSUME Inv, Ages
  PROVE  /\ Numbered' /\ CodesOK' /\ TokensOK' /\ OneRoot'
         /\ \A i \in Ids : \A k : Root(i, k)' <=> Root(i, k)
         /\ \A p \in Reqs : req'[p] = req[p] => Carries(req[p])'
  <1>1. \A i \in Ids : \A k : Root(i, k)' <=> Root(i, k)
    BY Zenon DEF Ages, TokAges, Root
  <1>2. Issued' = Issued
    BY Zenon DEF Ages, TokAges, Issued
  <1>3. Numbered'
    BY Zenon, <1>2 DEF Inv, Numbered
  <1>4. CodesOK'
    BY Zenon DEF Ages, CodeAges, CodesOK
  <1>5. TokensOK'
    <2> SUFFICES ASSUME NEW i \in Ids, tok'[i].st # "none"
                 PROVE  /\ tok'[i].k \in Codes /\ tok'[i].c \in Clients
                        /\ code'[tok'[i].k].st # "none"
                        /\ tok'[i].scope \subseteq code'[tok'[i].k].scope
                        /\ Root(i, tok[i].k)' => code'[tok'[i].k].used
      BY Zenon DEF TokensOK
    <2>1. TokAges(tok[i], tok'[i]) /\ tok[i].st # "none" /\ tok'[i].k = tok[i].k
      BY Zenon DEF Ages, TokAges
    <2>2. tok[i].k \in Codes /\ CodeAges(code[tok[i].k], code'[tok[i].k])
      BY Zenon, <2>1 DEF Inv, TokensOK, Ages
    <2>3. Root(i, tok[i].k)' <=> Root(i, tok[i].k)
      BY Zenon, <2>1 DEF Root, TokAges
    <2> QED BY Zenon, <2>1, <2>2, <2>3 DEF Inv, TokensOK, TokAges, CodeAges
  <1>6. OneRoot'
    BY Zenon, <1>1 DEF Inv, OneRoot
  <1>7. ASSUME NEW p \in Reqs, req'[p] = req[p] PROVE Carries(req[p])'
    <2>1. Carries(req[p])
      BY Zenon DEF Inv
    <2>2. req[p].pc \in {"mark", "access", "refresh"} => CodeAges(code[req[p].k], code'[req[p].k])
      BY Zenon, <2>1 DEF Carries, Ages
    <2>3. req[p].op = "refresh" => TokAges(tok[req[p].i], tok'[req[p].i])
      BY Zenon, <2>1 DEF Carries, Ages
    <2> QED BY Zenon, <1>1, <1>7, <2>1, <2>2, <2>3 DEF Carries, TokAges, CodeAges
  <1> QED BY Zenon, <1>1, <1>3, <1>4, <1>5, <1>6, <1>7

\* A step that ages rows, and leaves requests as they were or puts in place ones
\* that do not hold a code, keeps the invariant but for what it says of owners.
LEMMA AgeingStep ==
  ASSUME Inv, Ages, TokensHaveOwners', SpentOK', spent' \subseteq Ids,
         client' \in [Clients -> State], user'.st \in {"live", "gone"},
         req' \in [Reqs -> Request],
         \A p \in Reqs : \/ req'[p] = req[p]
                         \/ Carries(req[p])' /\ ~(req'[p].pc = "access" /\ req'[p].i = 0)
  PROVE  Inv'
  <1>1. TypeOK'
    BY Zenon DEF TypeOK, Ages
  <1>2. \A p \in Reqs : Carries(req[p])'
    BY Zenon, AgeingKeeps
  <1>3. OneHolder'
    BY Zenon DEF Inv, OneHolder, Holder
  <1> QED BY Zenon, <1>1, <1>2, <1>3, AgeingKeeps DEF Inv

\* Rows that age, and codes that are not new, keep owners as long as none goes.
LEMMA OwnersStay ==
  ASSUME Inv, Ages, UNCHANGED <<client, user>>,
         \A k \in Codes : code'[k].st = "live" => code[k].st = "live"
  PROVE  TokensHaveOwners'
  BY DEF Inv, TokensHaveOwners, Rows, GetOAuthClient, GetUser, Ages, TokAges, CodeAges

\* Spent tokens stay spent.
LEMMA SpentStay ==
  ASSUME Inv, Ages, UNCHANGED spent
  PROVE  SpentOK' /\ spent' \subseteq Ids
  BY Zenon DEF Inv, TypeOK, SpentOK, Ages, TokAges

\* The record of no request.
LEMMA IdleFits == Idle \in Request /\ Carries(Idle)' /\ Idle.pc = "idle"
  BY Zenon DEF Idle, Request, Carries

-----------------------------------------------------------------------------
(* Statements that age rows.                                                   *)

\* The cascades of a client's or a user's removal age rows and leave none behind
\* that they were to remove.
LEMMA DropAges ==
  ASSUME Inv, NEW T, NEW K,
         code' = [k \in Codes |-> IF code[k].st = "live" /\ k \in K THEN Gone(code[k]) ELSE code[k]],
         tok' = [i \in Ids |-> IF i \in Rows /\ i \in T
                               THEN [Gone(tok[i]) EXCEPT !.revoked = TRUE] ELSE tok[i]]
  PROVE  /\ Ages
         /\ \A i \in Ids : tok'[i].st = "live" => i \notin T
         /\ \A k \in Codes : code'[k].st = "live" => code[k].st = "live" /\ k \notin K
  <1>1. ASSUME NEW i \in Ids
        PROVE  TokAges(tok[i], tok'[i]) /\ (tok'[i].st = "live" => i \notin T)
    <2>0. tok[i] \in TokRow
      BY Zenon DEF Inv, TypeOK
    <2>1. CASE i \in Rows /\ i \in T
      <3>1. tok'[i] = [Gone(tok[i]) EXCEPT !.revoked = TRUE]
        BY Zenon, <2>1
      <3> QED BY Zenon, <2>0, <2>1, <3>1 DEF Gone, Rows, TokRow, TokAges, State
    <2>2. CASE ~(i \in Rows /\ i \in T)
      <3>1. tok'[i] = tok[i]
        BY Zenon, <2>2
      <3> QED BY Zenon, <2>0, <2>2, <3>1 DEF TokAges, Rows
    <2> QED BY Zenon, <2>1, <2>2
  <1>2. ASSUME NEW k \in Codes
        PROVE  /\ CodeAges(code[k], code'[k])
               /\ code'[k].st = "live" => code[k].st = "live" /\ k \notin K
    <2>0. code[k] \in CodeRow /\ (code[k].used => code[k].st # "none")
          /\ (code[k].st = "live" => code[k].c \in Clients)
      BY Zenon DEF Inv, TypeOK, CodesOK
    <2>1. CASE code[k].st = "live" /\ k \in K
      <3>1. code'[k] = Gone(code[k])
        BY Zenon, <2>1
      <3> QED BY Zenon, <2>0, <2>1, <3>1 DEF Gone, CodeRow, CodeAges, State
    <2>2. CASE ~(code[k].st = "live" /\ k \in K)
      <3>1. code'[k] = code[k]
        BY Zenon, <2>2
      <3> QED BY Zenon, <2>0, <2>2, <3>1 DEF CodeAges
    <2> QED BY Zenon, <2>1, <2>2
  <1>3. tok' \in [Ids -> TokRow] /\ code' \in [Codes -> CodeRow]
    <2>1. tok' = [i \in Ids |-> tok'[i]] /\ code' = [k \in Codes |-> code'[k]]
      OBVIOUS
    <2> QED BY Zenon, <1>1, <1>2, <2>1 DEF TokAges, CodeAges
  <1> QED BY Zenon, <1>1, <1>2, <1>3 DEF Ages

\* Removal of the user.
LEMMA DeleteUserKeeps == ASSUME Inv, DeleteUser PROVE Inv'
  <1>1. /\ code' = [k \in Codes |-> IF code[k].st = "live" /\ k \in Codes
                                    THEN Gone(code[k]) ELSE code[k]]
        /\ tok' = [i \in Ids |-> IF i \in Rows /\ i \in Ids
                                 THEN [Gone(tok[i]) EXCEPT !.revoked = TRUE] ELSE tok[i]]
    BY Zenon DEF DeleteUser, DropRows
  <1>2. Ages /\ (\A i \in Ids : tok'[i].st # "live") /\ (\A k \in Codes : code'[k].st # "live")
    BY Zenon, <1>1, DropAges
  <1>3. TokensHaveOwners'
    BY Zenon, <1>2 DEF TokensHaveOwners, Rows
  <1>4. UNCHANGED <<client, req, spent>> /\ user'.st \in {"live", "gone"}
    BY DEF DeleteUser
  <1> QED BY Zenon, <1>2, <1>3, <1>4, SpentStay, AgeingStep DEF Inv, TypeOK

\* Removal of a client, which cascades to its codes and tokens.
LEMMA DeleteClientKeeps == ASSUME Inv, NEW p \in Reqs, DeleteOAuthClient(p) PROVE Inv'
  <1> DEFINE T == {i \in Ids : tok[i].c = req[p].c}
             K == {k \in Codes : code[k].c = req[p].c}
  <1>1. /\ code' = [k \in Codes |-> IF code[k].st = "live" /\ k \in K
                                    THEN Gone(code[k]) ELSE code[k]]
        /\ tok' = [i \in Ids |-> IF i \in Rows /\ i \in T
                                 THEN [Gone(tok[i]) EXCEPT !.revoked = TRUE] ELSE tok[i]]
    BY Zenon DEF DeleteOAuthClient, DropRows
  <1>2. /\ Ages
        /\ \A i \in Ids : tok'[i].st = "live" => tok[i].c # req[p].c
        /\ \A k \in Codes : code'[k].st = "live" => code[k].st = "live" /\ code[k].c # req[p].c
    <2> HIDE DEF T, K
    <2>1. /\ Ages
          /\ \A i \in Ids : tok'[i].st = "live" => i \notin T
          /\ \A k \in Codes : code'[k].st = "live" => code[k].st = "live" /\ k \notin K
      BY Zenon, <1>1, DropAges
    <2> QED BY Zenon, <2>1 DEF T, K
  <1>3. /\ client' = [client EXCEPT ![req[p].c] = "gone"] /\ UNCHANGED <<user, spent>>
        /\ req' = [req EXCEPT ![p] = Idle]
    BY Zenon DEF DeleteOAuthClient, Keep
  <1>4. client' \in [Clients -> State] /\ \A c \in Clients : c # req[p].c => client'[c] = client[c]
    BY Zenon, <1>3 DEF Inv, TypeOK, State
  <1>5. TokensHaveOwners'
    <2>1. ASSUME NEW i \in Ids, tok'[i].st = "live" PROVE client'[tok'[i].c] = "live" /\ user'.st = "live"
      <3>1. tok[i].st = "live" /\ tok'[i].c = tok[i].c /\ tok[i].c \in Clients
        BY Zenon, <1>2, <2>1 DEF Inv, TokensOK, Ages, TokAges
      <3> QED BY Zenon, <1>2, <1>3, <1>4, <2>1, <3>1 DEF Inv, TokensHaveOwners, Rows, GetOAuthClient, GetUser
    <2>2. ASSUME NEW k \in Codes, code'[k].st = "live"
          PROVE  client'[code'[k].c] = "live" /\ user'.st = "live"
      <3>1. code[k].st = "live" /\ code'[k].c = code[k].c /\ code[k].c \in Clients
        BY Zenon, <1>2, <2>2 DEF Inv, CodesOK, Ages, CodeAges
      <3> QED BY Zenon, <1>2, <1>3, <1>4, <2>2, <3>1 DEF Inv, TokensHaveOwners, GetOAuthClient, GetUser
    <2> QED BY Zenon, <2>1, <2>2 DEF TokensHaveOwners, Rows, GetOAuthClient, GetUser
  <1>6. req' \in [Reqs -> Request] /\ req'[p] = Idle /\ \A q \in Reqs \ {p} : req'[q] = req[q]
    BY Zenon, <1>3, IdleFits DEF Inv, TypeOK
  <1>7. Carries(req[p])' /\ ~(req'[p].pc = "access" /\ req'[p].i = 0)
    BY Zenon, <1>6, IdleFits DEF Carries, Idle
  <1> QED BY Zenon, <1>2, <1>3, <1>4, <1>5, <1>6, <1>7, SpentStay, AgeingStep DEF Inv, TypeOK

\* Steps that change only rows of tokens and codes, ageing them.
LEMMA RowsStep ==
  ASSUME Inv, Ages, UNCHANGED <<client, user, req, spent>>,
         \A k \in Codes : code'[k].st = "live" => code[k].st = "live"
  PROVE  Inv'
  BY Zenon, OwnersStay, SpentStay, AgeingStep DEF Inv, TypeOK

\* Expiry and the cleanup of expired codes and tokens keep the invariant.
LEMMA TimeKeeps ==
  ASSUME Inv, CleanupExpiredCodes \/ CleanupExpiredTokens
              \/ (\E k \in Codes : ExpireCode(k)) \/ (\E i \in Ids : ExpireToken(i))
  PROVE  Inv'
  <1> USE DEF State
  <1>k. \A k \in Codes : code[k] \in CodeRow /\ (code[k].used => code[k].st # "none")
                         /\ (code[k].st = "live" => code[k].c \in Clients)
    BY Zenon DEF Inv, TypeOK, CodesOK
  <1>t. \A i \in Ids : tok[i] \in TokRow
    BY Zenon DEF Inv, TypeOK
  <1>1. CASE CleanupExpiredCodes
    <2>1. ASSUME NEW k \in Codes
          PROVE  CodeAges(code[k], code'[k]) /\ (code'[k].st = "live" => code[k].st = "live")
      <3>1. code'[k] = code[k] \/ (code[k].st = "live" /\ code'[k] = Gone(code[k]))
        BY Zenon, <1>1 DEF CleanupExpiredCodes
      <3> QED BY Zenon, <3>1, <1>k DEF Gone, CodeRow, CodeAges
    <2>2. code' = [k \in Codes |-> code'[k]]
      BY Zenon, <1>1 DEF CleanupExpiredCodes
    <2>3. code' \in [Codes -> CodeRow]
      BY Zenon, <2>1, <2>2 DEF CodeAges
    <2>4. Ages
      BY Zenon, <1>1, <2>1, <2>3, StillAges DEF Ages, CleanupExpiredCodes
    <2> QED BY Zenon, <1>1, <2>1, <2>4, RowsStep DEF CleanupExpiredCodes
  <1>2. CASE CleanupExpiredTokens
    <2>1. ASSUME NEW i \in Ids PROVE TokAges(tok[i], tok'[i])
      <3>1. tok'[i] = tok[i] \/ (tok[i].st = "live" /\ tok'[i] = Gone(tok[i]))
        BY Zenon, <1>2 DEF CleanupExpiredTokens, Rows
      <3> QED BY Zenon, <3>1, <1>t DEF Gone, TokRow, TokAges
    <2>2. tok' = [i \in Ids |-> tok'[i]]
      BY Zenon, <1>2 DEF CleanupExpiredTokens
    <2>3. tok' \in [Ids -> TokRow]
      BY Zenon, <2>1, <2>2 DEF TokAges
    <2>4. Ages
      BY Zenon, <1>2, <2>1, <2>3, StillAges DEF Ages, CleanupExpiredTokens
    <2> QED BY Zenon, <1>2, <2>4, RowsStep DEF CleanupExpiredTokens
  <1>3. ASSUME NEW k \in Codes, ExpireCode(k) PROVE Inv'
    <2>1. code' = [code EXCEPT ![k] = [code[k] EXCEPT !.exp = TRUE]]
      BY Zenon, <1>3 DEF ExpireCode
    <2>2. [code[k] EXCEPT !.exp = TRUE] \in CodeRow
      BY Zenon, <1>k DEF CodeRow
    <2>3. code' \in [Codes -> CodeRow]
      BY Zenon, <2>1, <2>2 DEF Inv, TypeOK
    <2>4. ASSUME NEW l \in Codes
          PROVE  CodeAges(code[l], code'[l]) /\ (code'[l].st = "live" => code[l].st = "live")
      <3>1. code'[l] = code[l] \/ code'[l] = [code[l] EXCEPT !.exp = TRUE]
        BY Zenon, <2>1 DEF Inv, TypeOK
      <3> QED BY Zenon, <3>1, <1>k DEF CodeRow, CodeAges
    <2>5. Ages
      BY Zenon, <1>3, <2>3, <2>4, StillAges DEF Ages, ExpireCode
    <2> QED BY Zenon, <1>3, <2>4, <2>5, RowsStep DEF ExpireCode
  <1>4. ASSUME NEW i \in Ids, ExpireToken(i) PROVE Inv'
    <2>1. tok' = [tok EXCEPT ![i] = [tok[i] EXCEPT !.exp = TRUE]]
      BY Zenon, <1>4 DEF ExpireToken
    <2>2. [tok[i] EXCEPT !.exp = TRUE] \in TokRow
      BY Zenon, <1>t DEF TokRow
    <2>3. tok' \in [Ids -> TokRow]
      BY Zenon, <2>1, <2>2 DEF Inv, TypeOK
    <2>4. ASSUME NEW l \in Ids PROVE TokAges(tok[l], tok'[l])
      <3>1. tok'[l] = tok[l] \/ tok'[l] = [tok[l] EXCEPT !.exp = TRUE]
        BY Zenon, <2>1 DEF Inv, TypeOK
      <3> QED BY Zenon, <3>1, <1>t DEF TokRow, TokAges
    <2>5. Ages
      BY Zenon, <1>4, <2>3, <2>4, StillAges DEF Ages, ExpireToken
    <2> QED BY Zenon, <1>4, <2>5, RowsStep DEF ExpireToken
  <1> QED BY Zenon, <1>1, <1>2, <1>3, <1>4

-----------------------------------------------------------------------------
(* Steps of the requests.                                                      *)

\* A step of one request that leaves it idle or revoking, while rows at most age.
LEMMA RequestStep ==
  ASSUME Inv, Ages, UNCHANGED <<client, user>>, SpentOK', spent' \subseteq Ids,
         \A k \in Codes : code'[k].st = "live" => code[k].st = "live",
         NEW p \in Reqs, NEW r \in Request, req' = [req EXCEPT ![p] = r],
         Carries(r)', ~(r.pc = "access" /\ r.i = 0)
  PROVE  Inv'
  <1>1. req' \in [Reqs -> Request] /\ req'[p] = r /\ \A q \in Reqs \ {p} : req'[q] = req[q]
    BY Zenon DEF Inv, TypeOK
  <1>2. Carries(req[p])' /\ ~(req'[p].pc = "access" /\ req'[p].i = 0)
    BY Zenon, <1>1 DEF Carries
  <1>3. TokensHaveOwners'
    BY Zenon, OwnersStay
  <1> QED BY Zenon, <1>1, <1>2, <1>3, AgeingStep DEF Inv, TypeOK

\* Revocation, by whichever request.
LEMMA RevokeKeeps ==
  ASSUME Inv, NEW p \in Reqs, NEW ids, NEW r \in Request, Revoke(ids), Keep(p, r),
         UNCHANGED <<client, user, code>>,
         r.pc \in {"idle", "self", "pair", "drop"}, r.op # "refresh", ~r.again,
         r.pc = "drop" => r.c \in Clients,
         spent' = spent \/ (spent' = spent \cup ids /\ ids \subseteq Issued)
  PROVE  Inv'
  <1>1. Ages
    BY Zenon, RevokeAges, StillAges DEF Ages
  <1>2. Carries(r)' /\ ~(r.pc = "access" /\ r.i = 0)
    BY Zenon DEF Carries
  <1>3. SpentOK' /\ spent' \subseteq Ids
    <2>1. spent \subseteq Ids /\ SpentOK
      BY Zenon DEF Inv, TypeOK
    <2>2. \A i \in spent : tok'[i].st # "none" /\ (tok'[i].st = "live" => tok'[i].revoked)
      BY Zenon, <1>1, <2>1 DEF SpentOK, Ages, TokAges
    <2>3. ids \subseteq Issued => \A i \in ids : i \in Ids /\ tok'[i].st # "none"
                                                  /\ (tok'[i].st = "live" => tok'[i].revoked)
      BY Zenon, RevokeAges DEF Issued
    <2> QED BY Zenon, <2>1, <2>2, <2>3 DEF SpentOK
  <1> QED BY Zenon, <1>1, <1>2, <1>3, RequestStep DEF Keep

\* Each revocation, by the endpoint or within a rotation, keeps the invariant.
LEMMA RevocationsKeep ==
  ASSUME Inv, NEW p \in Reqs,
         \/ \E c \in Clients : oauthDeleteClient(p, c)
         \/ oauthRevoke(p) \/ RevokeOld(p) \/ RevokeChildren(p) \/ RevokeSelf(p) \/ RevokePair(p)
  PROVE  Inv'
  <1>q. req[p] \in Request /\ Carries(req[p]) /\ \A i \in Ids : tok[i] \in TokRow
    BY Zenon DEF Inv, TypeOK
  <1>1. ASSUME NEW c \in Clients, oauthDeleteClient(p, c) PROVE Inv'
    <2> DEFINE r == [Idle EXCEPT !.pc = "drop", !.op = "drop", !.c = c]
    <2>1. r \in Request /\ r.pc = "drop" /\ r.op = "drop" /\ ~r.again /\ r.c = c
      BY Zenon DEF Idle, Request
    <2>2. Keep(p, r) /\ UNCHANGED <<client, user, code, spent>>
          /\ Revoke({i \in Rows : tok[i].c = c})
      BY Zenon, <1>1 DEF oauthDeleteClient, DeleteClientRevoke
    <2> HIDE DEF r
    <2> QED BY Zenon, <2>1, <2>2, RevokeKeeps
  <1>2. ASSUME NEW i \in Ids, RevokeToken(p, i) PROVE Inv'
    <2> DEFINE r == IF tok[i].type = "refresh" THEN [Idle EXCEPT !.pc = "pair", !.i = tok[i].parent]
                    ELSE Idle
    <2>1. r \in Request /\ r.pc \in {"idle", "pair"} /\ r.op = "none" /\ ~r.again
      BY Zenon, <1>q DEF Idle, Request, TokRow
    <2>2. Keep(p, r) /\ UNCHANGED <<client, user, code, spent>> /\ Revoke({i})
      BY Zenon, <1>2 DEF RevokeToken
    <2> HIDE DEF r
    <2> QED BY Zenon, <2>1, <2>2, RevokeKeeps
  <1>3. CASE RevokeOld(p)
    <2>1. req[p].i \in Issued
      BY Zenon, <1>3, <1>q DEF RevokeOld, Carries, Issued
    <2>2. Keep(p, Idle) /\ UNCHANGED <<client, user, code>> /\ Revoke({req[p].i})
          /\ spent' = spent \cup {req[p].i}
      BY Zenon, <1>3 DEF RevokeOld
    <2>3. Idle \in Request /\ Idle.pc = "idle" /\ Idle.op = "none" /\ ~Idle.again
      BY Zenon DEF Idle, Request
    <2> QED BY Zenon, <2>1, <2>2, <2>3, RevokeKeeps
  <1>4. CASE RevokeChildren(p)
    <2> DEFINE r == [req[p] EXCEPT !.pc = "self"]
    <2>1. r \in Request /\ r.pc = "self" /\ r.op = req[p].op /\ r.again = req[p].again
      BY Zenon, <1>q DEF Request
    <2>2. Keep(p, r) /\ UNCHANGED <<client, user, code, spent>>
          /\ Revoke({i \in Rows : tok[i].parent = req[p].i})
      BY Zenon, <1>4 DEF RevokeChildren
    <2>3. r.op # "refresh" /\ ~r.again
      BY Zenon, <1>4, <1>q, <2>1 DEF RevokeChildren, Carries
    <2> HIDE DEF r
    <2> QED BY Zenon, <2>1, <2>2, <2>3, RevokeKeeps
  <1>5. CASE RevokeSelf(p) \/ RevokePair(p)
    <2>2. Keep(p, Idle) /\ UNCHANGED <<client, user, code, spent>> /\ Revoke({req[p].i})
      BY Zenon, <1>5 DEF RevokeSelf, RevokePair
    <2>3. Idle \in Request /\ Idle.pc = "idle" /\ Idle.op = "none" /\ ~Idle.again
      BY Zenon DEF Idle, Request
    <2> QED BY Zenon, <2>2, <2>3, RevokeKeeps
  <1> QED BY Zenon, <1>1, <1>2, <1>3, <1>4, <1>5 DEF oauthRevoke

\* Registration, the crash of the server, and consent.
LEMMA ClientsAndCodesKeep ==
  ASSUME Inv,
         \/ Crash \/ \E c \in Clients : oauthRegister(c)
         \/ \E k \in Codes, c \in Clients, sc \in SUBSET Scopes, pkce \in BOOLEAN :
               oauthAuthorizeSubmit(k, c, sc, pkce)
  PROVE  Inv'
  <1>1. CASE Crash
    <2>1. Ages /\ UNCHANGED <<client, user, code, spent>>
      BY Zenon, <1>1, StillAges DEF Ages, Crash
    <2>2. req' \in [Reqs -> Request] /\ \A p \in Reqs : req'[p] = Idle
      BY Zenon, <1>1, IdleFits DEF Crash
    <2>3. \A p \in Reqs : Carries(req[p])' /\ ~(req'[p].pc = "access" /\ req'[p].i = 0)
      BY <2>2 DEF Carries, Idle
    <2>4. TokensHaveOwners'
      BY Zenon, <2>1, OwnersStay
    <2> QED BY Zenon, <2>1, <2>2, <2>3, <2>4, SpentStay, AgeingStep DEF Inv, TypeOK
  <1>2. ASSUME NEW c \in Clients, oauthRegister(c) PROVE Inv'
    <2>1. Ages /\ UNCHANGED <<user, code, tok, req, spent>>
      BY Zenon, <1>2, StillAges DEF Ages, oauthRegister, RegisterClient
    <2>2. client' \in [Clients -> State] /\ \A d \in Clients : client[d] = "live" => client'[d] = "live"
      BY Zenon, <1>2 DEF oauthRegister, RegisterClient, Inv, TypeOK, State
    <2>3. TokensHaveOwners'
      BY Zenon, <2>1, <2>2 DEF Inv, TokensOK, CodesOK, TokensHaveOwners, Rows, GetOAuthClient, GetUser
    <2> QED BY Zenon, <2>1, <2>2, <2>3, SpentStay, AgeingStep DEF Inv, TypeOK
  <1>3. ASSUME NEW k \in Codes, NEW c \in Clients, NEW sc \in SUBSET Scopes, NEW pkce \in BOOLEAN,
               oauthAuthorizeSubmit(k, c, sc, pkce)
        PROVE  Inv'
    <2> DEFINE row == [NoCode EXCEPT !.st = "live", !.c = c, !.scope = sc, !.pkce = pkce]
    <2>1. row \in CodeRow /\ row.st = "live" /\ row.c = c /\ ~row.used
      BY Zenon DEF NoCode, CodeRow, State
    <2>2. /\ code[k].st = "none" /\ ForeignKeys(c)
          /\ code' = [code EXCEPT ![k] = row] /\ UNCHANGED <<client, user, tok, req, spent>>
      BY Zenon, <1>3 DEF oauthAuthorizeSubmit, CreateAuthorizationCode
    <2> HIDE DEF row
    <2>3. code' \in [Codes -> CodeRow] /\ code'[k] = row /\ \A l \in Codes \ {k} : code'[l] = code[l]
      BY Zenon, <2>1, <2>2 DEF Inv, TypeOK
    <2>4. \A l \in Codes : CodeAges(code[l], code'[l])
      BY Zenon, <2>1, <2>2, <2>3 DEF Inv, TypeOK, CodesOK, CodeAges
    <2>5. Ages
      BY Zenon, <2>2, <2>3, <2>4, StillAges DEF Ages
    <2>6. TokensHaveOwners'
      BY Zenon, <2>1, <2>2, <2>3 DEF Inv, TokensHaveOwners, Rows, ForeignKeys, GetOAuthClient, GetUser
    <2> QED BY Zenon, <2>2, <2>5, <2>6, SpentStay, AgeingStep DEF Inv, TypeOK
  <1> QED BY Zenon, <1>1, <1>2, <1>3

\* The start of a token request.
LEMMA TokenKeeps ==
  ASSUME Inv, NEW p \in Reqs, oauthToken(p)
  PROVE  Inv'
  <1>1. ASSUME NEW k \in Codes, NEW c \in Clients, NEW ok \in BOOLEAN, ExchangeCode(p, k, c, ok)
        PROVE  Inv'
    <2>r. PICK r : r = [Idle EXCEPT !.pc = "mark", !.op = "exchange", !.k = k, !.c = c,
                                    !.scope = code[k].scope, !.ok = ok]
      OBVIOUS
    <2>1. UNCHANGED <<client, user, code, tok, spent>> /\ req' = [req EXCEPT ![p] = r]
          /\ code[k].st = "live"
      BY Zenon, <1>1, <2>r DEF ExchangeCode, Keep, GetAuthorizationCode
    <2>2. r \in Request /\ r.pc = "mark" /\ r.op = "exchange" /\ r.k = k /\ r.c = c /\ r.i = 0
          /\ r.scope = code[k].scope /\ ~r.again
      BY Zenon, <2>r DEF Inv, TypeOK, CodeRow, Idle, Request
    <2>3. Carries(r)'
      BY Zenon, <2>1, <2>2 DEF Carries
    <2>4. Ages
      BY Zenon, <2>1, StillAges DEF Ages
    <2> QED BY Zenon, <2>1, <2>2, <2>3, <2>4, SpentStay, RequestStep
  <1>2. ASSUME NEW i \in Ids, NEW sc \in SUBSET Scopes, RefreshAccessToken(p, i, sc)
        PROVE  Inv'
    <2> DEFINE end == [Idle EXCEPT !.pc = "chain", !.i = i]
    <2>r. PICK rot : rot = [Idle EXCEPT !.pc = "access", !.op = "refresh", !.k = tok[i].k, !.i = i,
                                        !.c = tok[i].c, !.again = i \in spent,
                                        !.scope = IntersectScopes(sc, tok[i].scope)]
      OBVIOUS
    <2>0. i \in Nat /\ i # 0 /\ tok[i] \in TokRow /\ tok[i].st = "live"
      BY <1>2, BoundAssumption DEF Inv, TypeOK, Ids, RefreshAccessToken,
         GetOAuthTokenByHashIncludingRevoked, Rows
    <2>1. UNCHANGED <<client, user, code, tok, spent>> /\ Ages
      BY Zenon, <1>2, StillAges DEF RefreshAccessToken, Ages
    <2>2. CASE Rotates(i)
      <3>1. req' = [req EXCEPT ![p] = rot]
        BY Zenon, <1>2, <2>r, <2>2 DEF RefreshAccessToken, Keep
      <3>2. i \notin spent
        BY Zenon, <2>0, <2>2 DEF Inv, SpentOK, Rotates
      <3>3. IntersectScopes(sc, tok[i].scope) \in SUBSET Scopes
            /\ IntersectScopes(sc, tok[i].scope) \subseteq tok[i].scope
        BY Zenon, <2>0 DEF IntersectScopes, TokRow
      <3>4. rot \in Request /\ rot.pc = "access" /\ rot.op = "refresh" /\ rot.k = tok[i].k
            /\ rot.i = i /\ rot.c = tok[i].c /\ ~rot.again
            /\ rot.scope = IntersectScopes(sc, tok[i].scope)
        <4>1. (i \in spent) = FALSE
          BY <3>2
        <4> QED BY Zenon, <2>0, <2>r, <3>3, <4>1 DEF TokRow, Idle, Request
      <3>5. Carries(rot)'
        BY Zenon, <2>0, <2>1, <3>3, <3>4 DEF Carries, Inv, TokensOK
      <3> QED BY Zenon, <2>0, <2>1, <3>1, <3>4, <3>5, SpentStay, RequestStep
    <2>3. CASE ~Rotates(i)
      <3>1. req' = [req EXCEPT ![p] = end]
        BY Zenon, <1>2, <2>3 DEF RefreshAccessToken, Keep
      <3>2. end \in Request /\ end.pc = "chain" /\ end.op = "none" /\ ~end.again
        BY Zenon, <2>0 DEF Idle, Request
      <3> HIDE DEF end
      <3>3. Carries(end)'
        BY Zenon, <3>2 DEF Carries
      <3> QED BY Zenon, <2>1, <3>1, <3>2, <3>3, SpentStay, RequestStep
    <2> QED BY Zenon, <2>2, <2>3
  <1> QED BY Zenon, <1>1, <1>2 DEF oauthToken

\* The code is marked: the request that finds it unused becomes its one holder.
LEMMA MarkUsedKeeps ==
  ASSUME Inv, NEW p \in Reqs, MarkUsed(p)
  PROVE  Inv'
  <1> DEFINE q == req[p]
  <1>k. PICK k : k = q.k
    OBVIOUS
  <1>r. PICK r : r = [q EXCEPT !.pc = "access", !.ok = TRUE]
    OBVIOUS
  <1>q. q \in Request /\ Carries(q) /\ q.pc = "mark" /\ k \in Codes /\ q.i = 0
    BY Zenon, <1>k DEF Inv, TypeOK, MarkUsed, Carries
  <1>0. code[k] \in CodeRow /\ UNCHANGED <<client, user, tok, spent>>
    BY Zenon, <1>q DEF Inv, TypeOK, MarkUsed
  <1>1. CASE ~MarkAuthorizationCodeUsed(k)
    <2>1. req' = [req EXCEPT ![p] = Idle] /\ UNCHANGED code
      BY Zenon, <1>1, <1>k DEF MarkUsed, Keep
    <2>2. Ages
      BY Zenon, <1>0, <2>1, StillAges DEF Ages
    <2> QED BY Zenon, <1>0, <2>1, <2>2, IdleFits, SpentStay, RequestStep
  <1>2. CASE MarkAuthorizationCodeUsed(k)
    <2>1. code' = [code EXCEPT ![k] = [code[k] EXCEPT !.used = TRUE]]
      BY Zenon, <1>2, <1>k DEF MarkUsed
    <2>2. code[k].st = "live" /\ ~code[k].used
      BY Zenon, <1>2 DEF MarkAuthorizationCodeUsed
    <2>3. [code[k] EXCEPT !.used = TRUE] \in CodeRow
      BY Zenon, <1>0 DEF CodeRow
    <2>4. code' \in [Codes -> CodeRow] /\ code'[k] = [code[k] EXCEPT !.used = TRUE]
          /\ \A l \in Codes \ {k} : code'[l] = code[l]
      BY Zenon, <1>q, <2>1, <2>3 DEF Inv, TypeOK
    <2>5. ASSUME NEW l \in Codes
          PROVE  CodeAges(code[l], code'[l]) /\ (code'[l].st = "live" => code[l].st = "live")
      <3>1. CASE l = k
        BY Zenon, <1>0, <2>2, <2>3, <2>4, <3>1 DEF Inv, CodesOK, CodeRow, CodeAges
      <3>2. CASE l # k
        BY Zenon, <2>4, <3>2 DEF Inv, TypeOK, CodesOK, CodeAges
      <3> QED BY Zenon, <3>1, <3>2
    <2>6. Ages
      BY Zenon, <1>0, <2>4, <2>5, StillAges DEF Ages
    <2>7. CASE ~(~code[k].pkce \/ q.ok)
      <3>1. req' = [req EXCEPT ![p] = Idle]
        BY Zenon, <1>2, <1>k, <2>7 DEF MarkUsed, Keep
      <3> QED BY Zenon, <1>0, <2>5, <2>6, <3>1, IdleFits, SpentStay, RequestStep
    <2>8. CASE ~code[k].pkce \/ q.ok
      <3>1. req' = [req EXCEPT ![p] = r]
        BY Zenon, <1>2, <1>k, <1>r, <2>8 DEF MarkUsed, Keep
      <3>2. r \in Request /\ r.pc = "access" /\ r.op = q.op /\ r.k = k /\ r.i = 0 /\ r.c = q.c
            /\ r.scope = q.scope /\ r.again = q.again
        BY Zenon, <1>k, <1>q, <1>r DEF Request
      <3>3. req' \in [Reqs -> Request] /\ req'[p] = r /\ \A x \in Reqs \ {p} : req'[x] = req[x]
        BY Zenon, <3>1, <3>2 DEF Inv, TypeOK
      <3>4. (\A i \in Ids : ~Root(i, k)) /\ (\A x \in Reqs : ~Holder(req[x], k))
        BY Zenon, <2>2 DEF Inv, TokensOK, Carries, Root, Holder
      <3>5. \A i \in Ids : ~Root(i, k)'
        BY Zenon, <2>6, <3>4, AgeingKeeps
      <3>6. code'[k].used /\ code'[k].st # "none" /\ code'[k].scope = code[k].scope
        BY Zenon, <1>0, <2>2, <2>4 DEF CodeRow
      <3>7. Carries(r)'
        BY Zenon, <1>k, <1>q, <1>0, <3>2, <3>5, <3>6 DEF Carries
      <3>8. Carries(req[p])'
        BY Zenon, <3>3, <3>7 DEF Carries
      <3>9. OneHolder'
        BY <3>2, <3>3, <3>4 DEF Inv, OneHolder, Holder
      <3>10. \A x \in Reqs : Carries(req[x])'
        BY Zenon, <2>6, <3>3, <3>8, AgeingKeeps
      <3>11. TypeOK'
        BY Zenon, <1>0, <2>6, <3>3 DEF Inv, TypeOK, Ages
      <3>12. TokensHaveOwners'
        BY Zenon, <1>0, <2>5, <2>6, OwnersStay
      <3> QED BY Zenon, <1>0, <2>6, <3>9, <3>10, <3>11, <3>12, AgeingKeeps, SpentStay DEF Inv
    <2> QED BY Zenon, <2>7, <2>8
  <1> QED BY Zenon, <1>1, <1>2

-----------------------------------------------------------------------------
(* Inserts.                                                                    *)

\* The next number is free.
LEMMA NextIsFree ==
  ASSUME Inv, NewId \in Ids
  PROVE  tok[NewId].st = "none" /\ NewId \in Nat /\ NewId # 0 /\ Issued \cup {NewId} = 1 .. NewId
  <1>1. PICK n \in 0 .. MaxTokens : Issued = 1 .. n
    BY Zenon DEF Inv, Numbered
  <1>2. n \in Nat /\ Cardinality(1 .. n) = n
    BY BoundAssumption, FS_Interval
  <1>3. NewId = n + 1
    BY Zenon, <1>1, <1>2 DEF NewId
  <1>4. NewId \notin Issued
    BY <1>1, <1>2, <1>3
  <1> QED BY <1>1, <1>2, <1>3, <1>4 DEF Issued

\* A token row goes in.  It is the root of its code only when its request holds
\* the code, and then no request holds it any more.
LEMMA InsertKeeps ==
  ASSUME Inv, NEW p \in Reqs, req[p].pc \in {"access", "refresh"}, NewId \in Ids,
         NEW row \in TokRow, row.st = "live", row.c = req[p].c, row.k = req[p].k,
         row.scope = req[p].scope,
         row.type = "access" /\ row.parent = 0 => req[p].pc = "access" /\ req[p].i = 0,
         ForeignKeys(row.c), tok' = [tok EXCEPT ![NewId] = row],
         NEW r \in Request, Keep(p, r), r.pc \in {"refresh", "revoke", "idle"},
         Carries(r)', UNCHANGED <<client, user, code, spent>>
  PROVE  Inv'
  <1>m. PICK n \in Ids : n = NewId
    OBVIOUS
  <1>n. tok[n].st = "none" /\ n \in Nat /\ n # 0 /\ Issued \cup {n} = 1 .. n
    BY Zenon, <1>m, NextIsFree
  <1>q. Carries(req[p]) /\ req[p] \in Request /\ req[p].k \in Codes /\ req[p].c \in Clients
    BY Zenon DEF Inv, TypeOK, Carries
  <1>t. tok' \in [Ids -> TokRow] /\ tok'[n] = row /\ \A i \in Ids \ {n} : tok'[i] = tok[i]
    BY Zenon, <1>m DEF Inv, TypeOK
  <1>r. req' \in [Reqs -> Request] /\ req'[p] = r /\ \A q \in Reqs \ {p} : req'[q] = req[q]
    BY Zenon DEF Inv, TypeOK, Keep
  <1>1. TypeOK'
    BY Zenon, <1>t, <1>r DEF Inv, TypeOK
  <1>2. Numbered'
    <2>1. Issued' = Issued \cup {n}
      BY Zenon, <1>n, <1>t DEF Issued
    <2>2. n \in 0 .. MaxTokens
      BY <1>n, BoundAssumption DEF Ids
    <2> QED BY Zenon, <1>n, <2>1, <2>2 DEF Numbered
  <1>3. CodesOK'
    BY Zenon DEF Inv, CodesOK
  <1>4. \A i \in Ids \ {n} : \A k : Root(i, k)' <=> Root(i, k)
    BY Zenon, <1>t DEF Root
  <1>5. \A k : Root(n, k)' => Holder(req[p], k)
    <2> SUFFICES ASSUME NEW k, row.type = "access", row.parent = 0, row.k = k
                 PROVE  Holder(req[p], k)
      BY Zenon, <1>t DEF Root
    <2> QED BY Zenon DEF Holder
  <1>6. TokensOK'
    <2> SUFFICES ASSUME NEW i \in Ids, tok'[i].st # "none"
                 PROVE  /\ tok'[i].k \in Codes /\ tok'[i].c \in Clients
                        /\ code'[tok'[i].k].st # "none"
                        /\ tok'[i].scope \subseteq code'[tok'[i].k].scope
                        /\ Root(i, tok[i].k)' => code'[tok'[i].k].used
      BY Zenon DEF TokensOK
    <2>1. CASE i = n
      BY SMTT(30), <1>q, <1>t, <1>5, <2>1 DEF Carries, Holder
    <2>2. CASE i # n
      BY <1>t, <1>4, <2>2 DEF Inv, TokensOK
    <2> QED BY Zenon, <2>1, <2>2
  <1>7. \A q \in Reqs : Carries(req[q])'
    <2> SUFFICES ASSUME NEW q \in Reqs PROVE Carries(req[q])'
      OBVIOUS
    <2>1. CASE q = p
      BY Zenon, <1>r, <2>1 DEF Carries
    <2>2. CASE q # p
      <3>1. Carries(req[q]) /\ req'[q] = req[q]
        BY Zenon, <1>r, <2>2 DEF Inv
      <3>2. req[q].pc = "access" /\ req[q].i = 0 => \A i \in Ids : ~Root(i, req[q].k)'
        <4> SUFFICES ASSUME req[q].pc = "access", req[q].i = 0, NEW i \in Ids, Root(i, req[q].k)'
                     PROVE  FALSE
          OBVIOUS
        <4>1. req[q].k \in Codes /\ Holder(req[q], req[q].k) /\ ~Root(i, req[q].k)
          BY Zenon, <3>1 DEF Carries, Holder
        <4>2. i = n
          BY Zenon, <3>1, <4>1, <1>t DEF Root
        <4>3. Holder(req[p], req[q].k)
          BY Zenon, <1>5, <4>2, <3>1 DEF Root
        <4> QED BY Zenon, <2>2, <4>1, <4>3 DEF Inv, OneHolder
      <3>3. req[q].op = "refresh" => tok'[req[q].i].st # "none"
        BY Zenon, <1>n, <1>t, <3>1 DEF Carries
      <3> QED BY Zenon, <3>1, <3>2, <3>3 DEF Carries
    <2> QED BY Zenon, <2>1, <2>2
  <1>8. OneHolder'
    BY SMTT(30), <1>r DEF Inv, OneHolder, Holder
  <1>9. OneRoot'
    <2>1. \A k : Root(n, k)' => \A i \in Ids : ~Root(i, k)
      BY Zenon, <1>5, <1>q DEF Holder, Carries
    <2> QED BY Zenon, <1>4, <2>1 DEF Inv, OneRoot
  <1>10. SpentOK'
    BY <1>n, <1>t DEF Inv, TypeOK, SpentOK
  <1>11. TokensHaveOwners'
    <2>1. \A i \in Ids : tok'[i].st = "live" => client[tok'[i].c] = "live" /\ user.st = "live"
      BY Zenon, <1>t DEF Inv, TokensHaveOwners, Rows, ForeignKeys, GetOAuthClient, GetUser
    <2> QED BY Zenon, <2>1 DEF Inv, TokensHaveOwners, Rows, GetOAuthClient, GetUser
  <1> QED BY Zenon, <1>1, <1>2, <1>3, <1>6, <1>7, <1>8, <1>9, <1>10, <1>11 DEF Inv

\* An insert that a foreign key refuses ends the request.
LEMMA InsertFails ==
  ASSUME Inv, NEW p \in Reqs, Keep(p, Idle), UNCHANGED <<client, user, code, tok, spent>>
  PROVE  Inv'
  <1>1. Ages
    BY Zenon, StillAges DEF Ages
  <1> QED BY Zenon, <1>1, IdleFits, SpentStay, RequestStep DEF Keep

\* Storing the access token of a pair keeps the invariant.
LEMMA CreateAccessKeeps ==
  ASSUME Inv, NEW p \in Reqs, CreateAccess(p)
  PROVE  Inv'
  <1>q. req[p] \in Request /\ Carries(req[p]) /\ req[p].pc = "access" /\ NewId \in Ids
        /\ UNCHANGED <<client, user, code, spent>>
    BY Zenon DEF Inv, TypeOK, CreateAccess, CreateOAuthToken
  <1>n. tok[NewId].st = "none" /\ NewId \in Nat
    BY Zenon, <1>q, NextIsFree
  <1>1. PICK row : row = Row(p, "access", req[p].i)
    OBVIOUS
  <1>2. PICK r : r = [req[p] EXCEPT !.pc = "refresh", !.j = NewId]
    OBVIOUS
  <1>3. CASE ~ForeignKeys(row.c)
    BY Zenon, <1>q, <1>1, <1>3, InsertFails DEF CreateAccess, CreateOAuthToken
  <1>4. CASE ForeignKeys(row.c)
    <2>1. tok' = [tok EXCEPT ![NewId] = row] /\ Keep(p, r)
      BY Zenon, <1>1, <1>2, <1>4 DEF CreateAccess, CreateOAuthToken
    <2>2. row \in TokRow /\ row.st = "live" /\ row.c = req[p].c /\ row.k = req[p].k
          /\ row.scope = req[p].scope /\ row.type = "access" /\ row.parent = req[p].i
      BY Zenon, <1>1, <1>q DEF Row, NoTok, TokRow, Request, State
    <2>3. r \in Request /\ r.pc = "refresh" /\ r.op = req[p].op /\ r.k = req[p].k /\ r.i = req[p].i
          /\ r.c = req[p].c /\ r.scope = req[p].scope /\ r.again = req[p].again
      BY Zenon, <1>2, <1>q, <1>n DEF Request
    <2>4. req[p].op = "refresh" => tok'[req[p].i] = tok[req[p].i]
      BY Zenon, <1>q, <1>n, <2>1 DEF Carries, Inv, TypeOK
    <2>5. Carries(r)'
      BY Zenon, <1>q, <2>3, <2>4 DEF Carries
    <2> QED BY Zenon, <1>q, <1>4, <2>1, <2>2, <2>3, <2>5, InsertKeeps
  <1> QED BY Zenon, <1>3, <1>4

\* Storing the refresh token of a pair keeps the invariant.
LEMMA CreateRefreshKeeps ==
  ASSUME Inv, NEW p \in Reqs, CreateRefresh(p)
  PROVE  Inv'
  <1>q. req[p] \in Request /\ Carries(req[p]) /\ req[p].pc = "refresh" /\ NewId \in Ids
        /\ UNCHANGED <<client, user, code, spent>>
    BY Zenon DEF Inv, TypeOK, CreateRefresh, CreateOAuthToken
  <1>n. tok[NewId].st = "none" /\ NewId \in Nat
    BY Zenon, <1>q, NextIsFree
  <1>1. PICK row : row = Row(p, "refresh", req[p].j)
    OBVIOUS
  <1>2. PICK r : r = IF req[p].op = "refresh" THEN [req[p] EXCEPT !.pc = "revoke"] ELSE Idle
    OBVIOUS
  <1>3. CASE ~ForeignKeys(row.c)
    BY Zenon, <1>q, <1>1, <1>3, InsertFails DEF CreateRefresh, CreateOAuthToken
  <1>4. CASE ForeignKeys(row.c)
    <2>1. tok' = [tok EXCEPT ![NewId] = row] /\ Keep(p, r)
      BY Zenon, <1>1, <1>2, <1>4 DEF CreateRefresh, CreateOAuthToken
    <2>2. row \in TokRow /\ row.st = "live" /\ row.c = req[p].c /\ row.k = req[p].k
          /\ row.scope = req[p].scope /\ row.type = "refresh"
      BY Zenon, <1>1, <1>q DEF Row, NoTok, TokRow, Request, State
    <2>3. CASE req[p].op = "refresh"
      <3>1. r \in Request /\ r.pc = "revoke" /\ r.op = "refresh" /\ r.i = req[p].i
            /\ r.again = req[p].again
        BY Zenon, <1>2, <1>q, <2>3 DEF Request
      <3>2. tok'[req[p].i] = tok[req[p].i]
        BY Zenon, <1>q, <1>n, <2>1, <2>3 DEF Carries, Inv, TypeOK
      <3>3. Carries(r)'
        BY Zenon, <1>q, <2>3, <3>1, <3>2 DEF Carries
      <3> QED BY Zenon, <1>q, <1>4, <2>1, <2>2, <3>1, <3>3, InsertKeeps
    <2>4. CASE req[p].op # "refresh"
      <3>1. r = Idle
        BY Zenon, <1>2, <2>4
      <3> QED BY Zenon, <1>q, <1>4, <2>1, <2>2, <3>1, IdleFits, InsertKeeps
    <2> QED BY Zenon, <2>3, <2>4
  <1> QED BY Zenon, <1>3, <1>4

-----------------------------------------------------------------------------
(* The theorems.                                                               *)

\* The invariant holds of the empty tables.
LEMMA InitHolds == Init => Inv
  <1> SUFFICES ASSUME Init PROVE Inv
    OBVIOUS
  <1> USE DEF Init
  <1>1. TypeOK
    BY Zenon DEF TypeOK, State, CodeRow, TokRow, Request, NoCode, NoTok, Idle
  <1>2. Issued = {}
    BY Zenon DEF Issued, NoTok
  <1>3. Numbered
    BY <1>2, BoundAssumption DEF Numbered
  <1>4. \A i \in Ids : tok[i].st = "none"
    BY Zenon DEF NoTok
  <1>5. \A k \in Codes : code[k].st = "none" /\ ~code[k].used
    BY Zenon DEF NoCode
  <1>6. \A p \in Reqs : req[p] = Idle
    OBVIOUS
  <1>7. \A p \in Reqs : Carries(req[p])
    BY Zenon, <1>6 DEF Carries, Idle
  <1>8. CodesOK /\ TokensOK /\ OneRoot /\ SpentOK /\ TokensHaveOwners
    BY Zenon, <1>4, <1>5 DEF CodesOK, TokensOK, OneRoot, Root, SpentOK, TokensHaveOwners, Rows
  <1>9. OneHolder
    BY Zenon, <1>6 DEF OneHolder, Holder, Idle
  <1> QED BY Zenon, <1>1, <1>3, <1>7, <1>8, <1>9 DEF Inv

\* Every step of the authorization server keeps the invariant.
LEMMA NextKeeps == Inv /\ [Next]_vars => Inv'
  <1> SUFFICES ASSUME Inv, [Next]_vars PROVE Inv'
    OBVIOUS
  <1>1. CASE UNCHANGED vars
    <2>1. Ages /\ UNCHANGED <<client, user, code, tok, req, spent>>
      BY Zenon, <1>1, StillAges DEF Ages, vars
    <2> QED BY Zenon, <2>1, RowsStep
  <1>2. CASE \/ Crash \/ \E c \in Clients : oauthRegister(c)
             \/ \E k \in Codes, c \in Clients, sc \in SUBSET Scopes, pkce \in BOOLEAN :
                   oauthAuthorizeSubmit(k, c, sc, pkce)
    BY Zenon, <1>2, ClientsAndCodesKeep
  <1>3. CASE CleanupExpiredCodes \/ CleanupExpiredTokens
             \/ (\E k \in Codes : ExpireCode(k)) \/ (\E i \in Ids : ExpireToken(i))
    BY Zenon, <1>3, TimeKeeps
  <1>4. CASE DeleteUser
    BY Zenon, <1>4, DeleteUserKeeps
  <1>5. ASSUME NEW p \in Reqs,
               \/ \E c \in Clients : oauthDeleteClient(p, c)
               \/ oauthToken(p) \/ oauthRevoke(p)
               \/ DeleteOAuthClient(p) \/ MarkUsed(p) \/ CreateAccess(p) \/ CreateRefresh(p)
               \/ RevokeOld(p) \/ RevokeChildren(p) \/ RevokeSelf(p) \/ RevokePair(p)
        PROVE  Inv'
    BY Zenon, <1>5, RevocationsKeep, TokenKeeps, DeleteClientKeeps, MarkUsedKeeps, CreateAccessKeeps,
       CreateRefreshKeeps
  <1> QED BY Zenon, <1>1, <1>2, <1>3, <1>4, <1>5 DEF Next

\* The invariant holds in every reachable state.
LEMMA AlwaysInv == Spec => []Inv
  BY InitHolds, NextKeeps, PTL DEF Spec

\* A set whose members are all equal has at most one.
LEMMA AtMostOne ==
  ASSUME NEW T, \A x, y \in T : x = y
  PROVE  Cardinality(T) <= 1
  <1>1. CASE T = {}
    BY <1>1, FS_EmptySet
  <1>2. CASE T # {}
    <2>1. PICK x : T = {x}
      BY <1>2
    <2>2. Cardinality({x}) = 1
      BY Zenon, FS_Singleton
    <2>3. Cardinality(T) = 1
      BY Zenon, <2>1, <2>2
    <2> QED BY <2>3
  <1> QED BY Zenon, <1>1, <1>2

\* However many exchanges of a code overlap, and whatever is revoked, expires, is
\* cleaned up or lost in a crash meanwhile, one access token comes of the code.
THEOREM CodesAreExchangedOnce == Spec => []OneExchangePerCode
  <1>1. Inv => OneExchangePerCode
    <2> SUFFICES ASSUME Inv, NEW k \in Codes
                 PROVE  Cardinality({i \in Issued : tok[i].type = "access" /\ tok[i].parent = 0
                                                    /\ tok[i].k = k}) <= 1
      BY Zenon DEF OneExchangePerCode
    <2>1. \A i, j \in {i \in Issued : tok[i].type = "access" /\ tok[i].parent = 0
                                      /\ tok[i].k = k} : i = j
      BY Zenon DEF Inv, OneRoot, Root, Issued
    <2> QED BY <2>1, AtMostOne
  <1> QED BY AlwaysInv, <1>1, PTL

\* A refresh token whose rotation has completed is never rotated again.
THEOREM SpentStaysSpent == Spec => []SpentNotRotated
  <1>1. Inv => SpentNotRotated
    BY SMTT(30) DEF Inv, Carries, SpentNotRotated
  <1> QED BY AlwaysInv, <1>1, PTL

\* No chain of exchanges and refreshes widens the scopes the user consented to.
THEOREM RefreshNeverWidens == Spec => []ScopesNarrow
  <1>1. Inv => ScopesNarrow
    BY DEF Inv, TokensOK, Issued, ScopesNarrow
  <1> QED BY AlwaysInv, <1>1, PTL

\* No live code or token has lost its client or its user, although the request
\* that inserts a token read them earlier.
THEOREM NoOrphanTokens == Spec => []TokensHaveOwners
  <1>1. Inv => TokensHaveOwners
    BY DEF Inv
  <1> QED BY AlwaysInv, <1>1, PTL

-----------------------------------------------------------------------------
(* Sessions.                                                                   *)

SessionRow == [u : Users \cup {NoUser}, g : Nat, exp : BOOLEAN]
SessionSteps == {"idle", "verify", "refresh", "save", "logout", "load", "write", "sweep", "sweepDel"}
SessionOps == {"none", "look", "logout", "change", "reset", "delete", "update"}
SessionRequest == [pc : SessionSteps, op : SessionOps, u : Users \cup {NoUser}, t : Tokens \cup {NoToken}, s : SessionRow,
            row : BOOLEAN, found : SUBSET Tokens, dirty : BOOLEAN]

SessionTypes ==
    /\ store \in {"sqlite", "memory", "valkey"}
    /\ sUser \in [Users -> [st : {"live", "gone"}, active : BOOLEAN]]
    /\ epoch \in [Users -> Nat]
    /\ sess \in [Tokens -> SessionRow]
    /\ idx \in [Users -> SUBSET Tokens]
    /\ sReq \in [Reqs -> SessionRequest]
    /\ used \subseteq Tokens /\ dead \subseteq used

Pending(u) == \E p \in Reqs : sReq[p].pc \in {"sweep", "sweepDel"} /\ sReq[p].u = u

\* What a request holds: its user, a token that was handed out, a session of its
\* user; the index is read in two commands only on Valkey.
Holds(q) ==
    /\ q.pc \notin {"idle", "logout"} => q.u \in Users
    /\ q.pc \in {"refresh", "save", "logout"} => q.t \in used
    /\ q.pc \in {"verify", "save"} => q.s.u = q.u
    /\ q.pc = "sweepDel" => store = "valkey"
    /\ q.pc \in {"refresh", "save"} => q.op \in {"look", "logout", "change"}
    /\ q.pc \in {"load", "write"} => q.op \in {"change", "reset", "delete", "update"}

\* A token belongs to one user from first to last, in the store, in the requests
\* and in the index.
Owned(o) ==
    /\ o \in [Tokens -> Users \cup {NoUser}]
    /\ \A t \in Tokens : S!Live(t) => t \in used /\ sess[t].u = o[t] /\ o[t] \in Users
    /\ \A p \in Reqs : sReq[p].pc \in {"refresh", "save"} => sReq[p].u = o[sReq[p].t]
    /\ \A u \in Users : \A t \in idx[u] : t \in used /\ o[t] = u
    /\ \A p \in Reqs : sReq[p].pc = "sweepDel" =>
          \A t \in sReq[p].found : t \in used /\ o[t] = sReq[p].u

\* A request about to save an outdated session was overtaken by a sweep, holds a
\* token that survived one already, or has a sweep still to come.
Overtaken(q) ==
    /\ q.pc \in {"verify", "save"} /\ q.s.g < epoch[q.u] =>
          q.dirty \/ (q.pc = "save" /\ q.t \in late) \/ Pending(q.u)
    /\ q.pc = "save" /\ q.t \in dead => q.dirty \/ q.t \in late

\* Valkey's sweep misses only sessions that were saved while it ran.
Indexed ==
    /\ store = "valkey" => \A t \in Tokens : S!Live(t) => t \in idx[sess[t].u] \/ t \in late
    /\ \A p \in Reqs : sReq[p].pc = "sweepDel" =>
          \A t \in Tokens : S!Live(t) /\ sess[t].u = sReq[p].u => t \in sReq[p].found \/ t \in late

SessionInv == /\ SessionTypes /\ (\A p \in Reqs : Holds(sReq[p]) /\ Overtaken(sReq[p]))
       /\ (\E o : Owned(o)) /\ Indexed /\ OldSessionsEnd /\ DeadStayDead

-----------------------------------------------------------------------------
(* Kinds of steps.                                                             *)

\* The record of no request.
LEMMA IdleSession == S!Idle \in SessionRequest /\ S!Idle.pc = "idle" /\ S!None \in SessionRow
  BY Zenon DEF S!Idle, S!None, SessionRequest, SessionRow, SessionSteps, SessionOps

\* One request moves on; the stores, and the sweeps to come, stay as they are.
LEMMA QuietStep ==
  ASSUME SessionInv, NEW p \in Reqs, NEW r \in SessionRequest, sReq' = [sReq EXCEPT ![p] = r],
         UNCHANGED <<store, epoch, sess, idx, used, dead, late>>,
         sUser' \in [Users -> [st : {"live", "gone"}, active : BOOLEAN]],
         Holds(r), Overtaken(r),
         sReq[p].pc \in {"sweep", "sweepDel"} => r.pc \in {"sweep", "sweepDel"} /\ r.u = sReq[p].u,
         \A o : Owned(o) => /\ r.pc \in {"refresh", "save"} => r.u = o[r.t]
                            /\ r.pc = "sweepDel" => \A t \in r.found : t \in used /\ o[t] = r.u,
         r.pc = "sweepDel" =>
            \A t \in Tokens : S!Live(t) /\ sess[t].u = r.u => t \in r.found \/ t \in late
  PROVE  SessionInv'
  <1>1. sReq' \in [Reqs -> SessionRequest] /\ sReq'[p] = r /\ \A q \in Reqs \ {p} : sReq'[q] = sReq[q]
    BY Zenon DEF SessionInv, SessionTypes
  <1>2. SessionTypes'
    BY Zenon, <1>1 DEF SessionInv, SessionTypes
  <1>3. \A u : Pending(u) => Pending(u)'
    BY Zenon, <1>1 DEF Pending
  <1>4. ASSUME NEW q \in Reqs PROVE Holds(sReq[q])' /\ Overtaken(sReq[q])'
    <2>1. CASE q = p
      BY Zenon, <1>1, <1>3, <2>1 DEF Holds, Overtaken
    <2>2. CASE q # p
      BY Zenon, <1>1, <1>3, <2>2 DEF SessionInv, Holds, Overtaken
    <2> QED BY Zenon, <2>1, <2>2
  <1>5. \E o : Owned(o)'
    <2>1. PICK o : Owned(o)
      BY Zenon DEF SessionInv
    <2>2. Owned(o)'
      BY <1>1, <2>1 DEF Owned, S!Live
    <2> QED BY Zenon, <2>2
  <1>6. Indexed'
    BY Zenon, <1>1 DEF SessionInv, Indexed, S!Live
  <1>7. OldSessionsEnd'
    <2> SUFFICES ASSUME NEW t \in Tokens, S!Live(t), sess[t].g < epoch[sess[t].u]
                 PROVE  t \in late \/ Pending(sess[t].u)'
      BY Zenon DEF OldSessionsEnd, S!OldSessionsEnd, S!Live, Pending
    <2> QED BY <1>3 DEF SessionInv, OldSessionsEnd, S!OldSessionsEnd, Pending
  <1>8. DeadStayDead'
    BY Zenon DEF SessionInv, DeadStayDead, S!DeadStayDead, S!Live
  <1> QED BY Zenon, <1>2, <1>4, <1>5, <1>6, <1>7, <1>8 DEF SessionInv

\* Sessions only go; what stays keeps its user and its age, and its index entry.
LEMMA ShrinkStep ==
  ASSUME SessionInv, UNCHANGED <<store, sUser, epoch, used, sReq, dead, late>>,
         sess' \in [Tokens -> SessionRow], idx' \in [Users -> SUBSET Tokens],
         \A t \in Tokens : S!Live(t)' =>
            S!Live(t) /\ sess'[t].u = sess[t].u /\ sess'[t].g = sess[t].g,
         \A u \in Users : idx'[u] \subseteq idx[u]
                          /\ \A t \in idx[u] : S!Live(t)' => t \in idx'[u]
  PROVE  SessionInv'
  <1>1. SessionTypes'
    BY Zenon DEF SessionInv, SessionTypes
  <1>2. \A u : Pending(u)' <=> Pending(u)
    BY Zenon DEF Pending
  <1>3. \A q \in Reqs : Holds(sReq[q])' /\ Overtaken(sReq[q])'
    BY Zenon, <1>2 DEF SessionInv, Holds, Overtaken
  <1>4. PICK o : Owned(o)
    BY Zenon DEF SessionInv
  <1>5. Owned(o)'
    BY Zenon, <1>4 DEF Owned
  <1>6. Indexed'
    BY <1>4 DEF SessionInv, Indexed, Owned
  <1>7. OldSessionsEnd'
    <2> SUFFICES ASSUME NEW t \in Tokens, S!Live(t)', sess'[t].g < epoch[sess'[t].u]
                 PROVE  t \in late \/ Pending(sess'[t].u)
      BY Zenon DEF OldSessionsEnd, S!OldSessionsEnd, Pending
    <2> QED BY Zenon DEF SessionInv, OldSessionsEnd, S!OldSessionsEnd, Pending
  <1>8. DeadStayDead'
    BY Zenon DEF SessionInv, SessionTypes, DeadStayDead, S!DeadStayDead
  <1> QED BY Zenon, <1>1, <1>3, <1>5, <1>6, <1>7, <1>8 DEF SessionInv

\* A session is saved: by a login under a new token, or by a refresh under its own.
LEMMA SaveStep ==
  ASSUME SessionInv, NEW p \in Reqs, NEW t \in Tokens, NEW r \in SessionRequest,
         \/ sReq[p].pc = "verify" /\ t \notin used
         \/ sReq[p].pc = "save" /\ t = sReq[p].t,
         S!Save(t, sReq[p].s), S!SaveIndex(t, sReq[p].u), S!Excused(p, t), S!Keep(p, r),
         used' = used \cup {t}, UNCHANGED <<store, sUser, epoch, dead>>,
         r.pc \in {"idle", "logout", "load"}, r.pc = "logout" => r.t \in used,
         r.pc = "load" => r.u \in Users /\ r.op = "change"
  PROVE  SessionInv'
  <1> DEFINE q == sReq[p]
  <1>q. q \in SessionRequest /\ Holds(q) /\ Overtaken(q) /\ q.u \in Users /\ q.s.u = q.u /\ q.s \in SessionRow
    BY Zenon DEF SessionInv, SessionTypes, Holds, SessionRequest
  <1>1. sReq' \in [Reqs -> SessionRequest] /\ sReq'[p] = r /\ \A x \in Reqs \ {p} : sReq'[x] = sReq[x]
    BY Zenon DEF SessionInv, SessionTypes, S!Keep
  <1>2. /\ sess' \in [Tokens -> SessionRow]
        /\ sess'[t] \in {sess[t], q.s} /\ \A x \in Tokens \ {t} : sess'[x] = sess[x]
    BY Zenon, <1>q DEF SessionInv, SessionTypes, S!Save
  <1>3. /\ idx' \in [Users -> SUBSET Tokens]
        /\ \A u \in Users : idx[u] \subseteq idx'[u]
        /\ \A u \in Users : idx'[u] \subseteq idx[u] \cup {t}
        /\ \A u \in Users \ {q.u} : idx'[u] = idx[u]
        /\ store = "valkey" => t \in idx'[q.u]
    BY Zenon, <1>q DEF SessionInv, SessionTypes, S!SaveIndex
  <1>4. /\ late \subseteq late' /\ late' \subseteq late \cup {t}
        /\ q.dirty => t \in late'
        /\ \A x \in Reqs : sReq[x].pc = "sweepDel" /\ sReq[x].u = q.u => t \in late'
    BY Zenon DEF S!Excused
  <1>5. SessionTypes'
    BY Zenon, <1>1, <1>2, <1>3 DEF SessionInv, SessionTypes
  <1>6. \A u : Pending(u) => Pending(u)'
    BY Zenon, <1>1 DEF Pending
  <1>7. ASSUME NEW x \in Reqs PROVE Holds(sReq[x])' /\ Overtaken(sReq[x])'
    <2>1. CASE x = p
      BY Zenon, <1>1, <2>1 DEF Holds, Overtaken
    <2>2. CASE x # p
      BY Zenon, <1>1, <1>4, <1>6, <2>2 DEF SessionInv, Holds, Overtaken
    <2> QED BY Zenon, <2>1, <2>2
  <1>8. PICK o : Owned(o)
    BY Zenon DEF SessionInv
  <1>9. PICK o2 : o2 = [o EXCEPT ![t] = q.u]
    OBVIOUS
  <1>10. o2 \in [Tokens -> Users \cup {NoUser}] /\ o2[t] = q.u /\ \A x \in Tokens \ {t} : o2[x] = o[x]
    BY Zenon, <1>q, <1>8, <1>9 DEF Owned
  <1>11. \A x \in used : o2[x] = o[x]
    BY <1>8, <1>10 DEF Owned, SessionInv, SessionTypes
  <1>12. Owned(o2)'
    <2>1. ASSUME NEW x \in Tokens, S!Live(x)' PROVE x \in used' /\ sess'[x].u = o2[x] /\ o2[x] \in Users
      <3>1. CASE x = t
        BY Zenon, <1>q, <1>2, <1>8, <1>10, <1>11, <2>1, <3>1 DEF Owned, S!Live
      <3>2. CASE x # t
        BY Zenon, <1>2, <1>8, <1>10, <2>1, <3>2 DEF Owned, S!Live
      <3> QED BY Zenon, <3>1, <3>2
    <2>2. ASSUME NEW x \in Reqs, sReq'[x].pc \in {"refresh", "save"} PROVE sReq'[x].u = o2[sReq'[x].t]
      BY <1>1, <1>8, <1>11, <2>2 DEF Owned, SessionInv, Holds
    <2>3. ASSUME NEW u \in Users, NEW x \in idx'[u] PROVE x \in used' /\ o2[x] = u
      BY <1>3, <1>8, <1>10, <1>11, <2>3 DEF Owned
    <2>4. ASSUME NEW x \in Reqs, sReq'[x].pc = "sweepDel", NEW y \in sReq'[x].found
          PROVE  y \in used' /\ o2[y] = sReq'[x].u
      BY <1>1, <1>8, <1>11, <2>4 DEF Owned
    <2> QED BY Zenon, <1>10, <2>1, <2>2, <2>3, <2>4 DEF Owned
  <1>13. Indexed'
    <2>1. ASSUME store = "valkey", NEW x \in Tokens, S!Live(x)'
          PROVE  x \in idx'[sess'[x].u] \/ x \in late'
      <3>1. CASE x # t \/ sess'[x] = sess[x]
        <4>1. S!Live(x) /\ sess'[x] = sess[x] /\ sess[x].u \in Users
          BY Zenon, <1>2, <1>8, <2>1, <3>1 DEF S!Live, Owned
        <4> QED BY Zenon, <1>3, <1>4, <2>1, <4>1 DEF SessionInv, Indexed
      <3>2. CASE x = t /\ sess'[x] = q.s
        BY Zenon, <1>q, <1>3, <2>1, <3>2
      <3> QED BY Zenon, <1>2, <3>1, <3>2
    <2>2. ASSUME NEW x \in Reqs, sReq'[x].pc = "sweepDel", NEW y \in Tokens, S!Live(y)',
                 sess'[y].u = sReq'[x].u
          PROVE  y \in sReq'[x].found \/ y \in late'
      <3>0. sReq'[x] = sReq[x]
        BY Zenon, <1>1, <2>2
      <3>1. CASE y # t \/ sess'[y] = sess[y]
        <4>1. S!Live(y) /\ sess'[y] = sess[y]
          BY Zenon, <1>2, <2>2, <3>1 DEF S!Live
        <4> QED BY Zenon, <1>4, <2>2, <3>0, <4>1 DEF SessionInv, Indexed
      <3>2. CASE y = t /\ sess'[y] = q.s
        BY Zenon, <1>q, <1>4, <2>2, <3>0, <3>2
      <3> QED BY Zenon, <1>2, <3>1, <3>2
    <2> QED BY Zenon, <2>1, <2>2 DEF Indexed
  <1>14. OldSessionsEnd'
    <2> SUFFICES ASSUME NEW x \in Tokens, S!Live(x)', sess'[x].g < epoch[sess'[x].u]
                 PROVE  x \in late' \/ Pending(sess[x].u)'
      BY Zenon DEF OldSessionsEnd, S!OldSessionsEnd, Pending
    <2>1. CASE x # t \/ sess'[x] = sess[x]
      <3>1. S!Live(x) /\ sess'[x] = sess[x]
        BY Zenon, <1>2, <2>1 DEF S!Live
      <3>2. x \in late \/ Pending(sess[x].u)
        BY Zenon, <3>1 DEF SessionInv, OldSessionsEnd, S!OldSessionsEnd, Pending
      <3> QED BY Zenon, <1>4, <1>6, <3>1, <3>2
    <2>2. CASE x = t /\ sess'[x] = q.s
      BY Zenon, <1>q, <1>4, <1>6, <2>2 DEF Overtaken
    <2> QED BY Zenon, <1>2, <2>1, <2>2
  <1>15. DeadStayDead'
    <2> SUFFICES ASSUME NEW x \in dead, S!Live(x)' PROVE x \in late'
      BY Zenon DEF DeadStayDead, S!DeadStayDead
    <2>0. x \in Tokens /\ x \in used
      BY Zenon DEF SessionInv, SessionTypes
    <2>1. CASE x = t
      BY Zenon, <1>q, <1>4, <2>0, <2>1 DEF Overtaken
    <2>2. CASE x # t
      BY Zenon, <1>2, <1>4, <2>0, <2>2 DEF S!Live, SessionInv, DeadStayDead, S!DeadStayDead
    <2> QED BY Zenon, <2>1, <2>2
  <1> QED BY Zenon, <1>5, <1>7, <1>12, <1>13, <1>14, <1>15 DEF SessionInv

-----------------------------------------------------------------------------
(* The actions.                                                                *)

\* Where a request goes from the middleware.
LEMMA ServeFits ==
  ASSUME NEW q \in SessionRequest
  PROVE  /\ S!Serve(q) \in SessionRequest
         /\ S!Serve(q).pc \in {"idle", "logout", "load"}
         /\ S!Serve(q).pc # "idle" => S!Serve(q).t = q.t /\ S!Serve(q).u = q.u /\ S!Serve(q).op = q.op
         /\ S!Serve(q).pc = "load" => q.op \notin {"look", "logout"}
  <1>1. CASE q.op = "look"
    BY Zenon, <1>1, IdleSession DEF S!Serve
  <1>2. CASE q.op # "look"
    <2> DEFINE pc == IF q.op = "logout" THEN "logout" ELSE "load"
    <2>1. S!Serve(q) = [q EXCEPT !.pc = pc, !.s = S!None, !.dirty = FALSE]
      BY Zenon, <1>2 DEF S!Serve
    <2>2. pc \in {"logout", "load"} /\ pc \in SessionSteps /\ (pc = "load" => q.op # "logout")
      BY Zenon DEF SessionSteps
    <2> HIDE DEF pc
    <2> QED BY <1>2, <2>1, <2>2, IdleSession DEF SessionRequest
  <1> QED BY Zenon, <1>1, <1>2

\* Logins, loads and the handlers that begin a request.
LEMMA BeginKeeps ==
  ASSUME SessionInv, NEW p \in Reqs,
         \/ \E u \in Users : \/ S!login(p, u)
                             \/ \E op \in {"reset", "delete", "update"} : S!Manage(p, u, op)
         \/ S!Load(p)
  PROVE  SessionInv'
  <1>1. ASSUME NEW u \in Users, S!login(p, u) PROVE SessionInv'
    <2>1. PICK r : r = [S!Idle EXCEPT !.pc = "verify", !.u = u, !.s.u = u, !.s.g = epoch[u]]
      OBVIOUS
    <2>2. epoch[u] \in Nat /\ ~(epoch[u] < epoch[u])
      BY DEF SessionInv, SessionTypes
    <2>3. r \in SessionRequest /\ r.pc = "verify" /\ r.u = u /\ r.s.u = u /\ r.s.g = epoch[u]
      BY <2>1, <2>2 DEF S!Idle, S!None, SessionRequest, SessionRow, SessionSteps, SessionOps
    <2>4. Holds(r) /\ Overtaken(r)
      BY Zenon, <2>2, <2>3 DEF Holds, Overtaken
    <2>5. sReq' = [sReq EXCEPT ![p] = r] /\ sReq[p].pc = "idle"
          /\ UNCHANGED <<store, sUser, epoch, sess, idx, used, dead, late>>
      BY Zenon, <1>1, <2>1 DEF S!login, S!Login, S!Keep
    <2> QED BY Zenon, <2>3, <2>4, <2>5, QuietStep DEF SessionInv, SessionTypes
  <1>2. ASSUME NEW u \in Users, NEW op \in {"reset", "delete", "update"}, S!Manage(p, u, op)
        PROVE  SessionInv'
    <2>1. PICK r : r = [S!Idle EXCEPT !.pc = "load", !.op = op, !.u = u]
      OBVIOUS
    <2>3. r \in SessionRequest /\ r.pc = "load" /\ r.u = u /\ r.op = op
      BY Zenon, <2>1 DEF S!Idle, S!None, SessionRequest, SessionRow, SessionSteps, SessionOps
    <2>4. Holds(r) /\ Overtaken(r)
      BY Zenon, <2>3 DEF Holds, Overtaken
    <2>5. sReq' = [sReq EXCEPT ![p] = r] /\ sReq[p].pc = "idle"
          /\ UNCHANGED <<store, sUser, epoch, sess, idx, used, dead, late>>
      BY Zenon, <1>2, <2>1 DEF S!Manage, S!Keep
    <2> QED BY Zenon, <2>3, <2>4, <2>5, QuietStep DEF SessionInv, SessionTypes
  <1>3. CASE S!Load(p)
    <2>q. sReq[p] \in SessionRequest /\ sReq[p].pc = "load" /\ sReq[p].u \in Users
          /\ sReq[p].op \in {"change", "reset", "delete", "update"}
      BY Zenon, <1>3 DEF SessionInv, SessionTypes, S!Load, Holds
    <2>1. PICK r : r = IF sUser[sReq[p].u].st # "live" THEN S!Idle
                       ELSE [sReq[p] EXCEPT !.pc = "write", !.row = sUser[sReq[p].u].active]
      OBVIOUS
    <2>3. r \in SessionRequest /\ (r.pc = "idle" \/ (r.pc = "write" /\ r.u \in Users /\ r.op = sReq[p].op))
      <3>1. sUser[sReq[p].u].active \in BOOLEAN
        BY Zenon, <2>q DEF SessionInv, SessionTypes
      <3>2. CASE sUser[sReq[p].u].st # "live"
        <4>1. r = S!Idle
          BY Zenon, <2>1, <3>2
        <4> QED BY Zenon, <4>1, IdleSession
      <3>3. CASE sUser[sReq[p].u].st = "live"
        <4>1. r = [sReq[p] EXCEPT !.pc = "write", !.row = sUser[sReq[p].u].active]
          BY Zenon, <2>1, <3>3
        <4> QED BY Zenon, <2>q, <3>1, <4>1 DEF SessionRequest, SessionSteps
      <3> QED BY Zenon, <3>2, <3>3
    <2>4. Holds(r) /\ Overtaken(r)
      BY Zenon, <2>q, <2>3 DEF Holds, Overtaken
    <2>5. sReq' = [sReq EXCEPT ![p] = r]
          /\ UNCHANGED <<store, sUser, epoch, sess, idx, used, dead, late>>
      BY Zenon, <1>3, <2>1 DEF S!Load, S!Keep
    <2> QED BY Zenon, <2>q, <2>3, <2>4, <2>5, QuietStep DEF SessionInv, SessionTypes
  <1> QED BY Zenon, <1>1, <1>2, <1>3

\* Deadlines and their cleanup, and the middleware that meets an expired session.
LEMMA ExpiryKeeps ==
  ASSUME SessionInv, \/ S!Cleanup \/ \E t \in Tokens : S!Expire(t)
  PROVE  SessionInv'
  <1>0. \A t \in Tokens : sess[t] \in SessionRow
    BY Zenon DEF SessionInv, SessionTypes
  <1>1. CASE S!Cleanup
    <2>1. \A t \in Tokens : sess'[t] \in {S!None, sess[t]}
      BY Zenon, <1>1 DEF S!Cleanup
    <2>2. sess' \in [Tokens -> SessionRow]
      BY Zenon, <1>0, <1>1, IdleSession DEF S!Cleanup
    <2> QED BY Zenon, <1>1, <2>1, <2>2, ShrinkStep DEF S!Cleanup, SessionInv, SessionTypes, S!Live
  <1>2. ASSUME NEW t \in Tokens, S!Expire(t) PROVE SessionInv'
    <2>1. sess' = [sess EXCEPT ![t] = [sess[t] EXCEPT !.exp = TRUE]]
      BY Zenon, <1>2 DEF S!Expire
    <2>2. [sess[t] EXCEPT !.exp = TRUE] \in SessionRow
          /\ [sess[t] EXCEPT !.exp = TRUE].u = sess[t].u
          /\ [sess[t] EXCEPT !.exp = TRUE].g = sess[t].g
      BY Zenon, <1>0 DEF SessionRow
    <2>3. sess' \in [Tokens -> SessionRow] /\ sess'[t].u = sess[t].u /\ sess'[t].g = sess[t].g
          /\ \A x \in Tokens \ {t} : sess'[x] = sess[x]
      BY Zenon, <2>1, <2>2 DEF SessionInv, SessionTypes
    <2> QED BY Zenon, <1>2, <2>3, ShrinkStep DEF S!Expire, SessionInv, SessionTypes, S!Live
  <1> QED BY Zenon, <1>1, <1>2

\* Looking a session up, which drops an expired one, keeps the invariant.
LEMMA GetSessionKeeps ==
  ASSUME SessionInv, NEW p \in Reqs, NEW t \in Tokens, NEW op \in {"look", "logout", "change"},
         S!GetSession(p, t, op)
  PROVE  SessionInv'
  <1>1. CASE sess[t].exp
    <2>1. S!Delete(t) /\ UNCHANGED <<store, sUser, epoch, used, sReq, dead, late>>
      BY Zenon, <1>1 DEF S!GetSession
    <2>2. sess' \in [Tokens -> SessionRow] /\ sess'[t] = S!None /\ \A x \in Tokens \ {t} : sess'[x] = sess[x]
      BY Zenon, <2>1, IdleSession DEF S!Delete, SessionInv, SessionTypes
    <2>3. idx' \in [Users -> SUBSET Tokens] /\ \A u \in Users : idx'[u] = idx[u] \ {t}
      BY Zenon, <2>1 DEF S!Delete, SessionInv, SessionTypes
    <2> QED BY Zenon, <2>1, <2>2, <2>3, ShrinkStep DEF S!Live
  <1>2. CASE ~sess[t].exp
    <2>1. PICK r : r = [S!Idle EXCEPT !.pc = "refresh", !.op = op, !.t = t, !.u = sess[t].u,
                                    !.s = sess[t]]
      OBVIOUS
    <2>2. PICK o : Owned(o)
      BY Zenon DEF SessionInv
    <2>3. S!Live(t) /\ t \in used /\ sess[t].u \in Users /\ sess[t] \in SessionRow
      BY Zenon, <2>2 DEF S!GetSession, Owned, SessionInv, SessionTypes
    <2>4. r \in SessionRequest /\ r.pc = "refresh" /\ r.u = sess[t].u /\ r.t = t /\ r.op = op
      BY Zenon, <2>1, <2>3 DEF S!Idle, S!None, SessionRequest, SessionSteps, SessionOps
    <2>5. Holds(r) /\ Overtaken(r)
      BY Zenon, <2>3, <2>4 DEF Holds, Overtaken
    <2>6. sReq' = [sReq EXCEPT ![p] = r] /\ sReq[p].pc = "idle"
          /\ UNCHANGED <<store, sUser, epoch, sess, idx, used, dead, late>>
      BY Zenon, <1>2, <2>1 DEF S!GetSession, S!Keep
    <2>7. \A x : Owned(x) => r.u = x[r.t]
      BY Zenon, <2>3, <2>4 DEF Owned
    <2> QED BY Zenon, <2>4, <2>5, <2>6, <2>7, QuietStep DEF SessionInv, SessionTypes
  <1> QED BY Zenon, <1>1, <1>2

\* The refresh reads the session again.
LEMMA RefreshKeeps ==
  ASSUME SessionInv, NEW p \in Reqs, S!RefreshSession(p)
  PROVE  SessionInv'
  <1> DEFINE q == sReq[p]
  <1>q. q \in SessionRequest /\ Holds(q) /\ q.pc = "refresh" /\ q.t \in used /\ q.t \in Tokens /\ q.u \in Users
    BY Zenon DEF SessionInv, SessionTypes, S!RefreshSession, Holds
  <1>u. UNCHANGED <<store, sUser, epoch, sess, idx, used, dead, late>>
    BY Zenon DEF S!RefreshSession
  <1>1. CASE S!Live(q.t) /\ ~sess[q.t].exp
    <2>1. PICK r : r = [q EXCEPT !.pc = "save", !.s = sess[q.t]]
      OBVIOUS
    <2>2. r \in SessionRequest /\ r.pc = "save" /\ r.u = q.u /\ r.t = q.t /\ r.s = sess[q.t] /\ r.op = q.op
      BY Zenon, <1>q, <2>1 DEF SessionInv, SessionTypes, SessionRequest, SessionSteps
    <2>3. \A o : Owned(o) => q.u = o[q.t] /\ sess[q.t].u = q.u
      BY <1>q, <1>1 DEF Owned
    <2>4. sess[q.t].u = q.u
      BY Zenon, <2>3 DEF SessionInv
    <2>5. sess[q.t].g < epoch[q.u] => q.t \in late \/ Pending(q.u)
      BY Zenon, <1>q, <1>1, <2>4 DEF SessionInv, OldSessionsEnd, S!OldSessionsEnd, Pending
    <2>6. q.t \in dead => q.t \in late
      BY Zenon, <1>1 DEF SessionInv, DeadStayDead, S!DeadStayDead
    <2>7. Holds(r) /\ Overtaken(r)
      BY Zenon, <1>q, <2>2, <2>4, <2>5, <2>6 DEF Holds, Overtaken
    <2>8. sReq' = [sReq EXCEPT ![p] = r]
      BY Zenon, <1>1, <2>1 DEF S!RefreshSession, S!Keep
    <2> QED BY Zenon, <1>q, <1>u, <2>2, <2>3, <2>7, <2>8, QuietStep DEF SessionInv, SessionTypes
  <1>2. CASE ~(S!Live(q.t) /\ ~sess[q.t].exp)
    <2>1. PICK r : r = S!Serve(q)
      OBVIOUS
    <2>2. r \in SessionRequest /\ r.pc \in {"idle", "logout", "load"}
          /\ (r.pc # "idle" => r.t = q.t /\ r.u = q.u /\ r.op = q.op)
          /\ (r.pc = "load" => q.op \notin {"look", "logout"})
      BY Zenon, <1>q, <2>1, ServeFits
    <2>3. Holds(r) /\ Overtaken(r)
      BY Zenon, <1>q, <2>2 DEF Holds, Overtaken
    <2>4. sReq' = [sReq EXCEPT ![p] = r]
      BY Zenon, <1>2, <2>1 DEF S!RefreshSession, S!Keep
    <2> QED BY Zenon, <1>q, <1>u, <2>2, <2>3, <2>4, QuietStep DEF SessionInv, SessionTypes
  <1> QED BY Zenon, <1>1, <1>2

\* Saving a session, new or refreshed, keeps the invariant.
LEMMA SavesKeep ==
  ASSUME SessionInv, NEW p \in Reqs, S!SaveRefreshed(p) \/ \E t \in Tokens : S!CreateSession(p, t)
  PROVE  SessionInv'
  <1>1. CASE S!SaveRefreshed(p)
    <2>q. sReq[p] \in SessionRequest /\ sReq[p].pc = "save" /\ sReq[p].t \in used /\ sReq[p].t \in Tokens
          /\ sReq[p].u \in Users /\ sReq[p].op \in {"look", "logout", "change"}
      BY Zenon, <1>1 DEF SessionInv, SessionTypes, S!SaveRefreshed, Holds
    <2>1. PICK r : r = S!Serve(sReq[p])
      OBVIOUS
    <2>2. r \in SessionRequest /\ r.pc \in {"idle", "logout", "load"}
          /\ (r.pc # "idle" => r.t = sReq[p].t /\ r.u = sReq[p].u /\ r.op = sReq[p].op)
          /\ (r.pc = "load" => sReq[p].op \notin {"look", "logout"})
      BY Zenon, <2>q, <2>1, ServeFits
    <2>3. /\ S!Save(sReq[p].t, sReq[p].s) /\ S!SaveIndex(sReq[p].t, sReq[p].u) /\ S!Excused(p, sReq[p].t)
          /\ S!Keep(p, r) /\ used' = used \cup {sReq[p].t} /\ UNCHANGED <<store, sUser, epoch, dead>>
      BY Zenon, <1>1, <2>q, <2>1 DEF S!SaveRefreshed
    <2> QED BY Zenon, <2>q, <2>2, <2>3, SaveStep
  <1>2. ASSUME NEW t \in Tokens, S!CreateSession(p, t) PROVE SessionInv'
    <2>1. /\ sReq[p].pc = "verify" /\ t \notin used
          /\ S!Save(t, sReq[p].s) /\ S!SaveIndex(t, sReq[p].u) /\ S!Excused(p, t)
          /\ S!Keep(p, S!Idle) /\ used' = used \cup {t} /\ UNCHANGED <<store, sUser, epoch, dead>>
      BY Zenon, <1>2 DEF S!CreateSession
    <2>2. PICK r : r = S!Idle
      OBVIOUS
    <2>3. r \in SessionRequest /\ r.pc = "idle" /\ S!Keep(p, r)
      BY Zenon, <2>1, <2>2, IdleSession
    <2>4. (r.pc = "logout" => r.t \in used) /\ (r.pc = "load" => r.u \in Users /\ r.op = "change")
      BY Zenon, <2>3
    <2> HIDE <2>2
    <2> QED BY Zenon, <2>1, <2>3, <2>4, SaveStep
  <1> QED BY Zenon, <1>1, <1>2

\* Logout: every refresh about to save is told that it was overtaken.
LEMMA LogoutKeeps ==
  ASSUME SessionInv, NEW p \in Reqs, S!Logout(p)
  PROVE  SessionInv'
  <1> DEFINE tt == sReq[p].t
  <1>q. sReq[p].pc = "logout" /\ tt \in used /\ tt \in Tokens
    BY Zenon DEF SessionInv, SessionTypes, S!Logout, Holds
  <1>1. /\ UNCHANGED <<store, sUser, epoch, used, late>> /\ dead' = dead \cup {tt}
        /\ sess' = [sess EXCEPT ![tt] = S!None] /\ idx' = [u \in Users |-> idx[u] \ {tt}]
        /\ sReq' = [x \in Reqs |-> IF x = p THEN S!Idle
                                  ELSE [sReq[x] EXCEPT !.dirty = @ \/ sReq[x].pc = "save"]]
    BY Zenon DEF S!Logout, S!Delete
  <1>2. sess' \in [Tokens -> SessionRow] /\ sess'[tt] = S!None /\ \A x \in Tokens \ {tt} : sess'[x] = sess[x]
    BY Zenon, <1>q, <1>1, IdleSession DEF SessionInv, SessionTypes
  <1>3. idx' \in [Users -> SUBSET Tokens] /\ \A u \in Users : idx'[u] = idx[u] \ {tt}
    BY Zenon, <1>1 DEF SessionInv, SessionTypes
  <1>4. sReq'[p] = S!Idle
    BY Zenon, <1>1
  <1>5. ASSUME NEW x \in Reqs \ {p}
        PROVE  /\ sReq'[x] \in SessionRequest /\ sReq'[x].pc = sReq[x].pc /\ sReq'[x].u = sReq[x].u
               /\ sReq'[x].t = sReq[x].t /\ sReq'[x].s = sReq[x].s /\ sReq'[x].found = sReq[x].found
               /\ sReq'[x].op = sReq[x].op
               /\ sReq'[x].dirty = (sReq[x].dirty \/ sReq[x].pc = "save")
    <2>1. sReq'[x] = [sReq[x] EXCEPT !.dirty = @ \/ sReq[x].pc = "save"]
      BY Zenon, <1>1
    <2>2. (sReq[x].dirty \/ sReq[x].pc = "save") \in BOOLEAN /\ sReq[x] \in SessionRequest
      BY Zenon DEF SessionInv, SessionTypes
    <2> QED BY Zenon, <2>1, <2>2 DEF SessionRequest
  <1>6. SessionTypes'
    <2>1. sReq' = [x \in Reqs |-> sReq'[x]]
      BY Zenon, <1>1
    <2>2. sReq' \in [Reqs -> SessionRequest]
      BY Zenon, <1>4, <1>5, <2>1, IdleSession
    <2> QED BY Zenon, <1>q, <1>1, <1>2, <1>3, <2>2 DEF SessionInv, SessionTypes
  <1>7. \A u : Pending(u) => Pending(u)'
    BY Zenon, <1>q, <1>5 DEF Pending
  <1>8. ASSUME NEW x \in Reqs PROVE Holds(sReq[x])' /\ Overtaken(sReq[x])'
    <2>1. CASE x = p
      BY Zenon, <1>4, <2>1, IdleSession DEF Holds, Overtaken
    <2>2. CASE x # p
      <3>1. Holds(sReq[x]) /\ Overtaken(sReq[x])
        BY Zenon DEF SessionInv
      <3>2. Holds(sReq[x])'
        BY SMTT(30), <1>1, <1>5, <2>2, <3>1 DEF Holds
      <3>3. Pending(sReq[x].u) => Pending(sReq[x].u)'
        BY <1>5, <1>7, <2>2 DEF Pending
      <3>4. (sReq[x].dirty => sReq'[x].dirty) /\ (sReq[x].pc = "save" => sReq'[x].dirty)
        BY Zenon, <1>5, <2>2
      <3>5. Overtaken(sReq[x])'
        BY Zenon, <1>1, <1>5, <2>2, <3>1, <3>3, <3>4 DEF Overtaken
      <3> QED BY Zenon, <3>2, <3>5
    <2> QED BY Zenon, <2>1, <2>2
  <1>9. PICK o : Owned(o)
    BY Zenon DEF SessionInv
  <1>10. Owned(o)'
    <2>1. \A x \in Reqs : sReq'[x].pc \in {"refresh", "save"} => sReq'[x].u = o[sReq'[x].t]
      BY <1>4, <1>5, <1>9, IdleSession DEF Owned
    <2>2. \A x \in Reqs : sReq'[x].pc = "sweepDel" =>
             \A t \in sReq'[x].found : t \in used /\ o[t] = sReq'[x].u
      BY <1>4, <1>5, <1>9, IdleSession DEF Owned
    <2> QED BY <1>1, <1>2, <1>3, <1>9, <2>1, <2>2 DEF Owned, S!Live
  <1>11. \A t \in Tokens : S!Live(t)' => t # tt /\ S!Live(t) /\ sess'[t] = sess[t]
    BY Zenon, <1>2 DEF S!Live
  <1>12. Indexed'
    <2>1. ASSUME store = "valkey", NEW t \in Tokens, S!Live(t)' PROVE t \in idx'[sess'[t].u] \/ t \in late'
      BY <1>1, <1>3, <1>9, <1>11, <2>1 DEF Owned, SessionInv, Indexed
    <2>2. ASSUME NEW x \in Reqs, sReq'[x].pc = "sweepDel", NEW t \in Tokens, S!Live(t)',
                 sess'[t].u = sReq'[x].u
          PROVE  t \in sReq'[x].found \/ t \in late'
      BY <1>1, <1>4, <1>5, <1>11, <2>2, IdleSession DEF SessionInv, Indexed
    <2> QED BY Zenon, <1>1, <2>1, <2>2 DEF Indexed
  <1>13. OldSessionsEnd'
    <2> SUFFICES ASSUME NEW x \in Tokens, S!Live(x)', sess'[x].g < epoch[sess'[x].u]
                 PROVE  x \in late' \/ Pending(sess[x].u)'
      BY Zenon, <1>1 DEF OldSessionsEnd, S!OldSessionsEnd, Pending
    <2>1. x \in late \/ Pending(sess[x].u)
      BY Zenon, <1>11 DEF SessionInv, OldSessionsEnd, S!OldSessionsEnd, Pending
    <2> QED BY Zenon, <1>1, <1>7, <1>11, <2>1
  <1>14. DeadStayDead'
    <2> SUFFICES ASSUME NEW t \in dead \cup {tt}, S!Live(t)' PROVE t \in late
      BY Zenon, <1>1 DEF DeadStayDead, S!DeadStayDead
    <2>1. t \in Tokens
      BY Zenon, <1>q DEF SessionInv, SessionTypes
    <2> QED BY Zenon, <1>11, <2>1 DEF SessionInv, DeadStayDead, S!DeadStayDead
  <1> QED BY Zenon, <1>6, <1>8, <1>10, <1>12, <1>13, <1>14 DEF SessionInv

\* The write of a user's row, from which a sweep follows unless it is an update.
LEMMA WriteUserKeeps ==
  ASSUME SessionInv, NEW p \in Reqs, S!WriteUser(p)
  PROVE  SessionInv'
  <1> DEFINE q == sReq[p]
             UserRow == [st : {"live", "gone"}, active : BOOLEAN]
  <1>q. q \in SessionRequest /\ q.pc = "write" /\ q.u \in Users /\ sUser[q.u] \in UserRow
        /\ q.row \in BOOLEAN /\ q.op \in {"change", "reset", "delete", "update"}
        /\ UNCHANGED <<store, idx, used, dead, late>>
    BY Zenon DEF SessionInv, SessionTypes, S!WriteUser, Holds, SessionRequest
  <1>1. CASE sUser[q.u].st # "live"
    <2>1. sReq' = [sReq EXCEPT ![p] = S!Idle] /\ UNCHANGED <<sUser, epoch, sess>>
      BY Zenon, <1>1 DEF S!WriteUser, S!Keep
    <2>2. Holds(S!Idle) /\ Overtaken(S!Idle)
      BY Zenon, IdleSession DEF Holds, Overtaken
    <2> QED BY Zenon, <1>q, <2>1, <2>2, IdleSession, QuietStep DEF SessionInv, SessionTypes
  <1>2. CASE sUser[q.u].st = "live"
    <2>1. sUser' \in [Users -> UserRow]
      <3>1. PICK row : row = CASE q.op = "delete" -> [st |-> "gone", active |-> FALSE]
                               [] q.op = "update" -> [sUser[q.u] EXCEPT !.active = ~q.row]
                               [] OTHER -> [sUser[q.u] EXCEPT !.active = q.row]
        OBVIOUS
      <3>2. sUser' = [sUser EXCEPT ![q.u] = row]
        BY Zenon, <1>2, <3>1 DEF S!WriteUser
      <3>3. row \in UserRow
        <4>1. CASE q.op = "delete"
          <5>1. row = [st |-> "gone", active |-> FALSE]
            BY Zenon, <3>1, <4>1
          <5> QED BY Zenon, <5>1
        <4>2. CASE q.op = "update"
          <5>1. row = [sUser[q.u] EXCEPT !.active = ~q.row]
            BY Zenon, <3>1, <4>2
          <5> QED BY Zenon, <1>q, <5>1
        <4>3. CASE q.op \notin {"delete", "update"}
          <5>1. row = [sUser[q.u] EXCEPT !.active = q.row]
            BY Zenon, <3>1, <4>3
          <5> QED BY Zenon, <1>q, <5>1
        <4> QED BY Zenon, <4>1, <4>2, <4>3
      <3> QED BY Zenon, <1>q, <3>2, <3>3 DEF SessionInv, SessionTypes
    <2>2. CASE q.op = "update"
      <3>1. sReq' = [sReq EXCEPT ![p] = S!Idle] /\ UNCHANGED <<epoch, sess>>
        BY Zenon, <1>2, <2>2 DEF S!WriteUser, S!Keep, S!AfterWrite
      <3>2. Holds(S!Idle) /\ Overtaken(S!Idle)
        BY Zenon, IdleSession DEF Holds, Overtaken
      <3> QED BY Zenon, <1>q, <2>1, <3>1, <3>2, IdleSession, QuietStep
    <2>3. CASE q.op \in {"change", "reset", "delete"}
      <3>1. PICK r : r = [S!Idle EXCEPT !.pc = "sweep", !.u = q.u]
        OBVIOUS
      <3>2. r \in SessionRequest /\ r.pc = "sweep" /\ r.u = q.u
        BY <1>q, <3>1 DEF S!Idle, S!None, SessionRequest, SessionRow, SessionSteps, SessionOps
      <3>3. sReq' = [sReq EXCEPT ![p] = r] /\ epoch' = [epoch EXCEPT ![q.u] = @ + 1]
        BY Zenon, <1>2, <2>3, <3>1 DEF S!WriteUser, S!Keep, S!AfterWrite
      <3>4. sReq' \in [Reqs -> SessionRequest] /\ sReq'[p] = r /\ \A x \in Reqs \ {p} : sReq'[x] = sReq[x]
        BY Zenon, <3>2, <3>3 DEF SessionInv, SessionTypes
      <3>5. epoch' \in [Users -> Nat] /\ \A u \in Users \ {q.u} : epoch'[u] = epoch[u]
        BY <1>q, <3>3 DEF SessionInv, SessionTypes
      <3>6. sess' \in [Tokens -> SessionRow] /\ \A t \in Tokens : sess'[t] \in {S!None, sess[t]}
        BY <1>2, <2>3, IdleSession DEF S!WriteUser, SessionInv, SessionTypes
      <3>7. \A t \in Tokens : S!Live(t)' => S!Live(t) /\ sess'[t] = sess[t]
        BY Zenon, <3>6 DEF S!Live
      <3>8. PICK v \in Users : v = q.u
        BY Zenon, <1>q
      <3>9. (\A u : Pending(u) => Pending(u)') /\ Pending(v)'
        BY Zenon, <1>q, <3>2, <3>4, <3>8 DEF Pending
      <3>10. SessionTypes'
        BY Zenon, <1>q, <2>1, <3>4, <3>5, <3>6 DEF SessionInv, SessionTypes
      <3>11. ASSUME NEW x \in Reqs PROVE Holds(sReq[x])' /\ Overtaken(sReq[x])'
        <4>1. CASE x = p
          BY Zenon, <1>q, <3>2, <3>4, <4>1 DEF Holds, Overtaken
        <4>2. CASE x # p
          <5>1. Holds(sReq[x]) /\ Overtaken(sReq[x]) /\ sReq'[x] = sReq[x]
            BY Zenon, <3>4, <4>2 DEF SessionInv
          <5>2. Holds(sReq[x])'
            BY Zenon, <1>q, <5>1 DEF Holds
          <5>3. sReq[x].pc \in {"verify", "save"} => sReq[x].u \in Users
            BY Zenon, <5>1 DEF Holds
          <5>4. sReq[x].u = v => Pending(sReq[x].u)'
            BY Zenon, <3>9, <5>1 DEF Pending
          <5>5. Pending(sReq[x].u) => Pending(sReq[x].u)'
            BY <3>9, <5>1 DEF Pending
          <5> QED BY Zenon, <1>q, <3>5, <3>8, <5>1, <5>2, <5>3, <5>4, <5>5 DEF Overtaken
        <4> QED BY Zenon, <4>1, <4>2
      <3>12. PICK o : Owned(o)
        BY Zenon DEF SessionInv
      <3>13. Owned(o)'
        BY <1>q, <3>2, <3>4, <3>7, <3>12 DEF Owned
      <3>14. Indexed'
        BY <1>q, <3>2, <3>4, <3>7 DEF SessionInv, Indexed
      <3>15. OldSessionsEnd'
        <4> SUFFICES ASSUME NEW x \in Tokens, S!Live(x)', sess'[x].g < epoch'[sess'[x].u]
                     PROVE  x \in late' \/ Pending(sess[x].u)'
          BY Zenon DEF OldSessionsEnd, S!OldSessionsEnd, Pending
        <4>1. S!Live(x) /\ sess'[x] = sess[x] /\ sess[x].u \in Users
          BY Zenon, <3>7, <3>12 DEF Owned
        <4>2. CASE sess[x].u = v
          BY Zenon, <3>9, <4>1, <4>2 DEF Pending
        <4>3. CASE sess[x].u # v
          <5>1. x \in late \/ Pending(sess[x].u)
            BY Zenon, <3>5, <3>8, <4>1, <4>3 DEF SessionInv, OldSessionsEnd, S!OldSessionsEnd, Pending
          <5> QED BY SMTT(30), <1>q, <3>9, <4>1, <5>1 DEF Pending
        <4> QED BY Zenon, <4>2, <4>3
      <3>16. DeadStayDead'
        BY Zenon, <1>q, <3>7 DEF SessionInv, SessionTypes, DeadStayDead, S!DeadStayDead
      <3> QED BY Zenon, <3>10, <3>11, <3>13, <3>14, <3>15, <3>16 DEF SessionInv
    <2> QED BY Zenon, <1>q, <2>2, <2>3
  <1> QED BY Zenon, <1>1, <1>2

\* Valkey's index is read: what is live and not in it has survived a sweep before.
LEMMA SMembersKeeps ==
  ASSUME SessionInv, NEW p \in Reqs, S!SMembers(p)
  PROVE  SessionInv'
  <1>q. sReq[p] \in SessionRequest /\ sReq[p].pc = "sweep" /\ sReq[p].u \in Users /\ store = "valkey"
        /\ idx[sReq[p].u] \in SUBSET Tokens
    BY Zenon DEF SessionInv, SessionTypes, S!SMembers, Holds
  <1>1. PICK r : r = [sReq[p] EXCEPT !.pc = "sweepDel", !.found = idx[sReq[p].u]]
    OBVIOUS
  <1>2. r \in SessionRequest /\ r.pc = "sweepDel" /\ r.u = sReq[p].u /\ r.found = idx[sReq[p].u]
    BY Zenon, <1>q, <1>1 DEF SessionRequest, SessionSteps
  <1>3. Holds(r) /\ Overtaken(r)
    BY Zenon, <1>q, <1>2 DEF Holds, Overtaken
  <1>4. sReq' = [sReq EXCEPT ![p] = r] /\ UNCHANGED <<store, sUser, epoch, sess, idx, used, dead, late>>
    BY Zenon, <1>1 DEF S!SMembers, S!Keep
  <1>5. \A o : Owned(o) => \A t \in r.found : t \in used /\ o[t] = r.u
    BY Zenon, <1>q, <1>2 DEF Owned
  <1>6. \A t \in Tokens : S!Live(t) /\ sess[t].u = r.u => t \in r.found \/ t \in late
    BY Zenon, <1>q, <1>2 DEF SessionInv, Indexed
  <1> QED BY Zenon, <1>q, <1>2, <1>3, <1>4, <1>5, <1>6, QuietStep DEF SessionInv, SessionTypes

\* The sweep: it removes every session of the user that is not on record as late,
\* and every request about to save one is told that it was overtaken.
LEMMA DeleteByUserKeeps ==
  ASSUME SessionInv, NEW p \in Reqs, S!DeleteByUser(p)
  PROVE  SessionInv'
  <1> DEFINE gone == S!ByUser(sReq[p].u, sReq[p].found)
  <1>u. PICK u : u = sReq[p].u
    OBVIOUS
  <1>o. PICK o : Owned(o)
    BY Zenon DEF SessionInv
  <1>q. /\ sReq[p] \in SessionRequest /\ u \in Users
        /\ sReq[p].pc = IF store = "valkey" THEN "sweepDel" ELSE "sweep"
    BY Zenon, <1>u DEF SessionInv, SessionTypes, S!DeleteByUser, Holds
  <1>g. PICK G : G = gone
    OBVIOUS
  <1>1. /\ UNCHANGED <<store, sUser, epoch, used, late>> /\ dead' = dead \cup G
        /\ sess' = [t \in Tokens |-> IF t \in G THEN S!None ELSE sess[t]]
        /\ idx' = [idx EXCEPT ![u] = IF G = {} THEN @ ELSE {}]
        /\ sReq' = [x \in Reqs |-> IF x = p THEN S!Idle
                                  ELSE [sReq[x] EXCEPT !.dirty = @ \/ S!Saving(sReq[x], u)]]
    BY Zenon, <1>u, <1>g DEF S!DeleteByUser
  \* What is swept is the user's, and what stays of theirs is late.
  <1>2. G \subseteq Tokens /\ \A t \in G : t \in used /\ o[t] = u
    <2>1. CASE store = "valkey"
      <3>1. G = sReq[p].found
        BY Zenon, <1>g, <2>1 DEF S!ByUser
      <3> QED BY Zenon, <1>o, <1>u, <1>q, <2>1, <3>1 DEF Owned, SessionInv, SessionTypes
    <2>2. CASE store # "valkey"
      <3>1. G = {t \in Tokens : S!Live(t) /\ sess[t].u = u}
        BY Zenon, <1>g, <1>u, <2>2 DEF S!ByUser
      <3> QED BY Zenon, <1>o, <3>1 DEF Owned
    <2> QED BY Zenon, <2>1, <2>2
  <1>3. \A t \in Tokens : S!Live(t) /\ sess[t].u = u => t \in G \/ t \in late
    <2>1. CASE store = "valkey"
      <3>1. G = sReq[p].found
        BY Zenon, <1>g, <2>1 DEF S!ByUser
      <3> QED BY Zenon, <1>u, <1>q, <2>1, <3>1 DEF SessionInv, Indexed
    <2>2. CASE store # "valkey"
      BY Zenon, <1>g, <1>u, <2>2 DEF S!ByUser
    <2> QED BY Zenon, <2>1, <2>2
  <1>4. sess' \in [Tokens -> SessionRow]
        /\ \A t \in Tokens : S!Live(t)' => t \notin G /\ S!Live(t) /\ sess'[t] = sess[t]
    BY Zenon, <1>1, IdleSession DEF SessionInv, SessionTypes, S!Live
  <1>5. /\ idx' \in [Users -> SUBSET Tokens]
        /\ \A v \in Users : idx'[v] \subseteq idx[v]
        /\ \A v \in Users \ {u} : idx'[v] = idx[v]
    BY Zenon, <1>q, <1>1 DEF SessionInv, SessionTypes
  <1>6. sReq'[p] = S!Idle
    BY Zenon, <1>1
  <1>7. ASSUME NEW x \in Reqs \ {p}
        PROVE  /\ sReq'[x] \in SessionRequest /\ sReq'[x].pc = sReq[x].pc /\ sReq'[x].u = sReq[x].u
               /\ sReq'[x].t = sReq[x].t /\ sReq'[x].s = sReq[x].s /\ sReq'[x].found = sReq[x].found
               /\ sReq'[x].op = sReq[x].op
               /\ sReq'[x].dirty = (sReq[x].dirty \/ S!Saving(sReq[x], u))
    <2>1. sReq'[x] = [sReq[x] EXCEPT !.dirty = @ \/ S!Saving(sReq[x], u)]
      BY Zenon, <1>1
    <2>2. (sReq[x].dirty \/ S!Saving(sReq[x], u)) \in BOOLEAN /\ sReq[x] \in SessionRequest
      BY Zenon DEF SessionInv, SessionTypes, S!Saving
    <2> QED BY <2>1, <2>2 DEF SessionRequest
  <1>8. SessionTypes'
    <2>1. sReq' = [x \in Reqs |-> sReq'[x]]
      BY Zenon, <1>1
    <2>2. sReq' \in [Reqs -> SessionRequest]
      BY Zenon, <1>6, <1>7, <2>1, IdleSession
    <2> QED BY Zenon, <1>1, <1>2, <1>4, <1>5, <2>2 DEF SessionInv, SessionTypes
  <1>9. \A v : v # u /\ Pending(v) => Pending(v)'
    BY Zenon, <1>u, <1>7 DEF Pending
  <1>10. ASSUME NEW x \in Reqs PROVE Holds(sReq[x])' /\ Overtaken(sReq[x])'
    <2>1. CASE x = p
      BY Zenon, <1>6, <2>1, IdleSession DEF Holds, Overtaken
    <2>2. CASE x # p
      <3>1. Holds(sReq[x]) /\ Overtaken(sReq[x])
        BY Zenon DEF SessionInv
      <3>2. Holds(sReq[x])'
        <4>1. /\ sReq'[x].pc = sReq[x].pc /\ sReq'[x].u = sReq[x].u /\ sReq'[x].t = sReq[x].t
              /\ sReq'[x].s = sReq[x].s /\ sReq'[x].op = sReq[x].op
          BY Zenon, <1>7, <2>2
        <4>2. UNCHANGED <<store, used>>
          BY Zenon, <1>1
        <4> QED BY Zenon, <3>1, <4>1, <4>2 DEF Holds
      <3>3. sReq[x].u # u /\ Pending(sReq[x].u) => Pending(sReq[x].u)'
        BY <1>7, <1>9, <2>2 DEF Pending
      <3>4. /\ sReq[x].dirty => sReq'[x].dirty
            /\ sReq[x].pc \in {"verify", "save"} /\ sReq[x].u = u => sReq'[x].dirty
        BY Zenon, <1>7, <2>2 DEF S!Saving
      <3>5. sReq[x].pc = "save" /\ sReq[x].t \in G => sReq[x].u = u
        BY <1>o, <1>2 DEF Owned
      <3>6. Overtaken(sReq[x])'
        BY <1>1, <1>7, <2>2, <3>1, <3>3, <3>4, <3>5 DEF Overtaken
      <3> QED BY Zenon, <3>2, <3>6
    <2> QED BY Zenon, <2>1, <2>2
  <1>11. Owned(o)'
    <2>1. \A x \in Reqs : sReq'[x].pc \in {"refresh", "save"} => sReq'[x].u = o[sReq'[x].t]
      BY <1>6, <1>7, <1>o, IdleSession DEF Owned
    <2>2. \A x \in Reqs : sReq'[x].pc = "sweepDel" =>
             \A t \in sReq'[x].found : t \in used /\ o[t] = sReq'[x].u
      BY <1>6, <1>7, <1>o, IdleSession DEF Owned
    <2> QED BY <1>1, <1>4, <1>5, <1>o, <2>1, <2>2 DEF Owned
  <1>12. Indexed'
    <2>1. ASSUME store = "valkey", NEW t \in Tokens, S!Live(t)' PROVE t \in idx'[sess'[t].u] \/ t \in late'
      BY <1>1, <1>3, <1>4, <1>5, <1>o, <2>1 DEF Owned, SessionInv, Indexed
    <2>2. ASSUME NEW x \in Reqs, sReq'[x].pc = "sweepDel", NEW t \in Tokens, S!Live(t)',
                 sess'[t].u = sReq'[x].u
          PROVE  t \in sReq'[x].found \/ t \in late'
      BY <1>1, <1>4, <1>6, <1>7, <2>2, IdleSession DEF SessionInv, Indexed
    <2> QED BY Zenon, <1>1, <2>1, <2>2 DEF Indexed
  <1>13. OldSessionsEnd'
    <2> SUFFICES ASSUME NEW x \in Tokens, S!Live(x)', sess'[x].g < epoch[sess'[x].u]
                 PROVE  x \in late' \/ Pending(sess[x].u)'
      BY Zenon, <1>1 DEF OldSessionsEnd, S!OldSessionsEnd, Pending
    <2>0. S!Live(x) /\ sess'[x] = sess[x] /\ x \notin G
      BY Zenon, <1>4
    <2>1. CASE sess[x].u = u
      BY Zenon, <1>1, <1>3, <2>0, <2>1
    <2>2. CASE sess[x].u # u
      <3>1. x \in late \/ Pending(sess[x].u)
        BY Zenon, <2>0 DEF SessionInv, OldSessionsEnd, S!OldSessionsEnd, Pending
      <3> QED BY SMTT(30), <1>1, <1>9, <2>0, <2>2, <3>1 DEF Pending
    <2> QED BY Zenon, <2>1, <2>2
  <1>14. DeadStayDead'
    <2> SUFFICES ASSUME NEW t \in dead \cup G, S!Live(t)' PROVE t \in late
      BY Zenon, <1>1 DEF DeadStayDead, S!DeadStayDead
    <2>1. t \in Tokens
      BY Zenon, <1>2 DEF SessionInv, SessionTypes
    <2> QED BY Zenon, <1>4, <2>1 DEF SessionInv, DeadStayDead, S!DeadStayDead
  <1> QED BY Zenon, <1>8, <1>10, <1>11, <1>12, <1>13, <1>14 DEF SessionInv

\* A restart ends the requests; sessions whose sweep was due are put on record.
LEMMA RestartKeeps ==
  ASSUME SessionInv, S!Restart
  PROVE  SessionInv'
  <1>1. /\ UNCHANGED <<store, sUser, epoch, idx, used, dead>>
        /\ sReq' = [p \in Reqs |-> S!Idle]
        /\ sess' = IF store = "memory" THEN [t \in Tokens |-> S!None] ELSE sess
        /\ late' = late \cup {t \in Tokens : S!Live(t) /\ \E p \in Reqs :
                                sReq[p].pc \in {"sweep", "sweepDel"} /\ sReq[p].u = sess[t].u}
    BY Zenon DEF S!Restart
  <1>2. sReq' \in [Reqs -> SessionRequest] /\ \A p \in Reqs : sReq'[p] = S!Idle
    BY Zenon, <1>1, IdleSession
  <1>3. sess' \in [Tokens -> SessionRow] /\ \A t \in Tokens : S!Live(t)' => S!Live(t) /\ sess'[t] = sess[t]
    BY Zenon, <1>1, IdleSession DEF SessionInv, SessionTypes, S!Live
  <1>4. SessionTypes'
    BY Zenon, <1>1, <1>2, <1>3 DEF SessionInv, SessionTypes
  <1>5. \A p \in Reqs : Holds(sReq[p])' /\ Overtaken(sReq[p])'
    BY Zenon, <1>2, IdleSession DEF Holds, Overtaken
  <1>6. PICK o : Owned(o)
    BY Zenon DEF SessionInv
  <1>7. Owned(o)'
    BY SMTT(30), <1>1, <1>2, <1>3, <1>6, IdleSession DEF Owned
  <1>8. Indexed'
    BY Zenon, <1>1, <1>2, <1>3, IdleSession DEF SessionInv, Indexed
  <1>9. OldSessionsEnd'
    <2> SUFFICES ASSUME NEW x \in Tokens, S!Live(x)', sess'[x].g < epoch[sess'[x].u]
                 PROVE  x \in late'
      BY Zenon, <1>1 DEF OldSessionsEnd, S!OldSessionsEnd
    <2>1. S!Live(x) /\ sess'[x] = sess[x]
      BY Zenon, <1>3
    <2> QED BY Zenon, <1>1, <2>1 DEF SessionInv, OldSessionsEnd, S!OldSessionsEnd
  <1>10. DeadStayDead'
    BY Zenon, <1>1, <1>3 DEF SessionInv, SessionTypes, DeadStayDead, S!DeadStayDead
  <1> QED BY Zenon, <1>4, <1>5, <1>7, <1>8, <1>9, <1>10 DEF SessionInv

-----------------------------------------------------------------------------
(* The theorems.                                                               *)

\* The invariant holds of the empty store.
LEMMA SessionsInit == S!Init => SessionInv
  <1> SUFFICES ASSUME S!Init PROVE SessionInv
    OBVIOUS
  <1> USE DEF S!Init
  <1>1. SessionTypes
    BY Zenon, IdleSession DEF SessionTypes
  <1>2. \A p \in Reqs : sReq[p] = S!Idle
    OBVIOUS
  <1>3. \A p \in Reqs : Holds(sReq[p]) /\ Overtaken(sReq[p])
    BY Zenon, <1>2, IdleSession DEF Holds, Overtaken
  <1>4. \A t \in Tokens : ~S!Live(t)
    BY Zenon DEF S!Live
  <1>5. Owned([t \in Tokens |-> NoUser])
    BY Zenon, <1>2, <1>4, IdleSession DEF Owned
  <1>6. Indexed /\ OldSessionsEnd /\ DeadStayDead
    BY Zenon, <1>2, <1>4, IdleSession DEF Indexed, OldSessionsEnd, S!OldSessionsEnd, DeadStayDead, S!DeadStayDead
  <1> QED BY Zenon, <1>1, <1>3, <1>5, <1>6 DEF SessionInv

\* Every step of the session service keeps the invariant.
LEMMA SessionsKeep == SessionInv /\ [S!Next]_(S!vars) => SessionInv'
  <1> SUFFICES ASSUME SessionInv, [S!Next]_(S!vars) PROVE SessionInv'
    OBVIOUS
  <1>1. CASE UNCHANGED S!vars
    BY Zenon, <1>1, ShrinkStep DEF S!vars, SessionInv, SessionTypes, S!Live
  <1>2. CASE S!Cleanup \/ \E t \in Tokens : S!Expire(t)
    BY Zenon, <1>2, ExpiryKeeps
  <1>3. CASE S!Restart
    BY Zenon, <1>3, RestartKeeps
  <1>4. ASSUME NEW p \in Reqs,
               \/ \E u \in Users : \/ S!login(p, u)
                                   \/ \E op \in {"reset", "delete", "update"} : S!Manage(p, u, op)
               \/ S!Load(p)
        PROVE  SessionInv'
    BY Zenon, <1>4, BeginKeeps
  <1>5. ASSUME NEW p \in Reqs, S!SaveRefreshed(p) \/ \E t \in Tokens : S!CreateSession(p, t) PROVE SessionInv'
    BY Zenon, <1>5, SavesKeep
  <1>6. ASSUME NEW p \in Reqs, NEW t \in Tokens, NEW op \in {"look", "logout", "change"},
               S!GetSession(p, t, op)
        PROVE  SessionInv'
    BY Zenon, <1>6, GetSessionKeeps
  <1>7. ASSUME NEW p \in Reqs, \/ S!RefreshSession(p) \/ S!Logout(p) \/ S!WriteUser(p)
                               \/ S!SMembers(p) \/ S!DeleteByUser(p)
        PROVE  SessionInv'
    BY Zenon, <1>7, RefreshKeeps, LogoutKeeps, WriteUserKeeps, SMembersKeeps, DeleteByUserKeeps
  <1> QED BY Zenon, <1>1, <1>2, <1>3, <1>4, <1>5, <1>6, <1>7 DEF S!Next

\* The invariant holds in every reachable state.
LEMMA SessionsAlways == S!Spec => []SessionInv
  BY SessionsInit, SessionsKeep, PTL DEF S!Spec

\* Over each store, a session from before a password change or the removal of its
\* user ends with the sweep that follows, but for the saves that raced with a sweep
\* and the sweeps lost in a restart, which are on record.
THEOREM SweepsEndOldSessions == S!Spec => []OldSessionsEnd
  <1>1. SessionInv => OldSessionsEnd
    BY DEF SessionInv
  <1> QED BY SessionsAlways, <1>1, PTL

\* A token that a logout or a sweep removed comes back only through a refresh that
\* had read it before.
THEOREM RemovedStayRemoved == S!Spec => []DeadStayDead
  <1>1. SessionInv => DeadStayDead
    BY DEF SessionInv
  <1> QED BY SessionsAlways, <1>1, PTL
=============================================================================
