--------------------------------- MODULE OAuth ---------------------------------
(* The OAuth server for MCP clients: registration, authorization codes, the     *)
(* code exchange, refresh with rotation, revocation, and the cleanup.  Each     *)
(* statement of the store is a step, and token requests interleave.             *)
EXTENDS Naturals, FiniteSets

CONSTANTS Reqs, Clients, Codes, Scopes,
          MaxTokens      \* bound on the token rows of a behaviour

ASSUME BoundAssumption == MaxTokens \in Nat

VARIABLES client,   \* oauth_clients rows
          user,     \* the consenting user's row
          code,     \* oauth_authorization_codes rows
          tok,      \* oauth_tokens rows, by number
          req,      \* token requests in flight
          spent     \* refresh tokens whose rotation has completed

vars == <<client, user, code, tok, req, spent>>

NoCode == [st |-> "none", c |-> "none", scope |-> {}, pkce |-> TRUE, used |-> FALSE, exp |-> FALSE]
NoTok == [st |-> "none", type |-> "none", c |-> "none", k |-> "none", scope |-> {},
          exp |-> FALSE, revoked |-> FALSE, parent |-> 0]
Idle == [pc |-> "idle", op |-> "none", k |-> "none", i |-> 0, c |-> "none", scope |-> {},
         ok |-> TRUE, j |-> 0, again |-> FALSE]

Ids == 1..MaxTokens
Issued == {i \in Ids : tok[i].st # "none"}
NewId == Cardinality(Issued) + 1
Rows == {i \in Ids : tok[i].st = "live"}
Keep(p, r) == req' = [req EXCEPT ![p] = r]

-----------------------------------------------------------------------------
(* The store.                                                                  *)

GetOAuthClient(c) == client[c] = "live"
GetUser == user.st = "live"

\* client_id and user_id REFERENCES, of codes and tokens.
ForeignKeys(c) == GetOAuthClient(c) /\ GetUser

\* A code that is neither used nor expired.
GetAuthorizationCode(k) == code[k].st = "live" /\ ~code[k].used /\ ~code[k].exp

\* Mutant: the update does not ask for used = 0.
MarkAuthorizationCodeUsedTwice(k) == code[k].st = "live"
\* UPDATE ... WHERE used = 0 finds the row.
MarkAuthorizationCodeUsed(k) == code[k].st = "live" /\ ~code[k].used

GetOAuthTokenByHash(i) == i \in Rows /\ ~tok[i].revoked /\ ~tok[i].exp
GetOAuthTokenByHashIncludingRevoked(i) == i \in Rows

\* INSERT; the request goes on in the state pc, or ends with the statement's error.
CreateOAuthToken(p, row, next) ==
    /\ NewId \in Ids
    /\ IF ForeignKeys(row.c)
       THEN tok' = [tok EXCEPT ![NewId] = row] /\ Keep(p, next)
       ELSE Keep(p, Idle) /\ UNCHANGED tok

Revoke(ids) == tok' = [i \in Ids |-> IF i \in ids \cap Rows THEN [tok[i] EXCEPT !.revoked = TRUE]
                                     ELSE tok[i]]

-----------------------------------------------------------------------------
(* Clients and codes.                                                          *)

RegisterClient(c) ==
    /\ client[c] = "none"
    /\ client' = [client EXCEPT ![c] = "live"]
    /\ UNCHANGED <<user, code, tok, req, spent>>

oauthRegister(c) == RegisterClient(c)

\* The client exists; only a confidential one, of which the model says no more,
\* may do without a challenge.
ValidateAuthRequest(c) == GetOAuthClient(c)

CreateAuthorizationCode(k, c, scope, pkce) ==
    /\ ForeignKeys(c) /\ code[k].st = "none"
    /\ code' = [code EXCEPT ![k] = [NoCode EXCEPT !.st = "live", !.c = c, !.scope = scope,
                                                  !.pkce = pkce]]

\* Consent of the logged-in user: the client exists, and the code row goes in.
oauthAuthorizeSubmit(k, c, scope, pkce) ==
    /\ ValidateAuthRequest(c) /\ GetUser
    /\ CreateAuthorizationCode(k, c, scope, pkce)
    /\ UNCHANGED <<client, user, tok, req, spent>>

\* DeleteClient revokes the client's tokens, then removes the row; codes and
\* tokens cascade.
DeleteClientRevoke(p, c) ==
    /\ req[p].pc = "idle" /\ client[c] # "none"
    /\ Revoke({i \in Rows : tok[i].c = c})
    /\ Keep(p, [Idle EXCEPT !.pc = "drop", !.op = "drop", !.c = c])
    /\ UNCHANGED <<client, user, code, spent>>

oauthDeleteClient(p, c) == DeleteClientRevoke(p, c)

\* A deleted row keeps its place, so that the properties can count it.
Gone(row) == [row EXCEPT !.st = "gone", !.exp = TRUE]

\* The codes in ks and the tokens in is go with the row they refer to.
DropRows(ks, is) ==
    /\ code' = [k \in Codes |-> IF code[k].st = "live" /\ k \in ks THEN Gone(code[k]) ELSE code[k]]
    /\ tok' = [i \in Ids |-> IF i \in Rows /\ i \in is
                             THEN [Gone(tok[i]) EXCEPT !.revoked = TRUE] ELSE tok[i]]

DeleteOAuthClient(p) ==
    LET c == req[p].c
    IN /\ req[p].pc = "drop"
       /\ client' = [client EXCEPT ![c] = "gone"]
       /\ DropRows({k \in Codes : code[k].c = c}, {i \in Ids : tok[i].c = c})
       /\ Keep(p, Idle)
       /\ UNCHANGED <<user, spent>>

\* The user is removed: codes and tokens cascade.
DeleteUser ==
    /\ GetUser
    /\ user' = [user EXCEPT !.st = "gone"]
    /\ DropRows(Codes, Ids)
    /\ UNCHANGED <<client, req, spent>>

-----------------------------------------------------------------------------
(* The code exchange.                                                          *)

\* ok is whether the request's verifier answers the code's challenge.
ExchangeCode(p, k, c, ok) ==
    /\ req[p].pc = "idle"
    /\ GetAuthorizationCode(k) /\ code[k].c = c
    /\ Keep(p, [Idle EXCEPT !.pc = "mark", !.op = "exchange", !.k = k, !.c = c,
                            !.scope = code[k].scope, !.ok = ok])
    /\ UNCHANGED <<client, user, code, tok, spent>>

\* The code is used up before the verifier is looked at.
MarkUsed(p) ==
    LET k == req[p].k
    IN /\ req[p].pc = "mark"
       /\ IF MarkAuthorizationCodeUsed(k)
          THEN /\ code' = [code EXCEPT ![k].used = TRUE]
               /\ Keep(p, IF ~code[k].pkce \/ req[p].ok THEN [req[p] EXCEPT !.pc = "access", !.ok = TRUE]
                          ELSE Idle)
          ELSE Keep(p, Idle) /\ UNCHANGED code
       /\ UNCHANGED <<client, user, tok, spent>>

-----------------------------------------------------------------------------
(* Refresh and rotation.                                                       *)

IntersectScopes(requested, allowed) ==
    IF requested = {} THEN allowed ELSE requested \cap allowed

\* Mutant: revocation is not looked at.
RotatesAny(i) == tok[i].type = "refresh"
\* A refresh token that is not revoked is rotated; its expiry is not looked at.
Rotates(i) == tok[i].type = "refresh" /\ ~tok[i].revoked

RefreshAccessToken(p, i, scope) ==
    /\ req[p].pc = "idle"
    /\ GetOAuthTokenByHashIncludingRevoked(i) /\ tok[i].type = "refresh"
    /\ Keep(p, IF Rotates(i)
               THEN [Idle EXCEPT !.pc = "access", !.op = "refresh", !.k = tok[i].k, !.i = i,
                                 !.c = tok[i].c, !.again = i \in spent,
                                 !.scope = IntersectScopes(scope, tok[i].scope)]
               ELSE [Idle EXCEPT !.pc = "chain", !.i = i])
    /\ UNCHANGED <<client, user, code, tok, spent>>

\* The token endpoint, by grant type.
oauthToken(p) ==
    \/ \E k \in Codes, c \in Clients, ok \in BOOLEAN : ExchangeCode(p, k, c, ok)
    \/ \E i \in Ids, s \in SUBSET Scopes : RefreshAccessToken(p, i, s)

Row(p, type, parent) ==
    [NoTok EXCEPT !.st = "live", !.type = type, !.c = req[p].c, !.k = req[p].k,
                  !.scope = req[p].scope, !.parent = parent]

\* The new access token: a child of the refresh token, or of nothing.
CreateAccess(p) ==
    /\ req[p].pc = "access"
    /\ CreateOAuthToken(p, Row(p, "access", req[p].i),
                        [req[p] EXCEPT !.pc = "refresh", !.j = NewId])
    /\ UNCHANGED <<client, user, code, spent>>

\* The new refresh token, a child of the new access token.
CreateRefresh(p) ==
    /\ req[p].pc = "refresh"
    /\ CreateOAuthToken(p, Row(p, "refresh", req[p].j),
                        IF req[p].op = "refresh" THEN [req[p] EXCEPT !.pc = "revoke"] ELSE Idle)
    /\ UNCHANGED <<client, user, code, spent>>

RevokeOld(p) ==
    /\ req[p].pc = "revoke"
    /\ Revoke({req[p].i})
    /\ spent' = spent \cup {req[p].i}
    /\ Keep(p, Idle)
    /\ UNCHANGED <<client, user, code>>

\* RevokeOAuthTokenChain: the tokens whose parent it is, then itself.
RevokeChildren(p) ==
    /\ req[p].pc = "chain"
    /\ Revoke({i \in Rows : tok[i].parent = req[p].i})
    /\ Keep(p, [req[p] EXCEPT !.pc = "self"])
    /\ UNCHANGED <<client, user, code, spent>>

RevokeSelf(p) ==
    /\ req[p].pc = "self"
    /\ Revoke({req[p].i})
    /\ Keep(p, Idle)
    /\ UNCHANGED <<client, user, code, spent>>

-----------------------------------------------------------------------------
(* Revocation, time and cleanup.                                               *)

\* RevokeToken: the token, and for a refresh token then the access token it was
\* issued with.
RevokeToken(p, i) ==
    /\ req[p].pc = "idle" /\ GetOAuthTokenByHash(i)
    /\ Revoke({i})
    /\ Keep(p, IF tok[i].type = "refresh" THEN [Idle EXCEPT !.pc = "pair", !.i = tok[i].parent]
               ELSE Idle)
    /\ UNCHANGED <<client, user, code, spent>>

oauthRevoke(p) == \E i \in Ids : RevokeToken(p, i)

RevokePair(p) ==
    /\ req[p].pc = "pair"
    /\ Revoke({req[p].i})
    /\ Keep(p, Idle)
    /\ UNCHANGED <<client, user, code, spent>>

ExpireCode(k) ==
    /\ code[k].st = "live" /\ ~code[k].exp
    /\ code' = [code EXCEPT ![k].exp = TRUE]
    /\ UNCHANGED <<client, user, tok, req, spent>>

ExpireToken(i) ==
    /\ i \in Rows /\ ~tok[i].exp
    /\ tok' = [tok EXCEPT ![i].exp = TRUE]
    /\ UNCHANGED <<client, user, code, req, spent>>

CleanupExpiredCodes ==
    /\ \E k \in Codes : code[k].st = "live" /\ (code[k].exp \/ code[k].used)
    /\ code' = [k \in Codes |-> IF code[k].st = "live" /\ (code[k].exp \/ code[k].used)
                                THEN Gone(code[k]) ELSE code[k]]
    /\ UNCHANGED <<client, user, tok, req, spent>>

\* Only rows that are both expired and revoked go.
CleanupExpiredTokens ==
    /\ \E i \in Rows : tok[i].exp /\ tok[i].revoked
    /\ tok' = [i \in Ids |-> IF i \in Rows /\ tok[i].exp /\ tok[i].revoked
                             THEN Gone(tok[i]) ELSE tok[i]]
    /\ UNCHANGED <<client, user, code, req, spent>>

\* The server dies with its requests.
Crash ==
    /\ \E p \in Reqs : req[p].pc # "idle"
    /\ req' = [p \in Reqs |-> Idle]
    /\ UNCHANGED <<client, user, code, tok, spent>>

-----------------------------------------------------------------------------
Init ==
    /\ client = [c \in Clients |-> "none"]
    /\ user = [st |-> "live"]
    /\ code = [k \in Codes |-> NoCode]
    /\ tok = [i \in Ids |-> NoTok]
    /\ req = [p \in Reqs |-> Idle]
    /\ spent = {}

Next ==
    \/ Crash \/ DeleteUser \/ CleanupExpiredCodes \/ CleanupExpiredTokens
    \/ \E c \in Clients : oauthRegister(c)
    \/ \E k \in Codes : \/ ExpireCode(k)
                        \/ \E c \in Clients, s \in SUBSET Scopes, pkce \in BOOLEAN :
                              oauthAuthorizeSubmit(k, c, s, pkce)
    \/ \E i \in Ids : ExpireToken(i)
    \/ \E p \in Reqs :
        \/ \E c \in Clients : oauthDeleteClient(p, c)
        \/ oauthToken(p) \/ oauthRevoke(p)
        \/ DeleteOAuthClient(p) \/ MarkUsed(p) \/ CreateAccess(p) \/ CreateRefresh(p)
        \/ RevokeOld(p) \/ RevokeChildren(p) \/ RevokeSelf(p) \/ RevokePair(p)

Spec == Init /\ [][Next]_vars

-----------------------------------------------------------------------------
(* Properties.                                                                 *)

\* A code yields tokens once: however many exchanges of it run at the same time,
\* and whatever the cleanup removes meanwhile, one access token comes of it that
\* no refresh token is the parent of.
OneExchangePerCode ==
    \A k \in Codes :
        Cardinality({i \in Issued : tok[i].type = "access" /\ tok[i].parent = 0
                                    /\ tok[i].k = k}) <= 1

\* No token's scope list goes beyond the one the user consented to, along any
\* chain of refreshes.
ScopesNarrow == \A i \in Issued : tok[i].scope \subseteq code[tok[i].k].scope

\* No row outlives its client or its user, although a token request that read
\* them inserts later.
TokensHaveOwners ==
    /\ \A i \in Rows : GetOAuthClient(tok[i].c) /\ GetUser
    /\ \A k \in Codes : code[k].st = "live" => GetOAuthClient(code[k].c) /\ GetUser

\* A refresh token that has been rotated to the end is not rotated again: only
\* requests that overlap can get two pairs out of one refresh token.
SpentNotRotated == \A p \in Reqs : ~req[p].again
=============================================================================
