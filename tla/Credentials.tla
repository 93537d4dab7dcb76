---------------------------- MODULE Credentials -----------------------------
(***************************************************************************)
(* Credentials for SNMP and SSH: rows whose secret columns are encrypted   *)
(* with the key the server was started with.  In the development mode a    *)
(* start may bring a new key.                                              *)
(***************************************************************************)
EXTENDS Integers, FiniteSets

CONSTANTS Credentials, Secrets, Keys, MaxStarts

VARIABLES up, key,
          cred,     \* rows of credentials
          old,      \* history: rows written under an earlier key
          starts

vars == <<up, key, cred, old, starts>>

Types == {"snmp", "ssh"}
NoCred(st) == [st |-> st, type |-> "snmp", community |-> <<>>, keyRef |-> <<>>]

Init ==
  /\ up = FALSE /\ key \in Keys
  /\ cred = [c \in Credentials |-> NoCred("fresh")]
  /\ old = {} /\ starts = 0

LiveCreds == {c \in Credentials : cred[c].st = "live"}
-----------------------------------------------------------------------------
(* A secret is {} or {v}, a cell <<>> or <<the key, v>> *)

Encrypt(v) == IF v = {} THEN <<>> ELSE <<key, v>>
Decrypts(cell) == cell = <<>> \/ cell[1] = key

Validate(type, community, keyRef) == IF type = "snmp" THEN community # {} ELSE keyRef # {}

CreateCredential(c, type, community, keyRef) ==
  /\ Validate(type, community, keyRef)
  /\ cred' = [cred EXCEPT ![c] = [st |-> "live", type |-> type,
                                  community |-> Encrypt(community), keyRef |-> Encrypt(keyRef)]]

\* Mutant: one column is written as it came.
UpdateCredentialPlain(c, type, community, keyRef) ==
  /\ Validate(type, community, keyRef)
  /\ cred' = [cred EXCEPT ![c] = [st |-> "live", type |-> type,
                                  community |-> Encrypt(community),
                                  keyRef |-> IF keyRef = {} THEN <<>> ELSE <<"plain", keyRef>>]]

\* Every secret is replaced, one the request leaves empty with nothing.
UpdateCredential(c, type, community, keyRef) ==
  /\ Validate(type, community, keyRef)
  /\ cred' = [cred EXCEPT ![c] = [st |-> "live", type |-> type,
                                  community |-> Encrypt(community), keyRef |-> Encrypt(keyRef)]]

Optional(S) == {{}} \cup {{v} : v \in S}

CredentialCreate(c) ==
  /\ cred[c].st = "fresh"
  /\ \E t \in Types, com, ref \in Optional(Secrets) : CreateCredential(c, t, com, ref)

createCredential(c) ==
  /\ up /\ CredentialCreate(c)
  /\ UNCHANGED <<up, key, old, starts>>

CredentialUpdate(c) ==
  /\ c \in LiveCreds
  /\ \E t \in Types, com, ref \in Optional(Secrets) : UpdateCredential(c, t, com, ref)

updateCredential(c) ==
  /\ up /\ CredentialUpdate(c)
  /\ old' = old \ {c}
  /\ UNCHANGED <<up, key, starts>>

DeleteCredential(c) == c \in LiveCreds /\ cred' = [cred EXCEPT ![c] = NoCred("gone")]

deleteCredential(c) ==
  /\ up /\ DeleteCredential(c)
  /\ old' = old \ {c}
  /\ UNCHANGED <<up, key, starts>>

\* Get, and List over all rows: one cell that does not decrypt is an error
\* of the whole answer.
GetCredential(c) == Decrypts(cred[c].community) /\ Decrypts(cred[c].keyRef)

\* The key of the environment or, in the development mode, a new one.
Start(k) ==
  /\ ~up /\ starts < MaxStarts
  /\ up' = TRUE /\ starts' = starts + 1
  /\ key' = k
  /\ old' = IF k = key THEN old ELSE LiveCreds
  /\ UNCHANGED cred

Stop ==
  /\ up /\ up' = FALSE
  /\ UNCHANGED <<key, cred, old, starts>>

Next ==
  \/ \E c \in Credentials : createCredential(c) \/ updateCredential(c) \/ deleteCredential(c)
  \/ \E k \in Keys : Start(k)
  \/ Stop

Spec == Init /\ [][Next]_vars
-----------------------------------------------------------------------------
(* Properties *)

\* Under one key every credential can be read again, with the secrets its
\* type needs, so that the list of all of them is never an error: only a row
\* that was written under an earlier key, and not since, fails to decrypt.
CredentialsRead ==
  up => \A c \in LiveCreds \ old :
          /\ GetCredential(c)
          /\ IF cred[c].type = "snmp" THEN cred[c].community # <<>> ELSE cred[c].keyRef # <<>>
=============================================================================
