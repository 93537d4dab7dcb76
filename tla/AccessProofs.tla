---------------------------- MODULE AccessProofs ----------------------------
(***************************************************************************)
(* Theorems about Access, for any number of users, roles, keys and requests *)
(* in flight; about RateLimit, for any number of clients and tokens and any *)
(* window; and about CustomFields, for any number of fields and devices.   *)
(***************************************************************************)
EXTENDS Access, Limiter, FieldTables, Integers, TLAPS

Label == Names \cup Users \cup {None}
UserRow == [st : {"fresh", "live", "gone"}, name : Label, admin : BOOLEAN]
KeyRow == [st : {"fresh", "live", "gone"}, owner : Users \cup {None}]
UserOps == {"createUser", "updateUser", "deleteUser", "grantRole", "revokeRole", "assign"}
RoleOps == {"createRole", "updateRole", "deleteRole", "grant", "grantRole", "revokeRole", "assign"}
KeyOps == {"createAPIKey", "deleteAPIKey"}
Request == [pc : {"idle", "read", "write"}, op : UserOps \cup RoleOps \cup KeyOps \cup {None},
            by : Users \cup {None}, u : Users \cup {None}, r : Roles \cup {None},
            k : Keys \cup {None}, x : Names \cup {"admin", "plain", None},
            row : UserRow, ps : SUBSET Grantable]

\* The shape of the tables, and a request knows what its operation is about.
TypeOK ==
    /\ user \in [Users -> UserRow]
    /\ role \in [Roles -> {"fresh", "live", "gone"}]
    /\ grants \subseteq Roles \X (AllPerms \cup Grantable)
    /\ holds \subseteq Users \X Roles
    /\ key \in [Keys -> KeyRow]
    /\ \A k \in Keys : key[k].st = "live" => key[k].owner \in Users
    /\ req \in [Reqs -> Request]
    /\ was \subseteq Users

About(q) ==
    q.pc # "idle" =>
        /\ q.by \in Users
        /\ q.op \in UserOps => q.u \in Users
        /\ q.op \in RoleOps => q.r \in Roles
        /\ q.op \in KeyOps => q.k \in Keys
        /\ q.op \in {"createAPIKey", "createRole", "assign"} => q.pc = "write"

\* What a request that is about to write has seen.
Seen(q) ==
    q.pc = "write" =>
        /\ q.op = "updateUser" => q.row.st = "live"
        /\ q.op = "grant" => q.r \notin System
        /\ q.op = "createUser" /\ q.r = "admin" => q.by \in was
        /\ q.op \in {"grantRole", "assign"} /\ q.r = "admin" => q.by \in was
        /\ q.op = "deleteAPIKey" => /\ key[q.k].st # "fresh"
                                    /\ q.by \in was \cup {key[q.k].owner}
        /\ q.op = "createAPIKey" => key[q.k].st = "fresh"

\* Two requests never create the same key, and administrators are remembered.
OneMaker ==
    \A p, q \in Reqs : req[p].op = "createAPIKey" /\ req[q].op = "createAPIKey"
                       /\ req[p].k = req[q].k => p = q
Remembered == \A u \in Users : <<u, "admin">> \in holds => u \in was

Inv == /\ TypeOK /\ (\A p \in Reqs : About(req[p]) /\ Seen(req[p]))
       /\ OneMaker /\ Remembered
       /\ RowsHaveParents /\ NamesAreUnique /\ SystemRolesFixed

-----------------------------------------------------------------------------
(* Steps that only move a request.                                             *)

\* No request in flight is a request, about nothing.
LEMMA IdleFits == Idle \in Request /\ About(Idle) /\ Seen(Idle) /\ Idle.op = None
  BY Zenon DEF Idle, NoUser, Request, UserRow, Label, About, Seen, Roles

\* A step that leaves the tables alone and puts a sound record in one request's
\* place keeps the invariant: the handlers, the reads and the failures.
LEMMA OnlyRequests ==
  ASSUME Inv, NEW p \in Reqs, NEW r \in Request, About(r), Seen(r),
         r.op = "createAPIKey" =>
            \A q \in Reqs \ {p} : ~(req[q].op = "createAPIKey" /\ req[q].k = r.k),
         req' = [req EXCEPT ![p] = r],
         UNCHANGED <<user, role, grants, holds, key, was>>
  PROVE  Inv'
  <1>1. req' \in [Reqs -> Request] /\ req'[p] = r /\ \A q \in Reqs \ {p} : req'[q] = req[q]
    BY Zenon DEF Inv, TypeOK
  <1>2. TypeOK'
    BY Zenon, <1>1 DEF Inv, TypeOK
  <1>3. \A q \in Reqs : About(req[q])' /\ Seen(req[q])'
    <2> SUFFICES ASSUME NEW q \in Reqs PROVE About(req[q])' /\ Seen(req[q])'
      OBVIOUS
    <2>1. CASE q = p
      BY Zenon, <1>1, <2>1 DEF About, Seen
    <2>2. CASE q # p
      BY Zenon, <1>1, <2>2 DEF Inv, About, Seen
    <2> QED BY Zenon, <2>1, <2>2
  <1>4. OneMaker'
    BY Zenon, <1>1 DEF Inv, OneMaker
  <1>5. Remembered'
    BY Zenon DEF Inv, Remembered
  <1>6. RowsHaveParents' /\ NamesAreUnique' /\ SystemRolesFixed'
    BY Zenon DEF Inv, RowsHaveParents, NamesAreUnique, SystemRolesFixed, GetUser, GetRole,
           GetAPIKey, GetRolePermissions
  <1> QED BY Zenon, <1>2, <1>3, <1>4, <1>5, <1>6 DEF Inv

\* A handler puts a request in place that names what it is about.
LEMMA HandleKeeps ==
  ASSUME Inv, NEW p \in Reqs, NEW by \in Users, Handle(p, by)
  PROVE  Inv'
  <1> USE DEF Begin, Roles, System
  <1> DEFINE Fits(r) == /\ r \in Request /\ About(r) /\ Seen(r)
                        /\ r.op = "createAPIKey" => \A q \in Reqs : req[q].k # r.k
  <1>1. \E r : /\ Fits(r)
               /\ req' = [req EXCEPT ![p] = r]
               /\ UNCHANGED <<user, role, grants, holds, key, was>>
    <2>1. CASE \E u \in Users, n \in Names, adm \in BOOLEAN, r \in {None, "admin"} :
                  createUser(p, by, u, n, adm, r)
      <3> PICK u \in Users, n \in Names, adm \in BOOLEAN, r \in {None, "admin"} :
                  createUser(p, by, u, n, adm, r)
        BY Zenon, <2>1
      <3> DEFINE new == [Idle EXCEPT !.pc = "read", !.op = "createUser", !.by = by, !.u = u,
                             !.r = r, !.row = [st |-> "live", name |-> n, admin |-> adm]]
      <3>1. Fits(new)
        BY Zenon DEF Idle, NoUser, Request, UserRow, Label, About, Seen, UserOps, RoleOps, KeyOps
      <3> QED BY Zenon, <3>1 DEF createUser
    <2>2. CASE \E u \in Users : deleteUser(p, by, u)
      <3> PICK u \in Users : deleteUser(p, by, u)
        BY Zenon, <2>2
      <3> DEFINE new == [Idle EXCEPT !.pc = "read", !.op = "deleteUser", !.by = by, !.u = u]
      <3>1. Fits(new)
        BY Zenon DEF Idle, NoUser, Request, UserRow, Label, About, Seen, UserOps, RoleOps, KeyOps
      <3> QED BY Zenon, <3>1 DEF deleteUser
    <2>3. CASE \E u \in Users, x \in {"admin", "plain"} \cup Names : updateUser(p, by, u, x)
      <3> PICK u \in Users, x \in {"admin", "plain"} \cup Names : updateUser(p, by, u, x)
        BY Zenon, <2>3
      <3> DEFINE new == [Idle EXCEPT !.pc = "read", !.op = "updateUser", !.by = by, !.u = u,
                             !.x = x]
      <3>1. Fits(new)
        BY Zenon DEF Idle, NoUser, Request, UserRow, Label, About, Seen, UserOps, RoleOps, KeyOps
      <3> QED BY Zenon, <3>1 DEF updateUser
    <2>4. CASE \E u \in Users, r \in {"admin"} \cup Custom : grantRoleToUser(p, by, u, r)
      <3> PICK u \in Users, r \in {"admin"} \cup Custom : grantRoleToUser(p, by, u, r)
        BY Zenon, <2>4
      <3> DEFINE new == [Idle EXCEPT !.pc = "read", !.op = "grantRole", !.by = by, !.u = u, !.r = r]
      <3>1. Fits(new)
        BY Zenon DEF Idle, NoUser, Request, UserRow, Label, About, Seen, UserOps, RoleOps, KeyOps
      <3> QED BY Zenon, <3>1 DEF grantRoleToUser
    <2>5. CASE \E u \in Users, r \in {"admin"} \cup Custom : revokeRoleFromUser(p, by, u, r)
      <3> PICK u \in Users, r \in {"admin"} \cup Custom : revokeRoleFromUser(p, by, u, r)
        BY Zenon, <2>5
      <3> DEFINE new == [Idle EXCEPT !.pc = "read", !.op = "revokeRole", !.by = by, !.u = u, !.r = r]
      <3>1. Fits(new)
        BY Zenon DEF Idle, NoUser, Request, UserRow, Label, About, Seen, UserOps, RoleOps, KeyOps
      <3> QED BY Zenon, <3>1 DEF revokeRoleFromUser
    <2>6. CASE \E r \in Custom, xs \in Asked : createRole(p, by, r, xs)
      <3> PICK r \in Custom, xs \in Asked : createRole(p, by, r, xs)
        BY Zenon, <2>6
      <3> DEFINE new == [Idle EXCEPT !.pc = "write", !.op = "createRole", !.by = by, !.r = r, !.ps = xs]
      <3>1. Fits(new)
        BY Zenon DEF Asked, Idle, NoUser, Request, UserRow, Label, About, Seen, UserOps, RoleOps, KeyOps
      <3> QED BY Zenon, <3>1 DEF createRole
    <2>7. CASE \E r \in {"viewer"} \cup Custom : deleteRole(p, by, r)
      <3> PICK r \in {"viewer"} \cup Custom : deleteRole(p, by, r)
        BY Zenon, <2>7
      <3> DEFINE new == [Idle EXCEPT !.pc = "read", !.op = "deleteRole", !.by = by, !.r = r]
      <3>1. Fits(new)
        BY Zenon DEF Idle, NoUser, Request, UserRow, Label, About, Seen, UserOps, RoleOps, KeyOps
      <3> QED BY Zenon, <3>1 DEF deleteRole
    <2>8. CASE \E r \in {"viewer"} \cup Custom, xs \in Asked : updateRole(p, by, r, xs)
      <3> PICK r \in {"viewer"} \cup Custom, xs \in Asked : updateRole(p, by, r, xs)
        BY Zenon, <2>8
      <3> DEFINE new == [Idle EXCEPT !.pc = "read", !.op = "updateRole", !.by = by, !.r = r, !.ps = xs]
      <3>1. Fits(new)
        BY Zenon DEF Asked, Idle, NoUser, Request, UserRow, Label, About, Seen, UserOps, RoleOps, KeyOps
      <3> QED BY Zenon, <3>1 DEF updateRole
    <2>9. CASE \E k \in Keys : createAPIKey(p, by, k)
      <3> PICK k \in Keys : createAPIKey(p, by, k)
        BY Zenon, <2>9
      <3> DEFINE new == [Idle EXCEPT !.pc = "write", !.op = "createAPIKey", !.by = by, !.k = k]
      <3>1. Fits(new)
        BY Zenon DEF createAPIKey, Idle, NoUser, Request, UserRow, Label, About, Seen, UserOps, RoleOps, KeyOps
      <3> QED BY Zenon, <3>1 DEF createAPIKey
    <2>10. CASE \E k \in Keys : deleteAPIKey(p, by, k)
      <3> PICK k \in Keys : deleteAPIKey(p, by, k)
        BY Zenon, <2>10
      <3> DEFINE new == [Idle EXCEPT !.pc = "read", !.op = "deleteAPIKey", !.by = by, !.k = k]
      <3>1. Fits(new)
        BY Zenon DEF Idle, NoUser, Request, UserRow, Label, About, Seen, UserOps, RoleOps, KeyOps
      <3> QED BY Zenon, <3>1 DEF deleteAPIKey
    <2> HIDE DEF Fits
    <2> QED BY Zenon, <2>1, <2>2, <2>3, <2>4, <2>5, <2>6, <2>7, <2>8, <2>9, <2>10 DEF Handle
  <1> QED BY Zenon, <1>1, OnlyRequests

\* A read either ends the request or lets it write, and a request that may write
\* has seen what Seen says.
LEMMA ReadKeeps ==
  ASSUME Inv, NEW p \in Reqs, Read(p)
  PROVE  Inv'
  <1> DEFINE q == req[p]
  <1>q. q \in Request /\ About(q) /\ q.pc = "read"
    BY Zenon DEF Inv, TypeOK, Read
  <1>o. q.op \notin {"createAPIKey", "createRole", "assign"}
    BY Zenon, <1>q DEF About
  <1>1. CASE ~Allowed(q)
    BY Zenon, <1>1, IdleFits, OnlyRequests DEF Read, None
  <1>2. CASE Allowed(q) /\ q.op = "updateUser"
    <2> DEFINE r == [q EXCEPT !.pc = "write", !.x = None, !.row = Updated(q)]
    <2>1. UserUpdate(q)
      BY Zenon, <1>2 DEF Allowed
    <2>2. q.u \in Users /\ user[q.u] \in UserRow /\ user[q.u].st = "live"
      BY Zenon, <1>q, <1>2, <2>1 DEF About, UserOps, UserUpdate, GetUser, Inv, TypeOK
    <2>3. Updated(q) \in UserRow /\ Updated(q).st = "live"
      BY Zenon, <2>2 DEF Updated, UserRow, Label
    <2>4. r \in Request /\ r.op = "updateUser"
      BY Zenon, <1>q, <1>2, <2>3 DEF Request
    <2>5. About(r) /\ Seen(r)
      BY Zenon, <1>q, <1>2, <2>3 DEF Request, About, Seen
    <2> QED BY Zenon, <1>2, <2>4, <2>5, OnlyRequests DEF Read
  <1>3. CASE Allowed(q) /\ q.op # "updateUser"
    <2> DEFINE r == [q EXCEPT !.pc = "write"]
    <2>1. r \in Request /\ r.op = q.op /\ r.by = q.by /\ r.u = q.u /\ r.r = q.r /\ r.k = q.k
          /\ r.pc = "write" /\ About(r)
      BY Zenon, <1>q DEF Request, About
    <2>2. q.by \in Users /\ (IsAdmin(q.by) => q.by \in was)
      BY Zenon, <1>q DEF About, Inv, Remembered, IsAdmin, GetUserRoles
    <2>3. q.op = "grant" => q.r \notin System
      BY Zenon, <1>3 DEF Allowed, RoleGrantPermission
    <2>4. q.op = "createUser" /\ q.r = "admin" => q.by \in was
      BY Zenon, <1>3, <2>2 DEF Allowed, UserCreate
    <2>5. q.op = "grantRole" /\ q.r = "admin" => q.by \in was
      BY Zenon, <1>3, <2>2 DEF Allowed, RoleAssignToUser, System
    <2>6. q.op = "deleteAPIKey" => key[q.k].st # "fresh" /\ q.by \in was \cup {key[q.k].owner}
      BY Zenon, <1>3, <2>2 DEF Allowed, APIKeyDelete, GetAPIKey, requireOwnership
    <2>7. Seen(r)
      BY Zenon, <1>3, <1>o, <2>1, <2>3, <2>4, <2>5, <2>6 DEF Seen
    <2> HIDE DEF r
    <2>8. req' = [req EXCEPT ![p] = r] /\ UNCHANGED <<user, role, grants, holds, key, was>>
      BY Zenon, <1>3 DEF Read, r
    <2> QED BY Zenon, <1>o, <2>1, <2>7, <2>8, OnlyRequests
  <1> QED BY Zenon, <1>1, <1>2, <1>3

\* A statement that fails ends its request.
LEMMA FailKeeps ==
  ASSUME Inv, NEW p \in Reqs, Fail(p)
  PROVE  Inv'
  BY Zenon, IdleFits, OnlyRequests DEF Fail, None

-----------------------------------------------------------------------------
(* Writes.                                                                     *)

\* A key once written keeps its owner, and only the request that creates a key
\* changes a fresh one.
LEMMA KeysKeepOwners ==
  ASSUME Inv, NEW p \in Reqs, Write(p), NEW k \in Keys
  PROVE  /\ key[k].st # "fresh" => key'[k].st # "fresh" /\ key'[k].owner = key[k].owner
         /\ key'[k].st # key[k].st =>
               \/ req[p].op = "createAPIKey" /\ req[p].k = k
               \/ req[p].op = "deleteAPIKey" /\ req[p].k = k /\ key[k].st = "live"
  <1> DEFINE q == req[p]
  <1>q. q \in Request /\ About(q) /\ Seen(q) /\ q.pc = "write"
        /\ key \in [Keys -> KeyRow]
    BY Zenon DEF Inv, TypeOK, Write
  <1>1. CASE UNCHANGED key
    BY Zenon, <1>1
  <1>2. CASE q.op = "createAPIKey" /\ CreateAPIKey(q.k, q.by)
    BY Zenon, <1>q, <1>2 DEF KeyRow, CreateAPIKey, About, Seen, KeyOps
  <1>3. CASE q.op = "deleteAPIKey" /\ DeleteAPIKey(q.k)
    BY Zenon, <1>q, <1>3 DEF KeyRow, DeleteAPIKey, GetAPIKey, About, KeyOps
  <1> QED BY Zenon, <1>1, <1>2, <1>3 DEF Write, Store

\* What a write leaves in the request's place.
LEMMA WriteGoesOn ==
  ASSUME Inv, NEW p \in Reqs, Write(p)
  PROVE  LET q == req[p]
             r == After(q)
         IN /\ r \in Request /\ About(r) /\ r.op # "createAPIKey"
            /\ \/ r.pc # "write"
               \/ r.pc = "write" /\ r.op = "assign" /\ (r.r = "admin" => r.by \in was)
  <1> DEFINE q == req[p]
  <1>q. q \in Request /\ About(q) /\ Seen(q) /\ q.pc = "write"
    BY Zenon DEF Inv, TypeOK, Write
  <1>1. CASE q.op = "createUser" /\ q.r # None
    <2> DEFINE r == [q EXCEPT !.op = "assign", !.row = NoUser]
    <2>1. After(q) = r
      BY Zenon, <1>1 DEF After
    <2>2. r \in Request /\ r.op = "assign" /\ r.pc = "write" /\ r.r = q.r /\ r.by = q.by
      BY Zenon, <1>q DEF Request, UserOps, NoUser, UserRow, Label
    <2>3. About(r)
      BY Zenon, <1>q, <1>1, <2>2 DEF Request, About, UserOps, RoleOps, KeyOps, None
    <2>4. r.r = "admin" => r.by \in was
      BY Zenon, <1>q, <1>1, <2>2 DEF Seen
    <2> HIDE DEF r
    <2> QED BY Zenon, <2>1, <2>2, <2>3, <2>4
  <1>2. CASE q.op \in {"createRole", "updateRole"} /\ q.ps # {}
    <2> DEFINE r == [q EXCEPT !.op = "grant", !.pc = "read"]
    <2>1. After(q) = r
      BY Zenon, <1>2 DEF After
    <2>2. r \in Request /\ r.op = "grant" /\ r.pc = "read"
      BY Zenon, <1>q DEF Request, RoleOps
    <2>3. About(r)
      BY Zenon, <1>q, <1>2, <2>2 DEF Request, About, UserOps, RoleOps, KeyOps
    <2> HIDE DEF r
    <2> QED BY Zenon, <2>1, <2>2, <2>3
  <1>3. CASE ~(q.op = "createUser" /\ q.r # None)
             /\ ~(q.op \in {"createRole", "updateRole"} /\ q.ps # {})
    <2>1. After(q) = Idle
      BY Zenon, <1>3 DEF After
    <2> QED BY <2>1, IdleFits DEF Idle, None
  <1> QED BY Zenon, <1>1, <1>2, <1>3

\* The requests after a write: none of them loses what it has seen.
LEMMA WriteKeepsRequests ==
  ASSUME Inv, NEW p \in Reqs, Write(p), TypeOK'
  PROVE  (\A q \in Reqs : About(req[q])' /\ Seen(req[q])') /\ OneMaker' /\ Remembered'
  <1>1. req' = [req EXCEPT ![p] = After(req[p])] /\ was \subseteq was' /\ Remembered'
    BY Zenon DEF Write, Remembered
  <1>2. req'[p] = After(req[p]) /\ \A q \in Reqs \ {p} : req'[q] = req[q]
    BY Zenon, <1>1 DEF Inv, TypeOK
  <1>3. ASSUME NEW q \in Reqs PROVE About(req[q])' /\ Seen(req[q])'
    <2>1. CASE q = p
      BY Zenon, <1>1, <1>2, <2>1, WriteGoesOn DEF About, Seen
    <2>2. CASE q # p
      <3>1. About(req[q]) /\ Seen(req[q]) /\ req'[q] = req[q]
        BY Zenon, <1>2, <2>2 DEF Inv
      <3>2. req[q].pc = "write" /\ req[q].op = "deleteAPIKey" =>
               /\ key'[req[q].k].st # "fresh"
               /\ req[q].by \in was' \cup {key'[req[q].k].owner}
        BY Zenon, <1>1, <3>1, KeysKeepOwners DEF About, Seen, KeyOps
      <3>3. req[q].pc = "write" /\ req[q].op = "createAPIKey" => key'[req[q].k].st = "fresh"
        BY Zenon, <2>2, <3>1, KeysKeepOwners DEF About, Seen, KeyOps, Inv, OneMaker
      <3> QED BY Zenon, <1>1, <3>1, <3>2, <3>3 DEF About, Seen
    <2> QED BY Zenon, <2>1, <2>2
  <1>4. OneMaker'
    BY <1>2, WriteGoesOn DEF Inv, OneMaker
  <1> QED BY Zenon, <1>1, <1>3, <1>4

\* The tables after a write, statement by statement: foreign keys, unique names and
\* the permissions of the system roles.
LEMMA StoreKeepsTables ==
  ASSUME Inv, NEW p \in Reqs, Write(p)
  PROVE  TypeOK' /\ RowsHaveParents' /\ NamesAreUnique' /\ SystemRolesFixed'
  <1> DEFINE q == req[p]
             Perms(s) == {h \in grants : h[1] = s}
  <1>q. q \in Request /\ About(q) /\ Seen(q) /\ q.pc = "write" /\ q.by \in Users
    BY Zenon DEF Inv, TypeOK, Write, About
  <1>r. req' \in [Reqs -> Request]
    BY Zenon, WriteGoesOn DEF Inv, TypeOK, Write
  <1>t. /\ user \in [Users -> UserRow]
        /\ role \in [Roles -> {"fresh", "live", "gone"}]
        /\ grants \subseteq Roles \X (AllPerms \cup Grantable)
        /\ holds \subseteq Users \X Roles
        /\ key \in [Keys -> KeyRow]
        /\ \A k \in Keys : key[k].st = "live" => key[k].owner \in Users
        /\ RowsHaveParents /\ NamesAreUnique /\ SystemRolesFixed
    BY Zenon DEF Inv, TypeOK
  <1>w. was' \subseteq Users
    BY Zenon DEF Inv, TypeOK, Write
  <1> DEFINE Tables == /\ user' \in [Users -> UserRow]
                       /\ role' \in [Roles -> {"fresh", "live", "gone"}]
                       /\ grants' \subseteq Roles \X (AllPerms \cup Grantable)
                       /\ holds' \subseteq Users \X Roles
                       /\ key' \in [Keys -> KeyRow]
                       /\ \A k \in Keys : key'[k].st = "live" => key'[k].owner \in Users
                       /\ RowsHaveParents' /\ NamesAreUnique' /\ SystemRolesFixed'
  \* What the conjuncts on names and on system roles depend on.
  <1>n. ASSUME UNCHANGED user PROVE NamesAreUnique'
    BY Zenon, <1>n, <1>t DEF NamesAreUnique, GetUser
  <1>s. ASSUME \A s \in System : role'[s] = role[s] /\ Perms(s)' = Perms(s)
        PROVE  SystemRolesFixed'
    BY Zenon, <1>s, <1>t, SMTT(30) DEF SystemRolesFixed, GetRole, GetRolePermissions, System
  <1>1. ASSUME q.op = "createUser", CreateUser(q.u, q.row.name, q.row.admin),
               UNCHANGED <<role, grants, holds, key>>
        PROVE  Tables
    <2>1. q.u \in Users /\ q.row.name \in Label /\ q.row.admin \in BOOLEAN
      BY Zenon, <1>1, <1>q DEF About, UserOps, Request, UserRow
    <2>2. user' \in [Users -> UserRow] /\ user'[q.u].st = "live" /\ user'[q.u].name = q.row.name
          /\ \A v \in Users \ {q.u} : user'[v] = user[v]
      BY Zenon, <1>1, <1>t, <2>1 DEF CreateUser, UserRow
    <2>3. NamesAreUnique'
      BY Zenon, <1>1, <1>t, <2>1, <2>2 DEF NamesAreUnique, GetUser, CreateUser, GetUserByUsername
    <2>4. RowsHaveParents'
      BY Zenon, <1>1, <1>t, <2>2 DEF RowsHaveParents, GetUser, GetRole, GetAPIKey
    <2> QED BY Zenon, <1>1, <1>s, <1>t, <2>2, <2>3, <2>4
  <1>2. ASSUME q.op = "updateUser", UpdateUser(q.u, q.row), UNCHANGED <<role, grants, holds, key>>
        PROVE  Tables
    <2>1. q.u \in Users /\ q.row \in UserRow /\ q.row.st = "live"
      BY Zenon, <1>2, <1>q DEF About, Seen, UserOps, Request
    <2>2. user' \in [Users -> UserRow] /\ user'[q.u] = q.row
          /\ \A v \in Users \ {q.u} : user'[v] = user[v]
      BY Zenon, <1>2, <1>t, <2>1 DEF UpdateUser
    <2>3. NamesAreUnique'
      BY <1>2, <1>t, <2>1, <2>2 DEF NamesAreUnique, GetUser, UpdateUser, GetUserByUsername
    <2>4. RowsHaveParents'
      BY Zenon, <1>2, <1>t, <2>1, <2>2 DEF RowsHaveParents, GetUser, GetRole, GetAPIKey
    <2> QED BY Zenon, <1>2, <1>s, <1>t, <2>2, <2>3, <2>4
  <1>3. ASSUME q.op = "deleteUser", DeleteUser(q.u), UNCHANGED <<role, grants, key>>
        PROVE  Tables
    <2>1. q.u \in Users
      BY Zenon, <1>3, <1>q DEF About, UserOps
    <2>2. user' \in [Users -> UserRow] /\ user'[q.u].st = "gone"
          /\ \A v \in Users \ {q.u} : user'[v] = user[v]
      BY Zenon, <1>3, <1>t, <2>1 DEF DeleteUser, UserRow
    <2>3. NamesAreUnique'
      BY Zenon, <1>t, <2>2 DEF NamesAreUnique, GetUser
    <2>4. holds' \subseteq Users \X Roles /\ \A h \in holds' : h \in holds /\ h[1] # q.u
      BY Zenon, <1>3, <1>t DEF DeleteUser
    <2>5. RowsHaveParents'
      <3>1. \A h \in holds' : GetUser(h[1])' /\ GetRole(h[2])'
        BY Zenon, <1>3, <1>t, <2>2, <2>4 DEF RowsHaveParents, GetUser, GetRole
      <3>2. \A g \in grants' : GetRole(g[1])'
        BY Zenon, <1>3, <1>t DEF RowsHaveParents, GetRole
      <3>3. \A k \in Keys : GetAPIKey(k)' => GetUser(key[k].owner)'
        <4> SUFFICES ASSUME NEW k \in Keys, key[k].st = "live"
                     PROVE  user'[key[k].owner].st = "live"
          BY Zenon, <1>3 DEF GetAPIKey, GetUser
        <4>1. key[k].owner # q.u /\ user[key[k].owner].st = "live"
          BY Zenon, <1>3, <1>t DEF RowsHaveParents, DeleteUser, GetAPIKey, GetUser
        <4> QED BY Zenon, <1>3, <1>t, <4>1 DEF DeleteUser
      <3> QED BY Zenon, <3>1, <3>2, <3>3 DEF RowsHaveParents
    <2> QED BY Zenon, <1>3, <1>s, <1>t, <2>2, <2>3, <2>4, <2>5
  <1>4. ASSUME q.op = "createRole", CreateRole(q.r), UNCHANGED <<user, grants, holds, key>>
        PROVE  Tables
    <2>1. q.r \in Roles
      BY Zenon, <1>4, <1>q DEF About, RoleOps
    <2>2. role' \in [Roles -> {"fresh", "live", "gone"}] /\ role'[q.r] = "live"
          /\ \A s \in Roles \ {q.r} : role'[s] = role[s]
      BY Zenon, <1>4, <1>t, <2>1 DEF CreateRole
    <2>3. RowsHaveParents'
      BY Zenon, <1>4, <1>t, <2>2 DEF RowsHaveParents, GetUser, GetRole, GetAPIKey
    <2>4. SystemRolesFixed'
      BY Zenon, <1>4, <1>t, <1>s, <2>2 DEF CreateRole, SystemRolesFixed, GetRole, Roles
    <2> QED BY Zenon, <1>4, <1>n, <1>t, <2>2, <2>3, <2>4
  <1>5. ASSUME UNCHANGED <<user, role, grants, holds, key>>
        PROVE  Tables
    BY Zenon, <1>5, <1>n, <1>s, <1>t DEF RowsHaveParents, GetUser, GetRole, GetAPIKey
  <1>6. ASSUME q.op = "deleteRole", DeleteRole(q.r), UNCHANGED <<user, key>>
        PROVE  Tables
    <2>1. q.r \in Roles \ System
      BY Zenon, <1>6, <1>q DEF About, RoleOps, DeleteRole
    <2>2. role' \in [Roles -> {"fresh", "live", "gone"}]
          /\ \A s \in Roles \ {q.r} : role'[s] = role[s]
      BY Zenon, <1>6, <1>t, <2>1 DEF DeleteRole
    <2>3. /\ grants' \subseteq Roles \X (AllPerms \cup Grantable)
          /\ holds' \subseteq Users \X Roles
          /\ \A h \in holds' : h \in holds /\ h[2] # q.r
          /\ \A g \in grants' : g \in grants /\ g[1] # q.r
      BY Zenon, <1>6, <1>t DEF DeleteRole
    <2>4. RowsHaveParents'
      BY Zenon, <1>6, <1>t, <2>2, <2>3 DEF RowsHaveParents, GetUser, GetRole, GetAPIKey
    <2>5. \A s \in System : Perms(s)' = Perms(s)
      BY Zenon, <1>6, <2>1 DEF DeleteRole
    <2>6. SystemRolesFixed'
      BY Zenon, <1>s, <2>1, <2>2, <2>5 DEF Roles
    <2> QED BY Zenon, <1>6, <1>n, <1>t, <2>2, <2>3, <2>4, <2>6
  <1>7. ASSUME q.op = "grant", AddRolePermission(q.r, q.ps), UNCHANGED <<user, role, holds, key>>
        PROVE  Tables
    <2>1. q.r \in Roles \ System /\ q.ps \subseteq Grantable /\ role[q.r] = "live"
      BY Zenon, <1>7, <1>q DEF About, Seen, RoleOps, Request, AddRolePermission, GetRole
    <2>2. \A g \in grants' : g \in grants \/ (g \in {q.r} \X q.ps /\ g[1] = q.r)
      BY Zenon, <1>7 DEF AddRolePermission
    <2>3. grants' \subseteq Roles \X (AllPerms \cup Grantable)
      BY Zenon, <1>7, <1>t, <2>1 DEF AddRolePermission
    <2>4. RowsHaveParents'
      BY Zenon, <1>7, <1>t, <2>1, <2>2 DEF RowsHaveParents, GetUser, GetRole, GetAPIKey
    <2>5. \A s \in System : Perms(s)' = Perms(s)
      BY Zenon, <1>7, <2>1, <2>2 DEF AddRolePermission
    <2> QED BY Zenon, <1>7, <1>n, <1>s, <1>t, <2>3, <2>4, <2>5
  <1>8. ASSUME q.op \in {"grantRole", "assign"}, AssignRoleToUser(q.u, q.r),
               UNCHANGED <<user, role, grants, key>>
        PROVE  Tables
    <2>1. q.u \in Users /\ q.r \in Roles /\ GetUser(q.u) /\ GetRole(q.r)
      BY Zenon, <1>8, <1>q DEF About, UserOps, RoleOps, AssignRoleToUser
    <2>2. holds' = holds \cup {<<q.u, q.r>>}
      BY Zenon, <1>8 DEF AssignRoleToUser
    <2>3. RowsHaveParents'
      BY <1>8, <1>t, <2>1, <2>2 DEF RowsHaveParents, GetUser, GetRole, GetAPIKey
    <2> QED BY <1>8, <1>n, <1>s, <1>t, <2>1, <2>2, <2>3
  <1>9. ASSUME q.op = "revokeRole", RemoveRoleFromUser(q.u, q.r), UNCHANGED <<user, role, grants, key>>
        PROVE  Tables
    <2>1. holds' \subseteq holds
      BY Zenon, <1>9 DEF RemoveRoleFromUser
    <2>2. RowsHaveParents'
      BY Zenon, <1>9, <1>t, <2>1 DEF RowsHaveParents, GetUser, GetRole, GetAPIKey
    <2> QED BY Zenon, <1>9, <1>n, <1>s, <1>t, <2>1, <2>2
  <1>10. ASSUME q.op = "createAPIKey", CreateAPIKey(q.k, q.by), UNCHANGED <<user, role, grants, holds>>
         PROVE  Tables
    <2>1. q.k \in Keys /\ GetUser(q.by)
      BY Zenon, <1>10, <1>q DEF About, KeyOps, CreateAPIKey
    <2>2. key' \in [Keys -> KeyRow]
          /\ key'[q.k].owner = q.by /\ \A k \in Keys \ {q.k} : key'[k] = key[k]
      BY Zenon, <1>10, <1>q, <1>t, <2>1 DEF CreateAPIKey, KeyRow
    <2>3. RowsHaveParents'
      BY Zenon, <1>10, <1>t, <2>1, <2>2 DEF RowsHaveParents, GetUser, GetRole, GetAPIKey
    <2> QED BY Zenon, <1>10, <1>q, <1>n, <1>s, <1>t, <2>2, <2>3
  <1>11. ASSUME q.op = "deleteAPIKey", DeleteAPIKey(q.k), UNCHANGED <<user, role, grants, holds>>
         PROVE  Tables
    <2>1. q.k \in Keys
      BY Zenon, <1>11, <1>q DEF About, KeyOps
    <2>2. key' \in [Keys -> KeyRow]
          /\ key'[q.k].st = "gone" /\ \A k \in Keys \ {q.k} : key'[k] = key[k]
      BY <1>11, <1>t, <2>1 DEF DeleteAPIKey, KeyRow
    <2>3. RowsHaveParents'
      BY Zenon, <1>11, <1>t, <2>2 DEF RowsHaveParents, GetUser, GetRole, GetAPIKey
    <2> QED BY Zenon, <1>11, <1>n, <1>s, <1>t, <2>2, <2>3
  <1>12. Tables
    <2> HIDE DEF Tables
    <2> QED BY Zenon, <1>1, <1>2, <1>3, <1>4, <1>5, <1>6, <1>7, <1>8, <1>9, <1>10, <1>11
            DEF Write, Store, UpdateRole
  <1> QED BY Zenon, <1>12, <1>r, <1>w DEF TypeOK

-----------------------------------------------------------------------------
(* The theorems.                                                               *)

\* Every step of the access service keeps the invariant.
LEMMA NextKeeps == Inv /\ [Next]_vars => Inv'
  <1> SUFFICES ASSUME Inv, [Next]_vars PROVE Inv'
    OBVIOUS
  <1>1. ASSUME NEW p \in Reqs, Read(p) PROVE Inv'
    BY Zenon, <1>1, ReadKeeps
  <1>2. ASSUME NEW p \in Reqs, Write(p) PROVE Inv'
    BY Zenon, <1>2, StoreKeepsTables, WriteKeepsRequests DEF Inv
  <1>3. ASSUME NEW p \in Reqs, Fail(p) PROVE Inv'
    BY Zenon, <1>3, FailKeeps
  <1>4. ASSUME NEW p \in Reqs, NEW by \in Users, Handle(p, by) PROVE Inv'
    BY Zenon, <1>4, HandleKeeps
  <1>5. CASE UNCHANGED vars
    BY ZenonT(30), <1>5 DEF vars, Inv, TypeOK, About, Seen, OneMaker, Remembered, RowsHaveParents,
                NamesAreUnique, SystemRolesFixed, GetUser, GetRole, GetAPIKey, GetRolePermissions
  <1> QED BY Zenon, <1>1, <1>2, <1>3, <1>4, <1>5 DEF Next

\* The invariant holds of the seeded database.
LEMMA InitHolds == Init => Inv
  <1> SUFFICES ASSUME Init PROVE Inv
    OBVIOUS
  <1> USE NamesAssumption DEF Init
  <1>1. TypeOK
    <2>1. user \in [Users -> UserRow]
      BY Zenon DEF UserRow, Label, NoUser
    <2>2. role \in [Roles -> {"fresh", "live", "gone"}]
      OBVIOUS
    <2>3. grants \subseteq Roles \X (AllPerms \cup Grantable)
      BY DEF AllPerms, Crud, Roles, System
    <2>4. holds \subseteq Users \X Roles /\ was \subseteq Users
      BY DEF Roles, System
    <2>5. key \in [Keys -> KeyRow] /\ \A k \in Keys : key[k].st # "live"
      BY Zenon DEF KeyRow
    <2>6. req \in [Reqs -> Request]
      BY Zenon, IdleFits
    <2> QED BY Zenon, <2>1, <2>2, <2>3, <2>4, <2>5, <2>6 DEF TypeOK
  <1>2. \A p \in Reqs : About(req[p]) /\ Seen(req[p]) /\ req[p].op = None
    BY Zenon, IdleFits
  <1>3. OneMaker
    BY Zenon, <1>2 DEF OneMaker, None
  <1>4. Remembered
    BY Zenon DEF Remembered, System
  <1>5. RowsHaveParents
    BY DEF RowsHaveParents, GetUser, GetRole, GetAPIKey, Roles, System
  <1>6. NamesAreUnique
    BY Zenon DEF NamesAreUnique, GetUser, NoUser
  <1>7. SystemRolesFixed
    <2>1. \A r \in System : GetRole(r)
      BY Zenon DEF GetRole, Roles
    <2>2. GetRolePermissions("admin") = AllPerms
      <3>1. {h \in grants : h[1] = "admin"} = {"admin"} \X AllPerms
        BY Zenon DEF System
      <3>2. ASSUME NEW S PROVE {g[2] : g \in {"admin"} \X S} = S
        <4>1. \A x \in S : <<"admin", x>> \in {"admin"} \X S /\ <<"admin", x>>[2] = x
          OBVIOUS
        <4>2. \A g \in {"admin"} \X S : g[2] \in S
          OBVIOUS
        <4> QED BY Zenon, <4>1, <4>2
      <3> QED BY Zenon, <3>1, <3>2 DEF GetRolePermissions
    <2>3. GetRolePermissions("viewer") = {}
      BY Zenon DEF GetRolePermissions, System
    <2> QED BY Zenon, <2>1, <2>2, <2>3 DEF SystemRolesFixed
  <1> QED BY Zenon, <1>1, <1>2, <1>3, <1>4, <1>5, <1>6, <1>7 DEF Inv

\* The invariant holds in every reachable state.
LEMMA AlwaysInv == Spec => []Inv
  BY InitHolds, NextKeeps, PTL DEF Spec

\* Deleting a user or a role leaves no role link, grant or key behind, whatever
\* requests were already past their checks when it went.
THEOREM NoOrphans == Spec => []RowsHaveParents
  <1>1. Inv => RowsHaveParents
    BY DEF Inv
  <1> QED BY AlwaysInv, <1>1, PTL

\* Two accounts never share a name, although the look-up and the write are two
\* steps and an update writes back a row it read earlier.
THEOREM OneUserPerName == Spec => []NamesAreUnique
  <1>1. Inv => NamesAreUnique
    BY DEF Inv
  <1> QED BY AlwaysInv, <1>1, PTL

\* No sequence of requests removes a system role or changes what it permits.
THEOREM SystemRolesStay == Spec => []SystemRolesFixed
  <1>1. Inv => SystemRolesFixed
    BY DEF Inv
  <1> QED BY AlwaysInv, <1>1, PTL

\* The admin role is given only by requests of users who have held it.
THEOREM AdminSpreadsFromAdmins == Spec => OnlyAdminsMakeAdmins
  <1> DEFINE Given == \A u \in Users : IsAdmin(u)' /\ ~IsAdmin(u) =>
                         \E p \in Reqs : /\ req[p].pc = "write" /\ req[p].u = u /\ req[p].r = "admin"
                                         /\ req[p].by \in was
  <1>1. Inv /\ [Next]_vars => [Given]_vars
    <2> SUFFICES ASSUME Inv, Next, NEW u \in Users, IsAdmin(u)', ~IsAdmin(u)
                 PROVE  \E p \in Reqs : /\ req[p].pc = "write" /\ req[p].u = u
                                        /\ req[p].r = "admin" /\ req[p].by \in was
      OBVIOUS
    <2>1. <<u, "admin">> \in holds' /\ <<u, "admin">> \notin holds
      BY Zenon DEF IsAdmin, GetUserRoles, Roles, System
    <2>2. PICK p \in Reqs : Read(p) \/ Write(p) \/ Fail(p) \/ \E by \in Users : Handle(p, by)
      BY Zenon DEF Next
    <2>3. Write(p)
      BY ZenonT(30), <2>1, <2>2 DEF Read, Fail, Handle, Begin, createUser, updateUser, deleteUser,
           createRole, updateRole, deleteRole, grantRoleToUser, revokeRoleFromUser,
           createAPIKey, deleteAPIKey
    <2>4. req[p].pc = "write" /\ Seen(req[p])
      BY Zenon, <2>3 DEF Write, Inv
    <2>5. req[p].op \in {"grantRole", "assign"} /\ req[p].u = u /\ req[p].r = "admin"
      BY <2>1, <2>3 DEF Write, Store, DeleteUser, DeleteRole, AssignRoleToUser, RemoveRoleFromUser
    <2> QED BY <2>4, <2>5 DEF Seen
  <1> QED BY <1>1, AlwaysInv, PTL DEF Spec, OnlyAdminsMakeAdmins

\* A key is deleted only by a request of its owner or of a user who has been admin,
\* although ownership is checked one step before the delete.
THEOREM KeysGoByTheirOwners == Spec => KeysAreTheirOwners
  <1> DEFINE Owned == \A k \in Keys : GetAPIKey(k) /\ ~GetAPIKey(k)' =>
                         \E p \in Reqs : /\ req[p].pc = "write" /\ req[p].k = k
                                         /\ req[p].by \in was \cup {key[k].owner}
  <1>1. Inv /\ [Next]_vars => [Owned]_vars
    <2> SUFFICES ASSUME Inv, Next, NEW k \in Keys, GetAPIKey(k), ~GetAPIKey(k)'
                 PROVE  \E p \in Reqs : /\ req[p].pc = "write" /\ req[p].k = k
                                        /\ req[p].by \in was \cup {key[k].owner}
      OBVIOUS
    <2>1. key[k].st = "live" /\ key'[k].st # "live"
      BY Zenon DEF GetAPIKey
    <2>2. PICK p \in Reqs : Read(p) \/ Write(p) \/ Fail(p) \/ \E by \in Users : Handle(p, by)
      BY Zenon DEF Next
    <2>3. Write(p)
      BY ZenonT(30), <2>1, <2>2 DEF Read, Fail, Handle, Begin, createUser, updateUser, deleteUser,
           createRole, updateRole, deleteRole, grantRoleToUser, revokeRoleFromUser,
           createAPIKey, deleteAPIKey
    <2>4. req[p].pc = "write" /\ Seen(req[p])
      BY Zenon, <2>3 DEF Write, Inv
    <2>5. req[p].op = "deleteAPIKey" /\ req[p].k = k
      BY Zenon, <2>1, <2>3, <2>4, KeysKeepOwners DEF Seen
    <2> QED BY <2>4, <2>5 DEF Seen
  <1> QED BY <1>1, AlwaysInv, PTL DEF Spec, KeysAreTheirOwners

-----------------------------------------------------------------------------
(* What the limiter gives.                                                    *)

\* A bucket is in use by one client at most, who has at most one, and a request
\* takes only from what is or was its own client's.
OwnBuckets ==
    /\ \A c \in Clients : clients[c] = {} \/ \E b \in Buckets : clients[c] = {b}
    /\ \A c, d \in Clients : \A b \in clients[c] : b \in clients[d] => c = d
    /\ \A p \in Requests : lReq[p].pc \in {"make", "take"} => lReq[p].client \in Clients
    /\ \A p \in Requests : lReq[p].pc = "take" =>
         lReq[p].bucket \in Buckets /\ \A c \in Clients : lReq[p].bucket \in clients[c] => c = lReq[p].client

\* A bucket in use has been filled, with no more than a window's tokens.
Filled(b) == bucket[b].tokens \in 0 .. requests /\ bucket[b].age \in Nat

\* What a client was given and may still be given from its bucket: two windows'
\* tokens, and one window's since the bucket was filled; nothing was given after
\* the bucket's window was over.
Accounted(s, b) ==
    \A a \in 0 .. window :
      /\ s[a] + b.tokens <= 2 * requests
      /\ a <= b.age => s[a] + b.tokens <= requests
      /\ a + window < b.age => s[a] = 0

LimitInv ==
    /\ DOMAIN clients = Clients /\ DOMAIN lReq = Requests
    /\ DOMAIN bucket = Buckets
    /\ \A b \in Buckets : DOMAIN bucket[b] = {"tokens", "age"}
    /\ spent \in [Clients -> [0 .. window -> Nat]]
    /\ OwnBuckets
    /\ \A c \in Clients : \A b \in clients[c] : Filled(b)
    /\ \A c \in Clients \ raced :
         /\ clients[c] = {} => \A a \in 0 .. window : spent[c][a] = 0
         /\ \A b \in clients[c] : Accounted(spent[c], bucket[b])

\* Steps that change neither the buckets nor what was given keep the accounts of
\* a client whose bucket stays or goes after two windows.
LEMMA AccountsStay ==
  ASSUME window \in Nat, LimitInv, UNCHANGED <<bucket, spent>>, DOMAIN clients' = Clients,
         raced \subseteq raced', OwnBuckets', DOMAIN lReq' = Requests,
         \A c \in Clients : \/ clients'[c] = clients[c]
                            \/ clients'[c] = {} /\ \A b \in clients[c] : bucket[b].age > L!cleanup
  PROVE  LimitInv'
  <1>1. /\ DOMAIN bucket' = Buckets /\ \A b \in Buckets : DOMAIN bucket'[b] = {"tokens", "age"}
        /\ spent' \in [Clients -> [0 .. window -> Nat]]
    BY Zenon DEF LimitInv
  <1>2. \A c \in Clients : \A b \in clients'[c] : Filled(b)'
    BY Zenon DEF LimitInv, Filled
  <1>3. ASSUME NEW c \in Clients \ raced'
        PROVE  /\ clients'[c] = {} => \A a \in 0 .. window : spent'[c][a] = 0
               /\ \A b \in clients'[c] : Accounted(spent'[c], bucket'[b])
    <2>1. c \in Clients \ raced /\ spent'[c] = spent[c]
      BY Zenon, <1>3
    <2>2. /\ clients[c] = {} => \A a \in 0 .. window : spent[c][a] = 0
          /\ \A b \in clients[c] : Accounted(spent[c], bucket[b]) /\ Filled(b)
      BY Zenon, <2>1 DEF LimitInv
    <2>3. CASE clients'[c] = clients[c]
      BY Zenon, <2>1, <2>2, <2>3
    <2>4. CASE clients'[c] = {} /\ clients[c] # {} /\ \A b \in clients[c] : bucket[b].age > L!cleanup
      <3>1. PICK b \in clients[c] : bucket[b].age > L!cleanup
        BY Zenon, <2>4
      <3>2. bucket[b].age \in Nat /\ bucket[b].age > 2 * window
        BY Zenon, <3>1, <2>2 DEF Filled, L!cleanup
      <3>3. \A a \in 0 .. window : a + window < bucket[b].age
        BY SMT, <3>2
      <3>4. \A a \in 0 .. window : spent[c][a] = 0
        BY Zenon, <3>1, <3>3, <2>2 DEF Accounted
      <3> QED BY Zenon, <2>1, <2>4, <3>4
    <2> QED BY Zenon, <2>1, <2>3, <2>4
  <1> QED BY Zenon, <1>1, <1>2, <1>3 DEF LimitInv

\* The look-up: a request that found a bucket found its client's.
LEMMA AllowKeeps ==
  ASSUME window \in Nat, LimitInv, NEW p \in Requests, NEW c \in Clients, L!RateLimitMiddleware(p, c)
  PROVE  LimitInv'
  <1>1. PICK r : r = IF clients[c] = {} THEN [pc |-> "make", client |-> c]
                     ELSE [pc |-> "take", client |-> c, bucket |-> CHOOSE b \in clients[c] : TRUE]
    OBVIOUS
  <1>2. lReq' = [lReq EXCEPT ![p] = r] /\ UNCHANGED <<clients, bucket, spent, raced>>
    BY Zenon, <1>1 DEF L!RateLimitMiddleware, L!Allow
  <1>3. DOMAIN lReq' = Requests /\ lReq'[p] = r /\ \A q \in Requests : q # p => lReq'[q] = lReq[q]
    BY Zenon, <1>2 DEF LimitInv
  <1>4. r.client = c /\ r.pc \in {"make", "take"}
    <2>1. CASE clients[c] = {}
      <3>1. r = [pc |-> "make", client |-> c]
        BY Zenon, <1>1, <2>1
      <3> QED BY Zenon, <3>1
    <2>2. CASE clients[c] # {}
      <3>1. r = [pc |-> "take", client |-> c, bucket |-> CHOOSE b \in clients[c] : TRUE]
        BY Zenon, <1>1, <2>2
      <3> QED BY Zenon, <3>1
    <2> QED BY Zenon, <2>1, <2>2
  <1>5. ASSUME r.pc = "take" PROVE r.bucket \in clients[c]
    <2>1. clients[c] # {}
      <3>1. SUFFICES ASSUME clients[c] = {} PROVE FALSE
        BY Zenon
      <3>2. r = [pc |-> "make", client |-> c]
        BY Zenon, <1>1, <3>1
      <3> QED BY Zenon, <3>2, <1>5
    <2>2. r.bucket = CHOOSE b \in clients[c] : TRUE
      BY Zenon, <1>1, <2>1
    <2> QED BY Zenon, <2>1, <2>2
  <1>6. r.pc = "take" => r.bucket \in Buckets /\ \A d \in Clients : r.bucket \in clients[d] => d = c
    <2>1. OwnBuckets
      BY Zenon DEF LimitInv
    <2>2. \A b \in clients[c] : b \in Buckets
      BY SMT, <2>1 DEF OwnBuckets
    <2>3. \A b \in clients[c] : \A d \in Clients : b \in clients[d] => d = c
      BY Zenon, <2>1 DEF OwnBuckets
    <2> QED BY Zenon, <1>5, <2>2, <2>3
  <1>7. OwnBuckets'
    BY Zenon, <1>2, <1>3, <1>4, <1>6 DEF LimitInv, OwnBuckets
  <1> QED BY Zenon, <1>2, <1>3, <1>7, AccountsStay DEF LimitInv

\* The clean-up drops the buckets of which nothing was given for a window.
LEMMA CleanupKeeps ==
  ASSUME window \in Nat, LimitInv, L!cleanupLoop
  PROVE  LimitInv'
  <1>1. /\ DOMAIN clients' = Clients /\ UNCHANGED <<bucket, lReq, spent, raced>>
        /\ \A c \in Clients : clients'[c] = {b \in clients[c] : bucket[b].age <= L!cleanup}
    BY Zenon DEF L!cleanupLoop
  <1>2. ASSUME NEW c \in Clients
        PROVE  \/ clients'[c] = clients[c]
               \/ clients'[c] = {} /\ \A b \in clients[c] : bucket[b].age > L!cleanup
    <2>1. CASE clients[c] = {}
      BY Zenon, <2>1, <1>1
    <2>2. ASSUME NEW b \in Buckets, clients[c] = {b}
          PROVE  \/ clients'[c] = clients[c]
                 \/ clients'[c] = {} /\ \A x \in clients[c] : bucket[x].age > L!cleanup
      <3>1. bucket[b].age \in Nat /\ L!cleanup \in Nat
        <4>1. L!cleanup \in Nat
          BY SMT DEF L!cleanup
        <4> QED BY Zenon, <2>2, <4>1 DEF LimitInv, Filled
      <3>2. bucket[b].age <= L!cleanup \/ bucket[b].age > L!cleanup
        BY SMT, <3>1
      <3>3. bucket[b].age > L!cleanup => ~(bucket[b].age <= L!cleanup)
        BY SMT, <3>1
      <3> QED BY Zenon, <3>2, <3>3, <2>2, <1>1
    <2> QED BY Zenon, <2>1, <2>2 DEF LimitInv, OwnBuckets
  <1>3. \A c \in Clients : clients'[c] \subseteq clients[c]
    BY Zenon, <1>1
  <1>4. OwnBuckets'
    <2>0. OwnBuckets
      BY Zenon DEF LimitInv
    <2>1. ASSUME NEW c \in Clients PROVE clients'[c] = {} \/ \E b \in Buckets : clients'[c] = {b}
      BY Zenon, <1>2, <2>0 DEF OwnBuckets
    <2>2. \A c, d \in Clients : \A b \in clients'[c] : b \in clients'[d] => c = d
      BY Zenon, <1>3, <2>0 DEF OwnBuckets
    <2> QED BY Zenon, <1>1, <1>3, <2>0, <2>1, <2>2 DEF OwnBuckets
  <1> QED BY Zenon, <1>1, <1>2, <1>4, AccountsStay DEF LimitInv

\* A new bucket is no one's, and nothing is on the account of a client that had
\* none.
LEMMA NewBucketKeeps ==
  ASSUME window \in Nat, requests \in Nat, LimitInv, NEW p \in Requests, L!NewBucket(p)
  PROVE  LimitInv'
  <1>1. PICK c : c = lReq[p].client
    OBVIOUS
  <1>2. PICK b \in Buckets :
          /\ L!Free(b)
          /\ bucket' = [bucket EXCEPT ![b] = [tokens |-> requests, age |-> 0]]
          /\ clients' = [clients EXCEPT ![c] = {b}]
          /\ lReq' = [lReq EXCEPT ![p] = [pc |-> "take", client |-> c, bucket |-> b]]
    BY Zenon, <1>1 DEF L!NewBucket
  <1>3. /\ lReq[p].pc = "make" /\ UNCHANGED spent
        /\ raced' = IF clients[c] = {} THEN raced ELSE raced \cup {c}
    BY Zenon, <1>1 DEF L!NewBucket
  <1>4. c \in Clients
    BY Zenon, <1>1, <1>3 DEF LimitInv, OwnBuckets
  <1>5. /\ DOMAIN bucket' = Buckets /\ bucket'[b] = [tokens |-> requests, age |-> 0]
        /\ \A x \in Buckets : x # b => bucket'[x] = bucket[x]
    BY Zenon, <1>2 DEF LimitInv
  <1>6. /\ DOMAIN clients' = Clients /\ clients'[c] = {b}
        /\ \A d \in Clients : d # c => clients'[d] = clients[d]
    BY Zenon, <1>2, <1>4 DEF LimitInv
  <1>7. PICK r : r = [pc |-> "take", client |-> c, bucket |-> b]
    OBVIOUS
  <1>8. /\ DOMAIN lReq' = Requests /\ lReq'[p] = r /\ \A q \in Requests : q # p => lReq'[q] = lReq[q]
        /\ r.pc = "take" /\ r.client = c /\ r.bucket = b
    BY Zenon, <1>2, <1>7 DEF LimitInv
  <1>9. /\ \A d \in Clients : b \notin clients[d]
        /\ \A q \in Requests : lReq[q].pc = "take" => lReq[q].bucket # b
    BY Zenon, <1>2 DEF L!Free, L!Held
  <1>10. OwnBuckets'
    <2>0. OwnBuckets
      BY Zenon DEF LimitInv
    <2>1. \A d \in Clients : clients'[d] = {} \/ \E x \in Buckets : clients'[d] = {x}
      BY SMT, <1>6, <2>0 DEF OwnBuckets
    <2>2. \A d, e \in Clients : \A x \in clients'[d] : x \in clients'[e] => d = e
      BY SMT, <1>6, <1>9, <2>0 DEF OwnBuckets
    <2>3. \A q \in Requests : lReq'[q].pc \in {"make", "take"} => lReq'[q].client \in Clients
      BY Zenon, <1>4, <1>8, <2>0 DEF OwnBuckets
    <2>4. ASSUME NEW q \in Requests, lReq'[q].pc = "take"
          PROVE  /\ lReq'[q].bucket \in Buckets
                 /\ \A d \in Clients : lReq'[q].bucket \in clients'[d] => d = lReq'[q].client
      <3>1. CASE q = p
        BY Zenon, <3>1, <1>6, <1>8, <1>9
      <3>2. CASE q # p
        BY SMT, <3>2, <2>4, <1>6, <1>8, <1>9, <2>0 DEF OwnBuckets
      <3> QED BY Zenon, <3>1, <3>2
    <2> QED BY Zenon, <2>1, <2>2, <2>3, <2>4 DEF OwnBuckets
  <1>11. bucket'[b].tokens = requests /\ bucket'[b].age = 0 /\ DOMAIN bucket'[b] = {"tokens", "age"}
    BY SMT, <1>5
  <1>12. \A d \in Clients : \A x \in clients'[d] : Filled(x)'
    <2>1. Filled(b)'
      <3>1. requests \in 0 .. requests /\ 0 \in Nat
        BY SMT
      <3> QED BY Zenon, <3>1, <1>11 DEF Filled
    <2>2. \A d \in Clients : \A x \in clients[d] : x \in Buckets /\ x # b /\ Filled(x)
      BY SMT, <1>9 DEF LimitInv, OwnBuckets
    <2>3. \A d \in Clients : \A x \in clients[d] : Filled(x)'
      BY Zenon, <2>2, <1>5 DEF Filled
    <2> QED BY Zenon, <2>1, <2>3, <1>6
  <1>13. ASSUME NEW d \in Clients \ raced'
         PROVE  /\ clients'[d] = {} => \A a \in 0 .. window : spent'[d][a] = 0
                /\ \A x \in clients'[d] : Accounted(spent'[d], bucket'[x])
    <2>1. d \in Clients \ raced
      BY Zenon, <1>3, <1>13
    <2>2. CASE d = c
      <3>1. clients[c] = {}
        BY Zenon, <2>2, <1>3, <1>13
      <3>2. \A a \in 0 .. window : spent[c][a] = 0
        BY Zenon, <3>1, <2>1, <2>2 DEF LimitInv
      <3>3. PICK s, v : s = spent[c] /\ v = bucket'[b]
        OBVIOUS
      <3>4. ASSUME NEW a \in 0 .. window
            PROVE  /\ s[a] + v.tokens <= 2 * requests
                   /\ a <= v.age => s[a] + v.tokens <= requests
                   /\ a + window < v.age => s[a] = 0
        <4>1. s[a] = 0 /\ v.tokens = requests /\ v.age = 0
          BY Zenon, <3>2, <3>3, <1>11
        <4> QED BY SMT, <4>1
      <3>5. Accounted(s, v)
        BY Zenon, <3>4 DEF Accounted
      <3> QED BY Zenon, <3>3, <3>5, <2>2, <1>3, <1>6
    <2>3. CASE d # c
      <3>1. clients'[d] = clients[d] /\ spent'[d] = spent[d]
        BY Zenon, <2>3, <1>3, <1>6
      <3>2. \A x \in clients[d] : x \in Buckets /\ x # b
        BY SMT, <1>9 DEF LimitInv, OwnBuckets
      <3>3. \A x \in clients[d] : bucket'[x] = bucket[x]
        BY Zenon, <3>2, <1>5
      <3> QED BY Zenon, <2>1, <3>1, <3>3 DEF LimitInv
    <2> QED BY Zenon, <2>2, <2>3
  <1>14. \A x \in Buckets : DOMAIN bucket'[x] = {"tokens", "age"}
    BY Zenon, <1>5, <1>11 DEF LimitInv
  <1> QED BY Zenon, <1>3, <1>5, <1>6, <1>8, <1>10, <1>12, <1>13, <1>14 DEF LimitInv

\* A bucket is filled anew when its window is over: what it gave before was one
\* window's tokens at most, none of them in this tick.
LEMMA RefillAccounted ==
  ASSUME window \in Nat, requests \in Nat, NEW s \in [0 .. window -> Nat], NEW b,
         DOMAIN b = {"tokens", "age"}, b.tokens \in 0 .. requests, b.age \in Nat, Accounted(s, b)
  PROVE  /\ DOMAIN L!Refill(b) = {"tokens", "age"}
         /\ L!Refill(b).tokens \in 0 .. requests /\ L!Refill(b).age \in 0 .. window
         /\ Accounted(s, L!Refill(b))
  <1>1. CASE b.age > window
    <2>1. PICK v : v = [tokens |-> requests, age |-> 0]
      OBVIOUS
    <2>2. L!Refill(b) = v
      BY Zenon, <1>1, <2>1 DEF L!Refill
    <2>3. v.tokens = requests /\ v.age = 0 /\ DOMAIN v = {"tokens", "age"}
      BY SMT, <2>1
    <2>4. ASSUME NEW a \in 0 .. window
          PROVE  /\ s[a] + v.tokens <= 2 * requests
                 /\ a <= v.age => s[a] + v.tokens <= requests
                 /\ a + window < v.age => s[a] = 0
      <3>1. a \in Nat /\ s[a] \in Nat /\ a <= b.age /\ (a = 0 => a + window < b.age)
        BY SMT, <1>1
      <3>2. s[a] + b.tokens <= requests /\ (a = 0 => s[a] = 0)
        BY Zenon, <3>1 DEF Accounted
      <3> QED BY SMT, <2>3, <3>1, <3>2
    <2>5. v.tokens \in 0 .. requests /\ v.age \in 0 .. window
      BY SMT, <2>3
    <2> QED BY Zenon, <2>2, <2>3, <2>4, <2>5 DEF Accounted
  <1>2. CASE ~(b.age > window)
    <2>1. L!Refill(b) = b
      BY Zenon, <1>2 DEF L!Refill
    <2>2. b.age \in 0 .. window
      BY SMT, <1>2
    <2> QED BY Zenon, <2>1, <2>2
  <1> QED BY Zenon, <1>1, <1>2

\* The columns of a bucket that is filled anew.
LEMMA RefillColumns ==
  ASSUME NEW b, DOMAIN b = {"tokens", "age"}
  PROVE  DOMAIN L!Refill(b) = {"tokens", "age"}
  <1>1. CASE b.age > window
    <2>1. L!Refill(b) = [tokens |-> requests, age |-> 0]
      BY Zenon, <1>1 DEF L!Refill
    <2> QED BY SMT, <2>1
  <1>2. CASE ~(b.age > window)
    BY Zenon, <1>2 DEF L!Refill
  <1> QED BY Zenon, <1>1, <1>2

\* A token moves from the bucket to what the client was given.
LEMMA TokenAccounted ==
  ASSUME window \in Nat, requests \in Nat, NEW s \in [0 .. window -> Nat], NEW t, NEW b, NEW v,
         b.tokens \in 0 .. requests, b.age \in 0 .. window, b.tokens > 0, Accounted(s, b),
         v.tokens = b.tokens - 1, v.age = b.age, \A a \in 0 .. window : t[a] = s[a] + 1
  PROVE  v.tokens \in 0 .. requests /\ v.age \in Nat /\ Accounted(t, v)
  <1>1. ASSUME NEW a \in 0 .. window
        PROVE  /\ t[a] + v.tokens <= 2 * requests
               /\ a <= v.age => t[a] + v.tokens <= requests
               /\ a + window < v.age => t[a] = 0
    <2>1. /\ s[a] + b.tokens <= 2 * requests
          /\ a <= b.age => s[a] + b.tokens <= requests
      BY Zenon DEF Accounted
    <2>2. t[a] = s[a] + 1 /\ s[a] \in Nat
      BY Zenon
    <2>3. \A n, k \in Int : (n + 1) + (k - 1) = n + k
      BY SMT
    <2>4. s[a] \in Int /\ b.tokens \in Int
      BY SMT, <2>2
    <2>5. t[a] + v.tokens = s[a] + b.tokens
      BY Zenon, <2>2, <2>3, <2>4
    <2>6. ~(a + window < b.age)
      BY SMT
    <2> QED BY Zenon, <2>1, <2>5, <2>6
  <1>2. v.tokens \in 0 .. requests /\ v.age \in Nat
    BY SMT
  <1> QED BY Zenon, <1>1, <1>2 DEF Accounted

\* Only the bucket that is taken from and the account of its client change.
LEMMA TakeKeeps ==
  ASSUME window \in Nat, requests \in Nat, LimitInv, NEW p \in Requests, L!Take(p)
  PROVE  LimitInv'
  <1>1. PICK b, c : b = lReq[p].bucket /\ c = lReq[p].client
    OBVIOUS
  <1>2. /\ lReq[p].pc = "take" /\ lReq' = [lReq EXCEPT ![p] = L!Idle] /\ UNCHANGED clients
        /\ raced' = IF clients[c] = {b} THEN raced ELSE raced \cup {c}
    BY Zenon, <1>1 DEF L!Take
  <1>3. /\ c \in Clients /\ b \in Buckets
        /\ \A d \in Clients : b \in clients[d] => d = c
    BY Zenon, <1>1, <1>2 DEF LimitInv, OwnBuckets
  <1>4. PICK full : full = L!Refill(bucket[b])
    OBVIOUS
  <1>5. PICK v : v = IF full.tokens > 0 THEN [full EXCEPT !.tokens = @ - 1] ELSE full
    OBVIOUS
  <1>6. PICK t : t = IF full.tokens > 0 THEN [a \in 0 .. window |-> spent[c][a] + 1] ELSE spent[c]
    OBVIOUS
  <1>7. DOMAIN full = {"tokens", "age"}
    BY Zenon, <1>3, <1>4, RefillColumns DEF LimitInv
  <1>8. /\ DOMAIN v = {"tokens", "age"} /\ v.age = full.age
        /\ full.tokens > 0 => v.tokens = full.tokens - 1
        /\ ~(full.tokens > 0) => v.tokens = full.tokens
    <2>1. CASE full.tokens > 0
      <3>1. v = [full EXCEPT !.tokens = @ - 1]
        BY Zenon, <1>5, <2>1
      <3> QED BY Zenon, <3>1, <2>1, <1>7
    <2>2. CASE ~(full.tokens > 0)
      BY Zenon, <1>5, <2>2, <1>7
    <2> QED BY Zenon, <2>1, <2>2
  <1>9. bucket' = [bucket EXCEPT ![b] = v] /\ spent' = [spent EXCEPT ![c] = t]
    <2>1. CASE full.tokens > 0
      BY Zenon, <2>1, <1>1, <1>4, <1>5, <1>6 DEF L!Take
    <2>2. CASE ~(full.tokens > 0)
      <3>1. bucket' = [bucket EXCEPT ![b] = full] /\ spent' = spent
        BY Zenon, <2>2, <1>1, <1>4 DEF L!Take
      <3>2. spent = [spent EXCEPT ![c] = spent[c]]
        BY Zenon, <1>3 DEF LimitInv
      <3> QED BY Zenon, <3>1, <3>2, <2>2, <1>5, <1>6
    <2> QED BY Zenon, <2>1, <2>2
  <1>10. /\ DOMAIN bucket' = Buckets /\ bucket'[b] = v /\ \A x \in Buckets : x # b => bucket'[x] = bucket[x]
    BY Zenon, <1>3, <1>9 DEF LimitInv
  <1>11. /\ spent' \in [Clients -> [0 .. window -> Nat]] /\ spent'[c] = t
         /\ \A d \in Clients : d # c => spent'[d] = spent[d]
    <2>1. spent \in [Clients -> [0 .. window -> Nat]]
      BY Zenon DEF LimitInv
    <2>2. t \in [0 .. window -> Nat]
      BY SMT, <2>1, <1>3, <1>6
    <2> QED BY Zenon, <2>1, <2>2, <1>3, <1>9
  <1>12. DOMAIN lReq' = Requests /\ lReq'[p] = L!Idle /\ \A q \in Requests : q # p => lReq'[q] = lReq[q]
    BY Zenon, <1>2 DEF LimitInv
  <1>13. OwnBuckets'
    <2>1. L!Idle.pc = "idle"
      BY Zenon DEF L!Idle
    <2> QED BY Zenon, <2>1, <1>2, <1>12 DEF LimitInv, OwnBuckets
  <1>14. \A x \in Buckets : DOMAIN bucket'[x] = {"tokens", "age"}
    BY Zenon, <1>8, <1>10 DEF LimitInv
  <1>15. \A d \in Clients : \A x \in clients[d] : x \in Buckets /\ Filled(x) /\ (d # c => x # b)
    <2>1. OwnBuckets /\ \A d \in Clients : \A x \in clients[d] : Filled(x)
      BY Zenon DEF LimitInv
    <2>2. \A d \in Clients : \A x \in clients[d] : x \in Buckets
      BY SMT, <2>1 DEF OwnBuckets
    <2> QED BY Zenon, <2>1, <2>2, <1>3
  <1>16. ASSUME b \in clients[c]
         PROVE  /\ clients[c] = {b} /\ Filled(b)'
                /\ c \notin raced => Accounted(t, v)
    <2>1. clients[c] = {b}
      BY SMT, <1>16, <1>3 DEF LimitInv, OwnBuckets
    <2>2. /\ DOMAIN bucket[b] = {"tokens", "age"} /\ bucket[b].tokens \in 0 .. requests
          /\ bucket[b].age \in Nat /\ spent[c] \in [0 .. window -> Nat]
      BY Zenon, <1>3, <1>15, <1>16 DEF LimitInv, Filled
    <2>3. full.tokens \in 0 .. requests /\ full.age \in Nat
      <3>1. CASE bucket[b].age > window
        <4>1. full = [tokens |-> requests, age |-> 0]
          BY Zenon, <3>1, <1>4 DEF L!Refill
        <4> QED BY SMT, <4>1
      <3>2. CASE ~(bucket[b].age > window)
        BY Zenon, <3>2, <1>4, <2>2 DEF L!Refill
      <3> QED BY Zenon, <3>1, <3>2
    <2>4. v.tokens \in 0 .. requests /\ v.age \in Nat
      BY SMT, <2>3, <1>8
    <2>5. ASSUME c \notin raced PROVE Accounted(t, v)
      <3>1. Accounted(spent[c], bucket[b])
        BY Zenon, <2>5, <1>3, <1>16 DEF LimitInv
      <3>2. full.tokens \in 0 .. requests /\ full.age \in 0 .. window /\ Accounted(spent[c], full)
        BY Zenon, <3>1, <2>2, <1>4, RefillAccounted
      <3>3. CASE full.tokens > 0
        <4>1. \A a \in 0 .. window : t[a] = spent[c][a] + 1
          BY Zenon, <3>3, <1>6
        <4> QED BY Zenon, <3>2, <3>3, <4>1, <2>2, <1>8, TokenAccounted
      <3>4. CASE ~(full.tokens > 0)
        BY Zenon, <3>2, <3>4, <1>5, <1>6
      <3> QED BY Zenon, <3>3, <3>4
    <2> QED BY Zenon, <2>1, <2>4, <2>5, <1>10 DEF Filled
  <1>17. \A d \in Clients : \A x \in clients'[d] : Filled(x)'
    <2>1. ASSUME NEW d \in Clients, NEW x \in clients[d] PROVE Filled(x)'
      <3>1. CASE x = b
        BY Zenon, <3>1, <2>1, <1>3, <1>16
      <3>2. CASE x # b
        BY Zenon, <3>2, <2>1, <1>10, <1>15 DEF Filled
      <3> QED BY Zenon, <3>1, <3>2
    <2> QED BY Zenon, <2>1, <1>2
  <1>18. ASSUME NEW d \in Clients \ raced'
         PROVE  /\ clients'[d] = {} => \A a \in 0 .. window : spent'[d][a] = 0
                /\ \A x \in clients'[d] : Accounted(spent'[d], bucket'[x])
    <2>1. d \in Clients \ raced
      BY Zenon, <1>2, <1>18
    <2>2. CASE d = c
      <3>1. clients[c] = {b}
        BY Zenon, <2>2, <1>2, <1>18
      <3>2. b \in clients[c] /\ clients[c] # {}
        BY SMT, <3>1
      <3>3. Accounted(t, v)
        BY Zenon, <3>2, <1>16, <2>1, <2>2
      <3> QED BY Zenon, <2>2, <3>1, <3>2, <3>3, <1>2, <1>10, <1>11
    <2>3. CASE d # c
      <3>1. spent'[d] = spent[d] /\ \A x \in clients[d] : bucket'[x] = bucket[x]
        BY Zenon, <2>3, <1>10, <1>11, <1>15
      <3> QED BY Zenon, <2>1, <3>1, <1>2 DEF LimitInv
    <2> QED BY Zenon, <2>2, <2>3
  <1>19. DOMAIN clients' = Clients
    BY Zenon, <1>2 DEF LimitInv
  <1> QED BY Zenon, <1>10, <1>11, <1>12, <1>13, <1>14, <1>17, <1>18, <1>19 DEF LimitInv

\* A tick: what was given is a tick older, and so is the bucket.
LEMMA OlderAccounted ==
  ASSUME window \in Nat, requests \in Nat, NEW s \in [0 .. window -> Nat], NEW t, NEW b, NEW v,
         b.tokens \in 0 .. requests, b.age \in Nat, Accounted(s, b),
         v.tokens = b.tokens, v.age = L!Older(b.age),
         t = [a \in 0 .. window |-> IF a = 0 THEN 0 ELSE s[a - 1]]
  PROVE  v.age \in Nat /\ Accounted(t, v)
  <1>1. v.age \in Nat /\ (v.age = b.age \/ v.age = b.age + 1)
    <2>1. L!Older(b.age) = b.age \/ L!Older(b.age) = b.age + 1
      BY Zenon DEF L!Older
    <2> QED BY SMT, <2>1
  <1>2. ASSUME NEW a \in 0 .. window
        PROVE  /\ t[a] + v.tokens <= 2 * requests
               /\ a <= v.age => t[a] + v.tokens <= requests
               /\ a + window < v.age => t[a] = 0
    <2>1. CASE a = 0
      <3>1. t[a] = 0
        BY Zenon, <2>1
      <3>2. 0 + b.tokens <= 2 * requests /\ 0 + b.tokens <= requests
        BY SMT
      <3> QED BY Zenon, <3>1, <3>2
    <2>2. CASE a # 0
      <3>1. t[a] = s[a - 1]
        BY Zenon, <2>2
      <3>2. PICK i : i = a - 1
        OBVIOUS
      <3>3. i \in 0 .. window /\ a = i + 1
        BY SMT, <2>2, <3>2
      <3>4. /\ s[i] + b.tokens <= 2 * requests
            /\ i <= b.age => s[i] + b.tokens <= requests
            /\ i + window < b.age => s[i] = 0
        BY Zenon, <3>3 DEF Accounted
      <3>5. (a <= v.age => i <= b.age) /\ (a + window < v.age => i + window < b.age)
        BY SMT, <1>1, <3>3
      <3> QED BY Zenon, <3>1, <3>2, <3>4, <3>5
    <2> QED BY Zenon, <2>1, <2>2
  <1> QED BY Zenon, <1>1, <1>2 DEF Accounted

\* Time passes for every bucket in use and for every account.
LEMMA TickKeeps ==
  ASSUME window \in Nat, requests \in Nat, LimitInv, L!Tick
  PROVE  LimitInv'
  <1>1. /\ UNCHANGED <<clients, lReq, raced>>
        /\ DOMAIN bucket' = Buckets
        /\ \A b \in Buckets : bucket'[b] = IF L!Free(b) THEN L!Unused
                                           ELSE [bucket[b] EXCEPT !.age = L!Older(@)]
    BY Zenon DEF L!Tick
  <1>2. /\ spent' = [c \in Clients |-> [a \in 0 .. window |-> IF a = 0 THEN 0 ELSE spent[c][a - 1]]]
        /\ spent \in [Clients -> [0 .. window -> Nat]]
    BY Zenon DEF L!Tick, LimitInv
  <1>3. spent' \in [Clients -> [0 .. window -> Nat]]
    BY SMT, <1>2
  <1>4. ASSUME NEW b \in Buckets
        PROVE  /\ DOMAIN bucket'[b] = {"tokens", "age"}
               /\ ~L!Free(b) => /\ bucket'[b].tokens = bucket[b].tokens
                                /\ bucket'[b].age = L!Older(bucket[b].age)
    <2>1. DOMAIN bucket[b] = {"tokens", "age"}
      BY Zenon DEF LimitInv
    <2>2. CASE L!Free(b)
      <3>1. bucket'[b] = L!Unused
        BY Zenon, <1>1, <2>2
      <3> QED BY SMT, <3>1, <2>2 DEF L!Unused
    <2>3. CASE ~L!Free(b)
      <3>1. bucket'[b] = [bucket[b] EXCEPT !.age = L!Older(@)]
        BY Zenon, <1>1, <2>3
      <3> QED BY Zenon, <3>1, <2>1
    <2> QED BY Zenon, <2>2, <2>3
  <1>5. \A c \in Clients : \A b \in clients[c] : b \in Buckets /\ ~L!Free(b) /\ Filled(b)
    <2>1. OwnBuckets /\ \A c \in Clients : \A b \in clients[c] : Filled(b)
      BY Zenon DEF LimitInv
    <2>2. \A c \in Clients : \A b \in clients[c] : b \in Buckets
      BY SMT, <2>1 DEF OwnBuckets
    <2> QED BY Zenon, <2>1, <2>2 DEF L!Free
  <1>6. OwnBuckets'
    BY Zenon, <1>1 DEF LimitInv, OwnBuckets
  <1>7. ASSUME NEW c \in Clients, NEW b \in clients[c]
        PROVE  Filled(b)' /\ (c \notin raced => Accounted(spent'[c], bucket'[b]))
    <2>1. /\ b \in Buckets /\ bucket[b].tokens \in 0 .. requests /\ bucket[b].age \in Nat
          /\ bucket'[b].tokens = bucket[b].tokens /\ bucket'[b].age = L!Older(bucket[b].age)
      BY Zenon, <1>4, <1>5, <1>7 DEF Filled
    <2>2. PICK s, t, x, v : s = spent[c] /\ t = spent'[c] /\ x = bucket[b] /\ v = bucket'[b]
      OBVIOUS
    <2>3. /\ s \in [0 .. window -> Nat]
          /\ t = [a \in 0 .. window |-> IF a = 0 THEN 0 ELSE s[a - 1]]
      BY Zenon, <1>2, <1>7, <2>2
    <2>4. L!Older(bucket[b].age) \in Nat
      <3>1. L!Older(bucket[b].age) = bucket[b].age \/ L!Older(bucket[b].age) = bucket[b].age + 1
        BY Zenon DEF L!Older
      <3> QED BY SMT, <3>1, <2>1
    <2>5. ASSUME c \notin raced PROVE Accounted(t, v)
      <3>1. Accounted(s, x)
        BY Zenon, <1>7, <2>2, <2>5 DEF LimitInv
      <3>2. /\ x.tokens \in 0 .. requests /\ x.age \in Nat /\ v.tokens = x.tokens
            /\ v.age = L!Older(x.age)
        BY Zenon, <2>1, <2>2
      <3> QED BY Zenon, <3>1, <3>2, <2>3, OlderAccounted
    <2> QED BY Zenon, <2>1, <2>2, <2>4, <2>5 DEF Filled
  <1>8. ASSUME NEW c \in Clients \ raced, clients[c] = {}
        PROVE  \A a \in 0 .. window : spent'[c][a] = 0
    <2>1. \A a \in 0 .. window : spent[c][a] = 0
      BY Zenon, <1>8 DEF LimitInv
    <2>2. ASSUME NEW a \in 0 .. window, a # 0 PROVE spent'[c][a] = 0
      <3>1. PICK i : i = a - 1
        OBVIOUS
      <3>2. i \in 0 .. window
        BY SMT, <2>2, <3>1
      <3>3. spent'[c][a] = spent[c][i]
        BY Zenon, <1>2, <2>2, <3>1
      <3> QED BY Zenon, <2>1, <3>2, <3>3
    <2>3. ASSUME NEW a \in 0 .. window, a = 0 PROVE spent'[c][a] = 0
      BY Zenon, <1>2, <2>3
    <2> QED BY Zenon, <2>2, <2>3
  <1>9. DOMAIN clients' = Clients /\ DOMAIN lReq' = Requests
    BY Zenon, <1>1 DEF LimitInv
  <1>10. \A c \in Clients \ raced' :
           /\ clients'[c] = {} => \A a \in 0 .. window : spent'[c][a] = 0
           /\ \A b \in clients'[c] : Accounted(spent'[c], bucket'[b])
    BY Zenon, <1>1, <1>7, <1>8
  <1>11. \A c \in Clients : \A b \in clients'[c] : Filled(b)'
    BY Zenon, <1>1, <1>7
  <1> QED BY Zenon, <1>1, <1>3, <1>4, <1>6, <1>9, <1>10, <1>11 DEF LimitInv

\* At the start no one has a bucket.
LEMMA LimitInit ==
  ASSUME window \in Nat, L!Init
  PROVE  LimitInv
  <1>1. /\ DOMAIN clients = Clients /\ DOMAIN bucket = Buckets /\ DOMAIN lReq = Requests
        /\ \A c \in Clients : clients[c] = {}
        /\ \A b \in Buckets : bucket[b] = L!Unused
        /\ \A p \in Requests : lReq[p] = L!Idle
    BY Zenon DEF L!Init
  <1>2. /\ spent \in [Clients -> [0 .. window -> Nat]]
        /\ \A c \in Clients : \A a \in 0 .. window : spent[c][a] = 0
    BY SMT DEF L!Init
  <1>3. DOMAIN L!Unused = {"tokens", "age"}
    BY SMT DEF L!Unused
  <1>4. L!Idle.pc = "idle"
    BY Zenon DEF L!Idle
  <1>5. OwnBuckets
    BY Zenon, <1>1, <1>4 DEF OwnBuckets
  <1> QED BY Zenon, <1>1, <1>2, <1>3, <1>5 DEF LimitInv

\* In a window's time, wherever it begins, a client is given no more than two
\* windows' tokens, however its requests, the refills of its bucket and the
\* clean-up of the map come between each other's steps; a client that two
\* buckets served is left out.
THEOREM TwoWindowsAtMost ==
  ASSUME requests \in Nat, window \in Nat
  PROVE  L!Spec => []LimitHolds
  <1>1. L!Init => LimitInv
    BY Zenon, LimitInit
  <1>2. LimitInv /\ [L!Next]_(L!vars) => LimitInv'
    <2>1. ASSUME LimitInv, UNCHANGED L!vars PROVE LimitInv'
      BY Zenon, <2>1 DEF L!vars, LimitInv, OwnBuckets, Filled
    <2>2. ASSUME LimitInv, L!Next PROVE LimitInv'
      BY Zenon, <2>2, AllowKeeps, NewBucketKeeps, TakeKeeps, CleanupKeeps, TickKeeps DEF L!Next
    <2> QED BY Zenon, <2>1, <2>2
  <1>3. LimitInv => LimitHolds
    <2>1. SUFFICES ASSUME LimitInv, NEW c \in Clients \ raced PROVE spent[c][window] <= 2 * requests
      BY Zenon DEF LimitHolds, L!LimitHolds
    <2>2. window \in 0 .. window /\ spent[c][window] \in Nat
      BY SMT, <2>1 DEF LimitInv
    <2>3. CASE clients[c] = {}
      <3>1. spent[c][window] = 0
        BY Zenon, <2>1, <2>2, <2>3 DEF LimitInv
      <3> QED BY SMT, <3>1
    <2>4. CASE clients[c] # {}
      <3>1. PICK b \in clients[c] : Accounted(spent[c], bucket[b]) /\ Filled(b)
        BY Zenon, <2>1, <2>4 DEF LimitInv
      <3>2. spent[c][window] + bucket[b].tokens <= 2 * requests /\ bucket[b].tokens \in 0 .. requests
        BY Zenon, <2>2, <3>1 DEF Accounted, Filled
      <3> QED BY SMT, <2>2, <3>2
    <2> QED BY Zenon, <2>3, <2>4
  <1> QED BY <1>1, <1>2, <1>3, PTL DEF L!Spec
-----------------------------------------------------------------------------
(* The values of custom fields.                                                *)

\* An input, or a value read: a kind and what it says.
IsValue(w) == w = [kind |-> w.kind, v |-> w.v]
Columns == {"pc", "id", "row", "body", "whole", "clean"}
\* What a definition row holds besides its state.
HasState(row) == "st" \in DOMAIN row

\* Tables and requests have the rows and columns they began with.
FieldTypes ==
    /\ DOMAIN defs = Fields /\ \A f \in Fields : HasState(defs[f])
    /\ DOMAIN dev = Devices
    /\ DOMAIN val = Devices /\ \A x \in Devices : DOMAIN val[x] = Fields
    /\ DOMAIN given = Devices /\ \A x \in Devices : DOMAIN given[x] = Fields
    /\ DOMAIN fReq = FieldReqs /\ \A p \in FieldReqs : DOMAIN fReq[p] = Columns

\* A value row is of a live device and a live field, and is what some type makes
\* of the input it was last written from.
ValuesAreGiven == \A x \in Devices, f \in Fields : val[x][f].set =>
    /\ dev[x] = "live" /\ F!Live(f)
    /\ IsValue(given[x][f]) /\ \E t : val[x][f] = F!SetValue(t, given[x][f])

\* What a request between two of its steps holds.
FieldRequests == \A p \in FieldReqs :
    /\ \A f \in DOMAIN fReq[p].body : IsValue(fReq[p].body[f])
    /\ fReq[p].pc \in {"list", "set"} => \E f \in Fields : DOMAIN fReq[p].body = {f}
    /\ fReq[p].pc \in {"device", "list", "set"} => fReq[p].id \in Devices
    /\ fReq[p].pc = "definition" => HasState(fReq[p].row) /\ fReq[p].row.st = "live"
    /\ fReq[p].whole /\ fReq[p].clean =>
         /\ fReq[p].pc = "device" /\ fReq[p].id \in Devices /\ dev[fReq[p].id] = "live"
         /\ fReq[p].body = F!GetCustomFieldValuesWithDefinitions(fReq[p].id)

FieldsInv == FieldTypes /\ ValuesAreGiven /\ FieldRequests

\* The row that SetValue makes: one column at most is filled.
LEMMA RowOfValue ==
  ASSUME NEW t, NEW in
  PROVE  \E s, n, b :
           /\ F!SetValue(t, in) = [set |-> TRUE, s |-> s, n |-> n, b |-> b]
           /\ s = IF t \notin {"number", "boolean"} /\ in.kind = "string" THEN in.v ELSE ""
           /\ n = IF t = "number" /\ in.kind = "int" THEN in.v ELSE F!None
           /\ b = IF t = "boolean" /\ in.kind = "bool" THEN in.v ELSE F!None
  <1>1. PICK row : row = [F!NoRow EXCEPT !.set = TRUE]
    OBVIOUS
  <1>2. row = [set |-> TRUE, s |-> "", n |-> F!None, b |-> F!None]
    BY Zenon, <1>1 DEF F!NoRow
  <1>3. CASE t = "number"
    <2>1. F!SetValue(t, in) = IF in.kind = "int" THEN [row EXCEPT !.n = in.v] ELSE row
      BY Zenon, <1>1, <1>3 DEF F!SetValue
    <2> QED BY Zenon, <1>2, <1>3, <2>1
  <1>4. CASE t = "boolean"
    <2>1. F!SetValue(t, in) = IF in.kind = "bool" THEN [row EXCEPT !.b = in.v] ELSE row
      BY Zenon, <1>1, <1>4 DEF F!SetValue
    <2> QED BY Zenon, <1>2, <1>4, <2>1
  <1>5. CASE t \notin {"number", "boolean"}
    <2>1. F!SetValue(t, in) = IF in.kind = "string" THEN [row EXCEPT !.s = in.v] ELSE row
      BY Zenon, <1>1, <1>5 DEF F!SetValue
    <2> QED BY Zenon, <1>2, <1>5, <2>1
  <1> QED BY Zenon, <1>3, <1>4, <1>5

\* What a row shows, by the type of its field.
LEMMA ValueOfRow ==
  ASSUME NEW t, NEW row
  PROVE  /\ t = "number" =>
              F!GetValue(t, row) = IF row.n = F!None THEN F!Nil ELSE [kind |-> "int", v |-> row.n]
         /\ t = "boolean" =>
              F!GetValue(t, row) = IF row.b = F!None THEN F!Nil ELSE [kind |-> "bool", v |-> row.b]
         /\ t \notin {"number", "boolean"} => F!GetValue(t, row) = [kind |-> "string", v |-> row.s]
         /\ IsValue(F!GetValue(t, row))
  BY Zenon DEF F!GetValue, F!Nil, IsValue

\* Read by any type, a row shows the input it was written from or nothing.
LEMMA ShowsTheInput ==
  ASSUME NEW type, NEW t, NEW in, IsValue(in)
  PROVE  F!GetValue(type, F!SetValue(t, in)) \in {in, F!Nil, [kind |-> "string", v |-> ""]}
  <1>1. PICK s, n, b :
          /\ F!SetValue(t, in) = [set |-> TRUE, s |-> s, n |-> n, b |-> b]
          /\ s = IF t \notin {"number", "boolean"} /\ in.kind = "string" THEN in.v ELSE ""
          /\ n = IF t = "number" /\ in.kind = "int" THEN in.v ELSE F!None
          /\ b = IF t = "boolean" /\ in.kind = "bool" THEN in.v ELSE F!None
    BY Zenon, RowOfValue
  <1>2. PICK row : row = F!SetValue(t, in)
    OBVIOUS
  <1>3. row.s = s /\ row.n = n /\ row.b = b
    <2>1. row = [set |-> TRUE, s |-> s, n |-> n, b |-> b]
      BY Zenon, <1>1, <1>2, Zenon
    <2> QED BY Zenon, <2>1
  <1>4. CASE type = "number"
    BY <1>1, <1>2, <1>3, <1>4, ValueOfRow DEF IsValue
  <1>5. CASE type = "boolean"
    BY <1>1, <1>2, <1>3, <1>5, ValueOfRow DEF IsValue
  <1>6. CASE type \notin {"number", "boolean"}
    <2>1. F!GetValue(type, row) = [kind |-> "string", v |-> s]
      BY Zenon, <1>3, <1>6, ValueOfRow
    <2>2. s = "" \/ (in.kind = "string" /\ s = in.v)
      BY Zenon, <1>1
    <2>3. in = [kind |-> in.kind, v |-> in.v]
      BY Zenon DEF IsValue
    <2> QED BY Zenon, <1>2, <2>1, <2>2, <2>3
  <1> QED BY Zenon, <1>4, <1>5, <1>6

\* A value that is read and written again under the same type shows the same.
LEMMA RoundTrip ==
  ASSUME NEW t, NEW old
  PROVE  F!GetValue(t, F!SetValue(t, F!GetValue(t, old))) = F!GetValue(t, old)
  <1>1. PICK in : in = F!GetValue(t, old)
    OBVIOUS
  <1>2. PICK s, n, b :
          /\ F!SetValue(t, in) = [set |-> TRUE, s |-> s, n |-> n, b |-> b]
          /\ s = IF t \notin {"number", "boolean"} /\ in.kind = "string" THEN in.v ELSE ""
          /\ n = IF t = "number" /\ in.kind = "int" THEN in.v ELSE F!None
          /\ b = IF t = "boolean" /\ in.kind = "bool" THEN in.v ELSE F!None
    BY Zenon, RowOfValue
  <1>3. PICK row : row = F!SetValue(t, in)
    OBVIOUS
  <1>4. row.s = s /\ row.n = n /\ row.b = b
    <2>1. row = [set |-> TRUE, s |-> s, n |-> n, b |-> b]
      BY Zenon, <1>2, <1>3, Zenon
    <2> QED BY Zenon, <2>1
  <1>5. F!GetValue(t, row) = in
    <2>1. CASE t = "number"
      <3>1. in = F!Nil \/ (in = [kind |-> "int", v |-> old.n] /\ old.n # F!None)
        BY Zenon, <1>1, <2>1, ValueOfRow
      <3>2. CASE in = F!Nil
        <4>1. n = F!None
          BY Zenon, <1>2, <3>2 DEF F!Nil
        <4> QED BY Zenon, <1>4, <2>1, <3>2, <4>1, ValueOfRow
      <3>3. CASE in = [kind |-> "int", v |-> old.n] /\ old.n # F!None
        <4>1. n = old.n
          BY Zenon, <1>2, <2>1, <3>3
        <4> QED BY Zenon, <1>4, <2>1, <3>3, <4>1, ValueOfRow
      <3> QED BY Zenon, <3>1, <3>2, <3>3
    <2>2. CASE t = "boolean"
      <3>1. in = F!Nil \/ (in = [kind |-> "bool", v |-> old.b] /\ old.b # F!None)
        BY Zenon, <1>1, <2>2, ValueOfRow
      <3>2. CASE in = F!Nil
        <4>1. b = F!None
          BY Zenon, <1>2, <3>2 DEF F!Nil
        <4> QED BY Zenon, <1>4, <2>2, <3>2, <4>1, ValueOfRow
      <3>3. CASE in = [kind |-> "bool", v |-> old.b] /\ old.b # F!None
        <4>1. b = old.b
          BY Zenon, <1>2, <2>2, <3>3
        <4> QED BY Zenon, <1>4, <2>2, <3>3, <4>1, ValueOfRow
      <3> QED BY Zenon, <3>1, <3>2, <3>3
    <2>3. CASE t \notin {"number", "boolean"}
      <3>1. in = [kind |-> "string", v |-> old.s]
        BY Zenon, <1>1, <2>3, ValueOfRow
      <3>2. s = old.s
        BY Zenon, <1>2, <2>3, <3>1
      <3> QED BY Zenon, <1>4, <2>3, <3>1, <3>2, ValueOfRow
    <2> QED BY Zenon, <2>1, <2>2, <2>3
  <1> QED BY Zenon, <1>1, <1>3, <1>5

\* A request that holds nothing.
LEMMA IdleFieldRequest ==
  /\ DOMAIN F!Idle = Columns /\ F!Idle.pc = "idle" /\ F!Idle.whole = FALSE /\ F!Idle.clean = FALSE
  /\ DOMAIN F!Idle.body = {}
  /\ F!NoRow.set = FALSE /\ HasState(F!NoDef) /\ IsValue(F!Nil)
  BY DEF F!Idle, Columns, F!NoRow, F!NoDef, HasState, IsValue, F!Nil

\* What a request between two of its steps holds, of one request.
Holds(r) ==
    /\ \A f \in DOMAIN r.body : IsValue(r.body[f])
    /\ r.pc \in {"list", "set"} => \E f \in Fields : DOMAIN r.body = {f}
    /\ r.pc \in {"device", "list", "set"} => r.id \in Devices
    /\ r.pc = "definition" => HasState(r.row) /\ r.row.st = "live"

\* After a write, no request that read before it is clean.
LEMMA WritesDirty ==
  ASSUME FieldTypes, FieldRequests, NEW p \in FieldReqs, NEW r, DOMAIN r = Columns, Holds(r), ~r.whole,
         fReq' = [q \in FieldReqs |-> IF q = p THEN r ELSE [fReq[q] EXCEPT !.clean = FALSE]]
  PROVE  FieldRequests' /\ DOMAIN fReq' = FieldReqs /\ \A q \in FieldReqs : DOMAIN fReq'[q] = Columns
  <1>1. DOMAIN fReq' = FieldReqs /\ fReq'[p] = r
    OBVIOUS
  <1>2. ASSUME NEW q \in FieldReqs, q # p
        PROVE  /\ DOMAIN fReq'[q] = Columns /\ fReq'[q].clean = FALSE
               /\ fReq'[q].pc = fReq[q].pc /\ fReq'[q].id = fReq[q].id /\ fReq'[q].row = fReq[q].row
               /\ fReq'[q].body = fReq[q].body
    <2>1. fReq'[q] = [fReq[q] EXCEPT !.clean = FALSE] /\ DOMAIN fReq[q] = Columns
      BY Zenon, <1>2 DEF FieldTypes
    <2> QED BY Zenon, <2>1 DEF Columns
  <1>3. ASSUME NEW q \in FieldReqs
        PROVE  Holds(fReq'[q]) /\ ~(fReq'[q].whole /\ fReq'[q].clean)
    <2>1. CASE q = p
      BY Zenon, <1>1, <2>1
    <2>2. CASE q # p
      <3>1. Holds(fReq[q])
        BY Zenon DEF FieldRequests, Holds
      <3>2. PICK r0, r1 : r0 = fReq[q] /\ r1 = fReq'[q]
        OBVIOUS
      <3>3. /\ r1.clean = FALSE /\ r1.pc = r0.pc /\ r1.id = r0.id /\ r1.row = r0.row
            /\ r1.body = r0.body
        BY Zenon, <1>2, <2>2, <3>2
      <3>4. Holds(r0)
        BY Zenon, <3>1, <3>2
      <3> QED BY Zenon, <3>2, <3>3, <3>4 DEF Holds
    <2> QED BY Zenon, <2>1, <2>2
  <1>4. FieldRequests'
    BY Zenon, <1>3 DEF FieldRequests, Holds
  <1> QED BY Zenon, <1>1, <1>2, <1>4

\* The end of a request that wrote.
LEMMA EndsDirty ==
  ASSUME FieldTypes, FieldRequests, NEW p \in FieldReqs, F!End(p)
  PROVE  FieldRequests' /\ DOMAIN fReq' = FieldReqs /\ \A q \in FieldReqs : DOMAIN fReq'[q] = Columns
  <1>1. PICK r : r = F!Idle
    OBVIOUS
  <1>2. fReq' = [q \in FieldReqs |-> IF q = p THEN r ELSE [fReq[q] EXCEPT !.clean = FALSE]]
    BY Zenon, <1>1 DEF F!End
  <1>3. DOMAIN r = Columns /\ Holds(r) /\ ~r.whole
    BY Zenon, <1>1, IdleFieldRequest DEF Holds
  <1> QED BY Zenon, <1>2, <1>3, WritesDirty

\* The tables stay as they are while a request reads.
LEMMA ReadsKeep ==
  ASSUME FieldsInv, NEW p \in FieldReqs, NEW r, DOMAIN r = Columns, Holds(r),
         r.whole /\ r.clean => /\ r.pc = "device" /\ r.id \in Devices /\ dev[r.id] = "live"
                               /\ r.body = F!GetCustomFieldValuesWithDefinitions(r.id),
         fReq' = [fReq EXCEPT ![p] = r], UNCHANGED <<defs, dev, val, given>>
  PROVE  FieldsInv'
  <1>1. /\ DOMAIN fReq' = FieldReqs /\ fReq'[p] = r /\ \A q \in FieldReqs : q # p => fReq'[q] = fReq[q]
    BY Zenon DEF FieldsInv, FieldTypes
  <1>2. FieldTypes' /\ ValuesAreGiven'
    BY <1>1 DEF FieldsInv, FieldTypes, ValuesAreGiven, F!Live
  <1>3. ASSUME NEW x PROVE F!GetCustomFieldValuesWithDefinitions(x)' = F!GetCustomFieldValuesWithDefinitions(x)
    BY Zenon DEF F!GetCustomFieldValuesWithDefinitions, F!Live
  <1>4. ASSUME NEW q \in FieldReqs
        PROVE  /\ Holds(fReq'[q])
               /\ fReq'[q].whole /\ fReq'[q].clean =>
                    /\ fReq'[q].pc = "device" /\ fReq'[q].id \in Devices /\ dev'[fReq'[q].id] = "live"
                    /\ \A x : x = fReq'[q].id => fReq'[q].body = F!GetCustomFieldValuesWithDefinitions(x)'
    <2>1. CASE q = p
      BY Zenon, <1>1, <1>3, <2>1
    <2>2. CASE q # p
      BY <1>1, <1>3, <2>2 DEF FieldsInv, FieldRequests, Holds
    <2> QED BY Zenon, <2>1, <2>2
  <1>5. FieldRequests'
    BY Zenon, <1>4 DEF FieldRequests, Holds
  <1> QED BY Zenon, <1>2, <1>5 DEF FieldsInv

\* The two tables of values have the rows and columns they began with.
ValueTypes ==
    /\ DOMAIN val = Devices /\ \A x \in Devices : DOMAIN val[x] = Fields
    /\ DOMAIN given = Devices /\ \A x \in Devices : DOMAIN given[x] = Fields

\* A row that was written.
LEMMA WrittenRow ==
  ASSUME NEW t, NEW in PROVE F!SetValue(t, in).set = TRUE
  <1>1. PICK s, n, b :
          /\ F!SetValue(t, in) = [set |-> TRUE, s |-> s, n |-> n, b |-> b]
          /\ s = IF t \notin {"number", "boolean"} /\ in.kind = "string" THEN in.v ELSE ""
          /\ n = IF t = "number" /\ in.kind = "int" THEN in.v ELSE F!None
          /\ b = IF t = "boolean" /\ in.kind = "bool" THEN in.v ELSE F!None
    BY Zenon, RowOfValue
  <1>2. F!SetValue(t, in) = [set |-> TRUE, s |-> s, n |-> n, b |-> b]
    BY Zenon, <1>1, Zenon
  <1> QED BY <1>2

\* The values of a device replaced by a body.
LEMMA InsertedRows ==
  ASSUME FieldTypes, NEW x \in Devices, NEW body, F!insertDeviceCustomFields(x, body)
  PROVE  /\ ValueTypes'
         /\ \A y \in Devices : y # x => val'[y] = val[y] /\ given'[y] = given[y]
         /\ \A f \in Fields :
              IF f \in DOMAIN body /\ F!Live(f)
              THEN val'[x][f] = F!SetValue(defs[f].type, body[f]) /\ given'[x][f] = body[f]
              ELSE val'[x][f] = F!NoRow /\ given'[x][f] = F!Nil
  <1> DEFINE known == {f \in DOMAIN body : F!Live(f)}
             v == [f \in Fields |-> IF f \in known THEN F!SetValue(defs[f].type, body[f]) ELSE F!NoRow]
             g == [f \in Fields |-> IF f \in known THEN body[f] ELSE F!Nil]
  <1>1. val' = [val EXCEPT ![x] = v] /\ given' = [given EXCEPT ![x] = g]
    BY Zenon DEF F!insertDeviceCustomFields
  <1>2. /\ DOMAIN v = Fields /\ DOMAIN g = Fields
        /\ \A f \in Fields :
              IF f \in DOMAIN body /\ F!Live(f)
              THEN v[f] = F!SetValue(defs[f].type, body[f]) /\ g[f] = body[f]
              ELSE v[f] = F!NoRow /\ g[f] = F!Nil
    OBVIOUS
  <1> HIDE DEF v, g, known
  <1>3. /\ DOMAIN val' = Devices /\ DOMAIN given' = Devices /\ val'[x] = v /\ given'[x] = g
        /\ \A y \in Devices : y # x => val'[y] = val[y] /\ given'[y] = given[y]
    BY Zenon, <1>1 DEF FieldTypes
  <1>4. ValueTypes'
    BY Zenon, <1>2, <1>3 DEF ValueTypes, FieldTypes
  <1> QED BY Zenon, <1>2, <1>3, <1>4

\* Replacing the values of a live device keeps every value what it was given.
LEMMA InsertKeeps ==
  ASSUME FieldTypes, ValuesAreGiven, NEW x \in Devices, NEW body,
         \A f \in DOMAIN body : IsValue(body[f]), F!insertDeviceCustomFields(x, body),
         defs' = defs, dev'[x] = "live", \A y \in Devices : y # x => dev'[y] = dev[y]
  PROVE  ValuesAreGiven' /\ ValueTypes'
  <1>1. /\ ValueTypes'
        /\ \A y \in Devices : y # x => val'[y] = val[y] /\ given'[y] = given[y]
        /\ \A f \in Fields :
              IF f \in DOMAIN body /\ F!Live(f)
              THEN val'[x][f] = F!SetValue(defs[f].type, body[f]) /\ given'[x][f] = body[f]
              ELSE val'[x][f] = F!NoRow /\ given'[x][f] = F!Nil
    BY Zenon, InsertedRows
  <1>2. ASSUME NEW y \in Devices, NEW f \in Fields, val'[y][f].set
        PROVE  /\ dev'[y] = "live" /\ defs'[f].st = "live"
               /\ IsValue(given'[y][f]) /\ \E t : val'[y][f] = F!SetValue(t, given'[y][f])
    <2>1. CASE y = x
      <3>1. CASE f \in DOMAIN body /\ F!Live(f)
        BY Zenon, <1>1, <2>1, <3>1 DEF F!Live
      <3>2. CASE ~(f \in DOMAIN body /\ F!Live(f))
        BY Zenon, <1>1, <1>2, <2>1, <3>2, IdleFieldRequest
      <3> QED BY Zenon, <3>1, <3>2
    <2>2. CASE y # x
      BY <1>1, <1>2, <2>2 DEF ValuesAreGiven, F!Live
    <2> QED BY Zenon, <2>1, <2>2
  <1>3. ValuesAreGiven'
    BY Zenon, <1>2 DEF ValuesAreGiven, F!Live
  <1> QED BY Zenon, <1>1, <1>3

\* Values that go with their device or their field.
LEMMA CascadeKeeps ==
  ASSUME FieldTypes, ValuesAreGiven, NEW xs, NEW fs, val' = F!Cascade(xs, fs), ValueTypes',
         \A y \in Devices, f \in Fields :
           y \notin xs /\ f \notin fs => given'[y][f] = given[y][f] /\ dev'[y] = dev[y] /\ defs'[f] = defs[f]
  PROVE  ValuesAreGiven'
  <1>1. ASSUME NEW y \in Devices, NEW f \in Fields, val'[y][f].set
        PROVE  /\ dev'[y] = "live" /\ defs'[f].st = "live"
               /\ IsValue(given'[y][f]) /\ \E t : val'[y][f] = F!SetValue(t, given'[y][f])
    <2>1. val'[y][f] = IF y \in xs \/ f \in fs THEN F!NoRow ELSE val[y][f]
      BY Zenon DEF F!Cascade
    <2>2. y \notin xs /\ f \notin fs /\ val'[y][f] = val[y][f]
      BY Zenon, <1>1, <2>1, IdleFieldRequest
    <2> QED BY <1>1, <2>2 DEF ValuesAreGiven, F!Live
  <1> QED BY Zenon, <1>1 DEF ValuesAreGiven, F!Live

\* The parts of a step that wrote, put together.
LEMMA WriteKeeps ==
  ASSUME FieldsInv, NEW p \in FieldReqs, F!End(p), ValuesAreGiven', ValueTypes',
         DOMAIN defs' = Fields, \A f \in Fields : HasState(defs'[f]), DOMAIN dev' = Devices
  PROVE  FieldsInv'
  <1>1. FieldRequests' /\ DOMAIN fReq' = FieldReqs /\ \A q \in FieldReqs : DOMAIN fReq'[q] = Columns
    BY Zenon, EndsDirty DEF FieldsInv
  <1>2. FieldTypes'
    BY Zenon, <1>1 DEF FieldTypes, ValueTypes, HasState
  <1> QED BY Zenon, <1>1, <1>2 DEF FieldsInv

\* A definition that is created has no values yet.
LEMMA CreateDefinitionStep ==
  ASSUME FieldsInv, NEW p \in FieldReqs, NEW f \in Fields, F!createCustomFieldDefinition(p, f)
  PROVE  FieldsInv'
  <1>1. PICK d : /\ F!End(p) /\ defs[f].st = "fresh" /\ F!CreateCustomFieldDefinition(f, d)
                 /\ UNCHANGED <<dev, val, given>>
    BY Zenon DEF F!createCustomFieldDefinition, F!Request
  <1>2. PICK r : r = [st |-> "live", key |-> d.key, type |-> d.type, opts |-> d.opts]
    OBVIOUS
  <1>3. HasState(r) /\ r.st = "live"
    BY Zenon, <1>2 DEF HasState
  <1>4. defs' = [defs EXCEPT ![f] = r]
    BY Zenon, <1>1, <1>2 DEF F!CreateCustomFieldDefinition
  <1>5. DOMAIN defs' = Fields /\ defs'[f] = r /\ \A g \in Fields : g # f => defs'[g] = defs[g]
    BY Zenon, <1>4 DEF FieldsInv, FieldTypes
  <1>6. \A g \in Fields : HasState(defs'[g])
    BY Zenon, <1>3, <1>5 DEF FieldsInv, FieldTypes
  <1>7. ValuesAreGiven'
    BY <1>1, <1>3, <1>5 DEF FieldsInv, ValuesAreGiven, F!Live
  <1>8. ValueTypes' /\ DOMAIN dev' = Devices
    BY Zenon, <1>1 DEF FieldsInv, FieldTypes, ValueTypes
  <1> QED BY Zenon, <1>1, <1>5, <1>6, <1>7, <1>8, WriteKeeps

\* The definition an update makes is the one it read, still live.
LEMMA UpdatedDefinition ==
  ASSUME NEW old, HasState(old), old.st = "live", NEW type, NEW opts,
         NEW row \in F!UpdateDefinition(old, type, opts)
  PROVE  HasState(row) /\ row.st = "live"
  <1>1. PICK new : new = [old EXCEPT !.type = IF type = F!None THEN @ ELSE type]
    OBVIOUS
  <1>2. DOMAIN new = DOMAIN old /\ new.st = "live"
    BY Zenon, <1>1 DEF HasState
  <1>3. PICK o : o = [new EXCEPT !.opts = opts[1]]
    OBVIOUS
  <1>4. DOMAIN o = DOMAIN new /\ o.st = "live"
    BY Zenon, <1>2, <1>3 DEF HasState
  <1>5. row \in {new, o}
    BY Zenon, <1>1, <1>3 DEF F!UpdateDefinition
  <1> QED BY Zenon, <1>2, <1>4, <1>5 DEF HasState

\* An update of a definition, as it is read.
LEMMA ReadDefinitionStep ==
  ASSUME FieldsInv, NEW p \in FieldReqs, NEW f \in Fields, F!updateCustomFieldDefinition(p, f)
  PROVE  FieldsInv'
  <1>1. PICK type, opts, row :
          /\ F!Live(f) /\ row \in F!UpdateDefinition(F!GetCustomFieldDefinition(f), type, opts)
          /\ F!Begin(p, [F!Idle EXCEPT !.pc = "definition", !.id = f, !.row = row])
          /\ UNCHANGED <<defs, dev, val, given>>
    BY Zenon DEF F!updateCustomFieldDefinition
  <1>2. PICK old : old = defs[f]
    OBVIOUS
  <1>3. HasState(old) /\ old.st = "live" /\ row \in F!UpdateDefinition(old, type, opts)
    BY Zenon, <1>1, <1>2 DEF FieldsInv, FieldTypes, F!Live, F!GetCustomFieldDefinition
  <1>4. HasState(row) /\ row.st = "live"
    BY Zenon, <1>3, UpdatedDefinition
  <1>5. PICK r : r = [F!Idle EXCEPT !.pc = "definition", !.id = f, !.row = row]
    OBVIOUS
  <1>6. DOMAIN r = Columns /\ r.pc = "definition" /\ r.row = row /\ r.whole = FALSE /\ DOMAIN r.body = {}
    BY Zenon, <1>5, IdleFieldRequest DEF Columns
  <1>7. Holds(r)
    BY Zenon, <1>4, <1>6 DEF Holds
  <1>8. fReq' = [fReq EXCEPT ![p] = r]
    BY Zenon, <1>1, <1>5 DEF F!Begin
  <1> QED BY Zenon, <1>1, <1>6, <1>7, <1>8, ReadsKeep

\* An update of a definition, as it is written.
LEMMA WriteDefinitionStep ==
  ASSUME FieldsInv, NEW p \in FieldReqs, F!UpdateCustomFieldDefinition(p)
  PROVE  FieldsInv'
  <1>1. PICK i, row : i = fReq[p].id /\ row = fReq[p].row
    OBVIOUS
  <1>2. /\ F!End(p) /\ UNCHANGED <<dev, val, given>>
        /\ defs' = defs \/ defs' = [defs EXCEPT ![i] = row]
    BY Zenon, <1>1 DEF F!UpdateCustomFieldDefinition
  <1>3. HasState(row) /\ row.st = "live"
    BY Zenon, <1>1 DEF F!UpdateCustomFieldDefinition, FieldsInv, FieldRequests
  <1>4. DOMAIN defs' = Fields /\ \A g \in Fields : defs'[g] \in {defs[g], row}
    BY Zenon, <1>2 DEF FieldsInv, FieldTypes
  <1>5. \A g \in Fields : HasState(defs'[g])
    BY Zenon, <1>3, <1>4 DEF FieldsInv, FieldTypes
  <1>6. ValuesAreGiven'
    BY <1>2, <1>3, <1>4 DEF FieldsInv, ValuesAreGiven, F!Live
  <1>7. ValueTypes' /\ DOMAIN dev' = Devices
    BY Zenon, <1>2 DEF FieldsInv, FieldTypes, ValueTypes
  <1> QED BY Zenon, <1>2, <1>4, <1>5, <1>6, <1>7, WriteKeeps

\* A definition that is deleted takes its values with it.
LEMMA DeleteDefinitionStep ==
  ASSUME FieldsInv, NEW p \in FieldReqs, NEW f \in Fields, F!deleteCustomFieldDefinition(p, f)
  PROVE  FieldsInv'
  <1>1. PICK r : r = [F!NoDef EXCEPT !.st = "gone"]
    OBVIOUS
  <1>2. /\ F!End(p) /\ dev' = dev /\ defs' = [defs EXCEPT ![f] = r] /\ val' = F!Cascade({}, {f})
        /\ given' = [x \in Devices |-> [given[x] EXCEPT ![f] = F!Nil]]
    BY Zenon, <1>1 DEF F!deleteCustomFieldDefinition, F!Request, F!DeleteDefinition,
                F!DeleteCustomFieldDefinition
  <1>3. HasState(r)
    BY Zenon, <1>1, IdleFieldRequest DEF HasState
  <1>4. DOMAIN defs' = Fields /\ \A g \in Fields : IF g = f THEN defs'[g] = r ELSE defs'[g] = defs[g]
    BY Zenon, <1>2 DEF FieldsInv, FieldTypes
  <1>5. \A g \in Fields : HasState(defs'[g])
    BY Zenon, <1>3, <1>4 DEF FieldsInv, FieldTypes
  <1>6. ASSUME NEW x \in Devices
        PROVE  DOMAIN given'[x] = Fields /\ \A g \in Fields : g # f => given'[x][g] = given[x][g]
    <2>1. given'[x] = [given[x] EXCEPT ![f] = F!Nil] /\ DOMAIN given[x] = Fields
      BY Zenon, <1>2 DEF FieldsInv, FieldTypes
    <2> QED BY Zenon, <2>1
  <1>7. ValueTypes' /\ DOMAIN dev' = Devices
    BY Zenon, <1>2, <1>6 DEF FieldsInv, FieldTypes, ValueTypes, F!Cascade
  <1>8. ValuesAreGiven'
    <2>1. \A y \in Devices, g \in Fields :
            y \notin {} /\ g \notin {f} =>
              given'[y][g] = given[y][g] /\ dev'[y] = dev[y] /\ defs'[g] = defs[g]
      BY Zenon, <1>2, <1>4, <1>6
    <2> QED BY <1>2, <1>7, <2>1, CascadeKeeps DEF FieldsInv
  <1> QED BY Zenon, <1>2, <1>4, <1>5, <1>7, <1>8, WriteKeeps

\* Bodies hold inputs.
LEMMA BodiesHoldValues ==
  ASSUME NEW body \in F!Bodies PROVE \A f \in DOMAIN body : IsValue(body[f])
  <1>1. PICK S : body \in [S -> F!Inputs]
    BY Zenon DEF F!Bodies
  <1>2. ASSUME NEW w \in F!Inputs PROVE IsValue(w)
    <2>1. PICK V : V = Options \cup {""}
      OBVIOUS
    <2>2. \/ w = [kind |-> "nil", v |-> F!None] \/ w \in [kind : {"string"}, v : V]
          \/ w = [kind |-> "bool", v |-> "true"] \/ w = [kind |-> "float", v |-> "1"]
      BY Zenon, <2>1 DEF F!Inputs, F!Nil
    <2>3. CASE w \in [kind : {"string"}, v : V]
      BY Zenon, <2>3 DEF IsValue
    <2> QED BY Zenon, <2>2, <2>3 DEF IsValue
  <1> QED BY Zenon, <1>1, <1>2

\* A device is created with the values of the body.
LEMMA CreateDeviceStep ==
  ASSUME FieldsInv, NEW p \in FieldReqs, NEW x \in Devices, F!createDevice(p, x)
  PROVE  FieldsInv'
  <1>1. PICK body \in F!Bodies :
          /\ F!End(p) /\ dev' = [dev EXCEPT ![x] = "live"] /\ defs' = defs
          /\ F!insertDeviceCustomFields(x, body)
    BY Zenon DEF F!createDevice, F!Request
  <1>2. DOMAIN dev' = Devices /\ dev'[x] = "live" /\ \A y \in Devices : y # x => dev'[y] = dev[y]
    BY Zenon, <1>1 DEF FieldsInv, FieldTypes
  <1>3. ValuesAreGiven' /\ ValueTypes'
    BY Zenon, <1>1, <1>2, BodiesHoldValues, InsertKeeps DEF FieldsInv
  <1> QED BY Zenon, <1>1, <1>2, <1>3, WriteKeeps DEF FieldsInv, FieldTypes

\* A device that is deleted takes its values with it.
LEMMA DeleteDeviceStep ==
  ASSUME FieldsInv, NEW p \in FieldReqs, NEW x \in Devices, F!deleteDevice(p, x)
  PROVE  FieldsInv'
  <1>1. /\ F!End(p) /\ defs' = defs /\ dev' = [dev EXCEPT ![x] = "gone"] /\ val' = F!Cascade({x}, {})
        /\ given' = [given EXCEPT ![x] = [f \in Fields |-> F!Nil]]
    BY Zenon DEF F!deleteDevice, F!Request
  <1>2. DOMAIN dev' = Devices /\ \A y \in Devices : y # x => dev'[y] = dev[y]
    BY Zenon, <1>1 DEF FieldsInv, FieldTypes
  <1>3. /\ DOMAIN given' = Devices /\ \A y \in Devices : DOMAIN given'[y] = Fields
        /\ \A y \in Devices : y # x => given'[y] = given[y]
    BY Zenon, <1>1 DEF FieldsInv, FieldTypes
  <1>4. ValueTypes'
    BY Zenon, <1>1, <1>3 DEF ValueTypes, F!Cascade
  <1>5. \A y \in Devices, g \in Fields :
          y \notin {x} /\ g \notin {} =>
            given'[y][g] = given[y][g] /\ dev'[y] = dev[y] /\ defs'[g] = defs[g]
    BY Zenon, <1>1, <1>2, <1>3
  <1>6. ValuesAreGiven'
    BY Zenon, <1>1, <1>4, <1>5, CascadeKeeps DEF FieldsInv
  <1> QED BY Zenon, <1>1, <1>2, <1>4, <1>6, WriteKeeps DEF FieldsInv, FieldTypes

\* An update of a device, as it is read: with its fields, or with the body's.
LEMMA ReadDeviceStep ==
  ASSUME FieldsInv, NEW p \in FieldReqs, NEW x \in Devices, F!updateDevice(p, x)
  PROVE  FieldsInv'
  <1>1. dev[x] = "live" /\ UNCHANGED <<defs, dev, val, given>>
    BY Zenon DEF F!updateDevice
  <1>2. CASE F!Begin(p, [F!Idle EXCEPT !.pc = "device", !.id = x, !.whole = TRUE, !.clean = TRUE,
                               !.body = F!GetCustomFieldValuesWithDefinitions(x)])
    <2>1. PICK body : body = F!GetCustomFieldValuesWithDefinitions(x)
      OBVIOUS
    <2>2. \A f \in DOMAIN body : IsValue(body[f])
      BY Zenon, <2>1, ValueOfRow DEF F!GetCustomFieldValuesWithDefinitions
    <2>3. PICK r : r = [F!Idle EXCEPT !.pc = "device", !.id = x, !.whole = TRUE, !.clean = TRUE,
                               !.body = body]
      OBVIOUS
    <2>4. DOMAIN r = Columns /\ r.pc = "device" /\ r.id = x /\ r.body = body
      BY Zenon, <2>3, IdleFieldRequest DEF Columns
    <2>5. Holds(r)
      BY Zenon, <2>2, <2>4 DEF Holds
    <2>6. fReq' = [fReq EXCEPT ![p] = r]
      BY Zenon, <1>2, <2>1, <2>3 DEF F!Begin
    <2> QED BY Zenon, <1>1, <2>1, <2>4, <2>5, <2>6, ReadsKeep
  <1>3. ASSUME NEW body \in F!Bodies,
               F!Begin(p, [F!Idle EXCEPT !.pc = "device", !.id = x, !.body = body])
        PROVE  FieldsInv'
    <2>1. \A f \in DOMAIN body : IsValue(body[f])
      BY Zenon, BodiesHoldValues
    <2>2. PICK r : r = [F!Idle EXCEPT !.pc = "device", !.id = x, !.body = body]
      OBVIOUS
    <2>3. DOMAIN r = Columns /\ r.pc = "device" /\ r.id = x /\ r.body = body /\ r.whole = FALSE
      BY Zenon, <2>2, IdleFieldRequest DEF Columns
    <2>4. Holds(r)
      BY Zenon, <2>1, <2>3 DEF Holds
    <2>5. fReq' = [fReq EXCEPT ![p] = r]
      BY Zenon, <1>3, <2>2 DEF F!Begin
    <2> QED BY Zenon, <1>1, <2>3, <2>4, <2>5, ReadsKeep
  <1> QED BY Zenon, <1>2, <1>3 DEF F!updateDevice

\* An update of a device, as it is written.
LEMMA WriteDeviceStep ==
  ASSUME FieldsInv, NEW p \in FieldReqs, F!UpdateDevice(p)
  PROVE  FieldsInv'
  <1>1. PICK x, body : x = fReq[p].id /\ body = fReq[p].body
    OBVIOUS
  <1>2. /\ F!End(p) /\ UNCHANGED <<defs, dev>> /\ fReq[p].pc = "device"
        /\ IF dev[x] = "live" THEN F!insertDeviceCustomFields(x, body) ELSE UNCHANGED <<val, given>>
    BY Zenon, <1>1 DEF F!UpdateDevice
  <1>3. x \in Devices /\ \A f \in DOMAIN body : IsValue(body[f])
    BY Zenon, <1>1, <1>2 DEF FieldsInv, FieldRequests
  <1>4. ValuesAreGiven' /\ ValueTypes'
    <2>1. CASE dev[x] = "live"
      BY Zenon, <1>2, <1>3, <2>1, InsertKeeps DEF FieldsInv
    <2>2. CASE dev[x] # "live"
      BY <1>2, <2>2 DEF FieldsInv, FieldTypes, ValuesAreGiven, ValueTypes, F!Live
    <2> QED BY Zenon, <2>1, <2>2
  <1> QED BY Zenon, <1>2, <1>4, WriteKeeps DEF FieldsInv, FieldTypes

\* The MCP tool saves the device without fields and keeps the value it will set.
LEMMA SaveDeviceStep ==
  ASSUME FieldsInv, NEW p \in FieldReqs, NEW x \in Devices, F!handleDeviceSave(p, x)
  PROVE  FieldsInv'
  <1>1. PICK f \in Fields, v \in Options \cup {""} :
          /\ dev[x] = "live" /\ F!insertDeviceCustomFields(x, <<>>) /\ UNCHANGED <<defs, dev>>
          /\ fReq' = [q \in FieldReqs |->
               IF q = p THEN [F!Idle EXCEPT !.pc = "list", !.id = x,
                                            !.body = [g \in {f} |-> [kind |-> "string", v |-> v]]]
               ELSE [fReq[q] EXCEPT !.clean = FALSE]]
    BY Zenon DEF F!handleDeviceSave
  <1>2. PICK body : body = [g \in {f} |-> [kind |-> "string", v |-> v]]
    OBVIOUS
  <1>3. DOMAIN body = {f} /\ \A g \in DOMAIN body : IsValue(body[g])
    BY Zenon, <1>2 DEF IsValue
  <1>4. PICK r : r = [F!Idle EXCEPT !.pc = "list", !.id = x, !.body = body]
    OBVIOUS
  <1>5. DOMAIN r = Columns /\ r.pc = "list" /\ r.id = x /\ r.body = body /\ r.whole = FALSE
    BY Zenon, <1>4, IdleFieldRequest DEF Columns
  <1>6. Holds(r)
    BY Zenon, <1>3, <1>5 DEF Holds
  <1>7. fReq' = [q \in FieldReqs |-> IF q = p THEN r ELSE [fReq[q] EXCEPT !.clean = FALSE]]
    BY Zenon, <1>1, <1>2, <1>4
  <1>8. FieldRequests' /\ DOMAIN fReq' = FieldReqs /\ \A q \in FieldReqs : DOMAIN fReq'[q] = Columns
    BY Zenon, <1>5, <1>6, <1>7, WritesDirty DEF FieldsInv
  <1>9. ValuesAreGiven' /\ ValueTypes'
    <2>1. PICK none : none = F!Idle.body
      OBVIOUS
    <2>2. none = <<>> /\ DOMAIN none = {}
      BY Zenon, <2>1, IdleFieldRequest DEF F!Idle
    <2> QED BY Zenon, <1>1, <2>2, InsertKeeps DEF FieldsInv
  <1>10. FieldTypes'
    BY Zenon, <1>1, <1>8, <1>9 DEF FieldsInv, FieldTypes, ValueTypes, HasState
  <1> QED BY Zenon, <1>8, <1>9, <1>10 DEF FieldsInv

\* The MCP tool lists the definitions and checks its value against them.
LEMMA ListDefinitionsStep ==
  ASSUME FieldsInv, NEW p \in FieldReqs, F!SetValues(p)
  PROVE  FieldsInv'
  <1>1. PICK old, row : old = fReq[p] /\ row = defs[CHOOSE f \in DOMAIN fReq[p].body : TRUE]
    OBVIOUS
  <1>2. DOMAIN old = Columns /\ Holds(old) /\ old.pc = "list" /\ ~(old.whole /\ old.clean)
    BY Zenon, <1>1 DEF F!SetValues, FieldsInv, FieldTypes, FieldRequests, Holds
  <1>3. PICK new : new = [old EXCEPT !.pc = "set", !.row = row]
    OBVIOUS
  <1>4. /\ DOMAIN new = Columns /\ new.pc = "set" /\ new.id = old.id /\ new.body = old.body
        /\ new.whole = old.whole /\ new.clean = old.clean
    BY Zenon, <1>2, <1>3 DEF Columns
  <1>5. Holds(new) /\ Holds(F!Idle)
    BY Zenon, <1>2, <1>4, IdleFieldRequest DEF Holds
  <1>6. PICK r : r \in {new, F!Idle} /\ fReq' = [fReq EXCEPT ![p] = r]
    BY Zenon, <1>1, <1>3 DEF F!SetValues, FieldsInv, FieldTypes
  <1>7. DOMAIN r = Columns /\ Holds(r) /\ ~(r.whole /\ r.clean)
    BY Zenon, <1>2, <1>4, <1>5, <1>6, IdleFieldRequest
  <1> QED BY Zenon, <1>6, <1>7, ReadsKeep DEF F!SetValues

\* One value is set, when its device and its field are still there.
LEMMA SetOneStep ==
  ASSUME FieldsInv, NEW p \in FieldReqs, F!SetOne(p)
  PROVE  FieldsInv'
  <1>1. PICK x, f, in, row :
          /\ x = fReq[p].id /\ f = (CHOOSE g \in DOMAIN fReq[p].body : TRUE) /\ in = fReq[p].body[f]
          /\ row = F!SetValue(fReq[p].row.type, in)
    OBVIOUS
  <1>2. /\ F!End(p) /\ UNCHANGED <<defs, dev>> /\ fReq[p].pc = "set"
        /\ IF dev[x] = "live" /\ F!Live(f)
           THEN /\ val' = F!SetCustomFieldValue(x, f, row)
                /\ given' = [given EXCEPT ![x][f] = in]
           ELSE UNCHANGED <<val, given>>
    BY Zenon, <1>1 DEF F!SetOne
  <1>3. x \in Devices /\ f \in Fields /\ IsValue(in)
    BY Zenon, <1>1, <1>2 DEF FieldsInv, FieldRequests
  <1>4. PICK t : row = F!SetValue(t, in)
    BY Zenon, <1>1
  <1>5. ValuesAreGiven' /\ ValueTypes'
    <2>1. CASE dev[x] = "live" /\ F!Live(f)
      <3>1. val' = [val EXCEPT ![x] = [val[x] EXCEPT ![f] = row]]
        BY Zenon, <1>2, <2>1 DEF F!SetCustomFieldValue
      <3>2. given' = [given EXCEPT ![x] = [given[x] EXCEPT ![f] = in]]
        BY Zenon, <1>2, <2>1
      <3>3. PICK v, g : v = [val[x] EXCEPT ![f] = row] /\ g = [given[x] EXCEPT ![f] = in]
        OBVIOUS
      <3>4. /\ DOMAIN v = Fields /\ v[f] = row /\ \A h \in Fields : h # f => v[h] = val[x][h]
            /\ DOMAIN g = Fields /\ g[f] = in /\ \A h \in Fields : h # f => g[h] = given[x][h]
        BY Zenon, <1>3, <3>3 DEF FieldsInv, FieldTypes
      <3>5. /\ DOMAIN val' = Devices /\ DOMAIN given' = Devices /\ val'[x] = v /\ given'[x] = g
            /\ \A y \in Devices : y # x => val'[y] = val[y] /\ given'[y] = given[y]
        BY Zenon, <1>3, <3>1, <3>2, <3>3 DEF FieldsInv, FieldTypes
      <3>6. ValueTypes'
        BY Zenon, <3>4, <3>5 DEF ValueTypes, FieldsInv, FieldTypes
      <3>7. ASSUME NEW y \in Devices, NEW h \in Fields, val'[y][h].set
            PROVE  /\ dev'[y] = "live" /\ defs'[h].st = "live"
                   /\ IsValue(given'[y][h]) /\ \E u : val'[y][h] = F!SetValue(u, given'[y][h])
        <4>1. CASE y = x /\ h = f
          BY Zenon, <1>2, <1>3, <1>4, <2>1, <3>4, <3>5, <4>1 DEF F!Live
        <4>2. CASE ~(y = x /\ h = f)
          <5>1. val'[y][h] = val[y][h] /\ given'[y][h] = given[y][h]
            BY Zenon, <3>4, <3>5, <4>2
          <5> QED BY <1>2, <3>7, <5>1 DEF FieldsInv, ValuesAreGiven, F!Live
        <4> QED BY Zenon, <4>1, <4>2
      <3>8. ValuesAreGiven'
        BY Zenon, <3>7 DEF ValuesAreGiven, F!Live
      <3> QED BY Zenon, <3>6, <3>8
    <2>2. CASE ~(dev[x] = "live" /\ F!Live(f))
      BY <1>2, <2>2 DEF FieldsInv, FieldTypes, ValuesAreGiven, ValueTypes, F!Live
    <2> QED BY Zenon, <2>1, <2>2
  <1> QED BY Zenon, <1>2, <1>5, WriteKeeps DEF FieldsInv, FieldTypes

\* Every step keeps the tables consistent and the requests true to what they read.
LEMMA FieldsStep == FieldsInv /\ [F!Next]_(F!vars) => FieldsInv'
  <1> SUFFICES ASSUME FieldsInv, [F!Next]_(F!vars) PROVE FieldsInv'
    OBVIOUS
  <1>1. CASE UNCHANGED F!vars
    <2>1. UNCHANGED <<defs, dev, val, given, fReq>>
      BY Zenon, <1>1 DEF F!vars
    <2>2. FieldTypes'
      BY Zenon, <2>1 DEF FieldsInv, FieldTypes
    <2>3. ValuesAreGiven'
      BY Zenon, <2>1 DEF FieldsInv, ValuesAreGiven, F!Live
    <2>4. FieldRequests'
      BY Zenon, <2>1 DEF FieldsInv, FieldRequests, F!GetCustomFieldValuesWithDefinitions, F!Live
    <2> QED BY Zenon, <2>2, <2>3, <2>4 DEF FieldsInv
  <1>2. ASSUME NEW p \in FieldReqs, NEW f \in Fields,
               \/ F!createCustomFieldDefinition(p, f) \/ F!updateCustomFieldDefinition(p, f)
               \/ F!deleteCustomFieldDefinition(p, f)
        PROVE  FieldsInv'
    BY Zenon, <1>2, CreateDefinitionStep, ReadDefinitionStep, DeleteDefinitionStep
  <1>3. ASSUME NEW p \in FieldReqs, NEW x \in Devices,
               \/ F!createDevice(p, x) \/ F!updateDevice(p, x) \/ F!deleteDevice(p, x)
               \/ F!handleDeviceSave(p, x)
        PROVE  FieldsInv'
    BY Zenon, <1>3, CreateDeviceStep, ReadDeviceStep, DeleteDeviceStep, SaveDeviceStep
  <1>4. ASSUME NEW p \in FieldReqs,
               \/ F!UpdateCustomFieldDefinition(p) \/ F!UpdateDevice(p) \/ F!SetValues(p) \/ F!SetOne(p)
        PROVE  FieldsInv'
    BY Zenon, <1>4, WriteDefinitionStep, WriteDeviceStep, ListDefinitionsStep, SetOneStep
  <1> QED BY Zenon, <1>1, <1>2, <1>3, <1>4 DEF F!Next

\* The empty tables are consistent.
LEMMA FieldsStart == F!Init => FieldsInv
  <1> SUFFICES ASSUME F!Init PROVE FieldsInv
    OBVIOUS
  <1>1. /\ DOMAIN defs = Fields /\ \A f \in Fields : defs[f] = F!NoDef
        /\ DOMAIN dev = Devices
        /\ DOMAIN val = Devices /\ \A x \in Devices : DOMAIN val[x] = Fields
        /\ \A x \in Devices, f \in Fields : val[x][f] = F!NoRow
        /\ DOMAIN given = Devices /\ \A x \in Devices : DOMAIN given[x] = Fields
        /\ DOMAIN fReq = FieldReqs /\ \A p \in FieldReqs : fReq[p] = F!Idle
    BY Zenon DEF F!Init
  <1>2. FieldTypes /\ ValuesAreGiven
    BY Zenon, <1>1, IdleFieldRequest DEF FieldTypes, ValuesAreGiven
  <1>3. FieldRequests
    BY Zenon, <1>1, IdleFieldRequest DEF FieldRequests
  <1> QED BY Zenon, <1>2, <1>3 DEF FieldsInv

\* What a device shows for a custom field is the value it was last given or no
\* value, whatever types the field has had: SetValue clears the columns that it
\* does not fill, and every path writes the whole row.
THEOREM OldValuesStayHidden == F!Spec => []NeverAnOldValue
  <1>1. FieldsInv => NeverAnOldValue
    <2> SUFFICES ASSUME FieldsInv, NEW x \in Devices, NEW f \in Fields, val[x][f].set
                 PROVE  F!GetValue(defs[f].type, val[x][f])
                          \in {given[x][f], F!Nil, [kind |-> "string", v |-> ""]}
      BY Zenon DEF NeverAnOldValue, F!NeverAnOldValue
    <2>1. PICK type, in, t : type = defs[f].type /\ in = given[x][f] /\ val[x][f] = F!SetValue(t, in)
      BY DEF FieldsInv, ValuesAreGiven
    <2>2. IsValue(in)
      BY Zenon, <2>1 DEF FieldsInv, ValuesAreGiven
    <2>3. F!GetValue(type, F!SetValue(t, in)) \in {in, F!Nil, [kind |-> "string", v |-> ""]}
      BY Zenon, <2>2, ShowsTheInput
    <2> QED BY <2>1, <2>3
  <1> QED BY <1>1, FieldsStart, FieldsStep, PTL DEF F!Spec

\* A step that ends a request which read a device with its fields, and since
\* whose read nothing was written, is the update of that device.
LEMMA WholeUpdateEnds ==
  ASSUME FieldsInv, [F!Next]_(F!vars), NEW p \in FieldReqs, fReq[p].whole, fReq[p].clean, fReq'[p] = F!Idle
  PROVE  F!UpdateDevice(p)
  <1>1. /\ fReq[p].pc = "device" /\ fReq[p] # F!Idle /\ DOMAIN fReq[p] = Columns /\ DOMAIN fReq = FieldReqs
    BY Zenon, IdleFieldRequest DEF FieldsInv, FieldRequests, FieldTypes
  <1>2. ASSUME NEW q \in FieldReqs, F!End(q) PROVE q = p
    <2> SUFFICES ASSUME q # p PROVE FALSE
      OBVIOUS
    <2>1. fReq'[p] = [fReq[p] EXCEPT !.clean = FALSE]
      BY Zenon, <1>2 DEF F!End
    <2>2. fReq'[p].pc = fReq[p].pc
      BY Zenon, <1>1, <2>1 DEF Columns
    <2> QED BY Zenon, <1>1, <2>2, IdleFieldRequest
  <1>3. ASSUME NEW q \in FieldReqs, NEW r, fReq' = [fReq EXCEPT ![q] = r] PROVE q = p
    BY Zenon, <1>1, <1>3
  <1>4. UNCHANGED F!vars => FALSE
    BY Zenon, <1>1 DEF F!vars
  <1>5. ASSUME NEW q \in FieldReqs, NEW f \in Fields,
               \/ F!createCustomFieldDefinition(q, f) \/ F!updateCustomFieldDefinition(q, f)
               \/ F!deleteCustomFieldDefinition(q, f)
        PROVE  FALSE
    <2>1. fReq[q] = F!Idle
      BY Zenon, <1>5 DEF F!createCustomFieldDefinition, F!updateCustomFieldDefinition,
                  F!deleteCustomFieldDefinition, F!Request, F!Begin
    <2>2. F!End(q) \/ \E r : fReq' = [fReq EXCEPT ![q] = r]
      BY Zenon, <1>5 DEF F!createCustomFieldDefinition, F!updateCustomFieldDefinition,
                  F!deleteCustomFieldDefinition, F!Request, F!Begin
    <2> QED BY Zenon, <1>1, <1>2, <1>3, <2>1, <2>2
  <1>6. ASSUME NEW q \in FieldReqs, NEW x \in Devices,
               F!createDevice(q, x) \/ F!updateDevice(q, x) \/ F!deleteDevice(q, x)
        PROVE  FALSE
    <2>1. fReq[q] = F!Idle
      BY Zenon, <1>6 DEF F!createDevice, F!updateDevice, F!deleteDevice, F!Request, F!Begin
    <2>2. F!End(q) \/ \E r : fReq' = [fReq EXCEPT ![q] = r]
      BY Zenon, <1>6 DEF F!createDevice, F!updateDevice, F!deleteDevice, F!Request, F!Begin
    <2> QED BY Zenon, <1>1, <1>2, <1>3, <2>1, <2>2
  <1>7. ASSUME NEW q \in FieldReqs, NEW x \in Devices, F!handleDeviceSave(q, x) PROVE FALSE
    <2>1. fReq[q] = F!Idle
      BY Zenon, <1>7 DEF F!handleDeviceSave
    <2>2. fReq'[p] = [fReq[p] EXCEPT !.clean = FALSE]
      BY Zenon, <1>1, <1>7, <2>1 DEF F!handleDeviceSave
    <2>3. fReq'[p].pc = fReq[p].pc
      BY Zenon, <1>1, <2>2 DEF Columns
    <2> QED BY Zenon, <1>1, <2>3, IdleFieldRequest
  <1>8. ASSUME NEW q \in FieldReqs, F!UpdateCustomFieldDefinition(q) \/ F!SetOne(q) PROVE FALSE
    BY Zenon, <1>1, <1>2, <1>8 DEF F!UpdateCustomFieldDefinition, F!SetOne
  <1>9. ASSUME NEW q \in FieldReqs, F!SetValues(q) PROVE FALSE
    <2>1. \E r : fReq' = [fReq EXCEPT ![q] = r]
      BY Zenon, <1>9 DEF F!SetValues
    <2> QED BY Zenon, <1>1, <1>3, <1>9, <2>1 DEF F!SetValues
  <1>10. ASSUME NEW q \in FieldReqs, F!UpdateDevice(q) PROVE F!UpdateDevice(p)
    BY Zenon, <1>2, <1>10 DEF F!UpdateDevice
  <1> QED BY Zenon, <1>4, <1>5, <1>6, <1>7, <1>8, <1>9, <1>10 DEF F!Next

\* An update of a device that does not name custom fields, with no other write
\* since it read the device, leaves every value the device shows as it was.
THEOREM UpdatesKeepFields == F!Spec => UpdateKeepsFields
  <1> DEFINE Keeps ==
        \A p \in FieldReqs : fReq[p].whole /\ fReq[p].clean /\ fReq'[p] = F!Idle =>
          \A f \in Fields : val[fReq[p].id][f].set =>
            /\ val'[fReq[p].id][f].set
            /\ F!GetValue(defs[f].type, val'[fReq[p].id][f]) = F!GetValue(defs[f].type, val[fReq[p].id][f])
  <1>1. FieldsInv /\ [F!Next]_(F!vars) => Keeps
    <2> SUFFICES ASSUME FieldsInv, [F!Next]_(F!vars), NEW p \in FieldReqs, fReq[p].whole, fReq[p].clean,
                        fReq'[p] = F!Idle, NEW f \in Fields, val[fReq[p].id][f].set
                 PROVE  /\ val'[fReq[p].id][f].set
                        /\ F!GetValue(defs[f].type, val'[fReq[p].id][f])
                             = F!GetValue(defs[f].type, val[fReq[p].id][f])
      OBVIOUS
    <2>1. PICK x, body, t, old : /\ x = fReq[p].id /\ body = fReq[p].body /\ t = defs[f].type
                                 /\ old = val[fReq[p].id][f]
      OBVIOUS
    <2>2. F!UpdateDevice(p)
      BY Zenon, WholeUpdateEnds
    <2>3. /\ x \in Devices /\ dev[x] = "live" /\ body = F!GetCustomFieldValuesWithDefinitions(x)
      BY Zenon, <2>1 DEF FieldsInv, FieldRequests
    <2>4. F!insertDeviceCustomFields(x, body)
      BY Zenon, <2>1, <2>2, <2>3 DEF F!UpdateDevice
    <2>5. F!Live(f)
      BY Zenon, <2>1, <2>3 DEF FieldsInv, ValuesAreGiven
    <2>6. f \in DOMAIN body /\ body[f] = F!GetValue(t, old)
      BY Zenon, <2>1, <2>3, <2>5 DEF F!GetCustomFieldValuesWithDefinitions
    <2>7. val'[x][f] = F!SetValue(t, body[f])
      BY <2>1, <2>3, <2>4, <2>5, <2>6, InsertedRows DEF FieldsInv
    <2>8. F!GetValue(t, val'[x][f]) = F!GetValue(t, old)
      BY Zenon, <2>6, <2>7, RoundTrip
    <2>9. val'[x][f].set = TRUE
      BY Zenon, <2>7, WrittenRow
    <2> QED BY Zenon, <2>1, <2>8, <2>9
  <1>2. Keeps => [Keeps]_(F!vars)
    OBVIOUS
  <1> HIDE DEF Keeps
  <1>3. F!Spec => [][Keeps]_(F!vars)
    BY <1>1, FieldsStart, FieldsStep, PTL DEF F!Spec
  <1> QED BY Zenon, <1>3 DEF Keeps, UpdateKeepsFields, F!UpdateKeepsFields
=============================================================================
