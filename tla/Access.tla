-------------------------------- MODULE Access --------------------------------
(* Users, roles, permissions and API keys, as the REST handlers, the services  *)
(* and the SQLite store change them.  A request passes the permission check in *)
(* one step, reads the rows it decides on in a second and writes in a third;   *)
(* requests interleave between the steps.  A request that a check refuses      *)
(* changes nothing and is not represented.                                     *)
EXTENDS Naturals, FiniteSets

CONSTANTS Reqs, Users, Keys, Names,
          Custom,        \* roles that are not system roles
          Grantable,     \* the permissions grants are explored for
          Root, Clerk,   \* the initial administrator; a user with a custom role
          Desk,          \* the clerk's role at the start
          MaxRequests    \* bound on the requests of a behaviour

VARIABLES user,    \* users rows: st, name, admin (the is_admin column)
          role,    \* roles rows
          grants,  \* role_permissions
          holds,   \* user_roles
          key,     \* api_keys rows: st, owner
          req,     \* requests in flight
          count,   \* requests begun
          was      \* users that have held the admin role at some time

vars == <<user, role, grants, holds, key, req, count, was>>

None == "none"
System == {"admin", "viewer"}
Roles == System \cup Custom

ASSUME NamesAssumption ==
    /\ Root \in Users /\ Clerk \in Users /\ None \notin Users
    /\ Desk \in Custom /\ System \cap Custom = {}

Crud(resource) == {resource} \X {"list", "read", "create", "update", "delete"}
AllPerms == Crud("users") \cup Crud("roles") \cup (Crud("apikeys") \ {<<"apikeys", "update">>})

NoUser == [st |-> "fresh", name |-> None, admin |-> FALSE]
Idle == [pc |-> "idle", op |-> None, by |-> None, u |-> None, r |-> None,
         k |-> None, x |-> None, row |-> NoUser, ps |-> {}]

-----------------------------------------------------------------------------
(* The store.                                                                  *)

GetUser(u) == user[u].st = "live"
GetUserByUsername(n) == {u \in Users : GetUser(u) /\ user[u].name = n}
GetRole(r) == role[r] = "live"
GetUserRoles(u) == {r \in Roles : <<u, r>> \in holds}
GetRolePermissions(r) == {g[2] : g \in {h \in grants : h[1] = r}}
HasPermission(u, p) == \E r \in Roles : <<u, r>> \in holds /\ <<r, p>> \in grants
IsAdmin(u) == "admin" \in GetUserRoles(u)
GetAPIKey(k) == key[k].st = "live"

\* INSERT INTO users; username is UNIQUE.
CreateUser(u, n, adm) ==
    /\ GetUserByUsername(n) = {}
    /\ user' = [user EXCEPT ![u] = [st |-> "live", name |-> n, admin |-> adm]]

\* UPDATE users of the whole row.
UpdateUser(u, row) ==
    /\ GetUser(u)
    /\ \A v \in GetUserByUsername(row.name) : v = u
    /\ user' = [user EXCEPT ![u] = row]

\* DELETE FROM users: user_roles cascades, a key of the user refuses it.
DeleteUser(u) ==
    /\ GetUser(u)
    /\ \A k \in Keys : GetAPIKey(k) => key[k].owner # u
    /\ user' = [user EXCEPT ![u].st = "gone"]
    /\ holds' = {h \in holds : h[1] # u}

\* INSERT INTO roles; each custom name is its own row.
CreateRole(r) == role[r] # "live" /\ role' = [role EXCEPT ![r] = "live"]

\* UPDATE roles SET description: nothing the model holds.
UpdateRole(r) == GetRole(r) /\ UNCHANGED role

\* DELETE FROM roles, which checks is_system again; both link tables cascade.
DeleteRole(r) ==
    /\ GetRole(r) /\ r \notin System
    /\ role' = [role EXCEPT ![r] = "gone"]
    /\ grants' = {g \in grants : g[1] # r}
    /\ holds' = {h \in holds : h[2] # r}

\* INSERT OR IGNORE: the foreign keys still have to hold.
AddRolePermission(r, ps) == GetRole(r) /\ grants' = grants \cup ({r} \X ps)
AssignRoleToUser(u, r) == GetUser(u) /\ GetRole(r) /\ holds' = holds \cup {<<u, r>>}
RemoveRoleFromUser(u, r) == holds' = holds \ {<<u, r>>}

CreateAPIKey(k, u) == GetUser(u) /\ key' = [key EXCEPT ![k] = [st |-> "live", owner |-> u]]
DeleteAPIKey(k) == GetAPIKey(k) /\ key' = [key EXCEPT ![k].st = "gone"]

-----------------------------------------------------------------------------
(* Handlers: the request is decoded and its service's permission check passed. *)

requirePermission(by, resource, action) ==
    user[by].st # "fresh" /\ HasPermission(by, <<resource, action>>)

Begin(p, r) ==
    /\ req[p].pc = "idle" /\ count < MaxRequests
    /\ count' = count + 1
    /\ req' = [req EXCEPT ![p] = r]
    /\ UNCHANGED <<user, role, grants, holds, key, was>>

createUser(p, by, u, n, adm, r) ==
    /\ requirePermission(by, "users", "create") /\ user[u].st = "fresh"
    /\ \A q \in Reqs : req[q].op = "createUser" => req[q].u # u
    /\ Begin(p, [Idle EXCEPT !.pc = "read", !.op = "createUser", !.by = by, !.u = u,
                             !.r = r, !.row = [st |-> "live", name |-> n, admin |-> adm]])

\* x is the new name, or "admin" or "plain" for is_admin; a user may update
\* themselves unasked.
updateUser(p, by, u, x) ==
    /\ user[by].st # "fresh"
    /\ by = u \/ requirePermission(by, "users", "update")
    /\ Begin(p, [Idle EXCEPT !.pc = "read", !.op = "updateUser", !.by = by, !.u = u,
                             !.x = x])

deleteUser(p, by, u) ==
    /\ requirePermission(by, "users", "delete")
    /\ Begin(p, [Idle EXCEPT !.pc = "read", !.op = "deleteUser", !.by = by, !.u = u])

\* xs holds the permission to grant once the role is written, if there is one.
createRole(p, by, r, xs) ==
    /\ requirePermission(by, "roles", "create")
    /\ Begin(p, [Idle EXCEPT !.pc = "write", !.op = "createRole", !.by = by, !.r = r, !.ps = xs])

updateRole(p, by, r, xs) ==
    /\ requirePermission(by, "roles", "read")
    /\ Begin(p, [Idle EXCEPT !.pc = "read", !.op = "updateRole", !.by = by, !.r = r, !.ps = xs])

deleteRole(p, by, r) ==
    /\ requirePermission(by, "roles", "delete")
    /\ Begin(p, [Idle EXCEPT !.pc = "read", !.op = "deleteRole", !.by = by, !.r = r])

grantRoleToUser(p, by, u, r) ==
    /\ requirePermission(by, "roles", "update")
    /\ Begin(p, [Idle EXCEPT !.pc = "read", !.op = "grantRole", !.by = by, !.u = u, !.r = r])

revokeRoleFromUser(p, by, u, r) ==
    /\ requirePermission(by, "roles", "update")
    /\ Begin(p, [Idle EXCEPT !.pc = "read", !.op = "revokeRole", !.by = by, !.u = u, !.r = r])

\* The key is the caller's.
createAPIKey(p, by, k) ==
    /\ requirePermission(by, "apikeys", "create") /\ key[k].st = "fresh"
    /\ \A q \in Reqs : req[q].k # k
    /\ Begin(p, [Idle EXCEPT !.pc = "write", !.op = "createAPIKey", !.by = by, !.k = k])

deleteAPIKey(p, by, k) ==
    /\ requirePermission(by, "apikeys", "delete")
    /\ Begin(p, [Idle EXCEPT !.pc = "read", !.op = "deleteAPIKey", !.by = by, !.k = k])

-----------------------------------------------------------------------------
(* Services: what a request reads before it writes.  Refused ends it.          *)

\* Only an administrator makes one, by the flag or by the role.
UserCreate(q) ==
    /\ q.row.admin => IsAdmin(q.by)
    /\ GetUserByUsername(q.row.name) = {}
    /\ q.r = "admin" => IsAdmin(q.by)

\* The row the update will write back, from the row it reads: users do not change
\* their own is_admin.
Updated(q) ==
    IF q.x \in Names THEN [user[q.u] EXCEPT !.name = q.x]
    ELSE [user[q.u] EXCEPT !.admin = IF q.u = q.by THEN @ ELSE q.x = "admin"]
UserUpdate(q) ==
    /\ GetUser(q.u)
    /\ user[q.u].admin /\ q.u # q.by => IsAdmin(q.by)
    /\ q.x \in Names => GetUserByUsername(q.x) \subseteq {q.u}
    /\ q.x \notin Names /\ q.u # q.by => IsAdmin(q.by)

UserDelete(q) ==
    /\ GetUser(q.u) /\ q.u # q.by
    /\ user[q.u].admin => IsAdmin(q.by)

RoleUpdate(q) == GetRole(q.r) /\ requirePermission(q.by, "roles", "update")
RoleDelete(q) == GetRole(q.r) /\ q.r \notin System
RoleGrantPermission(q) ==
    GetRole(q.r) /\ q.r \notin System /\ requirePermission(q.by, "roles", "update")
\* Mutant: whoever may update roles may hand out any of them.
RoleAssignToUserAny(q) == GetRole(q.r)
RoleAssignToUser(q) == GetRole(q.r) /\ (q.r \in System => IsAdmin(q.by))
RoleRevokeFromUser(q) == GetRole(q.r) /\ (q.r \in System => IsAdmin(q.by))

requireOwnership(by, k) == key[k].owner = by \/ IsAdmin(by)
APIKeyDelete(q) == GetAPIKey(q.k) /\ requireOwnership(q.by, q.k)

Allowed(q) ==
    CASE q.op = "createUser" -> UserCreate(q)
      [] q.op = "updateUser" -> UserUpdate(q)
      [] q.op = "deleteUser" -> UserDelete(q)
      [] q.op = "updateRole" -> RoleUpdate(q)
      [] q.op = "deleteRole" -> RoleDelete(q)
      [] q.op = "grant" -> RoleGrantPermission(q)
      [] q.op = "grantRole" -> RoleAssignToUser(q)
      [] q.op = "revokeRole" -> RoleRevokeFromUser(q)
      [] q.op = "deleteAPIKey" -> APIKeyDelete(q)

Read(p) ==
    LET q == req[p]
    IN /\ q.pc = "read"
       /\ req' = [req EXCEPT ![p] =
                    IF ~Allowed(q) THEN Idle
                    ELSE IF q.op = "updateUser" THEN [q EXCEPT !.pc = "write", !.x = None, !.row = Updated(q)]
                    ELSE [q EXCEPT !.pc = "write"]]
       /\ UNCHANGED <<user, role, grants, holds, key, count, was>>

-----------------------------------------------------------------------------
(* Writes: the store's statement succeeds, or fails and changes nothing.       *)

Store(q) ==
    \/ q.op = "createUser" /\ CreateUser(q.u, q.row.name, q.row.admin)
       /\ UNCHANGED <<role, grants, holds, key>>
    \/ q.op = "updateUser" /\ UpdateUser(q.u, q.row) /\ UNCHANGED <<role, grants, holds, key>>
    \/ q.op = "deleteUser" /\ DeleteUser(q.u) /\ UNCHANGED <<role, grants, key>>
    \/ q.op = "createRole" /\ CreateRole(q.r) /\ UNCHANGED <<user, grants, holds, key>>
    \/ q.op = "updateRole" /\ UpdateRole(q.r) /\ UNCHANGED <<user, grants, holds, key>>
    \/ q.op = "deleteRole" /\ DeleteRole(q.r) /\ UNCHANGED <<user, key>>
    \/ q.op = "grant" /\ AddRolePermission(q.r, q.ps) /\ UNCHANGED <<user, role, holds, key>>
    \/ q.op \in {"grantRole", "assign"} /\ AssignRoleToUser(q.u, q.r)
       /\ UNCHANGED <<user, role, grants, key>>
    \/ q.op = "revokeRole" /\ RemoveRoleFromUser(q.u, q.r) /\ UNCHANGED <<user, role, grants, key>>
    \/ q.op = "createAPIKey" /\ CreateAPIKey(q.k, q.by) /\ UNCHANGED <<user, role, grants, holds>>
    \/ q.op = "deleteAPIKey" /\ DeleteAPIKey(q.k) /\ UNCHANGED <<user, role, grants, holds>>

\* A user created with a role is given it by a statement of its own; a role written
\* with a permission goes on to the grant, whose own checks may end it there.
After(q) ==
    CASE q.op = "createUser" /\ q.r # None -> [q EXCEPT !.op = "assign", !.row = NoUser]
      [] q.op \in {"createRole", "updateRole"} /\ q.ps # {} ->
           [q EXCEPT !.op = "grant", !.pc = "read"]
      [] OTHER -> Idle

Write(p) ==
    /\ req[p].pc = "write"
    /\ Store(req[p])
    /\ req' = [req EXCEPT ![p] = After(req[p])]
    /\ was' = was \cup {u \in Users : <<u, "admin">> \in holds'}
    /\ UNCHANGED count

\* The statement's error ends the request.
Refused(q) ==
    CASE q.op = "createUser" -> GetUserByUsername(q.row.name) # {}
      [] q.op = "updateUser" -> ~GetUser(q.u) \/ GetUserByUsername(q.row.name) \ {q.u} # {}
      [] q.op = "deleteUser" -> ~GetUser(q.u) \/ \E k \in Keys : GetAPIKey(k) /\ key[k].owner = q.u
      [] q.op = "createRole" -> GetRole(q.r)
      [] q.op \in {"updateRole", "deleteRole", "grant"} -> ~GetRole(q.r)
      [] q.op \in {"grantRole", "assign"} -> ~(GetUser(q.u) /\ GetRole(q.r))
      [] q.op = "createAPIKey" -> ~GetUser(q.by)
      [] q.op = "deleteAPIKey" -> ~GetAPIKey(q.k)
      [] OTHER -> FALSE

Fail(p) ==
    /\ req[p].pc = "write" /\ Refused(req[p])
    /\ req' = [req EXCEPT ![p] = Idle]
    /\ UNCHANGED <<user, role, grants, holds, key, count, was>>

-----------------------------------------------------------------------------
\* The initial administrator, and a clerk whose custom role may read and update
\* roles and create and delete keys.
Init ==
    /\ user = [u \in Users |-> IF u \in {Root, Clerk}
                               THEN [st |-> "live", name |-> u, admin |-> u = Root] ELSE NoUser]
    /\ role = [r \in Roles |-> IF r \in System \cup {Desk} THEN "live" ELSE "fresh"]
    /\ grants = ({"admin"} \X AllPerms)
                \cup ({Desk} \X {<<"roles", "read">>, <<"roles", "update">>,
                                  <<"apikeys", "create">>, <<"apikeys", "delete">>})
    /\ holds = {<<Root, "admin">>, <<Clerk, Desk>>}
    /\ key = [k \in Keys |-> [st |-> "fresh", owner |-> None]]
    /\ req = [p \in Reqs |-> Idle]
    /\ count = 0
    /\ was = {Root}

Asked == {{}} \cup {{x} : x \in Grantable}

Handle(p, by) ==
    \/ \E u \in Users, n \in Names, adm \in BOOLEAN, r \in {None, "admin"} :
          createUser(p, by, u, n, adm, r)
    \/ \E u \in Users :
          \/ deleteUser(p, by, u)
          \/ \E x \in {"admin", "plain"} \cup Names : updateUser(p, by, u, x)
          \/ \E r \in {"admin"} \cup Custom :
                grantRoleToUser(p, by, u, r) \/ revokeRoleFromUser(p, by, u, r)
    \/ \E r \in Custom, xs \in Asked : createRole(p, by, r, xs)
    \/ \E r \in {"viewer"} \cup Custom :
          deleteRole(p, by, r) \/ \E xs \in Asked : updateRole(p, by, r, xs)
    \/ \E k \in Keys : createAPIKey(p, by, k) \/ deleteAPIKey(p, by, k)

Next == \E p \in Reqs : Read(p) \/ Write(p) \/ Fail(p) \/ \E by \in Users : Handle(p, by)

Spec == Init /\ [][Next]_vars

-----------------------------------------------------------------------------
(* Properties.                                                                 *)

\* What a deleted user or role leaves behind: no role, no grant, no key.  Hence
\* the permission check refuses every request a deleted user still has under way.
RowsHaveParents ==
    /\ \A h \in holds : GetUser(h[1]) /\ GetRole(h[2])
    /\ \A g \in grants : GetRole(g[1])
    /\ \A k \in Keys : GetAPIKey(k) => GetUser(key[k].owner)

\* No two accounts share a name, although the name is looked up one step before
\* the insert and an update writes back a name it read earlier.
NamesAreUnique ==
    \A u, v \in Users : GetUser(u) /\ GetUser(v) /\ user[u].name = user[v].name => u = v

\* The system roles stay, and keep exactly the permissions the migrations gave.
SystemRolesFixed ==
    /\ \A r \in System : GetRole(r)
    /\ GetRolePermissions("admin") = AllPerms /\ GetRolePermissions("viewer") = {}

\* The admin role only ever spreads from administrators: whoever comes to hold it
\* is given it by a request of a user who has held it.
OnlyAdminsMakeAdmins ==
    [][\A u \in Users : IsAdmin(u)' /\ ~IsAdmin(u) =>
          \E p \in Reqs : /\ req[p].pc = "write" /\ req[p].u = u /\ req[p].r = "admin"
                          /\ req[p].by \in was]_vars

\* A key goes only by its owner's hand or by that of someone who has been admin.
KeysAreTheirOwners ==
    [][\A k \in Keys : GetAPIKey(k) /\ ~GetAPIKey(k)' =>
          \E p \in Reqs : /\ req[p].pc = "write" /\ req[p].k = k
                          /\ req[p].by \in was \cup {key[k].owner}]_vars

=============================================================================
