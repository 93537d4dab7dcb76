------------------------------ MODULE Migrations ------------------------------
(* Schema migrations: the ordered list of migrations.go, each one a sequence   *)
(* of statements run with its version record in one transaction, by processes  *)
(* (a starting server, `rackd migrate run`) that share the database file, may  *)
(* crash between transactions, and are upgraded from release to release.       *)
(*                                                                             *)
(* The database is reduced to what the migrations and the services ask of it:  *)
(* the tables, the foreign keys, the columns added later, the permissions, the *)
(* system roles with their grants, and which administrators exist and hold the *)
(* admin role.  Columns of CREATE TABLE, indexes and search triggers are left  *)
(* out.  A permission is its (resource, action) pair.                          *)
EXTENDS Naturals, FiniteSets, FiniteSetsExt, Sequences, SequencesExt

CONSTANTS Procs,      \* processes that open the database: servers and `migrate run`
          Initial,    \* the account the bootstrap creates
          Users,      \* administrators created before there were roles
          Releases    \* lengths of the list in the releases that were shipped

VARIABLES db,         \* the database contents
          applied,    \* versions recorded in schema_migrations
          rel,        \* the release that is installed
          pc, left,   \* per process: its state, the versions it has still to run
          cut         \* accounts whose bootstrap was cut before the role was given

vars == <<db, applied, rel, pc, left, cut>>

-----------------------------------------------------------------------------
(* Statements.  ok turns FALSE when a statement fails and the transaction will *)
(* be rolled back.                                                             *)

\* CREATE TABLE IF NOT EXISTS with its foreign keys.
Create(t, parents) == [op |-> "create", t |-> t, parents |-> parents]
\* CREATE TABLE without IF NOT EXISTS.
CreateNew(t) == [op |-> "createNew", t |-> t, parents |-> {}]
\* ALTER TABLE ... ADD COLUMN, with the table the column may reference.
Add(t, c, parents) == [op |-> "add", t |-> t, c |-> c, parents |-> parents]
\* INSERT OR IGNORE INTO permissions.
Permit(ps) == [op |-> "permit", ps |-> ps]
\* INSERT OR IGNORE INTO role_permissions SELECT ... WHERE r.name = role.
Grant(role, ps) == [op |-> "grant", role |-> role, ps |-> ps]
\* The same INSERT without OR IGNORE: a grant that exists fails it.
GrantNew(role, ps) == [op |-> "grantNew", role |-> role, ps |-> ps]
\* Every permission there is to the admin role.
GrantAll(role) == [op |-> "grantAll", role |-> role]
\* INSERT OR IGNORE INTO roles.
MakeRoles(rs) == [op |-> "roles", rs |-> rs]
\* UPDATE permissions: rename a resource.
Rename(from, to) == [op |-> "rename", from |-> from, to |-> to]
\* Reading the id of a role fails when there is none.
NeedRole(role) == [op |-> "need", role |-> role]
\* The admin role to every user with is_admin.
AssignAdmins == [op |-> "assign"]

Pairs(role, ps, d) == IF role \in d.roles THEN {role} \X (ps \cap d.perms) ELSE {}

Renamed(p, s) == IF p[1] = s.from THEN <<s.to, p[2]>> ELSE p

\* What one statement does to the database d.
ExecContext(d, s) ==
    CASE s.op = "create" ->
           [d EXCEPT !.tables = @ \cup {s.t}, !.refs = @ \cup ({s.t} \X s.parents)]
      [] s.op = "createNew" ->
           [d EXCEPT !.tables = @ \cup {s.t}, !.ok = @ /\ s.t \notin d.tables]
      [] s.op = "add" ->
           [d EXCEPT !.columns = @ \cup {<<s.t, s.c>>},
                     !.refs = @ \cup ({s.t} \X s.parents),
                     !.ok = @ /\ s.t \in d.tables /\ <<s.t, s.c>> \notin d.columns]
      [] s.op = "permit" -> [d EXCEPT !.perms = @ \cup s.ps]
      [] s.op = "grant" -> [d EXCEPT !.grants = @ \cup Pairs(s.role, s.ps, d)]
      [] s.op = "grantNew" ->
           [d EXCEPT !.grants = @ \cup Pairs(s.role, s.ps, d),
                     !.ok = @ /\ Pairs(s.role, s.ps, d) \cap d.grants = {}]
      [] s.op = "grantAll" ->
           [d EXCEPT !.grants = @ \cup Pairs(s.role, d.perms, d)]
      [] s.op = "roles" -> [d EXCEPT !.roles = @ \cup s.rs]
      [] s.op = "rename" ->
           [d EXCEPT !.perms = {Renamed(p, s) : p \in @},
                     !.grants = {<<g[1], Renamed(g[2], s)>> : g \in @}]
      [] s.op = "need" -> [d EXCEPT !.ok = @ /\ s.role \in d.roles]
      [] s.op = "assign" -> [d EXCEPT !.holders = @ \cup d.admins]

Exec(d, stmts) == FoldLeft(ExecContext, [d EXCEPT !.ok = TRUE], stmts)

-----------------------------------------------------------------------------
(* Permission sets the migrations name.                                        *)

Acts == {"list", "read", "create", "update", "delete"}
Crud(rs) == rs \X Acts
Reads(rs) == rs \X {"list", "read"}
Edits(rs) == rs \X {"list", "read", "create", "update"}

\* A block that inserts permissions and grants them to the three roles.
Block(ps, operator, viewer) ==
    << Permit(ps), Grant("admin", ps), Grant("operator", operator),
       Grant("viewer", viewer) >>

-----------------------------------------------------------------------------
(* The migrations, in the order of the list.                                   *)

migrateInitialSchemaUp ==
    << Create("datacenters", {}), Create("networks", {"datacenters"}),
       Create("network_pools", {"networks"}), Create("devices", {"datacenters"}),
       Create("addresses", {"devices", "networks", "network_pools"}),
       Create("tags", {"devices"}), Create("domains", {"devices"}),
       Create("device_relationships", {"devices"}),
       Create("discovered_devices", {"networks", "devices"}),
       Create("discovery_scans", {"networks"}),
       Create("discovery_rules", {"networks"}) >>
migrateAddPoolTagsUp == << Create("pool_tags", {"network_pools"}) >>
migrateAddDeviceHostnameUp == << Add("devices", "hostname", {}) >>
migrateAddRelationshipNotesUp == << Add("device_relationships", "notes", {}) >>
migrateFTSUp ==
    << Create("devices_fts", {}), Create("networks_fts", {}),
       Create("datacenters_fts", {}) >>
migrateAddAPIKeysUp == << Create("api_keys", {}) >>
migrateAddAuditLogsUp == << Create("audit_logs", {}) >>
migrateAddAuditSourceUp == << Add("audit_logs", "source", {}) >>
migrateAddUsersUp == << Create("users", {}) >>
migrateAddRBACUp ==
    << Create("permissions", {}), Create("roles", {}),
       Create("role_permissions", {"roles", "permissions"}),
       Create("user_roles", {"users", "roles"}),
       Permit(Crud({"devices", "networks", "datacenters", "users", "roles",
                    "apikeys"})
              \cup (Crud({"discovery"}) \ {<<"discovery", "update">>})
              \cup {<<"audit", "list">>}),
       MakeRoles({"admin", "operator", "viewer"}), GrantAll("admin"),
       GrantNew("operator", Edits({"devices", "networks"})
              \cup Reads({"datacenters", "discovery"})
              \cup {<<"discovery", "create">>}),
       GrantNew("viewer",
                Reads({"devices", "networks", "datacenters", "discovery"})) >>
migrateAddRBACMissingPermissionsUp ==
    LET rs == {"pools", "credentials", "scan-profiles", "scheduled-scans",
               "relationships"}
        search == {<<"search", "read">>}
    IN << Permit(Crud(rs) \cup search), GrantAll("admin"),
          Grant("operator", Edits(rs) \cup search),
          Grant("viewer", Reads(rs) \cup search) >>
\* Mutant: the administrators created before roles existed are left without one.
migrateAssignRolesToExistingAdminsUpSkip == << >>
migrateAssignRolesToExistingAdminsUp == << AssignAdmins >>
migrateAddAPIKeyUserIDUp == << Add("api_keys", "user_id", {"users"}) >>
migrateAddOAuthTablesUp ==
    << Create("oauth_clients", {"users"}),
       Create("oauth_authorization_codes", {"oauth_clients", "users"}),
       Create("oauth_tokens", {"oauth_clients", "users"}) >>
migrateAddConflictsUp == << Create("conflicts", {}) >>
migrateAddConflictPermissionsUp ==
    Block({"conflicts"} \X {"list", "read", "resolve", "detect", "delete"},
          {"conflicts"} \X {"list", "read", "detect"}, Reads({"conflicts"}))
migrateAddReservationsUp == << Create("reservations", {"network_pools"}) >>
migrateAddReservationPermissionsUp ==
    Block(Crud({"reservations"}), Edits({"reservations"}), Reads({"reservations"}))
migrateAddDeviceStatusUp ==
    << Add("devices", "status", {}), Add("devices", "decommission_date", {}),
       Add("devices", "status_changed_at", {}),
       Add("devices", "status_changed_by", {}) >>
migrateAddUtilizationSnapshotsUp == << CreateNew("utilization_snapshots") >>
migrateAddDashboardPermissionsUp ==
    LET p == {<<"dashboard", "read">>} IN Block(p, p, p)
migrateAddWebhooksUp ==
    << Create("webhooks", {}), Create("webhook_deliveries", {"webhooks"}) >>
migrateAddWebhookPermissionsUp ==
    Block(Crud({"webhook"}), Reads({"webhook"}), Reads({"webhook"}))
migrateAddCustomFieldsUp ==
    << Create("custom_field_definitions", {}),
       Create("custom_field_values", {"devices", "custom_field_definitions"}) >>
migrateAddCustomFieldPermissionsUp ==
    Block(Crud({"custom-fields"}), Reads({"custom-fields"}), Reads({"custom-fields"}))
migrateAddCircuitsUp ==
    << Create("circuits", {"datacenters", "devices"}) >> \o
    Block(Crud({"circuits"}), Edits({"circuits"}), Reads({"circuits"}))
migrateAddNATMappingsUp ==
    << Create("nat_mappings", {"devices", "datacenters", "networks"}) >> \o
    Block(Crud({"nat"}), Edits({"nat"}), Reads({"nat"}))
migrateAddDNSTablesUp ==
    LET rs == {"dns-provider", "dns-zone", "dns"}
        syncs == {"dns-zone", "dns"} \X {"sync"}
        imports == {"dns-zone", "dns"} \X {"import"}
    IN << Create("dns_provider_configs", {}),
          Create("dns_zones", {"dns_provider_configs", "networks"}),
          Create("dns_records", {"dns_zones", "devices"}) >> \o
       Block(Crud(rs) \cup syncs \cup imports, Reads(rs) \cup syncs, Reads(rs))
migrateAddDNSProviderTestPermissionUp ==
    LET p == {<<"dns-provider", "test">>}
    IN << Permit(p), GrantNew("admin", p), GrantNew("operator", p),
          GrantNew("viewer", p) >>
migrateRenameWebhookResourceUp == << Rename("webhook", "webhooks") >>
migrateAddDNSRecordAddressIDUp == << Add("dns_records", "address_id", {"addresses"}) >>
migrateAddDiscoveryUpdatePermissionUp ==
    LET p == {<<"discovery", "update">>}
    IN << Permit(p), NeedRole("admin"), NeedRole("operator"),
          Grant("admin", p), Grant("operator", p) >>
migrateAddSessionsUp == << Create("sessions", {"users"}) >>
migrateAddSSHHostKeysUp == << Create("ssh_host_keys", {}) >>
migrateAddAuditAndLogsPermissionsUp ==
    LET audit == {"audit"} \X {"list", "read", "export"}
        logs == {"logs"} \X {"list", "read", "export"}
    IN << Permit((audit \ {<<"audit", "list">>}) \cup logs),
          Grant("admin", audit \cup logs),
          Grant("operator", Reads({"audit", "logs"})) >>

\* The ordered list of all migrations.
migrations ==
    << migrateInitialSchemaUp, migrateAddPoolTagsUp, migrateAddDeviceHostnameUp,
       migrateAddRelationshipNotesUp, migrateFTSUp, migrateAddAPIKeysUp,
       migrateAddAuditLogsUp, migrateAddAuditSourceUp, migrateAddUsersUp,
       migrateAddRBACUp, migrateAddRBACMissingPermissionsUp,
       migrateAssignRolesToExistingAdminsUp, migrateAddAPIKeyUserIDUp,
       migrateAddOAuthTablesUp, migrateAddConflictsUp,
       migrateAddConflictPermissionsUp, migrateAddReservationsUp,
       migrateAddReservationPermissionsUp, migrateAddDeviceStatusUp,
       migrateAddUtilizationSnapshotsUp, migrateAddDashboardPermissionsUp,
       migrateAddWebhooksUp, migrateAddWebhookPermissionsUp,
       migrateAddCustomFieldsUp, migrateAddCustomFieldPermissionsUp,
       migrateAddCircuitsUp, migrateAddNATMappingsUp, migrateAddDNSTablesUp,
       migrateAddDNSProviderTestPermissionUp, migrateRenameWebhookResourceUp,
       migrateAddDNSRecordAddressIDUp, migrateAddDiscoveryUpdatePermissionUp,
       migrateAddSessionsUp, migrateAddSSHHostKeysUp,
       migrateAddAuditAndLogsPermissionsUp >>

-----------------------------------------------------------------------------
(* Running them.                                                               *)

NoDB == [tables |-> {}, refs |-> {}, columns |-> {}, perms |-> {}, roles |-> {},
         grants |-> {}, admins |-> {}, holders |-> {}, ok |-> TRUE]

Init ==
    /\ db = NoDB /\ applied = {} /\ cut = {}
    /\ rel = Min(Releases)
    /\ pc = [p \in Procs |-> "off"]
    /\ left = [p \in Procs |-> {}]

Goto(p, s) == pc' = [pc EXCEPT ![p] = s]

\* A new release is installed while no process of the old one runs.
Install ==
    /\ \A p \in Procs : pc[p] \in {"off", "failed"}
    /\ \E r \in Releases : r > rel /\ rel' = r
    /\ UNCHANGED <<db, applied, pc, left, cut>>

\* A server opens the database.
NewSQLiteStorage(p) ==
    /\ pc[p] \in {"off", "failed"}
    /\ Goto(p, "run")
    /\ UNCHANGED <<db, applied, rel, left, cut>>

\* The versions that are not recorded.
GetMigrationStatus == 1..rel \ applied

\* `rackd migrate run` reads the status first and stops when nothing is pending.
\* From here on it does what a server does, up to Exit in "boot".
MigrateRun(p) ==
    /\ pc[p] \in {"off", "failed"}
    /\ "schema_migrations" \in db.tables
    /\ GetMigrationStatus # {}
    /\ Goto(p, "run")
    /\ UNCHANGED <<db, applied, rel, left, cut>>

\* createMigrationTable and getAppliedMigrations: what is pending is decided here.
RunMigrations(p) ==
    /\ pc[p] = "run"
    /\ db' = ExecContext(db, Create("schema_migrations", {}))
    /\ left' = [left EXCEPT ![p] = 1..rel \ applied]
    /\ Goto(p, "apply")
    /\ UNCHANGED <<applied, rel, cut>>

\* Mutant: what a failed migration did is kept, as without a transaction.
runMigrationNoTx(p) ==
    /\ pc[p] = "apply" /\ left[p] # {}
    /\ LET v == Min(left[p])
           d == Exec(db, migrations[v])
       IN IF d.ok /\ v \notin applied
          THEN /\ db' = d /\ applied' = applied \cup {v}
               /\ left' = [left EXCEPT ![p] = @ \ {v}] /\ UNCHANGED pc
          ELSE db' = [d EXCEPT !.ok = TRUE] /\ Goto(p, "failed") /\ UNCHANGED <<applied, left>>
    /\ UNCHANGED <<rel, cut>>

\* One migration and its version record, in one transaction; version is the
\* primary key of schema_migrations, so a second record of it fails.
runMigration(p) ==
    /\ pc[p] = "apply" /\ left[p] # {}
    /\ LET v == Min(left[p])
           d == Exec(db, migrations[v])
       IN IF d.ok /\ v \notin applied
          THEN /\ db' = d /\ applied' = applied \cup {v}
               /\ left' = [left EXCEPT ![p] = @ \ {v}] /\ UNCHANGED pc
          ELSE Goto(p, "failed") /\ UNCHANGED <<db, applied, left>>
    /\ UNCHANGED <<rel, cut>>

\* The list is done: a server goes on to the bootstrap.
Migrated(p) ==
    /\ pc[p] = "apply" /\ left[p] = {}
    /\ Goto(p, "boot")
    /\ UNCHANGED <<db, applied, rel, left, cut>>

\* UserCount: the bootstrap is only for a database without users.
BootstrapInitialAdmin(p) ==
    /\ pc[p] = "boot"
    /\ Goto(p, IF "users" \notin db.tables \/ db.admins # {} THEN "up" ELSE "insert")
    /\ UNCHANGED <<db, applied, rel, left, cut>>

\* CreateInitialAdmin: the user row, refused when the name is taken.
CreateInitialAdmin(p) ==
    /\ pc[p] = "insert"
    /\ IF Initial \in db.admins
       THEN Goto(p, "failed") /\ UNCHANGED db
       ELSE /\ db' = [db EXCEPT !.admins = @ \cup {Initial}]
            /\ Goto(p, IF "roles" \in db.tables THEN "assign" ELSE "up")
    /\ UNCHANGED <<applied, rel, left, cut>>

\* ... and, in a statement of its own, the admin role.
AssignInitialAdmin(p) ==
    /\ pc[p] = "assign"
    /\ db' = [db EXCEPT !.holders = @ \cup {Initial}]
    /\ Goto(p, "up")
    /\ UNCHANGED <<applied, rel, left, cut>>

\* An administrator created by a release that had users and no roles yet.
CreateUser(p, u) ==
    /\ pc[p] = "up" /\ "users" \in db.tables /\ "roles" \notin db.tables
    /\ db' = [db EXCEPT !.admins = @ \cup {u}]
    /\ UNCHANGED <<applied, rel, left, cut, pc>>

\* A process stops or dies; an open transaction is rolled back.
Exit(p) ==
    /\ pc[p] \notin {"off", "failed"}
    /\ Goto(p, "off")
    /\ left' = [left EXCEPT ![p] = {}]
    /\ cut' = IF pc[p] = "assign" THEN cut \cup {Initial} ELSE cut
    /\ UNCHANGED <<db, applied, rel>>

Next ==
    \/ Install
    \/ \E p \in Procs :
        \/ NewSQLiteStorage(p) \/ MigrateRun(p) \/ RunMigrations(p)
        \/ runMigration(p) \/ Migrated(p) \/ BootstrapInitialAdmin(p)
        \/ CreateInitialAdmin(p) \/ AssignInitialAdmin(p) \/ Exit(p)
        \/ \E u \in Users : CreateUser(p, u)

Spec == Init /\ [][Next]_vars

-----------------------------------------------------------------------------
(* Properties.                                                                 *)

\* The permissions the services ask for with requirePermission.
Required ==
    Crud({"circuits", "credentials", "custom-fields", "datacenters", "devices",
          "discovery", "dns", "dns-provider", "dns-zone", "nat", "networks", "pools",
          "relationships", "reservations", "roles", "scan-profiles",
          "scheduled-scans", "users", "webhooks"})
    \cup (Crud({"apikeys"}) \ {<<"apikeys", "update">>})
    \cup ({"audit", "logs"} \X {"list", "read", "export"})
    \cup ({"conflicts"} \X {"list", "read", "resolve", "detect", "delete"})
    \cup {<<"dashboard", "read">>, <<"dns", "sync">>, <<"dns-provider", "test">>,
          <<"dns-zone", "import">>, <<"dns-zone", "sync">>}

\* The statements of one kind of the recorded versions.
Ran(op) == {s \in UNION {Range(migrations[v]) : v \in applied} : s.op = op}

\* The recorded versions are a prefix of the list, and the tables, the added
\* columns, the foreign keys and the permissions are exactly those that their
\* statements make: a race, a crash, a failure or an upgrade skips no migration
\* and leaves nothing of one that is not recorded.
SchemaOfVersion ==
    LET made == Ran("create") \cup Ran("createNew")
        permitted == UNION {s.ps : s \in Ran("permit")}
    IN /\ applied = 1..Cardinality(applied)
       /\ db.tables \ {"schema_migrations"} = {s.t : s \in made}
       /\ db.columns = {<<s.t, s.c>> : s \in Ran("add")}
       /\ db.refs = UNION {{s.t} \X s.parents : s \in made \cup Ran("add")}
       /\ db.perms = {p \in permitted : \A s \in Ran("rename") : p[1] # s.from}
                      \cup {Renamed(q[1], q[2]) : q \in permitted \X Ran("rename")}

\* Once everything is applied, an administrator of any release can do whatever a
\* service asks for: each required permission is there, the admin role holds all
\* of them, and an administrator is without the role only while, or because, its
\* bootstrap was cut between its two inserts.
AdminsCanDoEverything ==
    applied = 1..Len(migrations) =>
        /\ Required \subseteq db.perms
        /\ \A p \in db.perms : <<"admin", p>> \in db.grants
        /\ db.admins \ db.holders \subseteq
               cut \cup {Initial : p \in {q \in Procs : pc[q] = "assign"}}

=============================================================================
