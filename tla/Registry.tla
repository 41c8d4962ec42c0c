------------------------------ MODULE Registry ------------------------------
(***************************************************************************)
(* The registry of tenants, roles, audience clients, memberships and direct *)
(* assignments (internal/repository), and the jobs that write it: the        *)
(* installation's bootstrap, its audience and broker reconciliation, the     *)
(* activation of a tenant's AI gateway and the administration API.           *)
(*                                                                         *)
(* A job is a program: the operations its service calls, in order.  One step *)
(* of a job is one command or one script of the store, so jobs interleave    *)
(* between any two commands, and a job may stop for good after any of them.  *)
(*                                                                         *)
(* A client record keeps its owner, its type, whether it has a secret, its   *)
(* status and its scopes.  An owned record is stored twice, under the client *)
(* and under the marker that protects it.                                    *)
(***************************************************************************)
EXTENDS Naturals, FiniteSets, Sequences, SequencesExt

CONSTANTS
  Users, Jobs, Brokers,   \* Brokers: audiences of workload account brokers
  Master,                 \* the MASTER tenant
  Workloads,              \* the other tenants
  ScopeNames,             \* the scopes of roles and clients
  Assignable,             \* those a tenant role may carry
  Attempts,               \* bound on the rounds of an optimistic write
  Absent,
  Deployments             \* the situations a behaviour may start in

ASSUME AttemptsPositive == Attempts \in Nat \ {0}

VARIABLES
  deployment,   \* the situation, chosen once
  tenant,       \* tenant -> created (the job that created it), name, status, retired
  role,         \* <<tenant, name>> -> permissions, or Absent
  client,       \* <<tenant, client>> -> record, or Absent
  marker,       \* <<tenant, client>> -> the owned record, or Absent
  assignment,   \* <<tenant, user>> -> version and roles, or Absent
  member,       \* <<tenant, user>> -> roles of the v2 membership, or Absent
  legacy,       \* <<tenant, user>> -> roles of the legacy membership, or Absent
  promised,     \* history: tenant -> scopes that writers of its Console ceiling reported
  job           \* job -> what is left of its program, and what it has read

clients == <<client, marker, promised>>
people == <<assignment, member, legacy>>
vars == <<deployment, tenant, role, clients, people, job>>

Tenants == Workloads \cup {Master}
Console == "code-admin-api"
AI == "ai-gateway"
RoleNames == {"ADMIN", "ai-admin", "ai-user", "base"}
ClientIds == {Console, AI} \cup Brokers

(* What the hashes hold, and what a deployment gives a job to do. *)
Scopes == SUBSET ScopeNames
TenantRecord == [created : Jobs \cup {Absent}, name : STRING, status : {"ACTIVE", "DISABLED"},
                 retired : BOOLEAN]
ClientRecord == [owner : {"none", "console", "ai", "broker"}, type : {"SERVICE", "PUBLIC"},
                 secret : BOOLEAN, status : {"ACTIVE", "INACTIVE"}, scopes : Scopes]
Assigned == [version : Nat, roles : SUBSET RoleNames]
Task == [kind : STRING, tenant : Tenants, user : Users, name : STRING, role : RoleNames,
         scopes : Scopes, previous : {Absent} \cup Scopes, client : Brokers,
         roles : SUBSET RoleNames, bare : BOOLEAN]

ASSUME RegistryNames ==
  /\ Master \notin Workloads /\ IsFiniteSet(Workloads) /\ {Console, AI} \cap Brokers = {}
  /\ Absent \notin TenantRecord \cup ClientRecord \cup Assigned
  /\ \A s \in Scopes \cup SUBSET RoleNames : s # Absent

----------------------------------------------------------------------------
(* Records *)

(* The credential-free records that an installation writes. *)
Owned(owner, scopes) ==
  [owner |-> owner, type |-> "SERVICE", secret |-> FALSE, status |-> "ACTIVE", scopes |-> scopes]
Unowned(type, scopes) == [Owned("none", scopes) EXCEPT !.type = type]
(* ClientService.Create always stores a secret. *)
WithSecret(scopes) == [Unowned("SERVICE", scopes) EXCEPT !.secret = TRUE]

(* IsBootstrapLegacyAudience *)
BootstrapHome(record) ==
  record # Absent /\ record = Unowned("PUBLIC", record.scopes)

(* decodeLegacyManagedAudienceClient and adoptableLegacyManagedAudienceClient *)
Adoptable(record, desired) ==
  /\ desired.owner = "console" /\ record = Unowned("SERVICE", record.scopes)
  /\ record.scopes \subseteq desired.scopes

ManagedConsole(record) == record # Absent /\ record.owner = "console"

(* The AI gateway's records (AIGatewayRoleDefinitions and its neighbours). *)
CeilingScopes == {"ai:read", "ai:write"}
AdminPermissions == {"ai:read", "ai:write", "invoke"}
UserPermissions == {"ai:read", "invoke"}
AIClient == Owned("ai", {"invoke"})

(* exactRoleDefinition *)
Exact(permissions) == permissions # Absent /\ permissions \subseteq Assignable

(* An installation starts with no owned client that has a secret, and with   *)
(* an AI audience only where its roles are.                                  *)
ASSUME DedicatedScopes == {CeilingScopes, AdminPermissions, UserPermissions} \subseteq Scopes
ASSUME RegistryDeployments ==
  \A d \in Deployments :
    /\ d.tenant \in [Tenants -> TenantRecord \cup {Absent}]
    /\ d.role \in [Tenants \X RoleNames -> {Absent} \cup Scopes]
    /\ d.client \in [Tenants \X ClientIds -> ClientRecord \cup {Absent}]
    /\ d.legacy \in [Tenants \X Users -> {Absent} \cup SUBSET RoleNames]
    /\ d.plan \in [Jobs -> Task]
    /\ \A k \in Tenants \X ClientIds :
         d.client[k] # Absent /\ d.client[k].owner # "none" => ~d.client[k].secret
    /\ \A t \in Tenants :
         d.client[<<t, AI>>] # Absent =>
           /\ d.role[<<t, "ai-admin">>] = AdminPermissions
           /\ d.role[<<t, "ai-user">>] = UserPermissions

Running(t) == tenant[t] # Absent /\ tenant[t].status = "ACTIVE"

----------------------------------------------------------------------------
(* Programs: the operations a service performs, in order *)

Op(op, t) == [op |-> op, tenant |-> t]
Ensure(t, c, record) == [op |-> "ensure", tenant |-> t, client |-> c, record |-> record]
EnsureRole(t, r, p) ==
  [op |-> "ensureRole", tenant |-> t, role |-> r, permissions |-> p, previous |-> Absent]

(* raiseConsoleCeiling, assignAdministrator *)
RaiseConsoleCeiling(t) == [op |-> "raise", tenant |-> t, scopes |-> CeilingScopes]
AssignAdministrator(p) == [op |-> "addRole", tenant |-> p.tenant, user |-> p.user]

(* aiGatewayIdentityService.Ensure *)
Activate(p) ==
  << Op("active", p.tenant), RaiseConsoleCeiling(p.tenant),
     EnsureRole(p.tenant, "ai-admin", AdminPermissions),
     EnsureRole(p.tenant, "ai-user", UserPermissions),
     AssignAdministrator(p), Ensure(p.tenant, AI, AIClient) >>

(* aiGatewayIdentityService.Deactivate: a disabled tenant may deactivate. *)
Deactivate(p) == << Op("known", p.tenant), Op("deactivate", p.tenant) >>

(* Mutant: the assignment is written before the role it names. *)
EagerBootstrap(p) ==
  << [op |-> "upsertTenant", tenant |-> p.tenant, name |-> p.name],
     [op |-> "assign", tenant |-> p.tenant, user |-> p.user, roles |-> {"ADMIN"}, bare |-> TRUE],
     [op |-> "putRole", tenant |-> p.tenant, role |-> "ADMIN", permissions |-> p.scopes],
     [op |-> "upsertClient", tenant |-> p.tenant, record |-> Unowned("PUBLIC", p.scopes)],
     [op |-> "audiences", only |-> FALSE, scopes |-> p.scopes] >>

(* bootstrap, then the audiences of every tenant (main). *)
Bootstrap(p) ==
  << [op |-> "upsertTenant", tenant |-> p.tenant, name |-> p.name],
     [op |-> "putRole", tenant |-> p.tenant, role |-> "ADMIN", permissions |-> p.scopes],
     [op |-> "assign", tenant |-> p.tenant, user |-> p.user, roles |-> {"ADMIN"}, bare |-> TRUE],
     [op |-> "upsertClient", tenant |-> p.tenant, record |-> Unowned("PUBLIC", p.scopes)],
     [op |-> "audiences", only |-> FALSE, scopes |-> p.scopes] >>

(* bootstrapExistingUserMasterAccess *)
Recover(p) ==
  << [op |-> "create", tenant |-> Master, name |-> p.name, active |-> TRUE],
     EnsureRole(Master, "ADMIN", p.scopes \cap Assignable),
     Ensure(Master, Console, Owned("console", p.scopes)) >>
  \o (IF p.tenant = Master THEN <<>>
      ELSE << Op("active", p.tenant), [op |-> "home", tenant |-> p.tenant, scopes |-> p.scopes] >>)
  \o << [op |-> "assign", tenant |-> Master, user |-> p.user, roles |-> {"ADMIN"}, bare |-> TRUE],
        [op |-> "audiences", only |-> FALSE, scopes |-> p.scopes] >>

(* workloadaccount.Reconcile, for one broker: base role and audience; a role  *)
(* found in its declared previous definition is migrated last (ReadRole).    *)
Reconcile(p) ==
  << [op |-> "brokerTenant", tenant |-> p.tenant],
     [EnsureRole(p.tenant, "base", p.scopes) EXCEPT !.previous = p.previous],
     Ensure(p.tenant, p.client, Owned("broker", p.scopes)) >>

(* The administration API. *)
CreateWithID(p) == << [op |-> "create", tenant |-> p.tenant, name |-> p.name, active |-> FALSE] >>
Retire(p) == << Op("retire", p.tenant) >>
CreateWithName(p) == << EnsureRole(p.tenant, p.role, p.scopes) >>
EnsureCodeAdminAudience(p) ==
  << Op("active", p.tenant), Ensure(p.tenant, Console, Owned("console", p.scopes)) >>
PutAssignment(p) ==
  << Op("active", p.tenant), [op |-> "roles", tenant |-> p.tenant, roles |-> p.roles],
     [op |-> "assign", tenant |-> p.tenant, user |-> p.user, roles |-> p.roles, bare |-> p.bare] >>
EnsureMembership(p) ==
  << Op("active", p.tenant), [op |-> "roles", tenant |-> p.tenant, roles |-> p.roles],
     [op |-> "member", tenant |-> p.tenant, user |-> p.user, roles |-> p.roles] >>

Program(p) ==
  CASE p.kind = "activate" -> Activate(p)
    [] p.kind = "deactivate" -> Deactivate(p)
    [] p.kind = "bootstrap" -> Bootstrap(p)
    [] p.kind = "recover" -> Recover(p)
    [] p.kind = "audiences" -> << [op |-> "audiences", only |-> TRUE, scopes |-> p.scopes] >>
    [] p.kind = "broker" -> Reconcile(p)
    [] p.kind = "create" -> CreateWithID(p)
    [] p.kind = "retire" -> Retire(p)
    [] p.kind = "role" -> CreateWithName(p)
    [] p.kind = "ensure" -> EnsureCodeAdminAudience(p)
    [] p.kind = "client" ->
         << [op |-> "createClient", tenant |-> p.tenant, record |-> WithSecret(p.scopes)] >>
    [] p.kind = "assign" -> PutAssignment(p)
    [] p.kind = "unassign" -> << [op |-> "unassign", tenant |-> p.tenant, user |-> p.user] >>
    [] p.kind = "member" -> EnsureMembership(p)
    [] p.kind \in {"addLegacy", "dropLegacy"} ->
         << [op |-> p.kind, tenant |-> p.tenant, user |-> p.user, roles |-> p.roles] >>
    [] OTHER -> <<>>

----------------------------------------------------------------------------
(* A job at its current operation *)

Fresh(todo) == [pc |-> "run", todo |-> todo, tries |-> 0, seen |-> Absent, to |-> Absent]

RegistryInit ==
  /\ deployment \in Deployments
  /\ tenant = deployment.tenant /\ role = deployment.role
  /\ client = deployment.client
  /\ marker = [tc \in Tenants \X ClientIds |->
                 IF client[tc] # Absent /\ client[tc].owner # "none" THEN client[tc] ELSE Absent]
  /\ assignment = [tu \in Tenants \X Users |-> Absent]
  /\ member = [tu \in Tenants \X Users |-> Absent]
  /\ legacy = deployment.legacy
  /\ promised = [t \in Tenants |-> IF client[<<t, Console>>] = Absent THEN {}
                                   ELSE client[<<t, Console>>].scopes]
  /\ job = [j \in Jobs |-> Fresh(Program(deployment.plan[j]))]

Doing(j, op, pc) == job[j].todo # <<>> /\ Head(job[j].todo).op = op /\ job[j].pc = pc
This(j) == Head(job[j].todo)

Proceed(j) == job' = [job EXCEPT ![j] = Fresh(Tail(@.todo))]
Fail(j) == job' = [job EXCEPT ![j] = [Fresh(<<>>) EXCEPT !.pc = "failed"]]
Check(j, ok) == IF ok THEN Proceed(j) ELSE Fail(j)
Hold(j, pc, seen, to) ==
  job' = [job EXCEPT ![j].pc = pc, ![j].seen = seen, ![j].to = to]
(* Another round of an optimistic write, or the conflict is reported. *)
Again(j) ==
  IF job[j].tries + 1 < Attempts
  THEN job' = [job EXCEPT ![j] = [Fresh(@.todo) EXCEPT !.tries = job[j].tries + 1]]
  ELSE Fail(j)

OnlyJobs == UNCHANGED <<deployment, tenant, role, clients, people>>

----------------------------------------------------------------------------
(* Tenants (tenant_repository.go) *)

(* A decision on the tenant's record: activeTenant, the existence check of   *)
(* Deactivate, and the tenant of a broker, which is left out once retired.   *)
CheckTenant(j) ==
  /\ \/ /\ Doing(j, "active", "run") /\ Check(j, Running(This(j).tenant))
     \/ /\ Doing(j, "known", "run")
        /\ Check(j, tenant[This(j).tenant] # Absent /\ ~tenant[This(j).tenant].retired)
     \/ /\ Doing(j, "brokerTenant", "run")
        /\ LET t == tenant[This(j).tenant] IN
           IF t # Absent /\ t.retired THEN job' = [job EXCEPT ![j] = Fresh(<<>>)]
           ELSE Check(j, Running(This(j).tenant))
  /\ OnlyJobs

(* tenantRepo.CreateIfAbsent: HSETNX, then a read of what is there. *)
CreateTenant(j) ==
  /\ Doing(j, "create", "run")
  /\ LET t == This(j).tenant IN
     IF tenant[t] = Absent
     THEN /\ tenant' = [tenant EXCEPT ![t] = [created |-> j, name |-> This(j).name,
                                              status |-> "ACTIVE", retired |-> FALSE]]
          /\ Proceed(j)
     ELSE UNCHANGED tenant /\ Hold(j, "read", Absent, Absent)
  /\ UNCHANGED <<deployment, role, clients, people>>

ReadTenant(j) ==
  /\ Doing(j, "create", "read")
  /\ LET t == tenant[This(j).tenant] IN
     Check(j, /\ ~t.retired /\ t.name = This(j).name
              /\ This(j).active => t.status = "ACTIVE")
  /\ OnlyJobs

(* Mutant: the bootstrap enables its tenant, retired or not. *)
ReviveTenant(j) ==
  /\ Doing(j, "upsertTenant", "run")
  /\ LET t == tenant[This(j).tenant] IN
     Hold(j, "commit", tenant,
          [created |-> IF t = Absent THEN j ELSE t.created, name |-> This(j).name,
           status |-> "ACTIVE", retired |-> FALSE])
  /\ OnlyJobs

(* tenantRepo.Create under WATCH: the creation time and a disabled status    *)
(* are those of the record that is there; a retired one is a conflict.       *)
WatchTenant(j) ==
  /\ Doing(j, "upsertTenant", "run")
  /\ LET t == tenant[This(j).tenant] IN
     IF t # Absent /\ t.retired THEN Fail(j)
     ELSE Hold(j, "commit", tenant,
               [created |-> IF t = Absent THEN j ELSE t.created, name |-> This(j).name,
                status |-> IF t = Absent THEN "ACTIVE" ELSE t.status, retired |-> FALSE])
  /\ OnlyJobs

(* tenantRepo.Retire under WATCH: the record stays and reserves the id. *)
WatchRetire(j) ==
  /\ Doing(j, "retire", "run")
  /\ LET t == tenant[This(j).tenant] IN
     IF This(j).tenant = Master THEN Fail(j)
     ELSE IF t = Absent \/ t.retired THEN Proceed(j)
     ELSE Hold(j, "commit", tenant, [t EXCEPT !.status = "DISABLED", !.retired = TRUE])
  /\ OnlyJobs

(* EXEC fails when any field of the hash was written since WATCH. *)
CommitTenant(j) ==
  /\ Doing(j, "upsertTenant", "commit") \/ Doing(j, "retire", "commit")
  /\ IF tenant = job[j].seen
     THEN tenant' = [tenant EXCEPT ![This(j).tenant] = job[j].to] /\ Proceed(j)
     ELSE UNCHANGED tenant /\ Again(j)
  /\ UNCHANGED <<deployment, role, clients, people>>

----------------------------------------------------------------------------
(* Roles (role_repository.go) *)

SetRole(j) ==
  /\ role' = [role EXCEPT ![<<This(j).tenant, This(j).role>>] = This(j).permissions]
  /\ UNCHANGED <<deployment, tenant, clients, people>>

(* roleRepo.Create, of the bootstrap's ADMIN role only *)
PutRole(j) == Doing(j, "putRole", "run") /\ SetRole(j) /\ Proceed(j)

(* roleRepo.CreateIfAbsent: HSETNX, then an exact read. *)
CreateRole(j) ==
  /\ Doing(j, "ensureRole", "run")
  /\ IF ~Exact(This(j).permissions) THEN Fail(j) /\ OnlyJobs
     ELSE IF role[<<This(j).tenant, This(j).role>>] = Absent THEN SetRole(j) /\ Proceed(j)
     ELSE Hold(j, "read", Absent, Absent) /\ OnlyJobs

(* The stored definition is the desired one, or a broker's previous one,     *)
(* which the broker's reconciliation then ends by migrating.                 *)
ReadRole(j) ==
  /\ Doing(j, "ensureRole", "read")
  /\ LET stored == role[<<This(j).tenant, This(j).role>>] IN
     IF Exact(stored) /\ stored = This(j).previous /\ stored # This(j).permissions
     THEN job' = [job EXCEPT ![j] =
                    Fresh(Tail(@.todo) \o <<[This(j) EXCEPT !.op = "migrateRole"]>>)]
     ELSE Check(j, Exact(stored) /\ stored = This(j).permissions)
  /\ OnlyJobs

(* roleRepo.ReplaceExact: a read, a compare-and-set, and when either finds   *)
(* another definition a last read, which accepts the desired one.            *)
WatchRole(j) ==
  /\ Doing(j, "migrateRole", "run")
  /\ LET stored == role[<<This(j).tenant, This(j).role>>] IN
     IF stored = This(j).previous THEN Hold(j, "commit", stored, Absent)
     ELSE Check(j, stored = This(j).permissions)
  /\ OnlyJobs

CommitRole(j) ==
  /\ Doing(j, "migrateRole", "commit")
  /\ LET stored == role[<<This(j).tenant, This(j).role>>] IN
     IF stored = job[j].seen THEN SetRole(j) /\ Proceed(j)
     ELSE Check(j, stored = This(j).permissions) /\ OnlyJobs

(* GetManyExact: every role that is to be held has an exact definition. *)
CheckRoles(j) ==
  /\ Doing(j, "roles", "run")
  /\ Check(j, \A r \in This(j).roles : Exact(role[<<This(j).tenant, r>>]))
  /\ OnlyJobs

----------------------------------------------------------------------------
(* Clients (client_repository.go, client_audience_scopes.go) *)

Key(j) == <<This(j).tenant, IF This(j).op = "ensure" THEN This(j).client
                            ELSE IF This(j).op = "deactivate" THEN AI ELSE Console>>

(* A corrupt pair: every read reports it and nothing repairs it. *)
Corrupt(k) ==
  \/ marker[k] # Absent /\ marker[k] # client[k]
  \/ marker[k] = Absent /\ client[k] # Absent /\ client[k].owner # "none"

(* The record and, when it is owned, its marker, in one script. *)
Store(k, record, promise) ==
  /\ client' = [client EXCEPT ![k] = record]
  /\ marker' = IF record.owner = "none" THEN marker ELSE [marker EXCEPT ![k] = record]
  /\ promised' = IF k[2] = Console THEN [promised EXCEPT ![k[1]] = promise] ELSE promised

OnlyClients == UNCHANGED <<deployment, tenant, role, people>>

(* managedClientEnsureScript: created, existing, or a shadow to adopt. *)
EnsureManagedAudience(j) ==
  /\ Doing(j, "ensure", "run")
  /\ LET k == Key(j)  desired == This(j).record IN
     \/ /\ client[k] = Absent /\ marker[k] = Absent
        /\ Store(k, desired, desired.scopes) /\ OnlyClients /\ Proceed(j)
     \/ /\ client[k] # Absent /\ marker[k] = Absent
        /\ IF Adoptable(client[k], desired) THEN Hold(j, "swap", client[k], desired) ELSE Fail(j)
        /\ OnlyJobs
     \/ /\ marker[k] # Absent
        /\ IF marker[k] # client[k] \/ marker[k].owner # desired.owner THEN Fail(j)
           ELSE IF client[k] = desired THEN Proceed(j)
           ELSE Hold(j, "swap", client[k], desired)
        /\ OnlyJobs

(* SetManagedAudienceStatus: nothing is created. *)
DeactivateAudience(j) ==
  /\ Doing(j, "deactivate", "run")
  /\ LET k == Key(j) IN
     IF client[k] = Absent /\ marker[k] = Absent THEN Proceed(j)
     ELSE IF Corrupt(k) \/ marker[k] = Absent THEN Fail(j)
     ELSE IF client[k].status = "INACTIVE" THEN Proceed(j)
     ELSE Hold(j, "swap", client[k], [client[k] EXCEPT !.status = "INACTIVE"])
  /\ OnlyJobs

(* RaiseManagedCodeAdminAudienceScopes: the managed record grows, *)
RaiseCeiling(j) ==
  /\ Doing(j, "raise", "run") /\ (Corrupt(Key(j)) \/ ~BootstrapHome(client[Key(j)]))
  /\ LET current == client[Key(j)] IN
     IF Corrupt(Key(j)) \/ ~ManagedConsole(current) THEN Fail(j)
     ELSE IF This(j).scopes \subseteq current.scopes THEN Proceed(j)
     ELSE Hold(j, "swap", current, [current EXCEPT !.scopes = @ \cup This(j).scopes])
  /\ OnlyJobs

(* or the legacy home audience, which keeps its own shape                    *)
(* (raiseBootstrapLegacyCodeAdminAudience).                                  *)
RaiseLegacyHome(j) ==
  /\ Doing(j, "raise", "run") /\ ~Corrupt(Key(j)) /\ BootstrapHome(client[Key(j)])
  /\ LET current == client[Key(j)] IN
     IF This(j).scopes \subseteq current.scopes THEN Proceed(j)
     ELSE Hold(j, "swap", current, [current EXCEPT !.scopes = @ \cup This(j).scopes])
  /\ OnlyJobs

(* reconcileManagedCodeAdminAudiences with audiencesOnly, for one tenant: a  *)
(* read and one conditional write, of what is owned already.                 *)
ReadAudience(j) ==
  /\ Doing(j, "rescope", "run")
  /\ LET k == Key(j)  current == client[k] IN
     IF Corrupt(k) THEN Fail(j)
     ELSE IF ManagedConsole(current) \/ (k[1] = Master /\ BootstrapHome(current))
     THEN Hold(j, "swap", current, [current EXCEPT !.scopes = This(j).scopes])
     ELSE Proceed(j)
  /\ OnlyJobs

(* The same without audiencesOnly: a legacy home audience is left alone.     *)
ReadOwner(j) ==
  /\ Doing(j, "converge", "run")
  /\ LET k == Key(j) IN
     IF Corrupt(k) THEN Fail(j)
     ELSE IF BootstrapHome(client[k]) THEN Proceed(j)
     ELSE job' = [job EXCEPT ![j] =
                    Fresh(<<Ensure(k[1], Console, Owned("console", This(j).scopes))>> \o Tail(@.todo))]
  /\ OnlyJobs

(* What a swap of the Console ceiling promises: a raise adds to it. *)
Promise(j) ==
  IF This(j).op = "raise" THEN promised[This(j).tenant] \cup This(j).scopes ELSE job[j].to.scopes

(* Mutant: the write does not compare what it replaces. *)
SwapBlindly(j) ==
  /\ \E op \in {"ensure", "deactivate", "raise", "rescope"} : Doing(j, op, "swap")
  /\ Store(Key(j), job[j].to, Promise(j)) /\ Proceed(j) /\ OnlyClients

(* The compare-and-set scripts: the record is the one that was read, and so  *)
(* is its marker; only rescope gives up at once.                             *)
SwapClient(j) ==
  /\ \E op \in {"ensure", "deactivate", "raise", "rescope"} : Doing(j, op, "swap")
  /\ LET k == Key(j)  seen == job[j].seen IN
     IF client[k] = seen /\ marker[k] = (IF seen.owner = "none" THEN Absent ELSE seen)
     THEN Store(k, job[j].to, Promise(j)) /\ Proceed(j) /\ OnlyClients
     ELSE (IF This(j).op = "rescope" THEN Fail(j) ELSE Again(j)) /\ OnlyJobs

(* Mutant: the bootstrap's audience replaces an owned one. *)
OverwriteClient(j) ==
  /\ Doing(j, "upsertClient", "run")
  /\ Store(Key(j), This(j).record, This(j).record.scopes) /\ OnlyClients /\ Proceed(j)

(* UpsertBootstrap replaces whatever is not owned. *)
UpsertBootstrap(j) ==
  /\ Doing(j, "upsertClient", "run")
  /\ LET k == Key(j) IN
     IF marker[k] # Absent THEN Fail(j) /\ OnlyJobs
     ELSE Store(k, This(j).record, This(j).record.scopes) /\ OnlyClients /\ Proceed(j)

(* clientRepo.Create: once, beside nothing. *)
CreateClient(j) ==
  /\ Doing(j, "createClient", "run")
  /\ LET k == Key(j) IN
     IF marker[k] # Absent \/ client[k] # Absent THEN Fail(j) /\ OnlyJobs
     ELSE Store(k, This(j).record, This(j).record.scopes) /\ OnlyClients /\ Proceed(j)

(* reconcileExistingUserHomeAudience: a managed audience is ensured, a       *)
(* legacy one within the declared scopes is written anew and read back.      *)
ReadHome(j) ==
  /\ Doing(j, "home", "run")
  /\ LET k == Key(j)  record == Unowned("PUBLIC", This(j).scopes)
         instead(ops) == job' = [job EXCEPT ![j] = Fresh(ops \o Tail(@.todo))] IN
     IF Corrupt(k) THEN Fail(j)
     ELSE IF ManagedConsole(client[k])
     THEN instead(<<Ensure(k[1], Console, Owned("console", This(j).scopes))>>)
     ELSE IF client[k] = Absent
             \/ (BootstrapHome(client[k]) /\ client[k].scopes \subseteq This(j).scopes)
     THEN instead(<<[op |-> "upsertClient", tenant |-> k[1], record |-> record],
                    [op |-> "verify", tenant |-> k[1], record |-> record]>>)
     ELSE Fail(j)
  /\ OnlyJobs

VerifyHome(j) ==
  /\ Doing(j, "verify", "run")
  /\ Check(j, ~Corrupt(Key(j)) /\ client[Key(j)] = This(j).record)
  /\ OnlyJobs

(* tenantRepo.List: one read of the whole hash, MASTER first; what follows   *)
(* works from the list.                                                      *)
ListTenants(j) ==
  /\ Doing(j, "audiences", "run")
  /\ LET due(t) == Running(t) /\ (t = Master => This(j).only)
         listed == (IF due(Master) THEN <<Master>> ELSE <<>>)
                     \o SetToSeq({t \in Workloads : due(t)})
         step(t) == [op |-> IF This(j).only THEN "rescope" ELSE "converge", tenant |-> t,
                     scopes |-> This(j).scopes] IN
     IF tenant[Master] = Absent THEN Fail(j)
     ELSE job' = [job EXCEPT ![j] =
                    Fresh([i \in DOMAIN listed |-> step(listed[i])] \o Tail(@.todo))]
  /\ OnlyJobs

----------------------------------------------------------------------------
(* Assignments and memberships *)

SetAssignment(k, roles) ==
  /\ assignment' = [assignment EXCEPT ![k] =
       [version |-> IF @ = Absent THEN 1 ELSE @.version + 1, roles |-> roles]]
  /\ UNCHANGED <<deployment, tenant, role, clients, member, legacy>>

Person(j) == <<This(j).tenant, This(j).user>>

(* PutAccessAssignment, with an If-Match that matches or without one (bare):  *)
(* it creates, finds the same roles, or replaces others, the last only with. *)
PutAccessAssignment(j) ==
  /\ Doing(j, "assign", "run")
  /\ LET current == assignment[Person(j)] IN
     IF current = Absent \/ (current.roles # This(j).roles /\ ~This(j).bare)
     THEN SetAssignment(Person(j), This(j).roles) /\ Proceed(j)
     ELSE Check(j, current.roles = This(j).roles) /\ OnlyJobs

DeleteAccessAssignment(j) ==
  /\ Doing(j, "unassign", "run")
  /\ assignment' = [assignment EXCEPT ![Person(j)] = Absent]
  /\ Proceed(j)
  /\ UNCHANGED <<deployment, tenant, role, clients, member, legacy>>

(* AddExactUserRole: the tenant, the definition, the assignment and the      *)
(* write under the version that was read, tried anew after a conflict.       *)
CheckDependencies(j) ==
  /\ \/ /\ Doing(j, "addRole", "run")
        /\ IF Running(This(j).tenant) THEN Hold(j, "definition", Absent, Absent) ELSE Fail(j)
     \/ /\ Doing(j, "addRole", "definition")
        /\ IF role[<<This(j).tenant, "ai-admin">>] = AdminPermissions
           THEN Hold(j, "current", Absent, Absent) ELSE Fail(j)
     \/ /\ Doing(j, "addRole", "current")
        /\ LET current == assignment[Person(j)] IN
           IF current # Absent /\ "ai-admin" \in current.roles THEN Proceed(j)
           ELSE Hold(j, "write", current, Absent)
  /\ OnlyJobs

AddExactUserRole(j) ==
  /\ Doing(j, "addRole", "write")
  /\ LET current == assignment[Person(j)] IN
     IF current = job[j].seen
     THEN /\ SetAssignment(Person(j), {"ai-admin"} \cup
                             (IF current = Absent THEN {} ELSE current.roles))
          /\ Proceed(j)
     ELSE Again(j) /\ OnlyJobs

(* membershipV2Repo.Ensure: one script; the record never changes again. *)
EnsureMember(j) ==
  /\ Doing(j, "member", "run")
  /\ LET k == Person(j) IN
     IF member[k] = Absent /\ legacy[k] = Absent
     THEN /\ member' = [member EXCEPT ![k] = This(j).roles]
          /\ legacy' = [legacy EXCEPT ![k] = This(j).roles]
          /\ Proceed(j)
     ELSE UNCHANGED <<member, legacy>> /\ Check(j, member[k] = This(j).roles)
  /\ UNCHANGED <<deployment, tenant, role, clients, assignment>>

(* membershipRepo.Create and Delete: never beside a v2 membership. *)
WriteLegacy(j) ==
  /\ \E op \in {"addLegacy", "dropLegacy"} : Doing(j, op, "run")
  /\ IF member[Person(j)] # Absent THEN UNCHANGED legacy /\ Fail(j)
     ELSE /\ legacy' = [legacy EXCEPT ![Person(j)] =
                          IF This(j).op = "addLegacy" THEN This(j).roles ELSE Absent]
          /\ Proceed(j)
  /\ UNCHANGED <<deployment, tenant, role, clients, assignment, member>>

----------------------------------------------------------------------------
(* A command fails, or its reply is lost: the job ends where it is. *)
Stop(j) == deployment.faults /\ job[j].todo # <<>> /\ Fail(j) /\ OnlyJobs

Step(j) ==
  \/ CheckTenant(j) \/ CreateTenant(j) \/ ReadTenant(j)
  \/ WatchTenant(j) \/ WatchRetire(j) \/ CommitTenant(j)
  \/ PutRole(j) \/ CreateRole(j) \/ ReadRole(j) \/ WatchRole(j) \/ CommitRole(j) \/ CheckRoles(j)
  \/ EnsureManagedAudience(j) \/ DeactivateAudience(j) \/ RaiseCeiling(j) \/ RaiseLegacyHome(j)
  \/ ReadAudience(j) \/ ReadOwner(j) \/ SwapClient(j)
  \/ UpsertBootstrap(j) \/ CreateClient(j) \/ ReadHome(j) \/ VerifyHome(j) \/ ListTenants(j)
  \/ PutAccessAssignment(j) \/ DeleteAccessAssignment(j)
  \/ CheckDependencies(j) \/ AddExactUserRole(j) \/ EnsureMember(j) \/ WriteLegacy(j)

RegistryNext == \E j \in Jobs : Step(j) \/ Stop(j)

Spec == RegistryInit /\ [][RegistryNext]_vars

----------------------------------------------------------------------------
(* No order of bootstraps, recoveries, adoptions, raises and creations       *)
(* separates an owned client from its marker, which every read would report  *)
(* as corruption that nothing repairs; nor a v2 membership from its legacy   *)
(* copy, which older readers use (managedClientGetScript,                    *)
(* membershipV2EnsureScript).                                                *)
OwnedRecordsPaired ==
  /\ \A k \in Tenants \X ClientIds : ~Corrupt(k)
  /\ \A k \in Tenants \X Users : member[k] # Absent => legacy[k] = member[k]

(* What is once decided stands, whatever is replayed meanwhile.  A tenant's  *)
(* creation time, the epoch of every lease on it, never changes; a disabled  *)
(* tenant is not enabled by a bootstrap that declares it active, and a       *)
(* retired one stays as it is (tenantRepo.Create, CreateIfAbsent, Retire).   *)
(* An owned client is never handed to another owner, one with a secret is    *)
(* never adopted, raised or replaced except by the bootstrap's own upsert,   *)
(* and a v2 membership is immutable, to these jobs: only the deletion of its  *)
(* account removes one (AccountBroker!Erase).                                *)
RecordsKeepStanding ==
  [][/\ \A t \in Tenants : tenant[t] # Absent =>
          /\ tenant'[t] # Absent /\ tenant'[t].created = tenant[t].created
          /\ tenant[t].status = "DISABLED" => tenant'[t].status = "DISABLED"
          /\ tenant[t].retired => tenant'[t] = tenant[t]
     /\ \A k \in Tenants \X ClientIds :
          /\ marker[k] # Absent => marker'[k] # Absent /\ marker'[k].owner = marker[k].owner
          /\ client[k] # Absent /\ client[k].secret =>
               client'[k] = client[k] \/ BootstrapHome(client'[k])
     /\ \A k \in Tenants \X Users : member[k] # Absent => member'[k] = member[k]]_vars

(* No writer of a tenant's Console ceiling loses what another one reported:  *)
(* the ceiling holds the scopes of the last declaration and of every raise   *)
(* since (RaiseManagedCodeAdminAudienceScopes beside                         *)
(* ReconcileCodeAdminAudienceScopes, EnsureManagedAudience and bootstraps).  *)
NoReportedScopeLost ==
  \A t \in Tenants : client[<<t, Console>>] # Absent =>
    promised[t] \subseteq client[<<t, Console>>].scopes

(* A tenant whose AI audience is ACTIVE has both dedicated roles, exactly as *)
(* the server defines them, wherever an activation stopped and whatever      *)
(* deactivations and role writes ran beside it: the client is written last   *)
(* (aiGatewayIdentityService.Ensure).                                        *)
ActiveAudienceHasRoles ==
  \A t \in Tenants :
    client[<<t, AI>>] # Absent /\ client[<<t, AI>>].status = "ACTIVE" =>
      role[<<t, "ai-admin">>] = AdminPermissions /\ role[<<t, "ai-user">>] = UserPermissions

(* Roles are checked some commands before an assignment or a membership      *)
(* names them; every role that is held still has a definition                *)
(* (PutAssignment, AddExactUserRole, membershipV2WriteService.Ensure).       *)
HeldRolesDefined ==
  \A k \in Tenants \X Users :
    \A r \in (IF assignment[k] = Absent THEN {} ELSE assignment[k].roles)
               \cup (IF member[k] = Absent THEN {} ELSE member[k]) :
      role[<<k[1], r>>] # Absent

(* A role is defined before anything relies on it: an audience that is       *)
(* active, an assignment or a membership.                                    *)
RolesBeforeUse == ActiveAudienceHasRoles /\ HeldRolesDefined
=============================================================================
