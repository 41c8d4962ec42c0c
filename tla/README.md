# Formal models of tikti

tikti is an identity service: HTTP servers, any number of replicas, that keep
accounts, groups, access assignments, tenants, SAML trust and short-lived codes
in one Redis, and mint tokens from what they read there. There is no state in a
replica that outlives a request apart from caches, so correctness is a question
of what the requests of all replicas, the startup migration and the bootstrap
job do to Redis together. This directory models that: TLA+ modules, the TLC
runs that check them on small instances, and TLAPS proofs.

Paths are relative to `src/`. IDR is
`internal/repository/identity_directory_repository.go`, UR is
`internal/repository/user_repository.go`.

## Inventory

| Component | State | Operations | What is hard | Correct when |
|---|---|---|---|---|
| Password accounts (`IDR`, `UR`, `directory_user_deletion.go`, `subject_oob_repository.go`, `services/user_service.go`, `services/identity_directory_service.go`) | `users_v2` hash, `userByEmail:` aliases, email order index, `oob:` codes | create, status, revoke, update, reset by code, sign-in by code, temporary password, self-delete, admin delete | every service operation reads, decides, then writes in an optimistic transaction; several replicas; commands outlive their HTTP request | indexes agree with records, no update lost, ended sessions stay ended, deletions act on what was authorised |
| Groups and access (`IDR`, `services/identity_directory_exact_role.go`) | groups hash, name keys, order index, members and their reverse sets, assignments and theirs | create, patch, delete group; add, remove member; put, delete assignment; add one role; effective roles | each relation is stored twice; name reservation is not part of the transaction; readers use many commands | both copies agree, no grant outlives its principal, ETags identify contents, reads return what was held |
| Startup migration (`IDR` Backfill, `user_legacy_import.go`, `cmd/tikti-bootstrap`) | marker, lease, legacy hashes | migrate, renew, complete, import, reconcile | replicas start together, crash, lose the lease without noticing; a job writes meanwhile | the marker means everything is projected; nothing removed comes back; every replica serves in the end |
| Federated principals (`UR` UpsertFromSAML) | federated hash, SAML subject aliases | upsert at login, role refresh, revoke | login races logout and role change | one account per external subject, roles never older than the last assertion |
| SAML (`internal/saml`) | requests, replay marks, session indexes, IdP trust records, domains, key pair | login, ACS, SLO, logout, admin CRUD, metadata refresh, key reload | single use, replay window, partial failure after issue, refresh against administration | one login per request and assertion, sessions can be found for logout, administration wins |
| Native codes (`internal/nativeauth`, `internal/nativepolicy`, `services/native_saml.go`) | requests and codes with expiry, audit stream | authorize, resume, consent, token, bearer validation | read, check and consume are separate commands; authority is read key by key | single redemption, the token says what the user consented to, on authority that still held |
| Tenants, roles, clients (`internal/repository`) | tenants hash, retired fence, roles, clients, managed markers | create, retire, reconcile, replace, adopt | compare-and-set next to blind writes | retired tenants stay retired, managed clients keep owner and value together |
| Memberships (`membership_repository.go`, `membership_v2_repository.go`) | legacy and guarded membership hashes, reverse sets | ensure, read, delete | two copies, read-only after the cutover | copies agree |
| Workload identity (`internal/workloadidentity`, workload binding repository, `services/workload_identity_service.go`) | bindings, JWKS cache | upsert, revoke, exchange, key refresh | refresh under the mutex, throttled misses, two reads per decision | withdrawn keys and revoked bindings mint nothing, every request is answered |
| CodeQ binding exchange (`internal/codeqbinding`) | sliding windows and slots per replica | exchange | bounded table, callbacks that take long | limits hold in every window, no token outlives the one presented |
| Storage STS (`internal/storagests`) | none; the bucket's objects | exchange, list, presign, delete | a delete is repeated after a lost answer | the answer is true, nothing but the listed version is removed |
| Account broker (`services/workload_account_bff_service.go`) | accounts, assignments | register, session, delete | replays race each other and administrators | a replay never replaces roles granted elsewhere |
| Token exchange, forward auth (`services/user_service.go`, `services/tenant_scoped_token.go`) | none | exchange, validate | reads many keys, then signs | every scope was justified at some moment of the request; validation and issue agree |
| Managed logs, AI gateway identities (`services`) | composes tenants, roles, clients, assignments | activate, deactivate, exchange, validate | several steps, each may fail; callbacks | roles before audiences, withdrawal wins over a late answer |
| Authentication limiter (`IDR` 106-137) | counters with TTL | allow | counter without TTL after a failure | a blocked subject is unblocked |
| Controllers, CLI, configuration, offline migration | none | - | - | not modelled: parsing, formatting, static settings |

**Interaction.** Controllers call services; a command runs on its own goroutine
with a background context (`controllers/async_runner.go` 12-24), so a client that
goes away stops nothing. Services validate a bearer and read records through
the repositories; repositories are the only writers of Redis. Three forms of
write occur: Lua scripts (atomic), `WATCH` + `MULTI/EXEC` in a loop of
`directoryMaximumRetries`, and pipelines without `WATCH`. Replicas interact only
through Redis. The bootstrap job is a separate process using the same
repositories.

## Modules

| Module | Models | Extends |
|---|---|---|
| `Accounts` | password accounts | |
| `MCAccounts` | small instances of it | `Accounts` |
| `AccountsProofs` | inductive invariant and theorems | `Accounts`, `TLAPS` |
| `AccessGraph` | groups, members, assignments, effective roles, the graph part of user deletion | |
| `MCAccessGraph` | small instances | `AccessGraph` |
| `AccessGraphProofs` | inductive invariant and theorems | `AccessGraph`, `TLAPS` |
| `Migration` | Backfill, lease, marker, legacy import, bootstrap job | |
| `MCMigration` | small instances | `Migration` |
| `MigrationProofs` | inductive invariant and theorems | `Migration`, `TLAPS` |
| `SamlTrust` | identity-provider trust records: administration and metadata refresh | |
| `SamlSessions` | SAML login, ACS, federated principals, session indexes, logout, composed with the trust store | `SamlTrust` |
| `MCSaml` | small instances of both | `SamlSessions` |
| `SamlProofs` | inductive invariants of the trust store, of callbacks and of sessions, and theorems | `SamlSessions`, `TLAPS` |
| `Ticket` | abstract specification of a store of one-time records | |
| `Authority` | what every token decision re-reads: accounts, tenants, roles, definitions, audience clients, and the edits of each | |
| `NativeCodes` | authorization codes of native applications; instantiates `Ticket` | `Authority` |
| `MCNative` | small instances | `NativeCodes` |
| `NativeProofs` | inductive invariant, refinement of `Ticket`, theorems | `NativeCodes`, `TLAPS` |
| `AccessTokens` | token exchange and bearer validation of human principals | `Authority` |
| `MCTokens` | small instances | `AccessTokens` |
| `TokensProofs` | inductive invariant and theorems | `AccessTokens`, `TLAPS` |
| `Registry` | tenants, roles, clients, memberships, assignments and the jobs that write them | |
| `MCRegistry` | small instances | `Registry` |
| `RegistryProofs` | inductive invariant and theorems | `Registry`, `TLAPS` |
| `ProjectedTokens` | workload requests and the verification of projected tokens | |
| `WorkloadExchange` | limiter, slots, callbacks, exchanges, bindings | `ProjectedTokens` |
| `ObjectStorage` | storage broker and administration of objects | `WorkloadExchange` |
| `AccountBroker` | registrations, sessions and deletions through a workload | `ObjectStorage` |
| `Workload` | the four composed, with fairness | `AccountBroker` |
| `MCWorkload` | small instances | `Workload` |
| `WorkloadProofs` | inductive invariant and theorems | `Workload`, `TLAPS` |

### Conventions

*Redis.* One command, one script and one `MULTI/EXEC` block is one step; anything
may happen between two steps of a request. `WATCH` is modelled as Redis does it:
`Watching(c)` is the set of keys request `c` watches, a write (`Touch`) marks every
other connection watching one of the written keys dirty, and `EXEC` of a dirty
connection does nothing (`ExecFails`), after which the loop reads everything again
(`Again`) until `MaxRetries`. The reads after a `WATCH` are one step with it: if
anything they read changes, `EXEC` fails, so a split adds no committed outcome.
Operators that are watched sets have their own name because the choice of keys is
what those operations rest on.

*Requests.* `call[p]` is the local state of handler `p`: the operation, where it
is, and the records it read. A handler is one goroutine of any replica.

*Data.* An id, an address, a role or a code is a model value; a password is the
number of passwords the account has had; a record keeps the fields that some
guard or property reads. JSON encoding, hashing and JWT signing are left out.
uuids never repeat (`issued`).

*Mutants.* A definition preceded by a comment "Mutant: ..." is a faulty variant of
the definition after it. It is used by no specification: putting it in the place
of the real one must make the named property fail, which shows that the property
depends on that piece of the code.

### Accounts

| State | Code |
|---|---|
| `users`, `emailIndex`, `orderIndex` | `users_v2`, `userByEmail:<email>`, `identity:v2:directory:users:email` |
| `oob` | subject-bound codes of `subject_oob_repository.go` |
| `call`, `dirty` | requests and their WATCH |
| `tempUses`, `deletedBy` | history, read by properties only |
| `deployment` | the situation the behaviour started from |

`CreateDirectoryUser` is one script. `SetStatus`, `RevokeTokens`,
`RevokeIDTokenSubject`, `UpdateUser` and the reset by code read the account and
build the record to store; `ObserveUser`, `WatchUser` and `UpdateDirectoryUser`
are the three steps of the repository's loop (the read that chooses the keys to
watch, the reads behind WATCH with the revision check, EXEC). Only
`IncrementTokenVersionByID` repeats the whole operation on a version conflict
(`Conflict`). `SendOob`/`SaveSubjectOobCode`, `ConsumeSubjectOobCode`/
`ResolveOobSubject` are codes; `ChangeTemporaryPassword`, `WatchTemporary`,
`ConsumeTemporaryPassword` the temporary password; `DeleteUser`, `ResolveAlias`,
`WatchSelfDelete`, `DeleteByEmail` the self-deletion; `DeleteDirectoryUser`,
`WatchAdminDelete`, `ApplyDeletion` the administrative one. `Crash` ends a request
at any step.

### AccessGraph

| State | Code |
|---|---|
| `accounts` | presence in `users_v2` |
| `groups`, `nameOwner`, `order` | groups hash, name keys, order index |
| `members`, `userGroups` | the two sides of membership |
| `assignments`, `principalTenants` | the two sides of access |
| `window` | history: what happened during a read or an AddExactUserRole |
| `deployment` | the situation the behaviour started from |

Each write has a "Watch..." action (WATCH, reads, early returns) and a commit
action named after the method. `CreateGroup` has no WATCH: `ReserveName` (SETNX),
`CreateGroup` (pipeline), `CreateGroupFails` with `UndoName` (the error path, with
the pipeline applied or not). With the fault `lostReply` the reply to the SETNX may be lost
too, which ends the request, and the DEL of `UndoName` may fail. `ReadUser` ... `Answer` are the commands of
`GetEffectiveTenantRoles` one by one. Who may delete a user, and which revision, is
`Accounts`; what a deletion does to the graph is here.

### Migration

`Start`, `CheckMarker`, `Acquire`, `Recheck` are the head of `Backfill`; `ScanV2`,
`ScanLegacy`, `CheckAlias`, `WriteUser`, `UsersDone` are `backfillUsers`;
`ScanMemberships`, `CheckPair`, `PutPair`, `PairsDone` are `backfillAssignments`;
`Complete` is the completion script and `Refuses` every error return with the
deferred release. `Renew` and `RenewFails` are the renewal goroutine; `Expire` the
lease's TTL. `EditUser`, `DeleteUser`, `EditAssignment`, `RevokeAssignment` stand for
administration once some replica serves. `BootFinds`, `BootWatches`,
`BootImports`, `BootUpdates`, `BootAssigns` are the bootstrap job, up to its unconditional
`PutAccessAssignment` of ADMIN (`BootRole`).

### SamlTrust and SamlSessions

| State | Code |
|---|---|
| `idp` | `saml:idp:<tenant>` trust records |
| `refresh` | the refresher goroutine of each replica: its list, the record at hand, what it fetched |
| `pending`, `seen` | `saml:req:`, `saml:seen:` |
| `principal`, `users` | `samlSubject:<tenant>:<NameID>`, `saml_users_v2` |
| `bySubject`, `byName` | the two `saml:idx:` keys of a session |
| `audit` | the durable records of `RedisAuditEmitter` (intent, accept, reject) per callback |
| `browser` | state, session and SLO cookies |
| `acs`, `slo` | the handlers in flight: where they are and what they read |
| `published`, `active` | the provider's metadata, the tenants that are ACTIVE (external) |
| `sent`, `lapsed`, `decided`, `changes`, `sessions` | history, read by properties (and as bounds) only |

`SamlTrust`: `AdminPut`, `AdminDelete` are `AdminService`; `RefreshTick`,
`RefreshFetch`, `RefreshSwap` are `tick` and `refreshOne`, with `StillListed` the
condition of the compare-and-swap script; `RefreshLost` an error or a restart.

`SamlSessions`: `StartLogin` is `Login`. A callback is the chain `PostResponse`
(`RepostResponse` when the state cookie was left out), `ConsumeRequest`,
`CheckTenant`, `ValidateResponse`, `MarkSeen`, `AuditIntent`; then `Issue`:
`FindSubject`, `UpdateSubject` (retry on conflict), `CreateSubject`, `LoadSubject`,
`Elevate`; then `ValidateSession`, `PutSessionIndexes`, `AuditAccept`, or
`AuditUnavailable` and `RollBack`. `AbortCallback` is every error exit and a stopped
replica. Logout is `StartLogout`; `SloGet` and `SloPost` are the two ends of
`/saml/slo` up to the revocation, which `RevokeRead`, `RevokeWrite`, `DeleteIndexes`
and `AbortLogout` finish for both.

Abstractions. The reads before a handler's first write in `Login`, `Logout` and
`/saml/slo` are one step. XML and signature checks are one question, whether the
message's key is the one in the stored metadata; any other failing check ends as in
`AbortCallback`. There are no clocks: a request, a replay mark or a pair of indexes
may expire at any moment, and tokens do not expire. `LastFetched` is left out of the
trust record, so the swap succeeds in more states than in the code. E-mail addresses
are left out: a platform administrator is recognised by its NameID. A federated
user is never deleted or disabled here. The session cookie's `tid` is compared with
the path of `/saml/logout/{tid}` by construction.

### Authority, NativeCodes and AccessTokens

A decision of these two modules (a consent, a redemption, an exchange, a validation)
makes several reads, each a step; `Authority` holds the keys they read and the edits of
the administration API that may fall in between. `known` of a handler is history: the
facts that held at some moment since its decision began. Properties compare the outcome
with it: a decision need not be a snapshot, but may rest only on facts that held while
it was taken.

`NativeCodes`: `Authorize` and `OpenRequest` are `authorize`; `Resume` and the reads up to
`ShowConsent` are `resume`; `ReadRequest`, `CheckForm`, `RecordIntent`, `ConsumeRequest`,
`CreateCode`, `Answer` are `consent`; `ReadCode` ... `ConsumeCode`, `SignToken` are `token`;
`Present` ... `Accept` the validation of a native bearer. `Put`, `Readable`, `Delete`,
`Consumable` are the store's commands. `Expire` and `LoseReply` are Redis. Requests and
codes implement `Ticket`: `live` is the store, `ended` what was drawn and is not in it, `taker` whose command removed it (`GrantsAreTickets`).

`AccessTokens`: the reads a decision has still to make are a queue (`todo`), each with the
rule for a missing answer; `OpeningReads` and `ValidationReads` are the queues of the
four modes of `TokenExchange` and of `ValidateAccessToken`, and some reads add others
(`ListTargets`, `Discover` with `LoopReads`, `Definitions`; the definitions of one tenant's roles
are one entry that is read role by role, in any order). `Sign` and `Conclude` compute the
answer from what was read. The plan of a handler names mode, session, target, request
and ceiling. Lists of tenants are sorted (`InOrder`, with `TenantOrder` for the order of the
ids), which decides the home of a user of the directory. Lifetimes, rate limit, size limits of discovery and event types are left out. A validation
knows a federated bearer by the home its token names (`FederatedHome`); every federated user has
one, because the sign-in that creates it sets it (an assumption of `TokenDeployments`).
What may justify a scope is stated apart from how the code arrives at it: a role that
counts there (`CountsIn`: one that is held, and in the plain exchange the stored role too)
and is defined so, the generated administrator role, the home authority. A validation
accepts every signed scope of a bearer with the platform's own authority (`PlatformBearer`).

### Registry

A job's `todo` is the program of a service: the operations it calls on the repositories, in
order. Each operation is one action, or two where the repository reads and then
compares (`WatchTenant`/`CommitTenant`, `WatchRole`/`CommitRole`, `EnsureManagedAudience` or
`RaiseCeiling` or `ReadAudience` followed by `SwapClient`), repeated up to `Attempts` times.
A client is stored under its id and, when it is owned, again under its marker;
`promised` is history, the scopes a writer of the Console ceiling has reported.
`PutAccessAssignment` has an If-Match that matches or none (`bare`): without one it creates, or
finds the same roles, and refuses to replace others. The reconciliation of a broker ends by
migrating its role only if the role was found in its previous definition (`ReadRole`). That a
v2 membership never changes (`RecordsKeepStanding`) is claimed of these jobs; the deletion of an
account, which removes them, is `AccountBroker`'s.
`Stop` ends a job anywhere. Creation times are the name of the job that created the
tenant, since only their identity matters.

### Workload and the modules it composes

A request is a program again (`ExchangeProgram`, `StorageProgram`, `BrokerProgram`), here with
a clock: `Tick` never passes the deadline of a key fetch, because the HTTP client's
timeout ends it. `fetch` is the verifier's mutex and the request that holds it while it
fetches. A callback to another service (`AskBinding`, `AskLogs`, `AskAI`, `AskStorage`,
`AskAdmin`) may be answered, refused or fail. A binding record that cannot be read ends a legacy
exchange (`Unread`) rather than passing for an absent one; the unscoped record of a subject
without a cluster is read like that of one whose cluster has no record. An access token of the AI
gateway is validated along the path of its kind: a user's against account and roles
(`ValidateAIAccessToken`), a workload's by signature, expiry and the authority alone
(`ValidateAIWorkloadToken`). The limiter's table (`Allow`,
`EvictExpired`) keeps, per identity, which request was admitted when: a request passes its
limiter once, so the set counts what the code's list of times counts. Table and slots
(`TakeSlot`, `ReleaseSlot`) are per service. `object` is the
key of the object store that the requests are about; `ChangeObject` and `DropBucket` are
its other clients. `account` and its roles belong to the account broker, beside an
administrator (`GrantRole`); its `CreateUser` may fail with the account created or not.

*Programs with lifetimes.* One unit of the clock stands for the shortest lifetime the
code tells apart. Expiries are computed as in the code: from the token presented, the
authority's lease, the configured lifetime, and rejected below the minimum.

## Runs

| Run | Checks | Bounds | Result |
|---|---|---|---|
| `accounts` | `IndexConsistent`, `NoLostUpdate`, `DeadSessionsStayDead`, `ResetServesProof`, `TemporaryPasswordOnce`, `NoMutualDeletion`, `DeletionStillAuthorised` | 3 accounts, 3 addresses, 2 codes, 2 handlers, revisions to 2, 2 attempts | holds |
| `accounts_self_delete` | `SelfDeleteRemovesSubject` | the deployment `Leavers` | violated |
| `access` | `DirectoryConsistent` (types, both sides of memberships and assignments, names, refused names, member limit), `QuietReadExact`, `GroupETagAdvances`, `StandingChangeNotOverwritten` | 3 users, 2 groups, 2 names in 3 spellings, 2 roles, 2 handlers, versions to 3, 2 attempts | holds |
| `access_exact_role` | `ConcurrentChangeNotOverwritten` | the deployment `RoleAdding` | violated |
| `migration` | `ProjectionExact` (the marker means projected, guarded roles win unless the bootstrap job came first, one migrator, ambiguity rejected), `NothingResurrected`, `CurrentNeverOverwritten`, `EveryReplicaServes` under fairness | 1 or 2 replicas, 3 accounts, 2 faults | holds |
| `migration_revocation` | `RevocationStands` | 2 replicas, no fault | violated |
| `saml` | `AdministratorWins`, `RefreshNeverRegresses`, `UsedOnce`, `AuditComplete`, `SessionsReachable`, `RoleChangesRevoke`, `RevokedStaysRevoked` | 2 tenants, 2 replicas, 2 browsers, 2 logins, 2 assertions, 2 callbacks, 2 logouts, 2 rotations, 2 administrator changes, 2 attempts | holds |
| `native` | `ConsentHonoured`, `DecisionsRestOnCurrentAuthority`, `GrantsAreTickets` | 5 handlers, 2 requests, 2 codes, 2 applications, a clock of 4, one or two edits | holds |
| `tokens` | `TokenScopesJustified`, `AcceptanceIsCurrent`, `FreshTokensAccepted` | one exchange and one validation, 5 kinds of principal in 4 modes, 3 tenants, one or two edits (withdrawn and narrowed roles), failing reads, a client without scopes | holds |
| `tokens_logs_request` | `PlatformLogsRequested` | as `tokens` | violated |
| `registry` | `OwnedRecordsPaired`, `NoReportedScopeLost`, `RolesBeforeUse`, `RecordsKeepStanding` | MASTER and one tenant, 2 users, 3 jobs, 2 attempts | holds |
| `workload` | `WithdrawnKeysExpire`, `WithdrawalWins`, `TokensWithinLifetimes`, `LegacyGrantsCurrent`, `AdmissionControl`, `DeleteAnswersTrue`, `ReplayKeepsRoles`, `CallsAnswer` under fairness | 3 requests, 2 keys, 2 Pods, 2 versions of an object, a clock of up to 4 | holds |

**Deployments.** A run starts from one of several situations, chosen in `Init` and
kept in a variable no step changes (`deployment`, in `Migration` `input`): which
accounts exist, which uuids were used up before (so that a situation can do
with fewer objects than the constants name), and which operations clients
invoke. The MC modules define them: `Writers`, `CodeHolders`, `Newcomers`, `Deleters`,
`Leavers` for accounts; `Naming`, `Joining`, `Assigning`, `Failing`, `Reading` for the
access graph; legacy-only and mixed data with one or two replicas, with and
without the bootstrap job (also with a membership that gives its administrator another role), stalls and a duplicate address for the migration;
`Refreshing`, `Rotating`, `Replaying`, `Creating`, `LoggingOut`, `Elevating`, `Lowering`,
`SharedIssuer` for SAML; the sets at the end of `MCNative`, `MCTokens`, `MCRegistry` and
`MCWorkload` (there `world`) for the others.
This keeps every combination of operations that meet on a key within reach
without exploring all operations at once. Properties that hold only under a
condition on the deployment name it (one migrator: no stalls; names in the directory: no
lost reply; refused names: neither crash nor lost reply (`Reliable`); `NothingResurrected` and
`CurrentNeverOverwritten`: one replica, no bootstrap job; the completeness half of
`AuditComplete`: no failed command; `FreshTokensAccepted`: not the plain exchange, not the
strict one with a client without scopes, and the log scope of federated administrators only at
their home and with the platform scope, which is how a token says so: `Comparable`).

**Why these bounds are enough.** Every property is about two requests (or two
replicas) that meet on one key, or about a request and what happened since its
first read, so two handlers with one or two objects of each kind reach the
conflicts; a third party only repeats the effect of the second. Two retries
reach both the loop's repetition and its end; versions up to 2 or 3 allow a
read, a change by someone else, and a change of one's own. The member limit is 1
in `Joining` so that it is reached. Two faults let both replicas of a migration
die. In `tokens` the edits are few because one edit between two reads is what a stale
decision needs; in `registry` three jobs let one write between the read and the write of
another that a third one made possible; in `workload` the clock runs just past every
lifetime that a scenario is about. Between them the runs fire every action. Where there are proofs
they remove the bounds altogether.

**Deadlock** is not checked: handlers may all be idle with every bound reached, and
serving replicas have nothing left to do, and every callback and logout message of a
SAML run ends. The same is true of handlers, jobs and workload requests, which are all
served once; that they are served is `CallsAnswer`.

**Symmetry** is over handlers (for SAML, of callbacks), replicas, groups, roles and codes, which no
definition tells apart; runs with a liveness property use none.

**Fairness.** `FairSpec` assumes that a replica that can take its next step takes
it, that a pod that exited is started again (the deployment's restart policy),
and that Redis expires a lease whose owner is gone. No fairness is assumed of
administrators, the bootstrap job, renewals or faults, and the number of faults
is finite. `Workload`'s `Spec` assumes weak fairness of every request's handler: a goroutine
that can run runs, calls of other services end because every HTTP client has a timeout, and a Go
mutex does not starve a waiter for ever. Nothing is assumed of the clock, the issuer or the
administrators. All other properties are safety and need none.

### What the violated runs show

* `accounts_self_delete`: the token of a subject is validated, the subject is
  renamed, someone else takes the address, and `DeleteByEmail` of the old address
  removes that other account (`services/user_service.go` 1333).
* `access_exact_role`: an assignment deleted and re-created starts at version 1
  again (IDR 1044), so an old ETag matches it. `StandingChangeNotOverwritten`
  is the part of the promise that does hold.
* `migration_revocation`: two replicas and no fault suffice for a second
  migration after the cutover (IDR 1366-1393 looks at the marker again only when
  SETNX fails). `NothingResurrected` shows that with one replica at a time the
  boundary does hold.

* `tokens_logs_request`: discovery version 2 without requested scopes, at the
  principal's own tenant and under a ceiling that holds it, signs
  `code-admin:logs:platform:read` (`managed_logs_platform_read.go` 37), where the ADR asks
  for an explicit request. That the principal has the platform authority is part of
  `TokenScopesJustified`, which holds.

### Known limitations

Behaviours met while modelling that a condition of a property excludes, or that
no property claims:

* A death between SETNX and the pipeline of `CreateGroup`, a lost reply to the SETNX
  and a failed DEL of the compensation each leave a name that is refused for ever,
  though no group owns it (IDR 650-663); that part of `DirectoryConsistent`
  (`RefusedNameIsOwned`) excludes crashes and lost replies.
* The compensation in `CreateGroup` deletes the name key even if the pipeline had
  been applied and only its reply was lost, and a second group takes the name
  (IDR 662-663); `NamesIndexed` excludes lost replies.
* `GetEffectiveTenantRoles` (IDR 1275) reads the user's groups first and their
  assignments later: a role given to a group after the user has left it is
  returned. `QuietReadExact` claims reads that nothing overlaps.
* `backfillUsers` writes without WATCH over an account the bootstrap job imported
  and updated meanwhile (IDR 1532); `CurrentNeverOverwritten` excludes the job.
* The job assigns ADMIN to its administrator without waiting for the migration, which
  takes any assignment it finds for projected: if the job comes first, a guarded
  membership with other roles is not projected (`bootstrap.go` 135-138). `ProjectionExact` names this
  exception.
* An assignment is written after tenant and roles were read
  (`services/identity_directory_service.go` 275-303): the tenant may be retired, or a role
  redefined, in between. `RolesBeforeUse` asks only that the roles are defined. Such an
  assignment conveys nothing by itself, since every exchange and validation reads tenant and
  definitions again (`TokenScopesJustified`, `AcceptanceIsCurrent`).
* A sign-in that loses the race to create a principal, or that meets
  `directoryMaximumRetries` conflicts, issues a token for the stored record without
  applying the role it was asserted (UR 548-553). `RoleChangesRevoke` shows the
  token at least has the role that is stored.
* A logout or a roll-back deletes the session indexes by key, so it may remove those
  of a concurrent sign-in of the same principal, both at once (`http_slo.go` 92,
  `http_acs.go` 174).
* A second sign-in of a principal replaces its indexes: the provider's logout of the
  first SessionIndex is then refused (`http_slo.go` 151) while that session lives.
* One state cookie per browser: a sign-in in a second tab makes the answer to the
  first fail (`cookies.go` 110), and the answer to one clears the other's cookie.

* Nothing bounds how many groups a user joins, nor the tenants a principal is assigned
  in, while deletions and readers fail above 500 (IDR 970).
* A client without default scopes limits nothing in the plain and in the strict exchange
  (`user_service.go` 427), but a validation finds no canonical scopes in it and refuses every token
  they sign for it (777). `FreshTokensAccepted` does not compare these. For users without
  a home the plain exchange also ignores undefined roles, which validation refuses. It does not look at the status of the target tenant, and counts a
  failing list of tenants as an empty one (`user_service.go` 376-411, 1202-1211).
* A federated platform administrator's token with the log scope is refused by validation
  unless it also carries the platform scope at the home tenant.
* The scopes shown on the native consent page are not part of its CSRF value; the
  identity's fingerprint is, and the code carries what was approved.
* The recovery of MASTER reads a home audience and upserts it without comparing
  (`bootstrap.go` 255-276): a raise in between is overwritten, and the recovery's own
  scopes become the declaration. `UpsertBootstrap` still refuses an owned record.
* `Register` of the account broker deletes the account it created when the assignment
  fails, also when a replay has reported the account meanwhile
  (`workload_account_bff_service.go` 179-181). As the application wires it, `Register`
  writes an assignment and no membership, so the routed deletion refuses accounts
  registered this way, and a deletion leaves direct assignments behind. A `CreateUser` whose
  reply is lost leaves an account without an assignment until a replay.
* Topic and legacy workload tokens are not bounded by the expiry of the token
  presented; `TokensWithinLifetimes` claims the other exchanges. Binding and log
  exchanges do not read the tenant again after the callback; `WithdrawalWins` claims the
  AI gateway's.
* Nothing enables a tenant again and nothing deletes a role definition; the membership
  writers of `Registry` are not wired into the application.

## Proofs

Eight modules prove theorems for every value of the constants: any number of accounts,
groups, handlers, replicas, requests, codes, jobs, keys, limits and clock bounds, and every deployment the
assumptions admit. Each has the same shape: an inductive invariant that says, per handler
or replica, what it has read and why that still matters; `Init` implies it; one lemma per
action that the step keeps it; lemmas that a step of one handler does not disturb what
another relies on; and the listed theorems as consequences. TLC checked the
strengthened invariants on the instances of the runs before they were proved.

### Accounts (`AccountsProofs`)

Assumptions: `NullAssumption` (the null values are none of the real ones),
`BoundAssumption` (at least one attempt), `SeedAssumption` (the administrators of one
deployment have distinct addresses).

| Theorem | States |
|---|---|
| `TypeCorrect` | `Spec => []TypeOK` |
| `IndexCorrect` | `Spec => []IndexConsistent` |
| `UpdatesNotLost` | `Spec => []NoLostUpdate` |
| `ResetsServeProof` | `Spec => []ResetServesProof` |
| `DeletionsAuthorised` | `Spec => []DeletionStillAuthorised` |
| `MutualDeletionImpossible` | `Spec => []NoMutualDeletion` |
| `SessionsStayDead` | `Spec => DeadSessionsStayDead` |
| `TemporaryPasswordsOnce` | `Spec => []TemporaryPasswordOnce` |

None of these is inductive by itself: what a transaction may do at EXEC depends on
what it read several steps earlier. The inductive invariant `Inv` adds, per
request, that the record it read is either still stored, or was deleted for good,
or was replaced by one with a higher revision (`ReadFact`, which needs that every
write advances the revision and that uids are not reused); and that a request at
its EXEC whose connection is not dirty still finds everything it read behind
WATCH (`WatchedFact`). `StoreStep` is the heart: a write of the users hash
disturbs every other request at its EXEC, advances a revision, and keeps the
indexes; `LocalStep` covers all steps that write nothing. `NextSessions` derives
from `Inv` that no step restores a token version, which gives the action property.
`TemporaryHistory` links the count of exchanges with the flag in the record: an account
whose temporary password was exchanged no longer requires a change, and nothing sets
the flag again.

### Access graph (`AccessGraphProofs`)

Assumptions: `AccessAssumption` (null values, users and groups are disjoint, `Lower` maps
names to keys, bounds are naturals) and `DeploymentAssumption`.

| Theorem | States |
|---|---|
| `DirectoryInvariant` | `Spec => []DirectoryInv` |
| `DirectoryStaysConsistent` | `Spec => []DirectoryConsistent` |
| `GroupETagsAdvance` | `Spec => GroupETagAdvances` |
| `AddsKeepOrder` | `Spec => []AddsInOrder` |
| `StandingChangesNotOverwritten` | `Spec => StandingChangeNotOverwritten` |
| `ReadersCollect` | `Spec => []ReadsExact` |
| `QuietReadsExact` | `Spec => []QuietReadExact` |

`DirectoryInv` joins the parts of `DirectoryConsistent` with the optimistic-locking
argument: a request at its EXEC whose connection is clean finds under the keys it watches
what it read (`Fresh`), so each commit computes both copies of a relation from one state.
Names need a second argument, because their reservation is outside the transaction: a
reserved name belongs to a group or to exactly one request on its way through
`CreateGroup` (`Reserving`). `AddsInOrder` says that an assignment which was not deleted
since `AddExactUserRole` read it has a version at least the one read, with equality
only if it did not change. `ReadsExact` is the loop invariant of
`GetEffectiveTenantRoles`: what has been collected are the roles of the part of the graph
read so far, as long as nothing moved.

### Migration (`MigrationProofs`)

Assumption: `MigrationAssumption` (every account has an address, the job's account and role are
ones of them, null values).

| Theorem | States |
|---|---|
| `MigrationInvariant` | `Spec => []MigrationInv` |
| `ProjectionIsExact` | `Spec => []ProjectionExact` |
| `NothingComesBack` | `Spec => []NothingResurrected` |
| `CurrentStays` | `Spec => CurrentNeverOverwritten` |

The lease is not what makes the projection right: a replica that lost it without
noticing still writes. `MigrationInv` shows what does. Before the marker nothing is removed
(`NothingRemoved`: no replica serves, so nobody administers), hence what one
replica has found or written (`Done`, part of `Sound`) still stands when another or
the same one completes; and two accounts with one address stop every replica at its scan
(`Unclaimed`). `Alone` adds, for one replica without the job, that it works on nothing
once the marker is set and writes over an account only what it found there. The proof
showed that an earlier form of `ProjectionExact` was too strong: when two accounts claim one
address the bootstrap job may still import its own administrator, because it looks at one
account only. The property says so now, and the run has a deployment where it happens.

### SAML (`SamlProofs`)

Assumptions: `AbsentAssumption`, `BoundsAssumption`, `SamlIdentifiers` (the null value is
none of the records, at least one tenant) and `SamlDeployments` (a deployment's logins,
messages and seed are of their types).

| Theorem | States |
|---|---|
| `TrustInvariant` | `Spec => []TrustInv` |
| `AdministratorAlwaysWins` | `Spec => []AdministratorWins` |
| `MetadataNeverRegresses` | `Spec => RefreshNeverRegresses` |
| `CallbackInvariant` | `Spec => []CallbackInv` |
| `RequestsAndAssertionsUsedOnce` | `Spec => []UsedOnce` |
| `AuditIsComplete` | `Spec => []AuditComplete` |
| `SessionsInvariant` | `Spec => []SessionsInv` |
| `RolesChangeWithVersions` | `Spec => []RoleChangesRevoke` |
| `RevocationIsFinal` | `Spec => RevokedStaysRevoked` |
| `LogoutReachesSessions` | `Spec => []SessionsReachable` |

`TrustInv` strengthens `AdministratorWins` with what a refresher in flight holds: the
record it listed has a generation the administrator had used and metadata the
provider had published, and what it fetched is no older than that record. A swap
that succeeds therefore replaces the very record it was computed from by newer
metadata under the same generation. `SessionsKeepTrust` shows that no sign-in or
logout step touches the trust store.

`CallbackInv` says what a callback has taken by the step it is at: from `ConsumeRequest` on
its request is pending for nobody, from `MarkSeen` on its assertion is marked or the mark
has expired, and its audit records are those of the steps it has passed.
`SessionsInv` has three layers. `DirectoryInv`: each (tenant, NameID) leads to
one principal for ever, and every token or record a handler holds has a version no higher
than the stored one, with equal content at equal version. `IndexInv`: what the handlers are
about to write to the two indexes names the same principal. And for a logout, that the
sessions it saw are dead once its revocation is written.

### Native codes (`NativeProofs`)

Assumptions: `AuthorityAssumption`, `TimesAreNatural`, `IdsAreDisjoint`, `AbsentIsNoRecord`,
`NativeDeployments` (a deployment's sessions, plans and policies are of their types).

| Theorem | States |
|---|---|
| `NativeInvariant` | `Spec => []Inv` |
| `ConsentIsHonoured` | `Spec => []ConsentHonoured` |
| `CodesAreTickets` | `Spec => GrantsAreTickets`, that is `Tickets!Spec` |
| `DecisionsAreCurrent` | `Spec => []DecisionsRestOnCurrentAuthority` |

`Inv` follows the request through page, consent, code and token: a grant in the store or in
the hands of a handler comes from an approval of its request, approvals of one request are
one, and who is past a consuming command is the ticket's taker. `CodesAreTickets` is the
refinement: `live` is the store, `ended` the identifiers drawn and no longer in it, `taker`
the handler whose command removed it; every step of `NativeCodes` is a step of `Ticket` or
leaves it unchanged. `Known` states for each read of a decision that the fact it noted held
since the decision began, which survives every edit because `known` only grows.

### Registry (`RegistryProofs`)

Assumptions: `AttemptsPositive`, `RegistryNames` (the names are distinct, `Absent` is no
record, finitely many tenants), `DedicatedScopes` (the server's own role definitions are sets
of scopes), `RegistryDeployments` (a deployment is of its types; an installation starts with
no owned client that has a secret and with an AI audience only where its two roles are).

| Theorem | States |
|---|---|
| `RegistryInvariant` | `Spec => []RegistryInv` |
| `OwnedStayPaired` | `Spec => []OwnedRecordsPaired` |
| `ReportedScopesKept` | `Spec => []NoReportedScopeLost` |
| `RolesComeFirst` | `Spec => []RolesBeforeUse` |
| `StandingIsKept` | `Spec => RecordsKeepStanding` |

The properties speak of the stores alone, so they are not inductive: what a job is about to
write decides them. `RegistryInv` adds, per job, `InHand` (before a swap the new record keeps
the owner of the one that was read, adds to its scopes on a raise and is inactive on a
deactivation; before a commit the tenant keeps its creation time and its disabled status)
and `Order`: whatever an operation of the remaining program relies on is defined already, or
an operation before it in the program defines it. `Order` holds of every program the services
run (`ProgramsGood`), passes to the rest of a program once its first operation succeeded
(`OrderOfTail`), and survives the steps of all other jobs because no definition is removed
and a dedicated one never changes (`RolesStay`). Each action then is one of five writes
(`TenantsWritten`, `RoleWritten`, `ClientWritten`, `PersonWritten`, `NothingWritten`) and one
move of its job (`ProceedMoves`, `HoldMoves`, `AgainMoves`, `InsertMoves`, `FailMoves`).

### Workload (`WorkloadProofs`)

Assumptions: `DurationsPositive` and `LimitsPositive` (lifetimes, timeouts, capacities and
limits are positive), `CallersFinite` (finitely many requests, however many),
`SituationsPossible` (a situation is of its types; cached keys expire within the cache's
lifetime; an account that exists from before has an id no registration draws) and
`NothingIsAbsence` (the null value is no record and no set of roles).

| Theorem | States |
|---|---|
| `WorkloadInvariant` | `Spec => []WorkloadInv` |
| `WithdrawnKeys` | `Spec => []WithdrawnKeysExpire` |
| `WithdrawalsWin` | `Spec => []WithdrawalWins` |
| `TokensEndInTime` | `Spec => []TokensWithinLifetimes` |
| `LegacyGrants` | `Spec => []LegacyGrantsCurrent` |
| `Admissions` | `Spec => []AdmissionControl` |
| `Deletes` | `Spec => []DeleteAnswersTrue` |
| `RolesSurviveReplay` | `Spec => []ReplayKeepsRoles` |

Most of these properties are about answers, and what makes an answer right happened
several operations before it. So `WorkloadInv` reads what a request still owes off the rest
of its program: a slot it holds is released later in it, an AI authority's answer is
confirmed later or the tenant was active since, a lease that does not count the token's
expiry yet is counted later (`FrameOK`, `Life`, `AliveOK`). `ProgramsStart` shows this for the
programs of all kinds of request, `OrderOfTail` and `OrderOfSuffix` for what is left of them,
and since an early return ends a request with nothing held, an answered one owes nothing.

The other half ties what a call has been told to the stores as they are now. `KeysOK`: a
cached key that the issuer has withdrawn expires within the cache's lifetime and one fetch of
the withdrawal, and so does a document that is still on its way. `AdmittedOK`: an admission
of the running window is in its limiter's table; eviction removes expired entries
only and a full table refuses (`AllowKeeps`), so `WindowFits` bounds a window by counting the
table. `LegacyOK` and `DeleteOK`: the call knows every record and version that it could be
answered from. `UnusedOK`: an id that a registration may still create is in no account and in no
grant, so an account that is created has no roles to lose. The lemmas from `VerifyingStep` to
`EnvironmentStep` keep all of it, one per module of the composition.

### Token exchange and validation (`TokensProofs`)

Assumptions: `ScopeClasses` (assignable, external and global scopes are disjoint, and where the
named ones belong) and `TokenDeployments` (finitely many tenants, each with its own place in the
order of lists, and the null value is none; roles, principals and plans are of their types, a federated user has a home, and an
exchange other than the plain one names a tenant), with those of `Authority`.

| Theorem | States |
|---|---|
| `TokensInvariant` | `Spec => []TokensInv` |
| `SignedScopesJustified` | `Spec => []TokenScopesJustified` |
| `AcceptedOnCurrentAuthority` | `Spec => []AcceptanceIsCurrent` |
| `FreshTokensPass` | `Spec => []FreshTokensAccepted` |

A token is signed, or accepted, many reads after the ones that justify it, so none of these
properties is inductive. `TokensInv` says of every decision that the facts known since it began include the
current ones (`KnownOK`, kept by every edit: `Learns`), and that what it has gathered is among
them: a role it noted was held (`RolesOK`), a definition it noted was that of a role that counted
(`DefinitionOK`), a tenant it allows is the home or one of the subject's (`AllowedOK`, `TargetOK`).
What is not established yet is still owed by the queue: the definitions to be read are of roles
that counted (`DefinitionReadOK`), the client of the target is read before the end, and a
validation that has not confirmed the tenant, the roles or the assignment in MASTER of a bearer
has that read in front of it (`OwedOK`), for which the invariant also says what a signed token may
name (`TokenOK`). At an empty queue nothing is owed, and `EffectiveJustified` and `ConcludeStep`
compute the answer from facts alone. Queues are handled by their sets of reads (`TailOf`,
`Concatenation`), so the proof needs no induction over them; `ReadGoesOn` reduces each action
to what its read adds and what it puts in front of the queue.

`FreshTokensAccepted` compares two computations in different code, and `TokensInv` says too little
for it: that a role was held *at some moment* does not make a later validation find it. `FreshInv`
adds what an exchange and a validation have in common while nothing is edited:

* A token whose exchange began with the present edits outstanding is one since which nothing was
  edited (`asOf = edits`; an edit leaves the set and never returns, `EditHappens`). Such a token
  is `Acceptable`: session, tenant and client are as it says, it names the roles that are held,
  each with a canonical definition, and every scope has a `Standing` in the present registry.
* In the middle of an exchange that is true up to the reads still owed (`FreshExchange`): a role
  that was read is held now and its definition is canonical or owed (`Resolving`); a tenant that
  discovery allows is active or owed (`AllowedFresh`); the client is that of the target or owed
  (`ClientFresh`).
* This needs the *order* of the queue (`Ordered`, kept by concatenation: `OrderedConcat`). The
  definitions of a role are read before anything that may allow or rule out a tenant; the client
  of the target follows everything discovery reads, and only the second pass of the first cohort
  follows the client. Were the client read first, a target that a later definition rules out
  would be signed.
* No tenant of a list is left out (`AllListed`): the tenants before a tenant are fewer than those
  before a later one, so counting places each of them, without induction over the list.
* At an empty queue nothing is owed. `SignedSession` and `SignedAuthority` show the token
  `Acceptable`, case by case for the four ways to a scope (roles, the generated administrator
  role, home authority, platform), and `StandingCounts` that a validation arrives at the same.

Here too the proof changed the property. It failed for a strict exchange with a client without
scopes, which no instance had, and it succeeded for federated administrators with the log scope at
their home, which the property had left out. `Comparable` now says exactly what is not compared, and
`MCTokens` has the client without scopes.

Looking for the invariant showed that earlier forms of the first two properties held on the
instances of the run only because cases were missing: a recovered administrator whose role is
narrowed after the token was signed, and an account whose stored role has a definition in the
tenant of a plain exchange. The code accepts the first by the platform's authority and counts the
second on purpose; `PlatformBearer` and `CountsIn` say so, and `Narrowed` in `MCTokens`
has these cases now.

### What is only model-checked

Liveness under fairness (`EveryReplicaServes`, `CallsAnswer`), which is out of the prover's reach, as
is induction over data. Every other property of a passing run is stated by a theorem.

## Not modelled

SAML subjects in the directory (home-tenant rules of assignments, federated hash
in deletions and status changes), SAML domain discovery and the service provider's key pair
(one file reloaded under a lock), the recovered MASTER actor of a deletion, pages and searches, the
bounds on scans, the size limits of discovery and its role budgets, lifetimes and rate limit
of the human token exchange, the route policy of forward auth, the Trino exchange (its authority is never
set by the application), the authentication limiter (one atomic script), legacy OOB codes (the services use
them only with a repository that has no subject-bound ones), `RetireLegacyDefault`,
network errors of single commands other than those named, and
the components listed as such above: CLI, configuration, offline commands. Nothing about cryptography, XML, JWT or
password hashing is modelled. In `Migration` a HSCAN or SCAN loop is one step: it
returns each element that is there throughout, and elements that come and go
during a scan are covered by the interleavings around it.

## Plan

1. Done: accounts, access graph, migration, SAML sign-in, logout and trust store with
   federated principals.
2. Done: `Ticket`, native codes, token exchange and validation, the registry and its jobs,
   workload identity with storage and account brokers.
3. Done: proofs about accounts, access graph, migration, SAML, native codes, token exchange and
   validation, the registry and the workload modules.
4. Done: that what an exchange signs is what a validation accepts, the last safety property
   without a proof.
