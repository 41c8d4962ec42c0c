---------------------------- MODULE SamlSessions ----------------------------
(***************************************************************************)
(* SAML sign-in and single logout (internal/saml/http_login.go, http_acs.go, *)
(* http_logout.go, http_slo.go) over the shared store: the pending request,  *)
(* the replay guard, the tenant-local federated principal with its token     *)
(* version and revision, the two session indexes and the audit trail.  Each  *)
(* callback and each logout message is served by a handler of its own, and   *)
(* one step of a handler is one command to the store.                        *)
(*                                                                         *)
(* A message from the identity provider is a record of what the handlers     *)
(* read of it; its signature is the number of the metadata whose key made    *)
(* it.  Tokens are their claims.  Clocks are left out: a request or a replay *)
(* mark may expire at any moment.                                           *)
(***************************************************************************)
EXTENDS SamlTrust, FiniteSets

CONSTANTS
  Browsers, Names, Requests, Assertions, Indexes, Relays,
  Callbacks,    \* handlers of POST /saml/acs
  Logouts,      \* handlers of /saml/slo
  Seed,         \* identifier of the principal that exists at the start
  MaximumRetries  \* directoryMaximumRetries

VARIABLES
  pending,      \* requests stored under saml:req:
  sent,         \* history: requests whose identifier was drawn
  seen,         \* assertions stored under saml:seen:
  lapsed,       \* history: assertions whose replay mark has expired
  active,       \* tenants that are ACTIVE
  principal,    \* (tenant, NameID) -> identifier, samlSubject:
  users,        \* identifier -> federated user, saml_users_v2
  bySubject,    \* (tenant, identifier) -> session index, saml:idx:
  byName,       \* (tenant, NameID) -> session index, saml:idx:
  audit,        \* durable audit records <<callback, phase>>
  browser,      \* browser -> its cookies
  acs,          \* callback -> the state of its handler
  slo,          \* logout message -> the state of its handler
  sessions      \* history: tokens that were set as a cookie

directory == <<principal, users>>
index == <<bySubject, byName>>
vars == <<deployment, trust, pending, sent, seen, lapsed, active, directory, index,
          audit, browser, acs, slo, sessions>>

UserIds == Callbacks \cup {Seed}   \* a callback draws the UUID it would create under

(* What deployment says of the population and of the configuration:          *)
(*   login[r]   the tenant, browser and RelayState of the login r            *)
(*   messages   the responses the identity provider may send                 *)
(*   platform   NameIDs of the configured platform administrators            *)
(*   stewards   NameIDs with an intact membership that assigns an admin role *)
(*   seed       the principal that exists: Absent or its NameID and role     *)
(*   issuer     the EntityID of each tenant's provider                       *)
(*   logouts    the logout messages that may arrive                          *)
(*   expiry, suspends, faults: TTLs run out, tenants are disabled and        *)
(*              enabled, commands fail and replicas stop                     *)
Login(r) == deployment.login[r]

(* The first asserted value of the roles attribute, "none" when absent. *)
Roles == {"ADMIN", "COMPANY_ADMIN", "COMPANY_EMPLOYEE"}

NoAcs == [pc |-> "idle", message |-> Absent, browser |-> Absent,
          copy |-> Absent, tries |-> 0, token |-> Absent]
NoSlo == [pc |-> "idle", browser |-> Absent, state |-> Absent, idx |-> Absent,
          copy |-> Absent, tries |-> 0, before |-> {}]
NoCookies == [state |-> Absent, token |-> Absent, slo |-> Absent]

IndexRecord == [tenant : Tenants, user : UserIds, name : Names, session : Indexes]
User == [id : UserIds, tenant : Tenants, name : Names, role : Roles, version : Nat, revision : Nat]
TokenSet == [callback : Callbacks, request : Requests, assertion : Assertions, user : UserIds,
             tenant : Tenants, role : Roles, version : Nat]

(* What the handlers read of a provider's message. *)
ProviderMessage ==
  [request : Requests, assertion : Assertions, name : Names, session : Indexes \cup {Absent},
   role : Roles \cup {"none"}, relay : Relays \cup {Absent}, key : Nat]

ASSUME SamlIdentifiers ==
  /\ Tenants # {} /\ Seed \notin Callbacks
  /\ Absent \notin Requests \cup UserIds \cup User \cup TokenSet \cup IndexRecord
ASSUME SamlDeployments ==
  \A d \in Deployments :
    /\ \A r \in DOMAIN d.login :
         r \in Requests /\ d.login[r].tenant \in Tenants /\ d.login[r].browser \in Browsers
    /\ d.messages \subseteq ProviderMessage
    /\ d.seed = Absent \/ (d.seed.name \in Names /\ d.seed.role \in Roles)

SeedTenant == CHOOSE t \in Tenants : TRUE

SessionsInit ==
  /\ TrustInit
  /\ idp = [t \in Tenants |-> [generation |-> 0, metadata |-> 0, linked |-> TRUE]]
  /\ pending = {} /\ sent = {} /\ seen = {} /\ lapsed = {} /\ audit = {} /\ sessions = {}
  /\ active = Tenants
  /\ LET s == deployment.seed IN
     /\ principal = [k \in Tenants \X Names |->
          IF s # Absent /\ k = <<SeedTenant, s.name>> THEN Seed ELSE Absent]
     /\ users = [u \in UserIds |->
          IF s # Absent /\ u = Seed
          THEN [id |-> Seed, tenant |-> SeedTenant, name |-> s.name, role |-> s.role,
                version |-> 0, revision |-> 0]
          ELSE Absent]
  /\ bySubject = [k \in Tenants \X UserIds |-> Absent]
  /\ byName = [k \in Tenants \X Names |-> Absent]
  /\ browser = [b \in Browsers |-> NoCookies]
  /\ acs = [c \in Callbacks |-> NoAcs]
  /\ slo = [l \in Logouts |-> NoSlo]

----------------------------------------------------------------------------
(* GET /saml/login/{tid} *)

(* Handler.Login: the tenant is active and has a trust record; the request   *)
(* is stored under a fresh identifier and the state cookie is overwritten.   *)
StartLogin(r) ==
  /\ r \in DOMAIN deployment.login /\ r \notin sent
  /\ Login(r).tenant \in active
  /\ idp[Login(r).tenant] # Absent
  /\ sent' = sent \cup {r}
  /\ pending' = pending \cup {r}
  /\ browser' = [browser EXCEPT ![Login(r).browser].state = r]
  /\ UNCHANGED <<deployment, trust, seen, lapsed, active, directory, index, audit,
                 acs, slo, sessions>>

(* The 300-second TTL of a stored request. *)
RequestExpires(r) ==
  /\ r \in pending /\ deployment.expiry
  /\ pending' = pending \ {r}
  /\ UNCHANGED <<deployment, trust, sent, seen, lapsed, active, directory, index, audit,
                 browser, acs, slo, sessions>>

(* The one-hour TTL of MarkSeen. *)
ReplayMarkExpires(a) ==
  /\ a \in seen /\ deployment.expiry
  /\ seen' = seen \ {a}
  /\ lapsed' = lapsed \cup {a}
  /\ UNCHANGED <<deployment, trust, pending, sent, active, directory, index, audit,
                 browser, acs, slo, sessions>>

(* Another part of the system disables the tenant, or enables it again. *)
TenantChanges(t) ==
  /\ deployment.suspends
  /\ active' = IF t \in active THEN active \ {t} ELSE active \cup {t}
  /\ UNCHANGED <<deployment, trust, pending, sent, seen, lapsed, directory, index, audit,
                 browser, acs, slo, sessions>>

----------------------------------------------------------------------------
(* POST /saml/acs.  From the moment the request is looked up, every reply    *)
(* carries the Set-Cookie that clears the browser's state cookie.            *)

message(c) == acs[c].message
request(c) == message(c).request
tenant(c) == Login(request(c)).tenant

Goto(c, label) == acs' = [acs EXCEPT ![c].pc = label]
End(c) == acs' = [acs EXCEPT ![c] = [NoAcs EXCEPT !.pc = "done"]]

(* The handler passes a check and goes on to its next command. *)
Proceed(c, label) == Goto(c, label) /\ UNCHANGED <<browser, audit>>

(* The reply: an error page, or a redirect with the session cookie. *)
Reply(c, cookie) ==
  /\ End(c)
  /\ browser' = [browser EXCEPT ![acs[c].browser].state = Absent,
                                ![acs[c].browser].token = cookie]
Refuse(c) == Reply(c, browser[acs[c].browser].token)

(* reject and rejectAfterIntent: the refusal is put on record. *)
Reject(c) == Refuse(c) /\ audit' = audit \cup {<<c, "reject">>}

(* stateCookieForResponse: the browser may leave the cookie out of the       *)
(* provider's cross-site POST; then the handler answers once with a page     *)
(* that posts the same form again from its own origin.                       *)
PostResponse(c) ==
  /\ acs[c].pc = "idle"
  /\ \E m \in deployment.messages, b \in Browsers, carried \in BOOLEAN :
       /\ m.request \in sent
       /\ \E key \in 0 .. published[Login(m.request).tenant] :
            acs' = [acs EXCEPT ![c] = [NoAcs EXCEPT
              !.message = [m EXCEPT !.key = key],
              !.browser = b,
              !.pc = IF carried /\ browser[b].state = m.request THEN "consume" ELSE "repost"]]
  /\ UNCHANGED <<deployment, trust, pending, sent, seen, lapsed, active, directory, index,
                 audit, browser, slo, sessions>>

RepostResponse(c) ==
  /\ acs[c].pc = "repost"
  /\ IF browser[acs[c].browser].state = request(c)
     THEN Goto(c, "consume") /\ UNCHANGED audit
     ELSE End(c) /\ audit' = audit \cup {<<c, "reject">>}
  /\ UNCHANGED <<deployment, trust, pending, sent, seen, lapsed, active, directory, index,
                 browser, slo, sessions>>

(* Mutant of TakeRequest: the record is read and left to its TTL. *)
ReadRequest(r) == pending' = pending

(* luaConsumeRequest: exactly one callback takes the record out. *)
TakeRequest(r) == pending' = pending \ {r}

(* ConsumeRequest, and the comparison with the RelayState of the login. *)
ConsumeRequest(c) ==
  /\ acs[c].pc = "consume"
  /\ IF request(c) \in pending
     THEN /\ TakeRequest(request(c))
          /\ IF message(c).relay = Login(request(c)).relay
             THEN Proceed(c, "tenant")
             ELSE Reject(c)
     ELSE Reject(c) /\ UNCHANGED pending
  /\ UNCHANGED <<deployment, trust, sent, seen, lapsed, active, directory, index, slo,
                 sessions>>

CheckTenant(c) ==
  /\ acs[c].pc = "tenant"
  /\ IF tenant(c) \in active THEN Proceed(c, "trust") ELSE Reject(c)
  /\ UNCHANGED <<deployment, trust, pending, sent, seen, lapsed, active, directory, index,
                 slo, sessions>>

(* The key of the stored metadata verifies the signature. *)
Verifies(t, key) == idp[t] # Absent /\ idp[t].metadata = key

(* GetIdP and validateResponse.  InResponseTo is the consumed request: the   *)
(* cookie was selected by it.  A response that fails any other check of the  *)
(* pipeline ends as in AbortCallback.                                        *)
ValidateResponse(c) ==
  /\ acs[c].pc = "trust"
  /\ IF Verifies(tenant(c), message(c).key)
     THEN Proceed(c, "seen")
     ELSE Reject(c)
  /\ UNCHANGED <<deployment, trust, pending, sent, seen, lapsed, active, directory, index,
                 slo, sessions>>

(* SETNX of the assertion identifier. *)
Fresh(a) == a \notin seen

MarkSeen(c) ==
  /\ acs[c].pc = "seen"
  /\ IF Fresh(message(c).assertion)
     THEN Proceed(c, "intent")
     ELSE Reject(c)
  /\ seen' = seen \cup {message(c).assertion}
  /\ UNCHANGED <<deployment, trust, pending, sent, lapsed, active, directory, index, slo,
                 sessions>>

AuditIntent(c) ==
  /\ acs[c].pc = "intent"
  /\ audit' = audit \cup {<<c, "intent">>}
  /\ Goto(c, "find")
  /\ UNCHANGED <<deployment, trust, pending, sent, seen, lapsed, active, directory, index,
                 browser, slo, sessions>>

(* Mutants of Overwritable: the write is unconditional, or guards only the   *)
(* token version.                                                           *)
BlindWrite(copy) == TRUE
AnyRevision(copy) == users[copy.id].version <= copy.version

(* A step that rewrites a federated user is a transaction on the hash:       *)
(* updateFederatedUser refuses a copy whose revision is not the stored one,  *)
(* or whose token version would go back.                                     *)
Overwritable(copy) ==
  /\ users[copy.id].revision = copy.revision
  /\ users[copy.id].version <= copy.version

Store(copy) == users' = [users EXCEPT ![copy.id] = [copy EXCEPT !.revision = @ + 1]]

(* tenantScopedSAMLRole and existingTenantScopedSAMLRole: an assertion       *)
(* grants tenant administration at most; without a roles attribute the       *)
(* tenant-local part of the stored role, or an admin membership, is kept.    *)
ScopedRole(asserted) ==
  IF asserted \in {"ADMIN", "COMPANY_ADMIN"} THEN "COMPANY_ADMIN" ELSE "COMPANY_EMPLOYEE"
ExistingRole(u, asserted) ==
  IF asserted # "none" THEN ScopedRole(asserted)
  ELSE IF u.name \in deployment.stewards THEN "COMPANY_ADMIN"
  ELSE ScopedRole(u.role)

(* The version of a user whose role becomes r. *)
NextVersion(u, r) == IF u.role = r THEN u.version ELSE u.version + 1

SubjectKey(c) == <<tenant(c), message(c).name>>

(* UpsertFromSAML, case 1: findByExternalSubject *)
FindSubject(c) ==
  /\ acs[c].pc = "find"
  /\ LET id == principal[SubjectKey(c)]
         u == users[id]
         r == ExistingRole(u, message(c).role)
     IN  acs' = IF id = Absent
                THEN [acs EXCEPT ![c].pc = "create"]
                ELSE [acs EXCEPT ![c].pc = "update",
                                 ![c].copy = [u EXCEPT !.role = r, !.version = NextVersion(u, r)]]
  /\ UNCHANGED <<deployment, trust, pending, sent, seen, lapsed, active, directory, index,
                 audit, browser, slo, sessions>>

(* UpsertFromSAML, case 1: UpdateUser.  A conflict starts over, and after    *)
(* the last attempt falls through to the creation below.                     *)
UpdateSubject(c) ==
  /\ acs[c].pc = "update"
  /\ IF Overwritable(acs[c].copy)
     THEN /\ Store(acs[c].copy)
          /\ acs' = [acs EXCEPT ![c].pc = "elevate", ![c].copy.revision = @ + 1]
     ELSE /\ acs' = [acs EXCEPT ![c].tries = @ + 1,
                     ![c].pc = IF acs[c].tries + 1 < MaximumRetries THEN "find" ELSE "create"]
          /\ UNCHANGED users
  /\ UNCHANGED <<deployment, trust, pending, sent, seen, lapsed, active, principal, index,
                 audit, browser, slo, sessions>>

(* createFederatedUserScript creates only under a subject key that is free. *)
SubjectFree(c) == principal[SubjectKey(c)] = Absent

(* UpsertFromSAML, case 2 *)
CreateSubject(c) ==
  /\ acs[c].pc = "create"
  /\ IF SubjectFree(c)
     THEN LET u == [id |-> c, tenant |-> tenant(c), name |-> message(c).name,
                    role |-> ScopedRole(message(c).role), version |-> 0, revision |-> 0]
          IN  /\ users' = [users EXCEPT ![c] = u]
              /\ principal' = [principal EXCEPT ![SubjectKey(c)] = c]
              /\ acs' = [acs EXCEPT ![c].pc = "elevate", ![c].copy = u]
     ELSE Goto(c, "load") /\ UNCHANGED directory
  /\ UNCHANGED <<deployment, trust, pending, sent, seen, lapsed, active, index, audit,
                 browser, slo, sessions>>

(* UpsertFromSAML: another callback created the principal first; its record  *)
(* is returned as it is stored.                                              *)
LoadSubject(c) ==
  /\ acs[c].pc = "load"
  /\ acs' = [acs EXCEPT ![c].pc = "elevate", ![c].copy = users[principal[SubjectKey(c)]]]
  /\ UNCHANGED <<deployment, trust, pending, sent, seen, lapsed, active, directory, index,
                 audit, browser, slo, sessions>>

PlatformAdministrator(u) == u.name \in deployment.platform

(* The claims of the identity token issued for u. *)
Token(c, u) == [callback |-> c, request |-> request(c), assertion |-> message(c).assertion,
                user |-> u.id, tenant |-> u.tenant, role |-> u.role, version |-> u.version]

(* sessionBridgeAuth.Issue after the upsert: a configured platform           *)
(* administrator is raised to ADMIN, anyone else is lowered from it, and the *)
(* token is signed; if the rewrite is refused no token is issued.            *)
Elevate(c) ==
  /\ acs[c].pc = "elevate"
  /\ LET u == acs[c].copy
         r == IF PlatformAdministrator(u) THEN "ADMIN" ELSE ScopedRole(u.role)
         v == [u EXCEPT !.role = r, !.version = NextVersion(u, r)]
     IN  IF ~PlatformAdministrator(u) /\ u.role # "ADMIN"
         THEN /\ acs' = [acs EXCEPT ![c].pc = "check", ![c].token = Token(c, u)]
              /\ UNCHANGED <<users, browser, audit>>
         ELSE IF Overwritable(v)
         THEN /\ Store(v)
              /\ acs' = [acs EXCEPT ![c].pc = "check", ![c].token = Token(c, v)]
              /\ UNCHANGED <<browser, audit>>
         ELSE Reject(c) /\ UNCHANGED users
  /\ UNCHANGED <<deployment, trust, pending, sent, seen, lapsed, active, principal, index,
                 slo, sessions>>

(* The signed token is still backed by the principal's current version. *)
Current(token) == users[token.user].version = token.version

(* validateCurrentIDToken and currentPlatformAuthorityValid *)
Valid(token) ==
  LET u == users[token.user] IN
  /\ token.tenant = u.tenant /\ token.tenant \in active
  /\ "ADMIN" \in {u.role, token.role} => u.role = "ADMIN" /\ PlatformAdministrator(u)
  /\ Current(token)

ValidateSession(c) ==
  /\ acs[c].pc = "check"
  /\ IF Valid(acs[c].token) THEN Proceed(c, "index") ELSE Reject(c)
  /\ UNCHANGED <<deployment, trust, pending, sent, seen, lapsed, active, directory, index,
                 slo, sessions>>

(* The two keys of one session index are written by one script and removed   *)
(* by one command.                                                           *)
WriteIndexes(i) ==
  /\ bySubject' = [bySubject EXCEPT ![<<i.tenant, i.user>>] = i]
  /\ byName' = [byName EXCEPT ![<<i.tenant, i.name>>] = i]
RemoveIndexes(t, u, n) ==
  /\ bySubject' = [bySubject EXCEPT ![<<t, u>>] = Absent]
  /\ byName' = [byName EXCEPT ![<<t, n>>] = Absent]

(* The TTL of a session index: both keys were set with the same one. *)
IndexesExpire(t, u) ==
  /\ bySubject[<<t, u>>] # Absent /\ deployment.expiry
  /\ RemoveIndexes(t, u, bySubject[<<t, u>>].name)
  /\ UNCHANGED <<deployment, trust, pending, sent, seen, lapsed, active, directory, audit,
                 browser, acs, slo, sessions>>

(* putSessionIndex refuses an assertion that named no session. *)
PutSessionIndexes(c) ==
  /\ acs[c].pc = "index"
  /\ IF message(c).session # Absent
     THEN /\ WriteIndexes([tenant |-> tenant(c), user |-> acs[c].token.user,
                           name |-> message(c).name, session |-> message(c).session])
          /\ Proceed(c, "accept")
     ELSE Reject(c) /\ UNCHANGED index
  /\ UNCHANGED <<deployment, trust, pending, sent, seen, lapsed, active, directory, slo,
                 sessions>>

(* The acceptance is recorded, and only then the token reaches the browser. *)
AuditAccept(c) ==
  /\ acs[c].pc = "accept"
  /\ audit' = audit \cup {<<c, "accept">>}
  /\ Reply(c, acs[c].token)
  /\ sessions' = sessions \cup {acs[c].token}
  /\ UNCHANGED <<deployment, trust, pending, sent, seen, lapsed, active, directory, index, slo>>

(* Mutant of AuditUnavailable: the session is exposed although the          *)
(* acceptance was not recorded.                                             *)
ExposeUnaudited(c) ==
  /\ acs[c].pc = "accept" /\ deployment.faults
  /\ Reply(c, acs[c].token)
  /\ sessions' = sessions \cup {acs[c].token}
  /\ UNCHANGED <<deployment, trust, pending, sent, seen, lapsed, active, directory, index,
                 audit, slo>>

(* The write of the acceptance fails, with the record stored or not: the     *)
(* handler takes its indexes back in RollBack and clears the browser's       *)
(* session cookie.                                                           *)
AuditUnavailable(c) ==
  /\ acs[c].pc = "accept" /\ deployment.faults
  /\ audit' \in {audit, audit \cup {<<c, "accept">>}}
  /\ Goto(c, "rollback")
  /\ UNCHANGED <<deployment, trust, pending, sent, seen, lapsed, active, directory, index,
                 browser, slo, sessions>>

(* An error of the deletion is ignored. *)
RollBack(c) ==
  /\ acs[c].pc = "rollback"
  /\ \/ RemoveIndexes(tenant(c), acs[c].token.user, message(c).name)
     \/ UNCHANGED index
  /\ Reply(c, Absent)
  /\ UNCHANGED <<deployment, trust, pending, sent, seen, lapsed, active, directory, audit,
                 slo, sessions>>

(* A command fails, a check of the response fails, or the replica stops: the *)
(* handler ends where it is, with a recorded refusal, with a reply when the  *)
(* audit store fails too, or without a reply.                                *)
AbortCallback(c) ==
  /\ deployment.faults /\ acs[c].pc \notin {"idle", "repost", "done"}
  /\ \/ acs[c].pc # "rollback" /\ Reject(c)
     \/ acs[c].pc # "rollback" /\ Refuse(c) /\ UNCHANGED audit
     \/ End(c) /\ UNCHANGED <<browser, audit>>
  /\ UNCHANGED <<deployment, trust, pending, sent, seen, lapsed, active, directory, index,
                 slo, sessions>>

----------------------------------------------------------------------------
(* Single logout *)

(* Handler.Logout: the browser's session is valid and indexed; the signed    *)
(* state cookie remembers its tenant and subject.  Nothing is deleted.       *)
StartLogout(b) ==
  LET token == browser[b].token IN
  /\ deployment.logouts # {} /\ token # Absent
  /\ Valid(token)
  /\ bySubject[<<token.tenant, token.user>>] # Absent
  /\ idp[token.tenant] # Absent
  /\ browser' = [browser EXCEPT ![b].slo = [tenant |-> token.tenant, user |-> token.user]]
  /\ UNCHANGED <<deployment, trust, pending, sent, seen, lapsed, active, directory, index,
                 audit, acs, slo, sessions>>

(* before: the sessions of the principal at the moment its index is read;    *)
(* state: the state cookie that the reply leaves in the browser.             *)
BeginRevoke(l, b, i, state) ==
  slo' = [slo EXCEPT ![l] = [NoSlo EXCEPT !.pc = "read", !.browser = b, !.idx = i,
                             !.state = state,
                             !.before = {s \in sessions : s.user = i.user}]]

(* A message signed with a key that the provider has published by now. *)
SignedMessage(t) == \E key \in 0 .. published[t] : Verifies(t, key)

(* sloGet up to Revoke: the provider's answer to the logout that the browser *)
(* started.                                                                 *)
SloGet(l, b) ==
  LET k == browser[b].slo IN
  /\ l \in deployment.logouts /\ slo[l].pc = "idle" /\ k # Absent
  /\ bySubject[<<k.tenant, k.user>>] # Absent
  /\ SignedMessage(k.tenant)
  /\ BeginRevoke(l, b, bySubject[<<k.tenant, k.user>>], Absent)
  /\ UNCHANGED <<deployment, trust, pending, sent, seen, lapsed, active, directory, index,
                 audit, browser, acs, sessions>>

(* exactIdPForIssuer: no other stored record has the issuer of tenant t. *)
SoleIssuer(t) ==
  \A u \in Tenants \ {t} : idp[u] # Absent => deployment.issuer[u] # deployment.issuer[t]

(* sloPost up to Revoke: the provider ends a session it established.  The    *)
(* request names the session; the index must still be that session's.        *)
SloPost(l, b) ==
  /\ l \in deployment.logouts /\ slo[l].pc = "idle"
  /\ \E m \in deployment.messages :
       LET t == Login(m.request).tenant
           i == byName[<<t, m.name>>]
       IN  /\ m.request \in sent /\ m.session # Absent
           /\ SoleIssuer(t)
           /\ SignedMessage(t)
           /\ i # Absent /\ i.session = m.session
           /\ BeginRevoke(l, b, i, browser[b].slo)
  /\ UNCHANGED <<deployment, trust, pending, sent, seen, lapsed, active, directory, index,
                 audit, browser, acs, sessions>>

(* IncrementTokenVersionByID: read, then rewrite, up to MaximumRetries times. *)
RevokeRead(l) ==
  /\ slo[l].pc = "read"
  /\ slo' = [slo EXCEPT ![l].pc = "write",
                        ![l].copy = [users[slo[l].idx.user] EXCEPT !.version = @ + 1]]
  /\ UNCHANGED <<deployment, trust, pending, sent, seen, lapsed, active, directory, index,
                 audit, browser, acs, sessions>>

Forget(l, pc) == [slo EXCEPT ![l].pc = pc, ![l].copy = Absent]

(* Mutant of RevokeWrite: a version conflict is taken for a revocation. *)
RevokeOnce(l) ==
  /\ slo[l].pc = "write"
  /\ IF Overwritable(slo[l].copy) THEN Store(slo[l].copy) ELSE UNCHANGED users
  /\ slo' = Forget(l, "delete")
  /\ UNCHANGED <<deployment, trust, pending, sent, seen, lapsed, active, principal, index,
                 audit, browser, acs, sessions>>

RevokeWrite(l) ==
  /\ slo[l].pc = "write"
  /\ IF Overwritable(slo[l].copy)
     THEN /\ Store(slo[l].copy)
          /\ slo' = Forget(l, "delete") /\ UNCHANGED browser
     ELSE /\ UNCHANGED users
          /\ IF slo[l].tries + 1 < MaximumRetries
             THEN slo' = [Forget(l, "read") EXCEPT ![l].tries = @ + 1] /\ UNCHANGED browser
             ELSE /\ slo' = Forget(l, "failed")
                  /\ browser' = [browser EXCEPT ![slo[l].browser].token = Absent]
  /\ UNCHANGED <<deployment, trust, pending, sent, seen, lapsed, active, principal, index,
                 audit, acs, sessions>>

(* deleteSessionIndex of the index that was read, and the reply. *)
DeleteIndexes(l) ==
  LET i == slo[l].idx IN
  /\ slo[l].pc = "delete"
  /\ RemoveIndexes(i.tenant, i.user, i.name)
  /\ browser' = [browser EXCEPT ![slo[l].browser].token = Absent,
                                ![slo[l].browser].slo = slo[l].state]
  /\ slo' = Forget(l, "loggedOut")
  /\ UNCHANGED <<deployment, trust, pending, sent, seen, lapsed, active, directory, audit,
                 acs, sessions>>

(* A command fails or the replica stops; after a failed command the reply    *)
(* clears the session cookie.                                                *)
AbortLogout(l) ==
  /\ deployment.faults /\ slo[l].pc \in {"read", "write", "delete"}
  /\ slo' = Forget(l, "failed")
  /\ \/ browser' = [browser EXCEPT ![slo[l].browser].token = Absent]
     \/ UNCHANGED browser
  /\ UNCHANGED <<deployment, trust, pending, sent, seen, lapsed, active, directory, index,
                 audit, acs, sessions>>

----------------------------------------------------------------------------
Next ==
  \/ TrustStep /\ UNCHANGED <<deployment, pending, sent, seen, lapsed, active, directory,
                               index, audit, browser, acs, slo, sessions>>
  \/ \E r \in Requests : StartLogin(r) \/ RequestExpires(r)
  \/ \E a \in Assertions : ReplayMarkExpires(a)
  \/ \E t \in Tenants : TenantChanges(t)
  \/ \E t \in Tenants, u \in UserIds : IndexesExpire(t, u)
  \/ \E c \in Callbacks :
       \/ PostResponse(c) \/ RepostResponse(c) \/ ConsumeRequest(c) \/ CheckTenant(c)
       \/ ValidateResponse(c) \/ MarkSeen(c) \/ AuditIntent(c)
       \/ FindSubject(c) \/ UpdateSubject(c) \/ CreateSubject(c) \/ LoadSubject(c)
       \/ Elevate(c) \/ ValidateSession(c) \/ PutSessionIndexes(c)
       \/ AuditAccept(c) \/ AuditUnavailable(c) \/ RollBack(c) \/ AbortCallback(c)
  \/ \E b \in Browsers : StartLogout(b)
  \/ \E l \in Logouts :
       \/ \E b \in Browsers : SloGet(l, b) \/ SloPost(l, b)
       \/ RevokeRead(l) \/ RevokeWrite(l) \/ DeleteIndexes(l) \/ AbortLogout(l)

Spec == SessionsInit /\ [][Next]_vars

----------------------------------------------------------------------------
(* Every variable keeps its type; in particular a stored principal and the    *)
(* token minted for it carry a role that the role mapping produces.          *)
TypeOK ==
  /\ TrustTypeOK
  /\ pending \subseteq sent /\ sent \subseteq Requests
  /\ seen \subseteq Assertions /\ lapsed \subseteq Assertions
  /\ active \subseteq Tenants
  /\ principal \in [Tenants \X Names -> UserIds \cup {Absent}]
  /\ users \in [UserIds -> User \cup {Absent}]
  /\ bySubject \in [Tenants \X UserIds -> IndexRecord \cup {Absent}]
  /\ byName \in [Tenants \X Names -> IndexRecord \cup {Absent}]
  /\ audit \subseteq Callbacks \X {"intent", "accept", "reject"}
  /\ \A b \in Browsers :
       /\ browser[b].state \in Requests \cup {Absent}
       /\ browser[b].token \in TokenSet \cup {Absent}
       /\ browser[b].slo \in [tenant : Tenants, user : UserIds] \cup {Absent}
  /\ \A c \in Callbacks : acs[c].copy \in User \cup {Absent} /\ acs[c].token \in TokenSet \cup {Absent}
  /\ \A l \in Logouts : slo[l].copy \in User \cup {Absent} /\ slo[l].idx \in IndexRecord \cup {Absent}
  /\ sessions \subseteq TokenSet

(* One login request opens at most one session, however often and from       *)
(* however many tabs the provider's answers to it are posted, and however    *)
(* many different assertions answer it (luaConsumeRequest: "exactly one      *)
(* consumer wins").                                                          *)
RequestsUsedOnce ==
  \A s1, s2 \in sessions : s1.request = s2.request => s1 = s2

(* While its replay mark lives, an assertion opens at most one session, even *)
(* when it answers two pending requests (MarkSeen).                          *)
AssertionsUsedOnce ==
  \A s1, s2 \in sessions :
    s1.assertion = s2.assertion => s1 = s2 \/ s1.assertion \in lapsed

(* Neither a login request nor an assertion opens two sessions, in whatever  *)
(* order the callbacks that carry them are interleaved or replayed.          *)
UsedOnce == RequestsUsedOnce /\ AssertionsUsedOnce

(* A session reaches a browser only with its intent and its acceptance on    *)
(* record, whatever fails or stops between the two writes (http_acs.go:170:  *)
(* "A local token must never reach the browser when its audit trail is       *)
(* unavailable").                                                            *)
SessionsAudited ==
  \A s \in sessions : {<<s.callback, "intent">>, <<s.callback, "accept">>} \subseteq audit

(* The audit pair is completed and never contradictory: no callback has both *)
(* outcomes on record, and without failures one that recorded its intent     *)
(* ends with an outcome, whichever of the checks after the intent refuses    *)
(* ("A later outcome record completes the audit pair", audit.go:141).        *)
OutcomesAudited ==
  \A c \in Callbacks :
    /\ ~({<<c, "accept">>, <<c, "reject">>} \subseteq audit)
    /\ ~deployment.faults /\ acs[c].pc = "done" /\ <<c, "intent">> \in audit
         => {<<c, "accept">>, <<c, "reject">>} \cap audit # {}

(* The audit log tells what happened: no session without its two records, no *)
(* intent without its outcome, no callback with both outcomes.               *)
AuditComplete == SessionsAudited /\ OutcomesAudited

(* The subject index and the NameID index are never torn: each entry is      *)
(* found under both keys with the same content, through concurrent logins,   *)
(* logouts and roll-backs.  This needs one principal per (tenant, NameID)    *)
(* as well as the paired writes (PutSessionIndexes, createFederatedUser).    *)
IndexesPaired ==
  /\ \A k \in Tenants \X UserIds :
       bySubject[k] # Absent => byName[<<k[1], bySubject[k].name>>] = bySubject[k]
  /\ \A k \in Tenants \X Names :
       byName[k] # Absent => bySubject[<<k[1], byName[k].user>>] = byName[k]

(* When a logout reports success, every session its principal had when the   *)
(* index was read is dead, whatever sign-ins ran against it meanwhile        *)
(* ("local session removed in 100% of success cases", HLD acceptance 4).     *)
LogoutEndsSessions ==
  \A l \in Logouts :
    slo[l].pc = "loggedOut" => \A s \in slo[l].before : ~Current(s)

(* A session is reachable by the logout that has to end it: the indexes a    *)
(* logout starts from are whole and well-formed, and one that reports        *)
(* success has ended what they led to.                                       *)
SessionsReachable == TypeOK /\ IndexesPaired /\ LogoutEndsSessions

(* A dead session stays dead: no later sign-in, elevation or logout brings   *)
(* its token version back ("preserves its newer tokenVersion instead of      *)
(* resurrecting an old session", user_repository.go:484).                    *)
RevokedStaysRevoked ==
  [][\A s \in sessions : ~Current(s) => users'[s.user].version # s.version]_vars

(* A session that is still current carries the principal's present role: a   *)
(* role that an assertion, the platform allowlist or a lost race changes     *)
(* ends every session minted under the old one (user_repository.go:498).     *)
RoleChangesRevoke ==
  \A s \in sessions : Current(s) => s.role = users[s.user].role
=============================================================================
