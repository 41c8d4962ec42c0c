---------------------------- MODULE AccessTokens ----------------------------
(***************************************************************************)
(* Token exchange and bearer validation of human principals (internal/       *)
(* services/user_service.go, tenant_scoped_token.go, managed_logs_platform_  *)
(* read.go).  An exchange reads the account, the tenants, the roles, their    *)
(* definitions and the audience client one after the other and then signs; a  *)
(* validation reads them again.  One step is one read, so an edit of the      *)
(* registry may fall between any two reads of a decision.                     *)
(*                                                                         *)
(* The reads a decision still has to make are a queue; some reads put the     *)
(* reads they lead to in front of it.  Each read has a rule for what a        *)
(* missing or failing answer means:                                          *)
(*   "must"    the request is refused                                        *)
(*   "skip"    discovery leaves the tenant out                               *)
(*   "lenient" the answer contributes nothing                                *)
(***************************************************************************)
EXTENDS Authority

CONSTANTS
  Handlers,
  Master,            \* the platform tenant
  TenantOrder,       \* tenant -> its place in the lists of the directory
  CreatorRole,       \* tenant -> the name of its generated administrator role
  Assignable,        \* reserved scopes a tenant role may hold
  External,          \* scopes outside the reserved namespace
  PlatformScope, LogsScope, IdentityWrite, FeatureWrite, SecretScopes, EmployeeScopes

Global == Scopes \ (Assignable \cup External)

ASSUME ScopeClasses ==
  /\ Assignable \cap External = {} /\ {PlatformScope, LogsScope} \subseteq Global
  /\ SecretScopes \cup {IdentityWrite, FeatureWrite} \subseteq Assignable
  /\ EmployeeScopes \subseteq External

(* What the store and the requests hold: roles and tenants that exist, a home *)
(* for every federated user (the login that creates one gives it its tenant), *)
(* one exchange or one validation per request.                                *)
ASSUME TokenDeployments ==
  /\ IsFiniteSet(Tenants) /\ Absent \notin Tenants
  /\ TenantOrder \in [Tenants -> Nat]
  /\ \A t, u \in Tenants : TenantOrder[t] = TenantOrder[u] => t = u
  /\ \A d \in Deployments :
       /\ d.held \in [Users \X Tenants -> SUBSET RoleNames]
       /\ \A e \in d.edits : e.what = "roles" => e.roles \subseteq RoleNames
       /\ \A u \in Users : d.principal[u] \in
            [home : Tenants \cup {Absent}, role : RoleNames, federated : BOOLEAN, listed : BOOLEAN]
       /\ \A u \in Users : d.principal[u].federated => d.principal[u].home # Absent
       /\ \A h \in Handlers : d.plan[h].kind \in {"exchange", "validate"}
       /\ \A h \in Handlers : d.plan[h].kind = "exchange" =>
            /\ d.plan[h].mode \in {"legacy", "strict", "v1", "v2"}
            /\ d.plan[h].mode # "legacy" => d.plan[h].target \in Tenants
            /\ d.session[d.plan[h].session].user \in Users

VARIABLES
  direct,            \* users whose own MASTER assignment is exactly ADMIN
  tokens,            \* signed access tokens
  verdicts,          \* history: what validations answered
  handler

tokenState == <<direct, tokens, verdicts, handler>>
vars == <<deployment, registry, edits, tokenState>>

(* What deployment adds to the registry:                                     *)
(*   plan[h]       an exchange (mode, session, target, request, ceiling) or   *)
(*                 a validation                                              *)
(*   principal[u]  home tenant or Absent, stored role, whether federated and  *)
(*                 on the platform allowlist                                  *)
(*   session[s]    the claims of an ID token                                 *)
(*   canary        the tenants of the first cohort; faults: reads may fail    *)
Plan(h) == deployment.plan[h]
Mode(h) == Plan(h).mode
Discovers(h) == Mode(h) \in {"v1", "v2"}
Session(h) == deployment.session[Plan(h).session]
Principal(u) == deployment.principal[u]
Outcomes == IF deployment.faults THEN BOOLEAN ELSE {TRUE}

(* One read, or the reads of the definitions of some roles. *)
Read(what, t, roles, rule) == [what |-> what, tenant |-> t, roles |-> roles, rule |-> rule]

Idle == [pc |-> "idle", user |-> Absent, todo |-> <<>>, target |-> Absent, home |-> Absent,
         ids |-> {}, roles |-> [t \in Tenants |-> {}], defined |-> {}, allowed |-> {},
         client |-> Absent, direct |-> FALSE, logs |-> "open", token |-> Absent,
         asOf |-> {}, known |-> {}]

TokensInit ==
  /\ AuthorityInit
  /\ direct = deployment.direct
  /\ tokens = {} /\ verdicts = {}
  /\ handler = [h \in Handlers |-> Idle]

Move(h, record) == handler' = [handler EXCEPT ![h] = record]
End(h) == Move(h, [Idle EXCEPT !.pc = "done"])
Reads == UNCHANGED <<deployment, registry, edits, direct, tokens>>

(* The facts of the registry, with the direct platform assignments. *)
AllFacts == Facts \cup {<<"direct", u>> : u \in direct}

----------------------------------------------------------------------------
(* The scope policy (scopepolicy/policy.go) *)

(* ValidCanonicalPermissions: a role grants something, and nothing global. *)
ValidPermissions(scopes) == scopes # {} /\ scopes \cap Global = {}

RequiresHomeAuthority(s) == s \in Global \cup External

----------------------------------------------------------------------------
(* Principals *)

(* effectiveUserRole: a federated administrator is a tenant administrator     *)
(* unless the session carries the platform privilege.                        *)
EffectiveRole(u, privileged) ==
  IF Principal(u).federated /\ Principal(u).role = "ADMIN" /\ ~privileged
  THEN "COMPANY_ADMIN" ELSE Principal(u).role

(* validatedPlatformPrivilege *)
Privileged(h) ==
  LET p == Principal(Session(h).user) IN
  Session(h).privilege /\ p.federated /\ p.role = "ADMIN" /\ p.home # Absent

(* currentPlatformAuthorityValid *)
PlatformAuthorityValid(u, privilege, origin) ==
  LET p == Principal(u) IN
  IF p.federated
  THEN (p.role = "ADMIN" \/ privilege \/ origin) =>
         (p.role = "ADMIN" /\ p.home # Absent /\ p.listed)
  ELSE ~origin /\ (privilege => p.role = "ADMIN")

(* isTenantLocalFederatedPrincipal, trustedFederatedPlatformPrincipal *)
LocalFederated(h) == LET p == Principal(Session(h).user) IN p.federated /\ p.home # Absent
PlatformFederated(h) ==
  LocalFederated(h) /\ Principal(Session(h).user).home = Master /\ Privileged(h)

(* homeAuthority and homeGlobalAuthority *)
HomeAuthority(role, scopes) ==
  CASE role = "ADMIN"         -> scopes
    [] role = "COMPANY_ADMIN" -> scopes \ {PlatformScope}
    [] OTHER                  -> {}

(* Mutant: elsewhere the home role counts in full. *)
UnboundedHomeAuthority(role, scopes) == HomeAuthority(role, scopes)

HomeGlobalAuthority(role, scopes) ==
  {s \in HomeAuthority(role, scopes) : RequiresHomeAuthority(s) \/ s = FeatureWrite}

(* recoveredMasterPlatformAdministrator, apart from the assignment it reads *)
MayRecover(u) ==
  LET p == Principal(u) IN
  ~p.federated /\ p.role = "ADMIN" /\ p.home \notin {Absent, Master}

----------------------------------------------------------------------------
(* Starting a decision *)

(* The tenants of a list, in the order of the directory *)
InOrder(S) ==
  [i \in 1..Cardinality(S) |->
     CHOOSE t \in S : Cardinality({u \in S : TenantOrder[u] < TenantOrder[t]}) = i - 1]

(* TokenExchange: the reads each mode begins with.  A global directory user   *)
(* has no signed home; discovery derives one from the first tenant listed.    *)
OpeningReads(h, u) ==
  LET home == Principal(u).home
      client == Read("client", Plan(h).target, {}, "must")
      homeReads == IF home = Absent THEN <<Read("ids", Absent, {}, "home")>>
                   ELSE <<Read("tenant", home, {}, "must")>>
      listing == IF LocalFederated(h) /\ ~PlatformFederated(h) THEN <<>>
                 ELSE <<Read("ids", Absent, {}, "skip")>>
      again == IF Plan(h).target # home /\ ~PlatformFederated(h)
               THEN <<Read("ids", Absent, {}, "must")>> ELSE <<>>
      sessionTenant == IF home = Absent THEN <<>>
                       ELSE <<Read("tenant", home, {}, "must")>>
  IN sessionTenant \o
     CASE Mode(h) = "legacy" -> <<Read("ids", Absent, {}, "lenient")>>
       [] Mode(h) = "strict" -> <<Read("ids", Absent, {}, "must"), client>>
       [] Mode(h) = "v1"     -> homeReads \o listing \o <<client>> \o again
       [] Mode(h) = "v2"     -> homeReads \o listing
                                  \o <<Read("direct", Master, {}, "lenient"), client>>

(* validateCurrentIDToken, up to the tenant of the session *)
Exchange(h) ==
  /\ Plan(h).kind = "exchange" /\ handler[h].pc = "idle"
  /\ LET s == Session(h)  a == account[s.user] IN
     IF /\ a.active /\ a.email = s.email /\ a.version = s.version
        /\ PlatformAuthorityValid(s.user, s.privilege, FALSE)
     THEN Move(h, [Idle EXCEPT !.pc = "reading", !.user = s.user, !.todo = OpeningReads(h, s.user),
                     !.target = Plan(h).target, !.home = Principal(s.user).home,
                     !.allowed = IF Discovers(h) THEN {Principal(s.user).home} ELSE {},
                     !.asOf = edits, !.known = AllFacts])
     ELSE End(h)
  /\ Reads /\ UNCHANGED verdicts

(* recoveredMasterPlatformClaims *)
RecoveredClaims(t) ==
  /\ t.tenant = Master /\ t.principal = Master /\ t.role = "ADMIN" /\ t.privilege
  /\ t.roles # Absent /\ "ADMIN" \in t.roles

(* Mutant: a recovered administrator's own assignment is not read again. *)
TrustingReads(t) ==
  <<Read("tenant", t.tenant, {}, "must"), Read("client", t.tenant, {}, "must")>>
    \o (IF t.roles = Absent \/ (t.origin /\ t.roles = {}) THEN <<>>
        ELSE <<Read("roles", t.tenant, {}, "must")>>)

(* ValidateAccessToken and the checks it makes in turn: the platform log      *)
(* scope, the target tenant and its client, the roles, the direct assignment. *)
ValidationReads(t) ==
  (IF LogsScope \in t.scopes /\ ~Principal(t.user).federated
   THEN <<Read("direct", Master, {}, "must")>> ELSE <<>>)
    \o <<Read("tenant", t.tenant, {}, "must"), Read("client", t.tenant, {}, "must")>>
    \o (IF t.roles = Absent \/ (t.origin /\ t.roles = {}) THEN <<>>
        ELSE <<Read("roles", t.tenant, {}, "must")>>)
    \o (IF RecoveredClaims(t) THEN <<Read("direct", Master, {}, "must")>> ELSE <<>>)

(* managedLogsPlatformAuthority of a federated bearer: the token itself has   *)
(* to carry the platform role and privilege at the bearer's home.             *)
FederatedLogsClaims(t) ==
  LET p == Principal(t.user) IN
  p.federated => /\ p.home = Master /\ p.role = "ADMIN" /\ t.privilege
                 /\ t.role = "ADMIN" /\ t.tenant = p.home

(* A federated bearer is known at the home the token was issued for. *)
FederatedHome(t) ==
  LET p == Principal(t.user) IN p.federated => p.home # Absent /\ t.principal = p.home

Validate(h) ==
  /\ Plan(h).kind = "validate" /\ handler[h].pc = "idle"
  /\ \E t \in tokens :
       LET a == account[t.user] IN
       IF /\ a.active /\ a.email = t.email /\ a.version = t.version /\ FederatedHome(t)
          /\ PlatformAuthorityValid(t.user, t.privilege, t.origin)
          /\ LogsScope \in t.scopes => FederatedLogsClaims(t)
       THEN /\ Move(h, [Idle EXCEPT !.pc = "reading", !.user = t.user, !.token = t,
                          !.target = t.tenant, !.todo = ValidationReads(t), !.known = AllFacts])
            /\ UNCHANGED verdicts
       ELSE /\ End(h)
            /\ verdicts' = verdicts \cup {[token |-> t, accept |-> FALSE, faulty |-> FALSE,
                                           quiet |-> t.asOf = edits, known |-> AllFacts]}
  /\ Reads

----------------------------------------------------------------------------
(* The reads *)

Head1(h) == Head(handler[h].todo)
Reading(h, what) ==
  handler[h].pc = "reading" /\ handler[h].todo # <<>> /\ Head1(h).what = what

(* The decision goes on with its next read. *)
Advance(h, record, more) == Move(h, [record EXCEPT !.todo = more \o Tail(@)])

(* A refusal.  A validation that is refused is on record; a refusal after a   *)
(* failed read is a fault.                                                   *)
Refuse(h, ok) ==
  /\ End(h)
  /\ verdicts' = IF Plan(h).kind = "exchange" THEN verdicts
                 ELSE verdicts \cup {[token |-> handler[h].token, accept |-> FALSE,
                                      faulty |-> ~ok, known |-> handler[h].known,
                                      quiet |-> handler[h].token.asOf = edits]}

(* ListEffectiveTenantIDs, which the four listings below use. *)
Memberships(u) == {t \in Tenants : held[<<u, t>>] # {}}

(* The same read of each of some tenants *)
ReadEach(what, S, rule) ==
  [i \in 1..Cardinality(S) |-> Read(what, InOrder(S)[i], {}, rule)]

(* discoverTenantTargets: what the loop over the candidates reads first of    *)
(* each; what it reads next follows from the answer.                          *)
LoopReads(h, ids) ==
  LET candidates == IF Mode(h) = "v1" THEN ids \cap deployment.canary ELSE ids
      first == IF PlatformFederated(h) THEN "tenant" ELSE "roles"
  IN ReadEach(first, candidates, "skip")

(* The tenants whose client and role definitions discovery reads as well. *)
Full(h, t) ==
  /\ Mode(h) = "v2" /\ ~PlatformFederated(h)
  /\ t # handler[h].home \/ Principal(handler[h].user).home = Absent

Listing(h, rule) == Reading(h, "ids") /\ Head1(h).rule = rule

(* resolveTenantScopedAuthorization: the target is among the subject's        *)
(* tenants, whose roles are read and then defined.                            *)
ListTargets(h) ==
  /\ Listing(h, "must")
  /\ \E ok \in Outcomes :
       LET m == handler[h]  ids == Memberships(m.user) IN
       IF ok /\ m.target \in ids /\ (Mode(h) = "v1" => m.target \in deployment.canary)
       THEN /\ Advance(h, m, ReadEach("roles", ids, "must")
                             \o <<Read("tenant", m.target, {}, "define")>>)
            /\ UNCHANGED verdicts
       ELSE Refuse(h, ok)
  /\ Reads

(* resolveDiscoveryHome: a user of the directory has its first tenant for home. *)
DeriveHome(h) ==
  /\ Listing(h, "home")
  /\ \E ok \in Outcomes :
       LET m == handler[h]  ids == Memberships(m.user) IN
       IF ok /\ ids # {}
       THEN /\ LET first == InOrder(ids)[1] IN
               Advance(h, [m EXCEPT !.home = first, !.allowed = {first}],
                       <<Read("tenant", first, {}, "must")>>)
            /\ UNCHANGED verdicts
       ELSE Refuse(h, ok)
  /\ Reads

(* discoverTenantTargets: a platform principal considers the active tenants. *)
Discover(h) ==
  /\ Listing(h, "skip")
  /\ \E ok \in Outcomes :
       LET m == handler[h]
           ids == IF PlatformFederated(h) THEN active ELSE Memberships(m.user) IN
       IF ok /\ (Principal(m.user).home = Absent => m.home \in ids)
       THEN /\ Advance(h, [m EXCEPT !.ids = ids], LoopReads(h, ids))
            /\ UNCHANGED verdicts
       ELSE Refuse(h, ok)
  /\ Reads

(* listTenantIDs and resolveTenantID of the plain exchange: a failure counts  *)
(* as an empty list, and then only the home may be the target.                *)
ListLeniently(h) ==
  /\ Listing(h, "lenient")
  /\ \E ok \in Outcomes :
       LET m == handler[h]  home == Principal(m.user).home
           listed == IF ok THEN Memberships(m.user) ELSE {}
           t == IF m.target # Absent THEN m.target
                ELSE IF listed # {} THEN InOrder(listed)[1] ELSE home
           client == <<Read("client", t, {}, "must")>>
       IN IF t # Absent /\ (IF listed = {} THEN t = home ELSE t \in listed)
          THEN /\ Advance(h, [m EXCEPT !.target = t],
                    IF home = Absent
                    THEN <<Read("roles", t, {}, "resolve")>> \o client
                    ELSE IF EffectiveRole(m.user, Privileged(h)) \notin {"ADMIN", "COMPANY_ADMIN"}
                    THEN client \o <<Read("roles", t, {}, "lenient")>>
                    ELSE client)
               /\ UNCHANGED verdicts
          ELSE Refuse(h, ok)
  /\ Reads

(* The definitions that the roles of tenant t lead to. *)
Definitions(t, roles, rule) ==
  IF roles = {} THEN <<>> ELSE <<Read("definition", t, roles, rule)>>

(* accessTenantRoles, GetEffectiveTenantRoles: an empty answer is no          *)
(* membership.  A bearer must still hold exactly the roles that were signed;  *)
(* the plain exchange adds the stored role, and goes on without an answer.    *)
ReadRoles(h) ==
  /\ Reading(h, "roles")
  /\ \E ok \in Outcomes :
       LET m == handler[h]  x == Head1(h)
           now == held[<<m.user, x.tenant>>]
           own == IF x.rule = "lenient" THEN {Principal(m.user).role} ELSE {}
           roles == (IF ok THEN now ELSE {}) \cup own
       IN IF /\ ok \/ x.rule = "lenient"
             /\ roles # {}
             /\ Plan(h).kind = "validate" => roles = m.token.roles
          THEN /\ Advance(h, [m EXCEPT !.roles[x.tenant] = roles],
                    IF x.rule \in {"resolve", "lenient"} \/ Plan(h).kind = "validate"
                    THEN Definitions(x.tenant, roles, x.rule)
                    ELSE IF x.rule = "skip" THEN <<Read("tenant", x.tenant, {}, "skip")>> ELSE <<>>)
               /\ UNCHANGED verdicts
          ELSE Refuse(h, ok)
  /\ Reads

(* tenantRepo.Get: the home, the strict target, or one tenant of discovery. *)
ReadTenant(h) ==
  /\ Reading(h, "tenant")
  /\ \E ok \in Outcomes :
       LET m == handler[h]  x == Head1(h)
           partial == x.rule = "skip" /\ (PlatformFederated(h) \/ Mode(h) = "v1" \/
                        (x.tenant = m.home /\ Principal(m.user).home # Absent))
       IN IF ok /\ x.tenant \in active
          THEN /\ Advance(h, [m EXCEPT !.allowed = IF partial THEN @ \cup {x.tenant} ELSE @],
                    IF x.rule = "define"
                    THEN Definitions(x.tenant, m.roles[x.tenant], "must")
                    ELSE IF x.rule = "skip" /\ Full(h, x.tenant)
                    THEN <<Read("client", x.tenant, {}, "skip")>> ELSE <<>>)
               /\ UNCHANGED verdicts
          ELSE IF ok /\ x.rule = "skip" THEN Advance(h, m, <<>>) /\ UNCHANGED verdicts
          ELSE Refuse(h, ok)
  /\ Reads

(* GetClient: the target's audience, or the managed audience of a tenant that *)
(* discovery considers.                                                      *)
ReadClient(h) ==
  /\ Reading(h, "client")
  /\ \E ok \in Outcomes :
       LET m == handler[h]  x == Head1(h)  scopes == audience[x.tenant]
           usable == ok /\ scopes # Absent /\ (Plan(h).kind = "exchange" /\ Discovers(h) => scopes # {})
       IN IF x.rule = "skip"
          THEN /\ IF usable
                  THEN Advance(h, [m EXCEPT !.allowed = @ \cup {x.tenant}],
                               Definitions(x.tenant, m.roles[x.tenant], "skip"))
                  ELSE Advance(h, m, <<>>)
               /\ UNCHANGED verdicts
          ELSE IF usable /\ (Plan(h).kind = "exchange" /\ Discovers(h) => x.tenant \in m.allowed)
          THEN Advance(h, [m EXCEPT !.client = scopes], <<>>) /\ UNCHANGED verdicts
          ELSE Refuse(h, ok)
  /\ Reads

(* GetByName with ValidCanonicalPermissions, or ResolvePermissions: there a   *)
(* role that is not defined contributes nothing.                             *)
ReadDefinition(h) ==
  /\ Reading(h, "definition")
  /\ \E ok \in Outcomes :
       LET m == handler[h]  x == Head1(h)
           role == CHOOSE r \in x.roles : TRUE
           rest == Definitions(x.tenant, x.roles \ {role}, x.rule)
           scopes == definition[<<x.tenant, role>>]
           canonical == ok /\ scopes # Absent /\ ValidPermissions(scopes)
           empty == ok /\ (scopes = Absent \/ scopes = {})
           grown == [m EXCEPT !.defined = @ \cup {<<x.tenant, role, scopes>>}]
       IN IF canonical THEN Advance(h, grown, rest) /\ UNCHANGED verdicts
          ELSE IF x.rule = "lenient" \/ (x.rule = "resolve" /\ empty)
          THEN Advance(h, m, rest) /\ UNCHANGED verdicts
          ELSE IF x.rule = "skip"
          THEN Advance(h, [m EXCEPT !.allowed = @ \ {x.tenant}], <<>>) /\ UNCHANGED verdicts
          ELSE Refuse(h, ok)
  /\ Reads

(* GetAccessAssignment in MASTER.  Discovery looks only when the roles it     *)
(* resolved there include ADMIN.                                             *)
ReadDirect(h) ==
  /\ Reading(h, "direct")
  /\ \E ok \in Outcomes :
       LET m == handler[h]  x == Head1(h)
           relevant == Plan(h).kind = "exchange" =>
             /\ MayRecover(m.user) /\ Master \in m.allowed /\ "ADMIN" \in m.roles[Master]
           mine == ok /\ m.user \in direct
       IN IF x.rule = "must" /\ ~mine THEN Refuse(h, ok)
          ELSE Advance(h, [m EXCEPT !.direct = relevant /\ mine], <<>>) /\ UNCHANGED verdicts
  /\ Reads

----------------------------------------------------------------------------
(* What the reads add up to *)

Permissions(m, t) == UNION {d[3] : d \in {e \in m.defined : e[1] = t}}

(* The generated administrator role of a tenant also conveys the secret       *)
(* scopes, which older roles could not absorb.                               *)
CreatorAdministrator(m, t) ==
  \E d \in m.defined : d[1] = t /\ d[2] = CreatorRole[t] /\ IdentityWrite \in d[3]

(* targetAuthority *)
TargetAuthority(h) ==
  LET m == handler[h]
      role == EffectiveRole(m.user, Privileged(h))
      directory == Principal(m.user).home = Absent
  IN IF (m.target = m.home /\ ~directory) \/ PlatformFederated(h)
     THEN HomeAuthority(role, m.client)
     ELSE (Permissions(m, m.target) \cap Assignable)
            \cup (IF CreatorAdministrator(m, m.target) THEN SecretScopes ELSE {})
            \cup (IF directory THEN {} ELSE HomeGlobalAuthority(role, m.client))

(* scopesAllowed *)
ScopesAllowed(h, scopes) ==
  LET m == handler[h]  role == EffectiveRole(m.user, Privileged(h)) IN
  \/ role = "ADMIN"
  \/ role = "COMPANY_ADMIN" /\ PlatformScope \notin scopes
  \/ /\ role \notin {"ADMIN", "COMPANY_ADMIN"}
     /\ scopes \subseteq Permissions(m, m.target)
          \cup (IF "EMPLOYEE" \in m.roles[m.target] THEN EmployeeScopes ELSE {})

(* The token names its roles unless it is one of the signed home. *)
Scoped(h) ==
  LET m == handler[h] IN
  CASE Discovers(h)       -> m.target # m.home \/ Principal(m.user).home = Absent
    [] Mode(h) = "strict" -> TRUE
    [] OTHER              -> Principal(m.user).home = Absent

(* The scopes of the token, or none. *)
EffectiveScopes(h) ==
  LET m == handler[h]  request == Plan(h).request
      asked == IF request = {} THEN m.client ELSE request
      effective == m.client \cap TargetAuthority(h) \cap Plan(h).ceiling
      within == m.client = {} \/ asked \subseteq m.client
      allowed == IF Scoped(h) THEN asked \subseteq Permissions(m, m.target)
                 ELSE asked = {} \/ ScopesAllowed(h, asked)
  IN IF Discovers(h)
     THEN IF request = {} THEN effective ELSE IF request \subseteq effective THEN request ELSE {}
     ELSE IF within /\ allowed THEN asked ELSE {}

Recovered(h) == handler[h].direct /\ handler[h].target = Master
PrincipalTenant(h) == IF handler[h].direct THEN Master ELSE handler[h].home

(* managedLogsPlatformIssuance: requested by name, or discovered at the       *)
(* principal's own tenant within the request's ceiling; *)
LogsAsked(h) ==
  LET request == Plan(h).request IN
  \/ LogsScope \in request
  \/ /\ Mode(h) = "v2" /\ request = {} /\ handler[h].target = PrincipalTenant(h)
     /\ LogsScope \in Plan(h).ceiling

AtEnd(h) == handler[h].pc = "reading" /\ handler[h].todo = <<>>
Signing(h) == AtEnd(h) /\ Plan(h).kind = "exchange"
LogsOpen(h, stage) ==
  Signing(h) /\ LogsScope \in EffectiveScopes(h) /\ handler[h].logs = stage

(* the platform identity is read again (managedLogsPlatformAuthority), *)
ReadLogsAuthority(h) ==
  /\ LogsOpen(h, "open")
  /\ \E ok \in Outcomes :
       LET m == handler[h]  p == Principal(m.user)
           mine == IF p.federated THEN PlatformFederated(h)
                   ELSE ok /\ p.home # Absent /\ p.role = "ADMIN" /\ m.user \in direct
       IN Move(h, [m EXCEPT !.logs = IF LogsAsked(h) /\ mine THEN "assigned" ELSE "denied"])
  /\ Reads /\ UNCHANGED verdicts

(* and so is the client. *)
ReadLogsClient(h) ==
  /\ LogsOpen(h, "assigned")
  /\ \E ok \in Outcomes :
       LET m == handler[h]  scopes == audience[m.target]
           covers == ok /\ scopes # Absent /\ LogsScope \in scopes
       IN Move(h, [m EXCEPT !.logs = IF covers THEN "granted" ELSE "denied"])
  /\ Reads /\ UNCHANGED verdicts

(* The claims of the token *)
Claims(h, scopes) ==
  LET m == handler[h]  a == Session(h)  scoped == Scoped(h)
      role == EffectiveRole(m.user, Privileged(h))
      platform == PlatformScope \in scopes
      lifted == Recovered(h) /\ platform
  IN [id |-> h, mode |-> Mode(h), user |-> m.user, email |-> a.email, version |-> a.version,
      tenant |-> m.target, scopes |-> scopes,
      principal |-> IF Recovered(h) THEN Master ELSE Principal(m.user).home,
      role |-> IF lifted THEN "ADMIN" ELSE IF scoped THEN Absent ELSE role,
      roles |-> IF scoped THEN m.roles[m.target] ELSE Absent,
      privilege |-> lifted \/ (~scoped /\ role = "ADMIN" /\ platform),
      origin |-> Privileged(h), asOf |-> m.asOf, known |-> m.known]

(* The end of TokenExchange.  Automatic discovery drops the platform log      *)
(* scope when it is denied; any other exchange fails.                         *)
Sign(h) ==
  /\ Signing(h) /\ (LogsScope \in EffectiveScopes(h) => handler[h].logs \in {"granted", "denied"})
  /\ LET scopes == EffectiveScopes(h)
         kept == IF LogsScope \notin scopes \/ handler[h].logs = "granted" THEN scopes
                 ELSE IF Discovers(h) /\ Plan(h).request = {} THEN scopes \ {LogsScope} ELSE {}
         bare == ~Discovers(h) /\ Plan(h).request = {} /\ handler[h].client = {}
     IN tokens' = IF kept # {} \/ bare THEN tokens \cup {Claims(h, kept)} ELSE tokens
  /\ End(h)
  /\ UNCHANGED <<deployment, registry, edits, direct, verdicts>>

(* Mutant: a validation does not know of the secret scopes. *)
ForgetfulAuthority(h) ==
  LET m == handler[h]  t == m.token
      role == EffectiveRole(m.user, t.privilege /\ Principal(m.user).federated) IN
  Permissions(m, t.tenant)
    \cup (IF t.origin THEN HomeAuthority("ADMIN", t.scopes) ELSE {})
    \cup (IF Principal(m.user).home # Absent THEN HomeGlobalAuthority(role, t.scopes) ELSE {})
    \cup (IF RecoveredClaims(t) THEN t.scopes ELSE {})

(* validateCurrentAccessTokenTarget and validateCurrentAccessTokenAuthority *)
CurrentAuthority(h) ==
  LET m == handler[h]  t == m.token
      role == EffectiveRole(m.user, t.privilege /\ Principal(m.user).federated) IN
  Permissions(m, t.tenant)
    \cup (IF CreatorAdministrator(m, t.tenant) THEN SecretScopes ELSE {})
    \cup (IF t.origin THEN HomeAuthority("ADMIN", t.scopes) ELSE {})
    \cup (IF Principal(m.user).home # Absent THEN HomeGlobalAuthority(role, t.scopes) ELSE {})
    \cup (IF RecoveredClaims(t) THEN t.scopes ELSE {})

Conclude(h) ==
  /\ AtEnd(h) /\ Plan(h).kind = "validate"
  /\ LET m == handler[h]  t == m.token
         accept == t.scopes = {} \/
           /\ m.client # {} /\ t.scopes \subseteq m.client
           /\ t.roles # Absent => t.scopes \subseteq CurrentAuthority(h)
     IN verdicts' = verdicts \cup {[token |-> t, accept |-> accept, faulty |-> FALSE,
                                    quiet |-> t.asOf = edits, known |-> m.known]}
  /\ End(h)
  /\ Reads

----------------------------------------------------------------------------
(* The own assignment in MASTER is withdrawn; groups may still convey ADMIN. *)
WithdrawDirect(e) ==
  /\ Pending(e, "direct")
  /\ direct' = direct \ {e.user}
  /\ UNCHANGED registry

RegistryEdit ==
  /\ \/ Edit /\ UNCHANGED direct
     \/ \E e \in edits : WithdrawDirect(e)
  /\ handler' = [h \in Handlers |->
       IF handler[h].known = {} THEN handler[h]
       ELSE [handler[h] EXCEPT !.known = @ \cup AllFacts']]
  /\ UNCHANGED <<tokens, verdicts>>

Next ==
  \/ \E h \in Handlers :
       \/ Exchange(h) \/ Validate(h)
       \/ ListTargets(h) \/ DeriveHome(h) \/ Discover(h) \/ ListLeniently(h)
       \/ ReadRoles(h) \/ ReadTenant(h) \/ ReadClient(h) \/ ReadDefinition(h) \/ ReadDirect(h) \/ ReadLogsAuthority(h) \/ ReadLogsClient(h)
       \/ Sign(h) \/ Conclude(h)
  \/ RegistryEdit

Spec == TokensInit /\ [][Next]_vars

----------------------------------------------------------------------------
(* Properties *)

(* What may justify a scope, in terms of the facts that held at some moment   *)
(* while the decision was taken.                                             *)
HeldIn(u, t, r, K) == <<"role", u, t, r>> \in K
DefinedIn(t, r, s, K) ==
  \E f \in K : f[1] = "definition" /\ f[2] = t /\ f[3] = r /\ f[4] # Absent /\ s \in f[4]
MemberIn(u, t, K) == \E r \in RoleNames : HeldIn(u, t, r, K)

(* The home and the tenants of the subject's roles; the plain exchange counts  *)
(* the stored role of an account like one it holds there (scopesAllowed).     *)
BelongsIn(t, K) == t.tenant = Principal(t.user).home \/ MemberIn(t.user, t.tenant, K)
CountsIn(t, r, K) ==
  \/ HeldIn(t.user, t.tenant, r, K)
  \/ t.mode = "legacy" /\ r = Principal(t.user).role /\ BelongsIn(t, K)

Conveyed(t, s, K) == \E r \in RoleNames : CountsIn(t, r, K) /\ DefinedIn(t.tenant, r, s, K)

ByCreator(t, s, K) ==
  /\ s \in SecretScopes /\ HeldIn(t.user, t.tenant, CreatorRole[t.tenant], K)
  /\ DefinedIn(t.tenant, CreatorRole[t.tenant], IdentityWrite, K)

ByHome(t, s, K) ==
  LET p == Principal(t.user)
      role == EffectiveRole(t.user, t.origin)
  IN /\ role \in {"ADMIN", "COMPANY_ADMIN"} /\ (s = PlatformScope => role = "ADMIN")
     /\ p.home # Absent
     /\ \/ t.tenant = p.home
        \/ p.federated /\ t.origin /\ p.home = Master
        \/ MemberIn(t.user, t.tenant, K) /\
             (s \notin Assignable \/ s = FeatureWrite \/ t.mode = "legacy")

Justified(t, s, K) ==
  \/ Conveyed(t, s, K) \/ ByCreator(t, s, K) \/ ByHome(t, s, K)
  \/ s \in EmployeeScopes /\ CountsIn(t, "EMPLOYEE", K)

(* The log scope of the platform rests on the own assignment in MASTER, or    *)
(* on the privilege of a federated administrator.                             *)
LogsJustified(t, K) ==
  LogsScope \in t.scopes => <<"direct", t.user>> \in K \/ (Principal(t.user).federated /\ t.origin)

(* A validation counts every signed scope of a bearer whose authority is the  *)
(* platform's own: an administrator of the allowlist, or a recovered one with *)
(* its assignment in MASTER.                                                  *)
PlatformBearer(t, K) ==
  \/ t.origin /\ Principal(t.user).role = "ADMIN" /\ Principal(t.user).listed
  \/ RecoveredClaims(t) /\ <<"direct", t.user>> \in K

JustifiedToken(t) == LogsJustified(t, t.known) /\ \A s \in t.scopes : Justified(t, s, t.known)

(* What an accepted token rests on: the tenant, the session and the authority  *)
(* of its subject held while it was validated.                                *)
RestsOnCurrent(v) ==
  LET t == v.token IN
  /\ <<"tenant", t.tenant>> \in v.known /\ <<"version", t.user, t.version>> \in v.known
  /\ LogsJustified(t, v.known)
  /\ t.roles # Absent =>
       /\ \A r \in t.roles : HeldIn(t.user, t.tenant, r, v.known)
       /\ \A s \in t.scopes : Justified(t, s, v.known) \/ PlatformBearer(t, v.known)
       /\ RecoveredClaims(t) => <<"direct", t.user>> \in v.known

(* Every scope of a token was justified while it was decided: by a role its   *)
(* subject held there and that was defined so, by the generated administrator *)
(* role, or by the subject's home authority, although the reads are separate  *)
(* and discovery visits every tenant of the subject in between.              *)
TokenScopesJustified == \A t \in tokens : JustifiedToken(t)

(* A token that names its roles is accepted only on authority that held while *)
(* it was validated: nothing withdrawn before the validation began counts.    *)
AcceptanceIsCurrent == \A v \in verdicts : v.accept => RestsOnCurrent(v)

(* What an exchange signs, a validation accepts, as long as nothing changed   *)
(* since the exchange began and no read failed: the two compute the subject's *)
(* authority separately, in different code.  They differ, and are not         *)
(* compared, where the plain exchange skips undefined roles; where the client *)
(* has no scopes, which only the strict and the plain exchange take for no    *)
(* limit; and where a federated administrator bears the log scope away from   *)
(* its home or without the platform scope that lets the token say so.         *)
Comparable(t, K) ==
  /\ t.mode # "legacy"
  /\ t.mode = "strict" => <<"audience", t.tenant, {}>> \notin K
  /\ LogsScope \in t.scopes /\ Principal(t.user).federated =>
       PlatformScope \in t.scopes /\ t.tenant = Principal(t.user).home

FreshTokensAccepted ==
  \A v \in verdicts : v.quiet /\ ~v.faulty /\ Comparable(v.token, v.known) => v.accept

(* docs/adr/0011-managed-logs-workload-grants.md:111: "Every human            *)
(* token-exchange path, including legacy, requires an explicit requested      *)
(* scope".                                                                   *)
PlatformLogsRequested ==
  \A t \in tokens : LogsScope \in t.scopes => LogsScope \in Plan(t.id).request
=============================================================================
