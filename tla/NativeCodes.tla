---------------------------- MODULE NativeCodes ----------------------------
(***************************************************************************)
(* The authorization-code exchange of native applications (internal/         *)
(* nativeauth, internal/nativepolicy, internal/services/native_saml.go): a   *)
(* browser with a SAML session opens a request, sees a consent page, posts   *)
(* its decision, and the application redeems the code it is redirected with. *)
(* Each HTTP request is served by a handler of its own; one step of a handler *)
(* is one command to the store, so handlers, edits of the registry, expiry   *)
(* and the clock interleave between any two of its commands.                 *)
(*                                                                         *)
(* A policy stands for a registered client together with the fingerprint of  *)
(* its configuration; a replica serves a request under the policy it was     *)
(* deployed with.  An application stands for its loopback redirect, its      *)
(* state and its proof key: only it knows the verifier of its challenge.     *)
(***************************************************************************)
EXTENDS Authority

CONSTANTS
  Handlers, RequestIds, CodeIds, Apps, Sessions,
  RequestTTL, CodeTTL,
  MaxTime       \* bound on the clock

ASSUME TimesAreNatural ==
  RequestTTL \in Nat \ {0} /\ CodeTTL \in Nat \ {0} /\ MaxTime \in Nat
ASSUME IdsAreDisjoint ==
  /\ RequestIds \cap CodeIds = {} /\ (RequestIds \cup CodeIds) \cap Handlers = {}
  /\ Absent \notin Handlers

(* What the store holds: a request under a request id, a grant under a code. *)
Policies == UNION {DOMAIN d.policy : d \in Deployments}
RequestRecord == [policy : Policies, app : Apps, expires : Nat]
GrantRecord == [policy : Policies, app : Apps, subject : Users, email : Emails, version : Nat,
                scopes : SUBSET Scopes, deadline : Nat, expires : Nat, request : RequestIds]

ASSUME AbsentIsNoRecord == Absent \notin RequestRecord \cup GrantRecord
ASSUME NativeDeployments ==
  \A d \in Deployments :
    /\ \A s \in Sessions : d.session[s].user \in Users /\ d.session[s].exp \in Nat
    /\ \A h \in Handlers : /\ d.plan[h].session \in Sessions /\ d.plan[h].app \in Apps
                          /\ d.plan[h].policy \in DOMAIN d.policy
    /\ \A p \in DOMAIN d.policy :
         LET policy == d.policy[p] IN
         /\ policy.target \in Tenants /\ policy.ttl \in Nat
         /\ policy.base \in RoleNames /\ policy.further \in Seq(RoleNames)
         /\ \A r \in RoleNames : policy.scopes[r] \subseteq Scopes

VARIABLES
  now,
  store,        \* id -> the stored request or grant, or Absent
  drawn,        \* history: ids that were drawn at random
  taker,        \* history: id -> the handler whose command deleted it
  pages,        \* consent pages that were shown
  approvals,    \* history: decisions to approve that consumed their request
  issued,       \* tokens that were signed
  given,        \* codes and tokens (by handler) that left the server
  audit,        \* durable audit records <<handler, phase>>
  handler       \* handler -> where it is and what it has read

history == <<drawn, taker, approvals>>
grants == <<now, store, drawn, taker, pages, approvals, issued, given, audit, handler>>
vars == <<deployment, registry, edits, grants>>

Ids == RequestIds \cup CodeIds

(* What deployment adds to the registry:                                    *)
(*   plan[h]      the kind of request h serves, with its session, its        *)
(*                application, the policy of the replica and the decision    *)
(*   session[s]   the claims of a browser session                           *)
(*   policy[p]    home and target tenant, base role, further roles in order, *)
(*                the scopes each role must define, required scopes, TTL     *)
(*   clock, faults: time passes; commands fail or their replies are lost     *)
Plan(h) == deployment.plan[h]
Policy(h) == deployment.policy[Plan(h).policy]
Session(h) == deployment.session[Plan(h).session]
Kind(h, kinds) == Plan(h).kind \in kinds

Idle == [pc |-> "idle", id |-> Absent, snapshot |-> Absent, page |-> Absent, user |-> Absent,
         todo |-> {}, roles |-> {}, identity |-> Absent, known |-> {}, uses |-> {}]

NativeInit ==
  /\ AuthorityInit
  /\ now = 0
  /\ store = [i \in Ids |-> Absent]
  /\ drawn = {} /\ taker = [i \in Ids |-> Absent]
  /\ pages = {} /\ approvals = {} /\ issued = {} /\ given = {} /\ audit = {}
  /\ handler = [h \in Handlers |-> Idle]

At(h, label) == handler[h].pc = label
Move(h, record) == handler' = [handler EXCEPT ![h] = record]
End(h) == Move(h, [Idle EXCEPT !.pc = "done"])

(* The handler goes on to its next command when the check holds, else it     *)
(* answers with an error.                                                   *)
Check(h, ok, next) ==
  IF ok THEN Move(h, [handler[h] EXCEPT !.pc = next]) ELSE End(h)

Reads == UNCHANGED <<deployment, registry, edits, now, store, history, pages, issued, given,
                     audit>>

----------------------------------------------------------------------------
(* The store (store.go) *)

(* Store.put: a fresh random identifier, SETNX with the remaining lifetime. *)
Put(i, record) ==
  /\ drawn' = drawn \cup {i}
  /\ store' = [store EXCEPT ![i] = record]

(* Store.Request and Store.Code: present and not past its own expiry. *)
Readable(i) == store[i] # Absent /\ store[i].expires > now

(* Mutant: the record is compared and left in place. *)
KeepRecord(h) ==
  /\ taker' = [taker EXCEPT ![handler[h].id] = h]
  /\ UNCHANGED store

(* Store.consume: one script compares the record and deletes it. *)
Delete(h) ==
  /\ store' = [store EXCEPT ![handler[h].id] = Absent]
  /\ taker' = [taker EXCEPT ![handler[h].id] = h]

(* ConsumeRequest and ConsumeCode *)
Consumable(h) ==
  LET m == handler[h] IN m.snapshot.expires > now /\ store[m.id] = m.snapshot

----------------------------------------------------------------------------
(* The policy (policy.go) *)

PolicyRoles(p) == <<p.base>> \o p.further

(* Client.ScopesForRoles: the union of the held roles' scopes, provided that *)
(* the base role is held and every required scope is in it.                  *)
ScopesForRoles(p, roles) ==
  LET scopes == UNION {p.scopes[r] : r \in roles} IN
  IF p.base \in roles /\ p.required \subseteq scopes THEN scopes ELSE Absent

----------------------------------------------------------------------------
(* Opening a request and showing the consent page (http.go) *)

(* Handler.authorize *)
Authorize(h) ==
  /\ Kind(h, {"authorize"}) /\ At(h, "idle")
  /\ \E i \in RequestIds \ drawn :
       LET request == [policy |-> Plan(h).policy, app |-> Plan(h).app,
                       expires |-> now + RequestTTL] IN
       /\ Put(i, request)
       /\ Move(h, [Idle EXCEPT !.pc = "session", !.id = i, !.snapshot = request])
  /\ UNCHANGED <<deployment, registry, edits, now, taker, pages, approvals, issued, given,
                 audit>>

(* Handler.request: the stored request, under the policy it was opened with. *)
OpenRequest(h, i) == Readable(i) /\ store[i].policy = Plan(h).policy

(* Handler.resume, after the browser signed in *)
Resume(h) ==
  /\ Kind(h, {"resume"}) /\ At(h, "idle")
  /\ \E i \in drawn \cap RequestIds :
       /\ OpenRequest(h, i)
       /\ Move(h, [Idle EXCEPT !.pc = "session", !.id = i, !.snapshot = store[i]])
  /\ Reads

(* Handler.consent reads the request the form names; the form carries the    *)
(* value of a page that was shown.                                          *)
ReadRequest(h) ==
  /\ Kind(h, {"consent"}) /\ At(h, "idle")
  /\ \E page \in pages :
       /\ OpenRequest(h, page.request)
       /\ Move(h, [Idle EXCEPT !.pc = "session", !.id = page.request, !.page = page,
                     !.snapshot = store[page.request], !.known = Facts])
  /\ Reads

----------------------------------------------------------------------------
(* Handler.token reads the code and checks what the application presents:   *)
(* its client, its redirect and the verifier of the challenge.               *)
ReadCode(h) ==
  /\ Kind(h, {"token"}) /\ At(h, "idle")
  /\ \E i \in given \cap CodeIds :
       LET grant == store[i] IN
       /\ Readable(i) /\ grant.deadline > now
       /\ grant.policy = Plan(h).policy /\ grant.app = Plan(h).app
       /\ Move(h, [Idle EXCEPT !.pc = "intent", !.id = i, !.snapshot = grant])
  /\ Reads

(* ValidateAccessToken is presented with a native token. *)
Present(h) ==
  /\ Kind(h, {"validate"}) /\ At(h, "idle")
  /\ \E token \in issued :
       /\ token.handler \in given /\ token.exp > now
       /\ token.policy = Plan(h).policy
       /\ Move(h, [Idle EXCEPT !.pc = "bearer", !.snapshot = token, !.known = Facts])
  /\ Reads

----------------------------------------------------------------------------
(* The authority (native_saml.go), one read per step *)

Copy(h, u) == [handler[h] EXCEPT !.user = [id |-> u, record |-> account[u]]]

(* validateCurrentIDToken: the subject of the browser session, with the      *)
(* address and the token version that the session was signed with.           *)
ReadSession(h) ==
  /\ At(h, "session")
  /\ LET s == Session(h)  a == account[s.user] IN
     IF s.exp > now /\ a.active /\ a.email = s.email /\ a.version = s.version
     THEN Move(h, [Copy(h, s.user) EXCEPT !.pc = "sessionTenant"])
     ELSE End(h)
  /\ Reads

(* BrowserIdentity: the tenant of the session is active, the session is not  *)
(* over, and its tenant is the policy's identity tenant.                     *)
ReadSessionTenant(h) ==
  /\ At(h, "sessionTenant")
  /\ Check(h, /\ Session(h).tenant \in active /\ Session(h).exp > now
              /\ Session(h).tenant = Policy(h).home, "home")
  /\ Reads

(* IssueNativeToken: the current account of the grant's subject. *)
ReadSubject(h) ==
  /\ At(h, "subject")
  /\ LET u == handler[h].snapshot.subject IN
     IF account[u].active THEN Move(h, [Copy(h, u) EXCEPT !.pc = "home"]) ELSE End(h)
  /\ Reads

(* ValidateAccessToken: the account of the token's subject. *)
ReadBearer(h) ==
  /\ At(h, "bearer")
  /\ LET t == handler[h].snapshot  a == account[t.subject] IN
     IF a.active /\ a.email = t.email /\ a.version = t.version
     THEN Move(h, [Copy(h, t.subject) EXCEPT !.pc = "bearerTenant"])
     ELSE End(h)
  /\ Reads

(* validateCurrentAccessTokenTarget *)
ReadBearerTenant(h) ==
  /\ At(h, "bearerTenant")
  /\ Check(h, Policy(h).target \in active, "bearerAudience")
  /\ Reads

ReadBearerAudience(h) ==
  /\ At(h, "bearerAudience")
  /\ LET a == audience[Policy(h).target] IN
     Check(h, a # Absent /\ handler[h].snapshot.scopes \subseteq a, "home")
  /\ Reads

(* currentNativeIdentity: both tenants, *)
ReadHome(h) ==
  /\ At(h, "home")
  /\ Check(h, Policy(h).home \in active, "target")
  /\ Reads

ReadTarget(h) ==
  /\ At(h, "target")
  /\ Check(h, Policy(h).target \in active, "roles")
  /\ Reads

(* Mutant: the policy's roles are taken for granted once consent was given. *)
AssumeRoles(h) ==
  /\ At(h, "roles")
  /\ Move(h, [handler[h] EXCEPT !.pc = "definitions", !.todo = DOMAIN PolicyRoles(Policy(h))])
  /\ Reads

(* the roles the subject holds, of those the policy names (by position), *)
ReadRoles(h) ==
  /\ At(h, "roles")
  /\ LET mine == held[<<handler[h].user.id, Policy(h).target>>]
         roles == PolicyRoles(Policy(h)) IN
     Move(h, [handler[h] EXCEPT !.pc = "definitions",
                !.todo = {n \in DOMAIN roles : roles[n] \in mine}])
  /\ Reads

(* the definition of each, which must be the one the policy expects, *)
ReadDefinition(h) ==
  /\ At(h, "definitions")
  /\ \E n \in handler[h].todo :
       LET r == PolicyRoles(Policy(h))[n] IN
       /\ \A k \in handler[h].todo : n <= k
       /\ IF definition[<<Policy(h).target, r>>] = Policy(h).scopes[r]
          THEN Move(h, [handler[h] EXCEPT !.todo = @ \ {n}, !.roles = @ \cup {r}])
          ELSE End(h)
  /\ Reads

(* and last the audience client, whose scopes must cover the identity's. *)
Identity(h) ==
  LET m == handler[h]  p == Policy(h) IN
  [subject |-> m.user.id, email |-> m.user.record.email, version |-> m.user.record.version,
   roles |-> m.roles, scopes |-> ScopesForRoles(p, m.roles)]

Covered(h) ==
  LET scopes == Identity(h).scopes  a == audience[Policy(h).target] IN
  scopes # Absent /\ a # Absent /\ scopes \subseteq a

AtAudience(h, kinds) == At(h, "definitions") /\ handler[h].todo = {} /\ Kind(h, kinds)

Uses(h) ==
  LET m == handler[h]  p == Policy(h) IN
  {<<"version", m.user.id, m.user.record.version>>, <<"active", m.user.id>>,
   <<"tenant", p.home>>, <<"tenant", p.target>>, <<"audience", p.target, audience[p.target]>>}
    \cup {<<"role", m.user.id, p.target, r>> : r \in m.roles}
    \cup {<<"definition", p.target, r, p.scopes[r]>> : r \in m.roles}

----------------------------------------------------------------------------
(* What each handler does with the identity *)

(* The value of the consent form: an HMAC of the request, the identity's     *)
(* fingerprint, its token version and the session cookie.                    *)
Csrf(h) ==
  LET i == Identity(h) IN
  [request |-> handler[h].id, subject |-> i.subject, email |-> i.email,
   version |-> i.version, session |-> Plan(h).session]

(* Handler.showConsent *)
ShowConsent(h) ==
  /\ AtAudience(h, {"authorize", "resume"})
  /\ pages' = IF Covered(h) THEN pages \cup {Csrf(h)} ELSE pages
  /\ End(h)
  /\ UNCHANGED <<deployment, registry, edits, now, store, history, issued, given, audit>>

(* Handler.consent: the form belongs to this identity and this session. *)
CheckForm(h) ==
  /\ AtAudience(h, {"consent"})
  /\ IF Covered(h) /\ handler[h].page = Csrf(h)
     THEN Move(h, [handler[h] EXCEPT !.pc = "intent", !.identity = Identity(h), !.uses = Uses(h)])
     ELSE End(h)
  /\ Reads

(* IssueNativeToken: the identity is still the one that consented, and the   *)
(* approved scopes are still within it.                                      *)
Redeemable(h) ==
  LET g == handler[h].snapshot  i == Identity(h) IN
  /\ i.version = g.version /\ i.email = g.email
  /\ g.scopes # {} /\ g.scopes \subseteq i.scopes /\ Policy(h).required \subseteq g.scopes
  /\ g.expires > now /\ g.deadline > now

Earlier(a, b) == IF a < b THEN a ELSE b

(* Mutant: the token carries what its subject may do at the redemption. *)
CurrentClaims(h) ==
  LET g == handler[h].snapshot  i == Identity(h)  p == Policy(h) IN
  [handler |-> h, request |-> g.request, app |-> g.app, policy |-> g.policy,
   subject |-> i.subject, email |-> i.email, version |-> i.version, scopes |-> i.scopes,
   roles |-> i.roles, exp |-> Earlier(now + p.ttl, g.deadline)]

(* The claims: the approved scopes, and of the current roles those whose     *)
(* scopes were all approved.                                                 *)
Claims(h) ==
  LET g == handler[h].snapshot  i == Identity(h)  p == Policy(h) IN
  [handler |-> h, request |-> g.request, app |-> g.app, policy |-> g.policy,
   subject |-> i.subject, email |-> i.email, version |-> i.version, scopes |-> g.scopes,
   roles |-> {r \in i.roles : p.scopes[r] \subseteq g.scopes},
   exp |-> Earlier(now + p.ttl, g.deadline)]

SignToken(h) ==
  /\ AtAudience(h, {"token"})
  /\ IF Covered(h) /\ Redeemable(h)
     THEN /\ issued' = issued \cup {Claims(h)}
          /\ Move(h, [handler[h] EXCEPT !.pc = "outcome", !.uses = Uses(h)])
     ELSE End(h) /\ UNCHANGED issued
  /\ UNCHANGED <<deployment, registry, edits, now, store, history, pages, given, audit>>

(* validateNativeAccessToken *)
Accept(h) ==
  /\ AtAudience(h, {"validate"})
  /\ LET t == handler[h].snapshot  i == Identity(h)  p == Policy(h) IN
     IF /\ Covered(h)
        /\ t.scopes \subseteq i.scopes /\ p.required \subseteq t.scopes
        /\ p.base \in t.roles /\ t.roles \subseteq i.roles
        /\ \A r \in t.roles : p.scopes[r] \subseteq t.scopes
     THEN Move(h, [handler[h] EXCEPT !.pc = "accepted", !.uses = Uses(h)])
     ELSE End(h)
  /\ Reads

----------------------------------------------------------------------------
(* The commands that change the store *)

(* Handler.audit, before anything is consumed *)
RecordIntent(h) ==
  /\ At(h, "intent")
  /\ audit' = audit \cup {<<h, "intent">>}
  /\ Move(h, [handler[h] EXCEPT !.pc = "consume"])
  /\ UNCHANGED <<deployment, registry, edits, now, store, history, pages, issued, given>>

(* The approval that a request was consumed for. *)
Approval(h) ==
  LET i == handler[h].identity IN
  [request |-> handler[h].id, policy |-> Plan(h).policy, app |-> handler[h].snapshot.app,
   session |-> Plan(h).session, subject |-> i.subject, email |-> i.email,
   version |-> i.version, scopes |-> i.scopes, deadline |-> Session(h).exp]

(* Handler.consent and Handler.token: whoever deletes the record goes on. *)
ConsumeRequest(h) ==
  /\ Kind(h, {"consent"}) /\ At(h, "consume")
  /\ IF Consumable(h)
     THEN /\ Delete(h)
          /\ approvals' = IF Plan(h).approve THEN approvals \cup {Approval(h)} ELSE approvals
          /\ Move(h, [handler[h] EXCEPT !.known = {}, !.uses = {},
                        !.pc = IF Plan(h).approve THEN "create" ELSE "outcome"])
     ELSE End(h) /\ UNCHANGED <<store, taker, approvals>>
  /\ UNCHANGED <<deployment, registry, edits, now, drawn, pages, issued, given, audit>>

ConsumeCode(h) ==
  /\ Kind(h, {"token"}) /\ At(h, "consume")
  /\ IF Consumable(h)
     THEN Delete(h) /\ Move(h, [handler[h] EXCEPT !.pc = "subject", !.known = Facts])
     ELSE End(h) /\ UNCHANGED <<store, taker>>
  /\ UNCHANGED <<deployment, registry, edits, now, drawn, approvals, pages, issued, given,
                 audit>>

(* Store.CreateCode: a minute, or what is left of the session. *)
Grant(h) ==
  LET a == Approval(h) IN
  [policy |-> a.policy, app |-> a.app, subject |-> a.subject, email |-> a.email,
   version |-> a.version, scopes |-> a.scopes, deadline |-> a.deadline,
   expires |-> Earlier(now + CodeTTL, a.deadline), request |-> a.request]

CreateCode(h) ==
  /\ At(h, "create")
  /\ IF Grant(h).expires > now
     THEN \E c \in CodeIds \ drawn :
            /\ Put(c, Grant(h))
            /\ Move(h, [handler[h] EXCEPT !.pc = "outcome", !.id = c])
     ELSE End(h) /\ UNCHANGED <<drawn, store>>
  /\ UNCHANGED <<deployment, registry, edits, now, taker, approvals, pages, issued, given,
                 audit>>

(* The outcome is durable before the code or the token leaves the server. *)
Answer(h) ==
  /\ At(h, "outcome")
  /\ audit' = audit \cup {<<h, "outcome">>}
  /\ given' = IF Kind(h, {"token"}) THEN given \cup {h}
              ELSE IF Plan(h).approve THEN given \cup {handler[h].id} ELSE given
  /\ End(h)
  /\ UNCHANGED <<deployment, registry, edits, now, store, history, pages, issued>>

----------------------------------------------------------------------------
(* Time and faults *)

Tick ==
  /\ deployment.clock /\ now < MaxTime
  /\ now' = now + 1
  /\ UNCHANGED <<deployment, registry, edits, store, history, pages, issued, given, audit,
                 handler>>

(* The store drops a record whose lifetime is over. *)
Expire(i) ==
  /\ store[i] # Absent /\ store[i].expires <= now
  /\ store' = [store EXCEPT ![i] = Absent]
  /\ UNCHANGED <<deployment, registry, edits, now, history, pages, issued, given, audit,
                 handler>>

(* A command fails, the ten seconds of a request run out, or the replica     *)
(* stops: the handler does not go on.                                       *)
Fail(h) ==
  /\ deployment.faults /\ handler[h].pc \notin {"idle", "done", "accepted"}
  /\ End(h)
  /\ Reads

(* The command took effect, and its reply was lost. *)
LoseReply(h) ==
  /\ deployment.faults
  /\ \/ /\ At(h, "consume") /\ Consumable(h)
        /\ Delete(h)
        /\ UNCHANGED <<drawn, audit>>
     \/ /\ At(h, "create") /\ Grant(h).expires > now
        /\ \E c \in CodeIds \ drawn : Put(c, Grant(h))
        /\ UNCHANGED <<taker, audit>>
     \/ /\ handler[h].pc \in {"intent", "outcome"}
        /\ audit' = audit \cup {<<h, handler[h].pc>>}
        /\ UNCHANGED <<drawn, store, taker>>
  /\ End(h)
  /\ UNCHANGED <<deployment, registry, edits, now, approvals, pages, issued, given>>

(* An edit of the registry becomes part of what was true during every        *)
(* decision under way.                                                      *)
RegistryEdit ==
  /\ Edit
  /\ handler' = [h \in Handlers |->
       IF handler[h].known = {} THEN handler[h]
       ELSE [handler[h] EXCEPT !.known = @ \cup Facts']]
  /\ UNCHANGED <<now, store, history, pages, issued, given, audit>>

Serve(h) ==
  \/ Authorize(h) \/ Resume(h) \/ ReadRequest(h) \/ ReadCode(h) \/ Present(h)
  \/ ReadSession(h) \/ ReadSessionTenant(h) \/ ReadSubject(h)
  \/ ReadBearer(h) \/ ReadBearerTenant(h) \/ ReadBearerAudience(h)
  \/ ReadHome(h) \/ ReadTarget(h) \/ ReadRoles(h) \/ ReadDefinition(h)
  \/ ShowConsent(h) \/ CheckForm(h) \/ SignToken(h) \/ Accept(h)
  \/ RecordIntent(h) \/ ConsumeRequest(h) \/ ConsumeCode(h) \/ CreateCode(h) \/ Answer(h)

Next ==
  \/ \E h \in Handlers : Serve(h) \/ Fail(h) \/ LoseReply(h)
  \/ RegistryEdit
  \/ Tick
  \/ \E i \in Ids : Expire(i)

Spec == NativeInit /\ [][Next]_vars

----------------------------------------------------------------------------
(* Properties *)

(* The ticket a stored record is: live while it is stored, ended once it was *)
(* drawn and is gone, taken by the handler whose compare-and-delete ended it. *)
Tickets == INSTANCE Ticket WITH
  Ids <- Ids, Holders <- Handlers, None <- Absent,
  live <- store, ended <- {i \in drawn : store[i] = Absent}, taker <- taker

(* Requests and codes are one-time tickets: store.go reads, checks and       *)
(* consumes them in separate commands, and still each is taken by at most    *)
(* one handler, never changes and never comes back.                          *)
GrantsAreTickets == Tickets!Spec

(* A token never exceeds what its user approved.  Whatever ran between the   *)
(* page and the redemption, one request yields at most one token, and the    *)
(* token has an approval whose application, policy, subject, address,        *)
(* version and scopes it carries; its roles convey nothing that was not      *)
(* approved, it ends with the session that approved it, and that session was *)
(* shown the page.                                                          *)
TokenWithinConsent ==
  /\ \A t \in issued : \E a \in approvals :
       /\ a.request = t.request /\ a.app = t.app /\ a.policy = t.policy
       /\ a.subject = t.subject /\ a.email = t.email /\ a.version = t.version
       /\ t.scopes = a.scopes /\ t.exp <= a.deadline
       /\ \A r \in t.roles : deployment.policy[t.policy].scopes[r] \subseteq a.scopes
       /\ [request |-> a.request, subject |-> a.subject, email |-> a.email,
           version |-> a.version, session |-> a.session] \in pages
  /\ \A t, u \in issued : t.request = u.request => t = u

(* A consent, a redemption and a validation each rest on authority that held *)
(* at some moment while they were decided: nothing that was withdrawn before *)
(* the code was consumed (before the handler began, for the other two) is in *)
(* the facts the decision used, although they are read one by one.           *)
DecisionsRestOnCurrentAuthority ==
  \A h \in Handlers : handler[h].uses \subseteq handler[h].known

(* A code or a token leaves the server only with both audit records behind   *)
(* it, and nothing is consumed without its intent on record.                 *)
GrantsAudited ==
  /\ \A i \in Ids : taker[i] # Absent => <<taker[i], "intent">> \in audit
  /\ \A t \in issued : t.handler \in given => <<t.handler, "outcome">> \in audit

(* What the user consented to is what the token says and what the audit log  *)
(* shows, from the page through the code to the redemption.                  *)
ConsentHonoured == TokenWithinConsent /\ GrantsAudited
=============================================================================
