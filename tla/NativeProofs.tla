---------------------------- MODULE NativeProofs ----------------------------
(***************************************************************************)
(* Theorems about NativeCodes, for any number of handlers, requests, codes,  *)
(* sessions, applications and users, any lifetimes and any deployment.       *)
(*                                                                         *)
(* The argument: a request that was approved has at most one bearer at any   *)
(* time, the handler that is about to create its code, then the stored code, *)
(* then the handler that consumed the code, then the token (OneBearer); and  *)
(* every bearer carries what one approval of the request says (Backed).      *)
(***************************************************************************)
EXTENDS NativeCodes, TLAPS

----------------------------------------------------------------------------
(* The inductive invariant of requests, codes and tokens *)

Person == [id : Users, record : Account]
Deciding == {"home", "target", "roles", "definitions"}
Identified == Deciding \cup {"sessionTenant", "bearerTenant", "bearerAudience"}

(* The page that the approval rests on. *)
PageOf(a) == [request |-> a.request, subject |-> a.subject, email |-> a.email,
              version |-> a.version, session |-> a.session]

(* A code or a token that the handler of a code carries rests on an approval. *)
Backed(g) ==
  \E a \in approvals :
    /\ a.request = g.request /\ a.app = g.app /\ a.policy = g.policy
    /\ a.subject = g.subject /\ a.email = g.email /\ a.version = g.version
    /\ a.scopes = g.scopes /\ a.deadline = g.deadline
    /\ PageOf(a) \in pages

(* Which labels a kind of request reaches. *)
LabelsOK(h, m) ==
  /\ m.pc \in {"session", "sessionTenant"} => Kind(h, {"authorize", "resume", "consent"})
  /\ m.pc \in {"bearer", "bearerTenant", "bearerAudience", "accepted"} => Kind(h, {"validate"})
  /\ m.pc = "subject" => Kind(h, {"token"})
  /\ m.pc = "create" => Kind(h, {"consent"})
  /\ m.pc \in {"intent", "consume"} => Kind(h, {"consent", "token"})
  /\ m.pc = "outcome" => Kind(h, {"consent", "token"}) /\ m.id \in Ids

(* What the reads of the authority left in a handler. *)
ReadsOK(h, m) ==
  /\ m.pc \in Identified => m.user \in Person
  /\ m.pc \in Identified /\ Kind(h, {"token", "validate"}) => m.user.id = m.snapshot.subject
  /\ m.todo \subseteq DOMAIN PolicyRoles(Policy(h))
  /\ m.roles \subseteq RoleNames

(* A consent handler holds a page that was shown, and past its check an      *)
(* identity that the page is about.                                         *)
ConsentOK(h, m) ==
  Kind(h, {"consent"}) =>
    /\ m.pc \notin {"idle", "done", "outcome"} =>
         /\ m.id \in RequestIds /\ m.snapshot \in RequestRecord
         /\ m.page \in pages /\ m.snapshot.policy = Plan(h).policy
    /\ m.pc \in {"intent", "consume", "create"} =>
         /\ m.identity.subject \in Users /\ m.identity.email \in Emails
         /\ m.identity.version \in Nat /\ m.identity.scopes \in SUBSET Scopes
         /\ m.page = [request |-> m.id, subject |-> m.identity.subject,
                      email |-> m.identity.email, version |-> m.identity.version,
                      session |-> Plan(h).session]
    /\ m.pc = "create" =>
         [request |-> m.id, policy |-> Plan(h).policy, app |-> m.snapshot.app,
          session |-> Plan(h).session, subject |-> m.identity.subject,
          email |-> m.identity.email, version |-> m.identity.version,
          scopes |-> m.identity.scopes, deadline |-> Session(h).exp] \in approvals

(* A token handler holds a code that an approval backs. *)
TokenOK(h, m) ==
  Kind(h, {"token"}) /\ m.pc \notin {"idle", "done", "outcome"} =>
    /\ m.id \in CodeIds /\ m.snapshot \in GrantRecord
    /\ m.snapshot.policy = Plan(h).policy
    /\ Backed(m.snapshot)

Fields == {"pc", "id", "snapshot", "page", "user", "todo", "roles", "identity", "known", "uses"}
IsState(m) == m = [f \in Fields |-> m[f]]

HandlerOK(h, m) ==
  /\ IsState(m)
  /\ LabelsOK(h, m)
  /\ ReadsOK(h, m)
  /\ Kind(h, {"authorize", "resume"}) /\ m.pc \notin {"idle", "done"} => m.id \in RequestIds
  /\ ConsentOK(h, m)
  /\ TokenOK(h, m)
  /\ Kind(h, {"validate"}) /\ m.pc \notin {"idle", "done"} =>
       m.snapshot.subject \in Users
  /\ m.pc = "consume" => <<h, "intent">> \in audit

TypeOK ==
  /\ deployment \in Deployments
  /\ edits \subseteq deployment.edits
  /\ account \in [Users -> Account]
  /\ now \in Nat
  /\ store = [i \in Ids |-> store[i]]
  /\ taker \in [Ids -> Handlers \cup {Absent}]
  /\ handler = [h \in Handlers |-> handler[h]]

(* A stored record has the kind of its id; the id was drawn. *)
StoreOK ==
  /\ \A i \in Ids : store[i] # Absent => i \in drawn
  /\ \A i \in Ids : taker[i] # Absent => i \in drawn /\ store[i] = Absent
  /\ \A i \in RequestIds : store[i] # Absent => store[i] \in RequestRecord
  /\ \A i \in CodeIds : store[i] # Absent => store[i] \in GrantRecord /\ Backed(store[i])

(* Who carries the approval of the request q. *)
Redeeming(m) == m.pc \in {"subject"} \cup Deciding
Bearers(q) ==
  {<<"create", h>> : h \in {k \in Handlers : handler[k].pc = "create" /\ handler[k].id = q}}
    \cup {<<"code", i>> : i \in {c \in CodeIds : store[c] # Absent /\ store[c].request = q}}
    \cup {<<"redeem", h>> : h \in {k \in Handlers : /\ Kind(k, {"token"}) /\ Redeeming(handler[k])
                                                   /\ handler[k].snapshot.request = q}}
    \cup {<<"token", t>> : t \in {u \in issued : u.request = q}}

OneBearer ==
  \A q \in RequestIds :
    /\ \A x, y \in Bearers(q) : x = y
    /\ Bearers(q) # {} => q \in drawn /\ store[q] = Absent

HistoryOK ==
  /\ \A page \in pages : page.request \in RequestIds
  /\ \A i \in Ids : taker[i] # Absent => <<taker[i], "intent">> \in audit
  /\ \A h \in Handlers : h \in given => <<h, "outcome">> \in audit
  /\ \A t \in issued :
       t.handler \in Handlers /\ t.subject \in Users /\ t.request \in RequestIds

Inv ==
  /\ TypeOK
  /\ \A h \in Handlers : HandlerOK(h, handler[h])
  /\ StoreOK
  /\ OneBearer
  /\ HistoryOK
  /\ TokenWithinConsent

----------------------------------------------------------------------------
(* Facts the steps share *)

(* What a deployment fixes for a handler. *)
LEMMA Deployed ==
  ASSUME deployment \in Deployments, NEW h \in Handlers
  PROVE  /\ Plan(h).policy \in Policies /\ Plan(h).app \in Apps
         /\ Session(h).user \in Users /\ Session(h).exp \in Nat
         /\ Policy(h).target \in Tenants /\ Policy(h).ttl \in Nat
         /\ \A n \in DOMAIN PolicyRoles(Policy(h)) : PolicyRoles(Policy(h))[n] \in RoleNames
         /\ \A r \in RoleNames : Policy(h).scopes[r] \subseteq Scopes
<1>1. /\ deployment.plan[h].session \in Sessions /\ deployment.plan[h].app \in Apps
      /\ deployment.plan[h].policy \in DOMAIN deployment.policy
  BY NativeDeployments
<1>2. Plan(h).policy \in Policies
  BY <1>1 DEF Plan, Policies
<1>3. Session(h).user \in Users /\ Session(h).exp \in Nat
  BY <1>1, NativeDeployments DEF Session, Plan
<1>4. /\ Policy(h).target \in Tenants /\ Policy(h).ttl \in Nat
      /\ Policy(h).base \in RoleNames /\ Policy(h).further \in Seq(RoleNames)
      /\ \A r \in RoleNames : Policy(h).scopes[r] \subseteq Scopes
  BY <1>1, NativeDeployments DEF Policy, Plan
<1>5. PolicyRoles(Policy(h)) \in Seq(RoleNames)
  BY <1>4 DEF PolicyRoles
<1>6. \A n \in DOMAIN PolicyRoles(Policy(h)) : PolicyRoles(Policy(h))[n] \in RoleNames
  BY <1>5
<1> QED BY <1>1, <1>2, <1>3, <1>4, <1>6 DEF Plan

(* A handler whose position and reads a step leaves alone keeps its          *)
(* invariant, because pages, approvals and audit records are only added.     *)
Alike(m, n) ==
  /\ n.pc = m.pc /\ n.id = m.id /\ n.snapshot = m.snapshot /\ n.page = m.page
  /\ n.user = m.user /\ n.todo = m.todo /\ n.roles = m.roles /\ n.identity = m.identity

LEMMA StillOK ==
  ASSUME NEW k \in Handlers, HandlerOK(k, handler[k]),
         IsState(handler'[k]), Alike(handler[k], handler'[k]),
         deployment' = deployment, pages \subseteq pages', approvals \subseteq approvals',
         audit \subseteq audit'
  PROVE  HandlerOK(k, handler[k])'
<1> USE DEF Alike
<1>1. LabelsOK(k, handler[k])' /\ ReadsOK(k, handler[k])'
  BY DEF HandlerOK, LabelsOK, ReadsOK, Kind, Plan, Policy, Ids, Identified, Deciding
<1>2. ConsentOK(k, handler[k])'
  BY DEF HandlerOK, ConsentOK, Kind, Plan, Session
<1>3. TokenOK(k, handler[k])'
  BY DEF HandlerOK, TokenOK, Kind, Plan, Backed, PageOf
<1> QED BY <1>1, <1>2, <1>3 DEF HandlerOK, Kind, Plan, IsState

LEMMA Others ==
  ASSUME NEW k \in Handlers, HandlerOK(k, handler[k]), handler'[k] = handler[k],
         deployment' = deployment, pages \subseteq pages', approvals \subseteq approvals',
         audit \subseteq audit'
  PROVE  HandlerOK(k, handler[k])'
<1>1. IsState(handler'[k]) /\ Alike(handler[k], handler'[k])
  BY DEF HandlerOK, Alike
<1> QED BY <1>1, StillOK

(* A step that leaves the store alone, and makes its handler no bearer of an *)
(* approval it did not bear, keeps everything.                              *)
LEMMA QuietStep ==
  ASSUME Inv, NEW h \in Handlers,
         handler' = [handler EXCEPT ![h] = handler'[h]],
         HandlerOK(h, handler[h])',
         handler'[h].pc # "create",
         Kind(h, {"token"}) /\ Redeeming(handler'[h]) =>
            Redeeming(handler[h]) /\ handler'[h].snapshot = handler[h].snapshot,
         UNCHANGED <<deployment, registry, edits, now, store, history, issued>>,
         pages \subseteq pages', \A page \in pages' : page.request \in RequestIds,
         audit \subseteq audit', \A k \in Handlers : k \in given' => <<k, "outcome">> \in audit'
  PROVE  Inv'
<1> USE DEF Inv
<1>1. UNCHANGED <<deployment, account, edits, now, store, drawn, taker, approvals, issued>>
  BY DEF history, registry
<1>2. TypeOK'
  BY <1>1 DEF TypeOK
<1>3. ASSUME NEW k \in Handlers PROVE HandlerOK(k, handler[k])'
  <2>1. k # h => handler'[k] = handler[k]
    BY DEF TypeOK
  <2> QED BY <1>1, <2>1, Others
<1>4. StoreOK'
  BY <1>1 DEF StoreOK, Backed, PageOf
<1>5. OneBearer'
  <2>1. \A k \in Handlers : k # h => handler'[k] = handler[k]
    BY DEF TypeOK
  <2>2. \A q \in RequestIds : Bearers(q)' \subseteq Bearers(q)
    BY <1>1, <2>1 DEF Bearers, Redeeming, Kind, Plan
  <2> QED BY <1>1, <2>2 DEF OneBearer
<1>6. HistoryOK' /\ TokenWithinConsent'
  BY <1>1 DEF HistoryOK, TokenWithinConsent
<1> QED BY <1>2, <1>3, <1>4, <1>5, <1>6

LEMMA MoveStep ==
  ASSUME Inv, Reads, NEW h \in Handlers,
         handler' = [handler EXCEPT ![h] = handler'[h]],
         HandlerOK(h, handler[h])',
         handler'[h].pc # "create",
         Kind(h, {"token"}) /\ Redeeming(handler'[h]) =>
            Redeeming(handler[h]) /\ handler'[h].snapshot = handler[h].snapshot
  PROVE  Inv'
<1>1. /\ UNCHANGED <<deployment, registry, edits, now, store, history, issued>>
      /\ pages \subseteq pages' /\ audit \subseteq audit'
      /\ \A page \in pages' : page.request \in RequestIds
      /\ \A k \in Handlers : k \in given' => <<k, "outcome">> \in audit'
  BY DEF Reads, Inv, HistoryOK
<1> QED BY <1>1, QuietStep

(* A handler that has answered holds nothing. *)
LEMMA EndedOK ==
  ASSUME NEW h \in Handlers, handler'[h] = [Idle EXCEPT !.pc = "done"]
  PROVE  HandlerOK(h, handler[h])' /\ ~Redeeming(handler'[h]) /\ handler'[h].pc # "create"
<1>1. /\ handler'[h].pc = "done" /\ handler'[h].todo = {} /\ handler'[h].roles = {}
      /\ IsState(handler'[h])
  BY DEF Idle, IsState, Fields
<1> QED
  BY <1>1
     DEF HandlerOK, LabelsOK, ReadsOK, ConsentOK, TokenOK, Redeeming, Deciding, Identified, IsState

LEMMA EndStep ==
  ASSUME Inv, Reads, NEW h \in Handlers, End(h)
  PROVE  Inv'
<1>1. /\ handler' = [handler EXCEPT ![h] = handler'[h]]
      /\ handler'[h] = [Idle EXCEPT !.pc = "done"]
  BY DEF End, Move, Inv, TypeOK
<1> QED BY <1>1, EndedOK, MoveStep

(* The handler goes on: only its label and what it has just read change. *)
Same(m, n) ==
  n.id = m.id /\ n.snapshot = m.snapshot /\ n.page = m.page /\ n.identity = m.identity

Goes(h, next, user, todo, roles) ==
  /\ handler' = [handler EXCEPT ![h] = handler'[h]]
  /\ IsState(handler'[h]) /\ Same(handler[h], handler'[h])
  /\ handler'[h].pc = next /\ handler'[h].user = user
  /\ handler'[h].todo = todo /\ handler'[h].roles = roles

MayGo(h, next, user, todo, roles) ==
  /\ handler[h].pc \notin {"idle", "done", "outcome"} /\ next \in Identified
  /\ next = "sessionTenant" => Kind(h, {"authorize", "resume", "consent"})
  /\ next \in {"bearerTenant", "bearerAudience"} => Kind(h, {"validate"})
  /\ user \in Person
  /\ Kind(h, {"token", "validate"}) => user.id = handler[h].snapshot.subject
  /\ todo \subseteq DOMAIN PolicyRoles(Policy(h)) /\ roles \subseteq RoleNames
  /\ Kind(h, {"token"}) => Redeeming(handler[h])

LEMMA GoOn ==
  ASSUME Inv, Reads, NEW h \in Handlers, NEW next, NEW user, NEW todo, NEW roles,
         Goes(h, next, user, todo, roles), MayGo(h, next, user, todo, roles)
  PROVE  Inv'
<1> DEFINE m == handler[h]
<1>1. HandlerOK(h, m)
  BY DEF Inv
<1>2. /\ handler' = [handler EXCEPT ![h] = handler'[h]]
      /\ IsState(handler'[h]) /\ handler'[h].pc = next /\ handler'[h].user = user
      /\ handler'[h].todo = todo /\ handler'[h].roles = roles
      /\ handler'[h].id = m.id /\ handler'[h].snapshot = m.snapshot
      /\ handler'[h].page = m.page /\ handler'[h].identity = m.identity
  BY DEF Goes, Same
<1>3. UNCHANGED <<deployment, pages, approvals, audit>>
  BY DEF Reads, history
<1>4. LabelsOK(h, handler[h])' /\ ReadsOK(h, handler[h])'
  BY <1>1, <1>2, <1>3
     DEF MayGo, HandlerOK, LabelsOK, ReadsOK, Kind, Plan, Policy, Ids, Identified, Deciding
<1>5. ConsentOK(h, handler[h])'
  BY <1>1, <1>2, <1>3 DEF MayGo, HandlerOK, ConsentOK, Kind, Plan, Session, Identified, Deciding
<1>6. TokenOK(h, handler[h])'
  BY <1>1, <1>2, <1>3
     DEF MayGo, HandlerOK, TokenOK, Kind, Plan, Backed, PageOf, Identified, Deciding
<1>7. HandlerOK(h, handler[h])'
  BY <1>1, <1>2, <1>3, <1>4, <1>5, <1>6 DEF IsState, MayGo, HandlerOK, Kind, Plan, Identified, Deciding
<1>8. /\ handler'[h].pc # "create"
      /\ Kind(h, {"token"}) => Redeeming(handler[h]) /\ handler'[h].snapshot = handler[h].snapshot
  BY <1>2 DEF MayGo, Identified, Deciding
<1> QED
  BY <1>2, <1>7, <1>8, MoveStep

(* Reading the authority: every step of it either ends the handler or goes   *)
(* on with what it has read.                                                *)
LEMMA ReadSteps ==
  ASSUME Inv, NEW h \in Handlers,
         \/ ReadSession(h) \/ ReadSessionTenant(h) \/ ReadSubject(h)
         \/ ReadBearer(h) \/ ReadBearerTenant(h) \/ ReadBearerAudience(h)
         \/ ReadHome(h) \/ ReadTarget(h) \/ ReadRoles(h) \/ ReadDefinition(h)
  PROVE  Inv'
<1> DEFINE m == handler[h]
           copy(u) == [id |-> u, record |-> account[u]]
<1>1. HandlerOK(h, m)
  BY DEF Inv
<1>2. Reads
  BY DEF ReadSession, ReadSessionTenant, ReadSubject, ReadBearer, ReadBearerTenant,
         ReadBearerAudience, ReadHome, ReadTarget, ReadRoles, ReadDefinition
<1>3. IsState(m) /\ LabelsOK(h, m) /\ ReadsOK(h, m)
  BY <1>1 DEF HandlerOK
<1>4. ASSUME NEW r, Move(h, r)
      PROVE  handler' = [handler EXCEPT ![h] = handler'[h]] /\ handler'[h] = r
  BY <1>4 DEF Move, Inv, TypeOK
<1>5. ASSUME NEW next, Move(h, [m EXCEPT !.pc = next])
      PROVE  Goes(h, next, m.user, m.todo, m.roles)
  BY <1>3, <1>4, <1>5 DEF Goes, Same, IsState, Fields
<1>6. ASSUME NEW u \in Users, NEW next, Move(h, [Copy(h, u) EXCEPT !.pc = next])
      PROVE  Goes(h, next, copy(u), m.todo, m.roles) /\ copy(u) \in Person
  <2>1. copy(u) \in Person
    BY DEF Person, Inv, TypeOK
  <2>2. /\ handler' = [handler EXCEPT ![h] = handler'[h]]
        /\ handler'[h] = [[m EXCEPT !.user = copy(u)] EXCEPT !.pc = next]
    BY <1>4, <1>6 DEF Copy
  <2> QED BY <1>3, <2>1, <2>2 DEF Goes, Same, IsState, Fields
<1> USE DEF LabelsOK, ReadsOK, MayGo, Kind, Identified, Deciding, Redeeming
<1>7. CASE ReadSession(h)
  <2>1. /\ m.pc = "session"
        /\ End(h) \/ Move(h, [Copy(h, Session(h).user) EXCEPT !.pc = "sessionTenant"])
    BY <1>7 DEF ReadSession, At
  <2>2. Session(h).user \in Users
    BY Deployed DEF Inv, TypeOK
  <2>3. CASE Move(h, [Copy(h, Session(h).user) EXCEPT !.pc = "sessionTenant"])
    <3>1. /\ Goes(h, "sessionTenant", copy(Session(h).user), m.todo, m.roles)
          /\ copy(Session(h).user) \in Person
      BY <1>6, <2>2, <2>3
    <3>2. MayGo(h, "sessionTenant", copy(Session(h).user), m.todo, m.roles)
      BY <1>3, <2>1, <3>1
    <3> QED BY <1>2, <3>1, <3>2, GoOn
  <2> QED BY <1>2, <2>1, <2>3, EndStep
<1>8. CASE ReadSessionTenant(h)
  <2>1. m.pc = "sessionTenant" /\ (End(h) \/ Move(h, [m EXCEPT !.pc = "home"]))
    BY <1>8 DEF ReadSessionTenant, Check, At
  <2>2. CASE Move(h, [m EXCEPT !.pc = "home"])
    <3>1. Goes(h, "home", m.user, m.todo, m.roles)
      BY <1>5, <2>2
    <3>2. MayGo(h, "home", m.user, m.todo, m.roles)
      BY <1>3, <2>1
    <3> QED BY <1>2, <3>1, <3>2, GoOn
  <2> QED BY <1>2, <2>1, <2>2, EndStep
<1>9. CASE ReadSubject(h)
  <2>1. /\ m.pc = "subject"
        /\ End(h) \/ Move(h, [Copy(h, m.snapshot.subject) EXCEPT !.pc = "home"])
    BY <1>9 DEF ReadSubject, At
  <2>2. m.snapshot.subject \in Users
    BY <1>1, <2>1 DEF HandlerOK, TokenOK, GrantRecord
  <2>3. CASE Move(h, [Copy(h, m.snapshot.subject) EXCEPT !.pc = "home"])
    <3>1. /\ Goes(h, "home", copy(m.snapshot.subject), m.todo, m.roles)
          /\ copy(m.snapshot.subject) \in Person
      BY <1>6, <2>2, <2>3
    <3>2. MayGo(h, "home", copy(m.snapshot.subject), m.todo, m.roles)
      BY <1>3, <2>1, <3>1
    <3> QED BY <1>2, <3>1, <3>2, GoOn
  <2> QED BY <1>2, <2>1, <2>3, EndStep
<1>10. CASE ReadBearer(h)
  <2>1. /\ m.pc = "bearer"
        /\ End(h) \/ Move(h, [Copy(h, m.snapshot.subject) EXCEPT !.pc = "bearerTenant"])
    BY <1>10 DEF ReadBearer, At
  <2>2. m.snapshot.subject \in Users
    BY <1>1, <2>1 DEF HandlerOK
  <2>3. CASE Move(h, [Copy(h, m.snapshot.subject) EXCEPT !.pc = "bearerTenant"])
    <3>1. /\ Goes(h, "bearerTenant", copy(m.snapshot.subject), m.todo, m.roles)
          /\ copy(m.snapshot.subject) \in Person
      BY <1>6, <2>2, <2>3
    <3>2. MayGo(h, "bearerTenant", copy(m.snapshot.subject), m.todo, m.roles)
      BY <1>3, <2>1, <3>1
    <3> QED BY <1>2, <3>1, <3>2, GoOn
  <2> QED BY <1>2, <2>1, <2>3, EndStep
<1>11. CASE ReadBearerTenant(h)
  <2>1. m.pc = "bearerTenant" /\ (End(h) \/ Move(h, [m EXCEPT !.pc = "bearerAudience"]))
    BY <1>11 DEF ReadBearerTenant, Check, At
  <2>2. CASE Move(h, [m EXCEPT !.pc = "bearerAudience"])
    <3>1. Goes(h, "bearerAudience", m.user, m.todo, m.roles)
      BY <1>5, <2>2
    <3>2. MayGo(h, "bearerAudience", m.user, m.todo, m.roles)
      BY <1>3, <2>1
    <3> QED BY <1>2, <3>1, <3>2, GoOn
  <2> QED BY <1>2, <2>1, <2>2, EndStep
<1>12. CASE ReadBearerAudience(h)
  <2>1. m.pc = "bearerAudience" /\ (End(h) \/ Move(h, [m EXCEPT !.pc = "home"]))
    BY <1>12 DEF ReadBearerAudience, Check, At
  <2>2. CASE Move(h, [m EXCEPT !.pc = "home"])
    <3>1. Goes(h, "home", m.user, m.todo, m.roles)
      BY <1>5, <2>2
    <3>2. MayGo(h, "home", m.user, m.todo, m.roles)
      BY <1>3, <2>1
    <3> QED BY <1>2, <3>1, <3>2, GoOn
  <2> QED BY <1>2, <2>1, <2>2, EndStep
<1>13. CASE ReadHome(h)
  <2>1. m.pc = "home" /\ (End(h) \/ Move(h, [m EXCEPT !.pc = "target"]))
    BY <1>13 DEF ReadHome, Check, At
  <2>2. CASE Move(h, [m EXCEPT !.pc = "target"])
    <3>1. Goes(h, "target", m.user, m.todo, m.roles)
      BY <1>5, <2>2
    <3>2. MayGo(h, "target", m.user, m.todo, m.roles)
      BY <1>3, <2>1
    <3> QED BY <1>2, <3>1, <3>2, GoOn
  <2> QED BY <1>2, <2>1, <2>2, EndStep
<1>14. CASE ReadTarget(h)
  <2>1. m.pc = "target" /\ (End(h) \/ Move(h, [m EXCEPT !.pc = "roles"]))
    BY <1>14 DEF ReadTarget, Check, At
  <2>2. CASE Move(h, [m EXCEPT !.pc = "roles"])
    <3>1. Goes(h, "roles", m.user, m.todo, m.roles)
      BY <1>5, <2>2
    <3>2. MayGo(h, "roles", m.user, m.todo, m.roles)
      BY <1>3, <2>1
    <3> QED BY <1>2, <3>1, <3>2, GoOn
  <2> QED BY <1>2, <2>1, <2>2, EndStep
<1>15. CASE ReadRoles(h)
  <2>1. m.pc = "roles"
    BY <1>15 DEF ReadRoles, At
  <2>2. PICK todo \in SUBSET DOMAIN PolicyRoles(Policy(h)) :
          Move(h, [m EXCEPT !.pc = "definitions", !.todo = todo])
    BY <1>15 DEF ReadRoles
  <2>3. Goes(h, "definitions", m.user, todo, m.roles)
    <3>1. /\ handler' = [handler EXCEPT ![h] = handler'[h]]
          /\ handler'[h] = [m EXCEPT !.pc = "definitions", !.todo = todo]
      BY <1>4, <2>2
    <3> QED BY <1>3, <3>1 DEF Goes, Same, IsState, Fields
  <2>4. MayGo(h, "definitions", m.user, todo, m.roles)
    BY <1>3, <2>1
  <2> QED BY <1>2, <2>3, <2>4, GoOn
<1>16. CASE ReadDefinition(h)
  <2>1. m.pc = "definitions"
    BY <1>16 DEF ReadDefinition, At
  <2>2. PICK n \in m.todo :
          LET r == PolicyRoles(Policy(h))[n] IN
          End(h) \/ Move(h, [m EXCEPT !.todo = @ \ {n}, !.roles = @ \cup {r}])
    BY <1>16 DEF ReadDefinition
  <2> DEFINE r == PolicyRoles(Policy(h))[n]
  <2>3. r \in RoleNames
    BY <1>3, <2>2, Deployed DEF Inv, TypeOK
  <2>4. CASE Move(h, [m EXCEPT !.todo = @ \ {n}, !.roles = @ \cup {r}])
    <3>1. Goes(h, "definitions", m.user, m.todo \ {n}, m.roles \cup {r})
      <4>1. /\ handler' = [handler EXCEPT ![h] = handler'[h]]
            /\ handler'[h] = [m EXCEPT !.todo = @ \ {n}, !.roles = @ \cup {r}]
        BY <1>4, <2>4
      <4> QED BY <1>3, <2>1, <4>1 DEF Goes, Same, IsState, Fields
    <3>2. MayGo(h, "definitions", m.user, m.todo \ {n}, m.roles \cup {r})
      BY <1>3, <2>1, <2>3
    <3> QED BY <1>2, <3>1, <3>2, GoOn
  <2> QED BY <1>2, <2>2, <2>4, EndStep
<1> QED
  BY <1>7, <1>8, <1>9, <1>10, <1>11, <1>12, <1>13, <1>14, <1>15, <1>16

(* The identity that a covered decision reads is well formed. *)
LEMMA IdentityOK ==
  ASSUME Inv, NEW h \in Handlers, handler[h].pc \in Deciding, Covered(h)
  PROVE  /\ Identity(h).subject = handler[h].user.id /\ Identity(h).subject \in Users
         /\ Identity(h).email \in Emails /\ Identity(h).version \in Nat
         /\ Identity(h).scopes \in SUBSET Scopes /\ Identity(h).roles = handler[h].roles
<1> DEFINE m == handler[h]
<1>1. m.user \in Person /\ m.roles \subseteq RoleNames
  BY DEF Inv, HandlerOK, ReadsOK, Identified
<1>2. /\ Identity(h).subject = m.user.id /\ Identity(h).email = m.user.record.email
      /\ Identity(h).version = m.user.record.version /\ Identity(h).roles = m.roles
      /\ Identity(h).scopes = ScopesForRoles(Policy(h), m.roles)
  BY DEF Identity
<1>3. ScopesForRoles(Policy(h), m.roles) = UNION {Policy(h).scopes[r] : r \in m.roles}
  BY <1>2 DEF Covered, ScopesForRoles
<1>4. \A r \in m.roles : Policy(h).scopes[r] \subseteq Scopes
  BY <1>1, Deployed DEF Inv, TypeOK
<1>5. Identity(h).scopes \in SUBSET Scopes
  BY <1>2, <1>3, <1>4
<1> QED BY <1>1, <1>2, <1>5 DEF Person, Account

(* The other requests to a handler that only read: what it opens with, the   *)
(* check of a form, the acceptance of a token, and a failure.                *)
LEMMA OpenSteps ==
  ASSUME Inv, NEW h \in Handlers,
         \/ Resume(h) \/ ReadRequest(h) \/ ReadCode(h) \/ Present(h)
         \/ CheckForm(h) \/ Accept(h) \/ Fail(h)
  PROVE  Inv'
<1> DEFINE m == handler[h]
           n == handler'[h]
<1>1. HandlerOK(h, m)
  BY SMTT(60) DEF Inv
<1>2. Reads
  BY DEF Resume, ReadRequest, ReadCode, Present, CheckForm, Accept, Fail
<1>3. UNCHANGED <<deployment, account, now, store, drawn, taker, approvals, pages, issued, audit>>
  BY <1>2 DEF Reads, history, registry
<1>4. ASSUME NEW r, Move(h, r)
      PROVE  handler' = [handler EXCEPT ![h] = handler'[h]] /\ n = r
  BY <1>4 DEF Move, Inv, TypeOK
<1>5. IsState(Idle) /\ Idle.todo = {} /\ Idle.roles = {}
  BY DEF Idle, IsState, Fields
<1>6. CASE Resume(h)
  <2>1. PICK i \in drawn \cap RequestIds :
          Move(h, [Idle EXCEPT !.pc = "session", !.id = i, !.snapshot = store[i]])
    BY <1>6 DEF Resume
  <2>2. n = [Idle EXCEPT !.pc = "session", !.id = i, !.snapshot = store[i]]
    BY <1>4, <2>1
  <2>3. IsState(n) /\ n.pc = "session" /\ n.id = i /\ n.todo = {} /\ n.roles = {}
    BY <1>5, <2>2 DEF IsState, Fields
  <2>4. Kind(h, {"resume"})
    BY <1>6 DEF Resume
  <2>5. HandlerOK(h, handler[h])'
    BY <1>3, <2>1, <2>3, <2>4
       DEF HandlerOK, LabelsOK, ReadsOK, ConsentOK, TokenOK, IsState, Kind, Plan, Identified, Deciding
  <2> QED
    BY <1>2, <1>4, <2>1, <2>3, <2>5, MoveStep DEF Redeeming, Deciding
<1>7. CASE ReadRequest(h)
  <2>1. PICK page \in pages :
          /\ OpenRequest(h, page.request)
          /\ Move(h, [Idle EXCEPT !.pc = "session", !.id = page.request, !.page = page,
                         !.snapshot = store[page.request], !.known = Facts])
    BY <1>7 DEF ReadRequest
  <2>2. n = [Idle EXCEPT !.pc = "session", !.id = page.request, !.page = page,
                         !.snapshot = store[page.request], !.known = Facts]
    BY <1>4, <2>1
  <2>3. /\ IsState(n) /\ n.pc = "session" /\ n.id = page.request /\ n.page = page
        /\ n.snapshot = store[page.request] /\ n.todo = {} /\ n.roles = {}
    BY <1>5, <2>2 DEF IsState, Fields
  <2>4. Kind(h, {"consent"})
    BY <1>7 DEF ReadRequest
  <2>5. /\ page.request \in RequestIds /\ store[page.request] \in RequestRecord
        /\ store[page.request].policy = Plan(h).policy
    BY <2>1 DEF Inv, HistoryOK, StoreOK, OpenRequest, Readable
  <2>6. HandlerOK(h, handler[h])'
    BY <1>3, <2>1, <2>3, <2>4, <2>5
       DEF HandlerOK, LabelsOK, ReadsOK, ConsentOK, TokenOK, IsState, Kind, Plan, Identified, Deciding
  <2> QED
    BY <1>2, <1>4, <2>1, <2>3, <2>6, MoveStep DEF Redeeming, Deciding
<1>8. CASE ReadCode(h)
  <2>1. PICK i \in given \cap CodeIds :
          /\ Readable(i) /\ store[i].policy = Plan(h).policy
          /\ Move(h, [Idle EXCEPT !.pc = "intent", !.id = i, !.snapshot = store[i]])
    BY <1>8 DEF ReadCode
  <2>2. n = [Idle EXCEPT !.pc = "intent", !.id = i, !.snapshot = store[i]]
    BY <1>4, <2>1
  <2>3. /\ IsState(n) /\ n.pc = "intent" /\ n.id = i /\ n.snapshot = store[i]
        /\ n.todo = {} /\ n.roles = {}
    BY <1>5, <2>2 DEF IsState, Fields
  <2>4. Kind(h, {"token"})
    BY <1>8 DEF ReadCode
  <2>5. store[i] \in GrantRecord /\ Backed(store[i])
    BY <2>1 DEF Inv, StoreOK, Readable
  <2>6. Backed(handler[h].snapshot)'
    BY <1>3, <2>3, <2>5 DEF Backed, PageOf
  <2>7. HandlerOK(h, handler[h])'
    BY <1>3, <2>1, <2>3, <2>4, <2>5, <2>6
       DEF HandlerOK, LabelsOK, ReadsOK, ConsentOK, TokenOK, IsState, Kind, Plan, Identified, Deciding
  <2> QED
    BY <1>2, <1>4, <2>1, <2>3, <2>7, MoveStep DEF Redeeming, Deciding
<1>9. CASE Present(h)
  <2>1. PICK token \in issued :
          Move(h, [Idle EXCEPT !.pc = "bearer", !.snapshot = token, !.known = Facts])
    BY <1>9 DEF Present
  <2>2. n = [Idle EXCEPT !.pc = "bearer", !.snapshot = token, !.known = Facts]
    BY <1>4, <2>1
  <2>3. IsState(n) /\ n.pc = "bearer" /\ n.snapshot = token /\ n.todo = {} /\ n.roles = {}
    BY <1>5, <2>2 DEF IsState, Fields
  <2>4. Kind(h, {"validate"}) /\ token.subject \in Users
    BY <1>9, <2>1 DEF Present, Inv, HistoryOK
  <2>5. HandlerOK(h, handler[h])'
    BY <1>3, <2>1, <2>3, <2>4
       DEF HandlerOK, LabelsOK, ReadsOK, ConsentOK, TokenOK, IsState, Kind, Plan, Identified, Deciding
  <2> QED
    BY <1>2, <1>4, <2>1, <2>3, <2>5, MoveStep DEF Redeeming, Deciding
<1>10. CASE CheckForm(h)
  <2>1. CASE Covered(h) /\ m.page = Csrf(h)
    <3>1. Move(h, [m EXCEPT !.pc = "intent", !.identity = Identity(h), !.uses = Uses(h)])
      BY <1>10, <2>1 DEF CheckForm
    <3>2. n = [m EXCEPT !.pc = "intent", !.identity = Identity(h), !.uses = Uses(h)]
      BY <1>4, <3>1
    <3>3. /\ IsState(n) /\ n.pc = "intent" /\ n.identity = Identity(h)
          /\ n.id = m.id /\ n.snapshot = m.snapshot /\ n.page = m.page
          /\ n.user = m.user /\ n.todo = m.todo /\ n.roles = m.roles
      BY <1>1, <3>2 DEF HandlerOK, IsState, Fields
    <3>4. m.pc = "definitions" /\ Kind(h, {"consent"})
      BY <1>10 DEF CheckForm, AtAudience, At
    <3>5. /\ Identity(h).subject \in Users
          /\ Identity(h).email \in Emails /\ Identity(h).version \in Nat
          /\ Identity(h).scopes \in SUBSET Scopes
      BY <2>1, <3>4, IdentityOK DEF Deciding
    <3>6. m.page = [request |-> m.id, subject |-> n.identity.subject,
                    email |-> n.identity.email, version |-> n.identity.version,
                    session |-> Plan(h).session]
      BY <2>1, <3>3 DEF Csrf
    <3>7. /\ m.id \in RequestIds /\ m.snapshot \in RequestRecord
          /\ m.page \in pages /\ m.snapshot.policy = Plan(h).policy
          /\ m.todo \subseteq DOMAIN PolicyRoles(Policy(h)) /\ m.roles \subseteq RoleNames
      BY <1>1, <3>4 DEF HandlerOK, ConsentOK, ReadsOK
    <3>8. HandlerOK(h, handler[h])'
      BY <1>3, <3>3, <3>4, <3>5, <3>6, <3>7
         DEF HandlerOK, LabelsOK, ReadsOK, ConsentOK, TokenOK, IsState, Kind, Plan, Policy,
             Identified, Deciding
    <3> QED
      BY <1>2, <1>4, <3>1, <3>3, <3>8, MoveStep DEF Redeeming, Deciding
  <2>2. CASE ~(Covered(h) /\ m.page = Csrf(h))
    BY <1>2, <1>10, <2>2, EndStep DEF CheckForm
  <2> QED BY <2>1, <2>2
<1>11. CASE Accept(h)
  <2>1. End(h) \/ Move(h, [m EXCEPT !.pc = "accepted", !.uses = Uses(h)])
    BY <1>11 DEF Accept
  <2>2. CASE Move(h, [m EXCEPT !.pc = "accepted", !.uses = Uses(h)])
    <3>1. n = [m EXCEPT !.pc = "accepted", !.uses = Uses(h)]
      BY <1>4, <2>2
    <3>2. /\ IsState(n) /\ n.pc = "accepted" /\ n.snapshot = m.snapshot
          /\ n.todo = m.todo /\ n.roles = m.roles
      BY <1>1, <3>1 DEF HandlerOK, IsState, Fields
    <3>3. m.pc = "definitions" /\ Kind(h, {"validate"})
      BY <1>11 DEF Accept, AtAudience, At
    <3>4. HandlerOK(h, handler[h])'
      BY <1>1, <1>3, <3>2, <3>3
         DEF HandlerOK, LabelsOK, ReadsOK, ConsentOK, TokenOK, IsState, Kind, Plan, Policy,
             Identified, Deciding
    <3> QED
      BY <1>2, <1>4, <2>2, <3>2, <3>4, MoveStep DEF Redeeming, Deciding
  <2> QED BY <1>2, <2>1, <2>2, EndStep
<1>12. CASE Fail(h)
  BY <1>2, <1>12, EndStep DEF Fail
<1> QED BY <1>6, <1>7, <1>8, <1>9, <1>10, <1>11, <1>12

----------------------------------------------------------------------------
(* The steps that write *)

LEMMA HandlersKept ==
  ASSUME Inv, NEW h \in Handlers, handler' = [handler EXCEPT ![h] = handler'[h]],
         HandlerOK(h, handler[h])', deployment' = deployment,
         pages \subseteq pages', approvals \subseteq approvals', audit \subseteq audit'
  PROVE  /\ \A k \in Handlers : k # h => handler'[k] = handler[k]
         /\ handler' = [k \in Handlers |-> handler'[k]]
         /\ (\A k \in Handlers : HandlerOK(k, handler[k]))'
<1>1. /\ \A k \in Handlers : k # h => handler'[k] = handler[k]
      /\ handler' = [k \in Handlers |-> handler'[k]]
  BY DEF Inv, TypeOK
<1>2. ASSUME NEW k \in Handlers PROVE HandlerOK(k, handler[k])'
  <2>1. HandlerOK(k, handler[k])
    BY DEF Inv
  <2> QED BY <1>1, <2>1, Others
<1> QED BY <1>1, <1>2

(* An approval passes from one bearer to the next. *)
LEMMA Passed ==
  ASSUME OneBearer,
         \A q \in RequestIds :
           \/ Bearers(q)' \subseteq Bearers(q)
           \/ \E x \in Bearers(q) : \E y : Bearers(q)' \subseteq (Bearers(q) \ {x}) \cup {y},
         \A q \in RequestIds : q \in drawn /\ store[q] = Absent => q \in drawn' /\ store'[q] = Absent
  PROVE  OneBearer'
<1> SUFFICES ASSUME NEW q \in RequestIds
             PROVE  /\ \A x, y \in Bearers(q)' : x = y
                    /\ Bearers(q)' # {} => q \in drawn' /\ store'[q] = Absent
  BY DEF OneBearer
<1>1. /\ \A x, y \in Bearers(q) : x = y
      /\ Bearers(q) # {} => q \in drawn /\ store[q] = Absent
  BY DEF OneBearer
<1>2. CASE Bearers(q)' \subseteq Bearers(q)
  BY <1>1, <1>2
<1>3. ASSUME NEW x \in Bearers(q), NEW y, Bearers(q)' \subseteq (Bearers(q) \ {x}) \cup {y}
      PROVE  /\ \A v, w \in Bearers(q)' : v = w
             /\ Bearers(q)' # {} => q \in drawn' /\ store'[q] = Absent
  BY <1>1, <1>3
<1> QED BY <1>2, <1>3

LEMMA AuthorizeStep ==
  ASSUME Inv, NEW h \in Handlers, Authorize(h)
  PROVE  Inv'
<1> DEFINE m == handler[h]
           n == handler'[h]
<1>1. PICK i \in RequestIds \ drawn :
        LET request == [policy |-> Plan(h).policy, app |-> Plan(h).app,
                        expires |-> now + RequestTTL] IN
        /\ drawn' = drawn \cup {i} /\ store' = [store EXCEPT ![i] = request]
        /\ Move(h, [Idle EXCEPT !.pc = "session", !.id = i, !.snapshot = request])
  BY DEF Authorize, Put
<1> DEFINE request == [policy |-> Plan(h).policy, app |-> Plan(h).app,
                       expires |-> now + RequestTTL]
<1>2. /\ UNCHANGED <<deployment, registry, edits, now, taker, pages, approvals, issued, given,
                      audit>>
      /\ Kind(h, {"authorize"})
  BY DEF Authorize
<1>3. /\ handler' = [handler EXCEPT ![h] = handler'[h]]
      /\ n = [Idle EXCEPT !.pc = "session", !.id = i, !.snapshot = request]
  BY <1>1 DEF Move, Inv, TypeOK
<1>4. IsState(n) /\ n.pc = "session" /\ n.id = i /\ n.todo = {} /\ n.roles = {}
  BY <1>3 DEF Idle, IsState, Fields
<1>5. HandlerOK(h, handler[h])'
  BY <1>1, <1>2, <1>4
     DEF HandlerOK, LabelsOK, ReadsOK, ConsentOK, TokenOK, IsState, Kind, Plan, Identified, Deciding
<1>6. /\ \A k \in Handlers : k # h => handler'[k] = handler[k]
      /\ handler' = [k \in Handlers |-> handler'[k]]
      /\ (\A k \in Handlers : HandlerOK(k, handler[k]))'
  BY <1>2, <1>3, <1>5, HandlersKept
<1>7. request \in RequestRecord
  BY Deployed, TimesAreNatural DEF RequestRecord, Inv, TypeOK
<1>8. TypeOK'
  BY <1>1, <1>2, <1>6 DEF Inv, TypeOK, registry
<1>9. \A j \in Ids : store'[j] = IF j = i THEN request ELSE store[j]
  BY <1>1 DEF Inv, TypeOK, Ids
<1>10. StoreOK'
  <2>1. i \notin CodeIds /\ i \in Ids
    BY IdsAreDisjoint DEF Ids
  <2> QED
    BY <1>1, <1>2, <1>7, <1>9, <2>1 DEF Inv, StoreOK, Ids, Backed, PageOf
<1>11. OneBearer'
  <2>1. \A j \in CodeIds : store'[j] = store[j]
    BY <1>9, IdsAreDisjoint DEF Ids
  <2>2. \A q \in RequestIds : Bearers(q)' \subseteq Bearers(q)
    BY <1>2, <1>4, <1>6, <2>1 DEF Bearers, Redeeming, Deciding, Kind, Plan
  <2>3. \A q \in RequestIds : q \in drawn => q # i /\ q \in Ids
    BY <1>1 DEF Ids
  <2> QED BY <1>1, <1>9, <2>2, <2>3, Passed DEF Inv
<1>12. HistoryOK' /\ TokenWithinConsent'
  BY <1>1, <1>2 DEF Inv, HistoryOK, TokenWithinConsent
<1> QED BY <1>6, <1>8, <1>10, <1>11, <1>12 DEF Inv

(* A page is shown, an audit record is written, an answer leaves. *)
LEMMA RecordSteps ==
  ASSUME Inv, NEW h \in Handlers, ShowConsent(h) \/ RecordIntent(h) \/ Answer(h)
  PROVE  Inv'
<1> DEFINE m == handler[h]
           n == handler'[h]
<1>1. HandlerOK(h, m)
  BY DEF Inv
<1>2. UNCHANGED <<deployment, registry, edits, now, store, history, issued>>
  BY DEF ShowConsent, RecordIntent, Answer
<1>3. ASSUME NEW r, Move(h, r)
      PROVE  handler' = [handler EXCEPT ![h] = handler'[h]] /\ n = r
  BY <1>3 DEF Move, Inv, TypeOK
<1>4. ASSUME End(h)
      PROVE  /\ handler' = [handler EXCEPT ![h] = handler'[h]]
             /\ HandlerOK(h, handler[h])' /\ ~Redeeming(handler'[h]) /\ handler'[h].pc # "create"
  BY <1>3, <1>4, EndedOK DEF End
<1>5. /\ \A page \in pages : page.request \in RequestIds
      /\ \A k \in Handlers : k \in given => <<k, "outcome">> \in audit
  BY DEF Inv, HistoryOK
<1>6. CASE ShowConsent(h)
  <2>1. /\ pages' = pages \/ pages' = pages \cup {Csrf(h)}
        /\ UNCHANGED <<given, audit>> /\ End(h)
        /\ m.pc = "definitions" /\ Kind(h, {"authorize", "resume"})
    BY <1>6 DEF ShowConsent, AtAudience, At
  <2>2. Csrf(h).request \in RequestIds
    BY <1>1, <2>1 DEF Csrf, HandlerOK
  <2>3. \A page \in pages' : page.request \in RequestIds
    BY <1>5, <2>1, <2>2
  <2> QED BY <1>2, <1>4, <1>5, <2>1, <2>3, QuietStep
<1>7. CASE RecordIntent(h)
  <2>1. /\ audit' = audit \cup {<<h, "intent">>} /\ UNCHANGED <<pages, given>>
        /\ Move(h, [m EXCEPT !.pc = "consume"]) /\ m.pc = "intent"
    BY <1>7 DEF RecordIntent, At
  <2>2. n = [m EXCEPT !.pc = "consume"]
    BY <1>3, <2>1
  <2>3. /\ IsState(n) /\ n.pc = "consume" /\ n.id = m.id /\ n.snapshot = m.snapshot
        /\ n.page = m.page /\ n.identity = m.identity /\ n.todo = m.todo /\ n.roles = m.roles
    BY <1>1, <2>2 DEF HandlerOK, IsState, Fields
  <2>4. UNCHANGED <<deployment, pages, approvals>>
    BY <1>2, <2>1 DEF history
  <2>5. LabelsOK(h, handler[h])' /\ ReadsOK(h, handler[h])'
    BY <1>1, <2>1, <2>3, <2>4
       DEF HandlerOK, LabelsOK, ReadsOK, Kind, Plan, Policy, Identified, Deciding
  <2>6. ConsentOK(h, handler[h])'
    BY <1>1, <2>1, <2>3, <2>4 DEF HandlerOK, ConsentOK, Kind, Plan
  <2>7. TokenOK(h, handler[h])'
    BY <1>1, <2>1, <2>3, <2>4 DEF HandlerOK, TokenOK, Kind, Plan, Backed, PageOf
  <2>8. HandlerOK(h, handler[h])'
    BY <1>1, <2>1, <2>3, <2>4, <2>5, <2>6, <2>7 DEF HandlerOK, LabelsOK, IsState, Kind, Plan
  <2>9. ~Redeeming(handler'[h]) /\ handler'[h].pc # "create"
    BY <2>3 DEF Redeeming, Deciding
  <2> QED BY <1>2, <1>3, <1>5, <2>1, <2>8, <2>9, QuietStep
<1>8. CASE Answer(h)
  <2>1. /\ audit' = audit \cup {<<h, "outcome">>} /\ pages' = pages /\ End(h)
        /\ given' \subseteq given \cup {h, m.id} /\ m.pc = "outcome"
    BY <1>8 DEF Answer, At
  <2>2. m.id \notin Handlers
    BY <1>1, <2>1, IdsAreDisjoint DEF HandlerOK, LabelsOK, Ids
  <2>3. \A k \in Handlers : k \in given' => <<k, "outcome">> \in audit'
    BY <1>5, <2>1, <2>2
  <2> QED BY <1>2, <1>4, <1>5, <2>1, <2>3, QuietStep
<1> QED BY <1>6, <1>7, <1>8

(* The script that compares and deletes a record. *)
LEMMA Consumed ==
  ASSUME Inv, NEW h \in Handlers, handler[h].pc = "consume", Consumable(h), Delete(h),
         UNCHANGED <<drawn, pages>>, approvals \subseteq approvals', audit' = audit
  PROVE  /\ StoreOK' /\ taker' \in [Ids -> Handlers \cup {Absent}]
         /\ handler[h].id \in Ids /\ store[handler[h].id] = handler[h].snapshot
         /\ handler[h].snapshot # Absent
         /\ store' = [i \in Ids |-> IF i = handler[h].id THEN Absent ELSE store[i]]
         /\ \A i \in Ids : taker'[i] # Absent => <<taker'[i], "intent">> \in audit'
<1> DEFINE m == handler[h]
<1>1. HandlerOK(h, m)
  BY DEF Inv
<1>2. /\ m.id \in Ids /\ m.snapshot # Absent /\ <<h, "intent">> \in audit
  BY <1>1, AbsentIsNoRecord DEF HandlerOK, LabelsOK, ConsentOK, TokenOK, Ids, Kind
<1>3. store[m.id] = m.snapshot
  BY DEF Consumable
<1>4. /\ store' = [i \in Ids |-> IF i = m.id THEN Absent ELSE store[i]]
      /\ taker' \in [Ids -> Handlers \cup {Absent}]
      /\ \A i \in Ids : taker'[i] = IF i = m.id THEN h ELSE taker[i]
  BY <1>2 DEF Delete, Inv, TypeOK
<1>5. StoreOK'
  <2>1. \A i \in CodeIds : store'[i] # Absent => store'[i] \in GrantRecord /\ Backed(store[i])
    BY <1>4 DEF Inv, StoreOK, Ids
  <2>2. \A i \in CodeIds : store'[i] # Absent => Backed(store[i])'
    BY <1>4, <2>1 DEF Backed, PageOf, Ids
  <2> QED BY <1>2, <1>3, <1>4, <2>1, <2>2 DEF Inv, StoreOK, Ids
<1> QED BY <1>2, <1>3, <1>4, <1>5 DEF Inv, HistoryOK

LEMMA ConsumeRequestStep ==
  ASSUME Inv, NEW h \in Handlers, ConsumeRequest(h)
  PROVE  Inv'
<1> DEFINE m == handler[h]
           n == handler'[h]
           q0 == m.id
<1>1. HandlerOK(h, m)
  BY DEF Inv
<1>2. /\ UNCHANGED <<deployment, registry, edits, now, drawn, pages, issued, given, audit>>
      /\ m.pc = "consume" /\ Kind(h, {"consent"})
  BY DEF ConsumeRequest, At
<1>3. CASE Consumable(h)
  <2>1. /\ Delete(h)
        /\ approvals' = IF Plan(h).approve THEN approvals \cup {Approval(h)} ELSE approvals
        /\ Move(h, [m EXCEPT !.known = {}, !.uses = {},
                        !.pc = IF Plan(h).approve THEN "create" ELSE "outcome"])
    BY <1>3 DEF ConsumeRequest
  <2>2. approvals \subseteq approvals'
    BY <2>1
  <2>3. /\ StoreOK' /\ taker' \in [Ids -> Handlers \cup {Absent}]
        /\ m.id \in Ids /\ store[m.id] = m.snapshot /\ m.snapshot # Absent
        /\ store' = [i \in Ids |-> IF i = m.id THEN Absent ELSE store[i]]
        /\ \A i \in Ids : taker'[i] # Absent => <<taker'[i], "intent">> \in audit'
    BY <1>2, <1>3, <2>1, <2>2, Consumed
  <2>4. /\ handler' = [handler EXCEPT ![h] = handler'[h]]
        /\ n = [m EXCEPT !.known = {}, !.uses = {},
                        !.pc = IF Plan(h).approve THEN "create" ELSE "outcome"]
    BY <2>1 DEF Move, Inv, TypeOK
  <2>5. /\ IsState(n) /\ n.pc = (IF Plan(h).approve THEN "create" ELSE "outcome")
        /\ n.id = m.id /\ n.snapshot = m.snapshot /\ n.page = m.page
        /\ n.identity = m.identity /\ n.todo = m.todo /\ n.roles = m.roles
    BY <1>1, <2>4 DEF HandlerOK, IsState, Fields
  <2>6. HandlerOK(h, handler[h])'
    <3>1. LabelsOK(h, handler[h])' /\ ReadsOK(h, handler[h])'
      BY <1>1, <1>2, <2>3, <2>5
         DEF HandlerOK, LabelsOK, ReadsOK, Kind, Plan, Policy, Identified, Deciding, Ids
    <3>2. Plan(h).approve =>
            [request |-> n.id, policy |-> Plan(h).policy, app |-> n.snapshot.app,
             session |-> Plan(h).session, subject |-> n.identity.subject,
             email |-> n.identity.email, version |-> n.identity.version,
             scopes |-> n.identity.scopes, deadline |-> Session(h).exp] \in approvals'
      BY <2>1, <2>5 DEF Approval
    <3>3. ConsentOK(h, handler[h])'
      BY <1>1, <1>2, <2>5, <3>2 DEF HandlerOK, ConsentOK, Kind, Plan, Session
    <3> QED
      BY <1>1, <1>2, <2>5, <3>1, <3>3 DEF HandlerOK, TokenOK, IsState, Kind, Plan
  <2>7. /\ \A k \in Handlers : k # h => handler'[k] = handler[k]
        /\ handler' = [k \in Handlers |-> handler'[k]]
        /\ (\A k \in Handlers : HandlerOK(k, handler[k]))'
    BY <1>2, <2>2, <2>4, <2>6, HandlersKept
  <2>8. TypeOK'
    BY <1>2, <2>3, <2>7 DEF Inv, TypeOK, registry
  <2>9. q0 \in RequestIds /\ q0 \notin CodeIds /\ q0 \in drawn
    BY <1>1, <1>2, <2>3, IdsAreDisjoint DEF HandlerOK, ConsentOK, Inv, StoreOK
  <2>10. OneBearer'
    <3>1. \A i \in CodeIds : store'[i] = store[i]
      BY <2>3, <2>9 DEF Ids
    <3>2. \A q \in RequestIds : Bearers(q)' \subseteq Bearers(q) \cup (IF q = q0 THEN {<<"create", h>>} ELSE {})
      BY <1>2, <2>5, <2>7, <3>1 DEF Bearers, Redeeming, Deciding, Kind, Plan
    <3>3. Bearers(q0) = {}
      BY <2>3, <2>9 DEF Inv, OneBearer
    <3>4. \A q \in RequestIds : q \in Ids
      BY DEF Ids
    <3> QED BY <1>2, <2>3, <2>9, <3>2, <3>3, <3>4 DEF Inv, OneBearer
  <2>11. HistoryOK' /\ TokenWithinConsent'
    BY <1>2, <2>2, <2>3 DEF Inv, HistoryOK, TokenWithinConsent
  <2> QED BY <2>3, <2>7, <2>8, <2>10, <2>11 DEF Inv
<1>4. CASE ~Consumable(h)
  BY <1>2, <1>4, EndStep DEF ConsumeRequest, Reads, history
<1> QED BY <1>3, <1>4

LEMMA ConsumeCodeStep ==
  ASSUME Inv, NEW h \in Handlers, ConsumeCode(h)
  PROVE  Inv'
<1> DEFINE m == handler[h]
           n == handler'[h]
<1>1. HandlerOK(h, m)
  BY DEF Inv
<1>2. /\ UNCHANGED <<deployment, registry, edits, now, drawn, approvals, pages, issued, given, audit>>
      /\ m.pc = "consume" /\ Kind(h, {"token"})
  BY DEF ConsumeCode, At
<1>3. CASE Consumable(h)
  <2>1. Delete(h) /\ Move(h, [m EXCEPT !.pc = "subject", !.known = Facts])
    BY <1>3 DEF ConsumeCode
  <2>2. /\ StoreOK' /\ taker' \in [Ids -> Handlers \cup {Absent}]
        /\ m.id \in Ids /\ store[m.id] = m.snapshot /\ m.snapshot # Absent
        /\ store' = [i \in Ids |-> IF i = m.id THEN Absent ELSE store[i]]
        /\ \A i \in Ids : taker'[i] # Absent => <<taker'[i], "intent">> \in audit'
    BY <1>2, <1>3, <2>1, Consumed
  <2>3. /\ handler' = [handler EXCEPT ![h] = handler'[h]]
        /\ n = [m EXCEPT !.pc = "subject", !.known = Facts]
    BY <2>1 DEF Move, Inv, TypeOK
  <2>4. /\ IsState(n) /\ n.pc = "subject" /\ n.id = m.id /\ n.snapshot = m.snapshot
        /\ n.todo = m.todo /\ n.roles = m.roles
    BY <1>1, <2>3 DEF HandlerOK, IsState, Fields
  <2>5. HandlerOK(h, handler[h])'
    <3>1. LabelsOK(h, handler[h])' /\ ReadsOK(h, handler[h])'
      BY <1>1, <1>2, <2>4
         DEF HandlerOK, LabelsOK, ReadsOK, Kind, Plan, Policy, Identified, Deciding
    <3>2. TokenOK(h, handler[h])'
      BY <1>1, <1>2, <2>4 DEF HandlerOK, TokenOK, Kind, Plan, Backed, PageOf
    <3> QED
      BY <1>1, <1>2, <2>4, <3>1, <3>2 DEF HandlerOK, ConsentOK, IsState, Kind, Plan
  <2>6. /\ \A k \in Handlers : k # h => handler'[k] = handler[k]
        /\ handler' = [k \in Handlers |-> handler'[k]]
        /\ (\A k \in Handlers : HandlerOK(k, handler[k]))'
    BY <1>2, <2>3, <2>5, HandlersKept
  <2>7. TypeOK'
    BY <1>2, <2>2, <2>6 DEF Inv, TypeOK, registry
  <2>8. m.id \in CodeIds
    BY <1>1, <1>2 DEF HandlerOK, TokenOK
  <2>9. OneBearer'
    <3> DEFINE q0 == m.snapshot.request
    <3>1. <<"code", m.id>> \in Bearers(q0)
      BY <2>2, <2>8 DEF Bearers
    <3>2. \A i \in CodeIds : store'[i] = IF i = m.id THEN Absent ELSE store[i]
      BY <2>2 DEF Ids
    <3>3. \A q \in RequestIds : q # q0 => Bearers(q)' \subseteq Bearers(q)
      BY <1>2, <2>4, <2>6, <3>2 DEF Bearers, Redeeming, Deciding, Kind, Plan
    <3>4. \A q \in RequestIds : q = q0 =>
            Bearers(q)' \subseteq (Bearers(q) \ {<<"code", m.id>>}) \cup {<<"redeem", h>>}
      BY <1>2, <2>4, <2>6, <3>2 DEF Bearers, Redeeming, Deciding, Kind, Plan
    <3>5. \A q \in RequestIds : q \in drawn /\ store[q] = Absent => store'[q] = Absent
      BY <2>2 DEF Ids
    <3> QED BY <1>2, <3>1, <3>3, <3>4, <3>5, Passed DEF Inv
  <2>10. HistoryOK' /\ TokenWithinConsent'
    BY <1>2, <2>2 DEF Inv, HistoryOK, TokenWithinConsent
  <2> QED BY <2>2, <2>6, <2>7, <2>9, <2>10 DEF Inv
<1>4. CASE ~Consumable(h)
  BY <1>2, <1>4, EndStep DEF ConsumeCode, Reads, history
<1> QED BY <1>3, <1>4

(* The grant of an approval is stored under a fresh code. *)
LEMMA CodeStored ==
  ASSUME Inv, NEW h \in Handlers, handler[h].pc = "create",
         NEW c \in CodeIds \ drawn, Put(c, Grant(h)),
         UNCHANGED <<deployment, now, taker, approvals, pages>>
  PROVE  /\ StoreOK' /\ Grant(h).request = handler[h].id /\ handler[h].id \in RequestIds
         /\ Grant(h) \in GrantRecord
         /\ store' = [i \in Ids |-> IF i = c THEN Grant(h) ELSE store[i]]
         /\ drawn' = drawn \cup {c}
<1> DEFINE m == handler[h]
           a == Approval(h)
<1>1. HandlerOK(h, m) /\ Kind(h, {"consent"})
  BY DEF Inv, HandlerOK, LabelsOK
<1>2. /\ m.id \in RequestIds /\ m.snapshot \in RequestRecord /\ m.page \in pages
      /\ m.identity.subject \in Users /\ m.identity.email \in Emails
      /\ m.identity.version \in Nat /\ m.identity.scopes \in SUBSET Scopes
      /\ PageOf(a) = m.page /\ a \in approvals
  BY <1>1 DEF HandlerOK, ConsentOK, Approval, PageOf
<1>3. /\ a.request = m.id /\ a.policy = Plan(h).policy /\ a.app = m.snapshot.app
      /\ a.subject = m.identity.subject /\ a.email = m.identity.email
      /\ a.version = m.identity.version /\ a.scopes = m.identity.scopes
      /\ a.deadline = Session(h).exp
  BY DEF Approval
<1>4. /\ Grant(h).policy = a.policy /\ Grant(h).app = a.app /\ Grant(h).subject = a.subject
      /\ Grant(h).email = a.email /\ Grant(h).version = a.version /\ Grant(h).scopes = a.scopes
      /\ Grant(h).deadline = a.deadline /\ Grant(h).request = a.request
  BY DEF Grant
<1>5. Earlier(now + CodeTTL, a.deadline) \in Nat
  BY <1>3, Deployed, TimesAreNatural DEF Earlier, Inv, TypeOK
<1>6. Grant(h) \in GrantRecord
  BY <1>2, <1>3, <1>5, Deployed DEF Grant, GrantRecord, RequestRecord, Inv, TypeOK
<1>7. Backed(Grant(h))
  BY <1>2, <1>4 DEF Backed
<1>8. /\ store' = [i \in Ids |-> IF i = c THEN Grant(h) ELSE store[i]]
      /\ drawn' = drawn \cup {c}
  BY DEF Put, Ids, Inv, TypeOK
<1>9. StoreOK'
  <2>1. \A i \in CodeIds : store'[i] # Absent => store'[i] \in GrantRecord /\ Backed(store'[i])
    BY <1>6, <1>7, <1>8 DEF Inv, StoreOK, Ids
  <2>2. \A i \in CodeIds : store'[i] # Absent => Backed(store[i])'
    BY <2>1 DEF Backed, PageOf
  <2>3. c \notin RequestIds /\ c \in Ids
    BY IdsAreDisjoint DEF Ids
  <2>4. \A i \in RequestIds : i \in Ids /\ store'[i] = store[i]
    BY <1>8, <2>3 DEF Ids
  <2>5. /\ \A i \in Ids : store'[i] # Absent => i \in drawn'
        /\ \A i \in Ids : taker[i] # Absent => i \in drawn' /\ store'[i] = Absent
    BY <1>8 DEF Inv, StoreOK
  <2>6. \A i \in RequestIds : store'[i] # Absent => store'[i] \in RequestRecord
    BY <2>4 DEF Inv, StoreOK
  <2> QED BY <2>1, <2>2, <2>5, <2>6 DEF StoreOK
<1> QED BY <1>2, <1>3, <1>4, <1>6, <1>8, <1>9

(* The code bears the approval that the handler bore until it created it. *)
LEMMA CodeBears ==
  ASSUME OneBearer, NEW h \in Handlers, handler[h].pc = "create", NEW c \in CodeIds \ drawn,
         NEW g, g.request = handler[h].id, handler[h].id \in RequestIds,
         store' = [i \in Ids |-> IF i = c THEN g ELSE store[i]], drawn' = drawn \cup {c},
         UNCHANGED <<deployment, issued>>,
         \A k \in Handlers : k # h => handler'[k] = handler[k],
         handler'[h].pc # "create", ~Redeeming(handler'[h])
  PROVE  OneBearer'
<1>1. /\ \A i \in CodeIds : store'[i] = IF i = c THEN g ELSE store[i]
      /\ \A q \in RequestIds : store'[q] = store[q]
  BY IdsAreDisjoint DEF Ids
<1>2. <<"create", h>> \in Bearers(handler[h].id)
  BY DEF Bearers
<1>3. \A q \in RequestIds : q # handler[h].id => Bearers(q)' \subseteq Bearers(q)
  BY <1>1 DEF Bearers, Kind, Plan
<1>4. \A q \in RequestIds : q = handler[h].id =>
        Bearers(q)' \subseteq (Bearers(q) \ {<<"create", h>>}) \cup {<<"code", c>>}
  BY <1>1 DEF Bearers, Kind, Plan
<1> QED BY <1>1, <1>2, <1>3, <1>4, Passed

LEMMA CreateCodeStep ==
  ASSUME Inv, NEW h \in Handlers, CreateCode(h)
  PROVE  Inv'
<1> DEFINE m == handler[h]
           n == handler'[h]
<1>1. HandlerOK(h, m)
  BY DEF Inv
<1>2. /\ UNCHANGED <<deployment, registry, edits, now, taker, approvals, pages, issued, given, audit>>
      /\ m.pc = "create"
  BY DEF CreateCode, At
<1>3. CASE Grant(h).expires > now
  <2>1. PICK c \in CodeIds \ drawn :
          Put(c, Grant(h)) /\ Move(h, [m EXCEPT !.pc = "outcome", !.id = c])
    BY <1>3 DEF CreateCode
  <2>2. /\ StoreOK' /\ Grant(h).request = m.id /\ m.id \in RequestIds
        /\ Grant(h) \in GrantRecord
        /\ store' = [i \in Ids |-> IF i = c THEN Grant(h) ELSE store[i]]
        /\ drawn' = drawn \cup {c}
    BY <1>2, <2>1, CodeStored
  <2>3. /\ handler' = [handler EXCEPT ![h] = handler'[h]]
        /\ n = [m EXCEPT !.pc = "outcome", !.id = c]
    BY <2>1 DEF Move, Inv, TypeOK
  <2>4. /\ IsState(n) /\ n.pc = "outcome" /\ n.id = c /\ n.todo = m.todo /\ n.roles = m.roles
    BY <1>1, <2>3 DEF HandlerOK, IsState, Fields
  <2>5. HandlerOK(h, handler[h])'
    BY <1>1, <1>2, <2>4
       DEF HandlerOK, LabelsOK, ReadsOK, ConsentOK, TokenOK, IsState, Kind, Plan, Policy,
           Identified, Deciding, Ids
  <2>6. /\ \A k \in Handlers : k # h => handler'[k] = handler[k]
        /\ handler' = [k \in Handlers |-> handler'[k]]
        /\ (\A k \in Handlers : HandlerOK(k, handler[k]))'
    BY <1>2, <2>3, <2>5, HandlersKept
  <2>7. TypeOK'
    BY <1>2, <2>2, <2>6 DEF Inv, TypeOK, registry
  <2>8. OneBearer'
    BY <1>2, <2>2, <2>4, <2>6, CodeBears DEF Inv, Redeeming, Deciding
  <2>9. HistoryOK' /\ TokenWithinConsent'
    BY <1>2 DEF Inv, HistoryOK, TokenWithinConsent
  <2> QED BY <2>2, <2>6, <2>7, <2>8, <2>9 DEF Inv
<1>4. CASE ~(Grant(h).expires > now)
  BY <1>2, <1>4, EndStep DEF CreateCode, Reads, history
<1> QED BY <1>3, <1>4

LEMMA SignTokenStep ==
  ASSUME Inv, NEW h \in Handlers, SignToken(h)
  PROVE  Inv'
<1> DEFINE m == handler[h]
           n == handler'[h]
           t == Claims(h)
           g == m.snapshot
<1>1. HandlerOK(h, m)
  BY DEF Inv
<1>2. /\ UNCHANGED <<deployment, registry, edits, now, store, history, pages, given, audit>>
      /\ m.pc = "definitions" /\ Kind(h, {"token"})
  BY DEF SignToken, AtAudience, At
<1>3. UNCHANGED <<drawn, taker, approvals>>
  BY <1>2 DEF history
<1>4. CASE Covered(h) /\ Redeemable(h)
  <2>1. /\ issued' = issued \cup {t}
        /\ Move(h, [m EXCEPT !.pc = "outcome", !.uses = Uses(h)])
    BY <1>4 DEF SignToken
  <2>2. /\ handler' = [handler EXCEPT ![h] = handler'[h]]
        /\ n = [m EXCEPT !.pc = "outcome", !.uses = Uses(h)]
    BY <2>1 DEF Move, Inv, TypeOK
  <2>3. /\ IsState(n) /\ n.pc = "outcome" /\ n.id = m.id /\ n.todo = m.todo /\ n.roles = m.roles
    BY <1>1, <2>2 DEF HandlerOK, IsState, Fields
  <2>4. /\ m.id \in Ids /\ g \in GrantRecord /\ g.policy = Plan(h).policy /\ Backed(g)
        /\ m.user.id = g.subject
    BY <1>1, <1>2 DEF HandlerOK, TokenOK, ReadsOK, Identified, Deciding, Kind, Ids
  <2>5. HandlerOK(h, handler[h])'
    BY <1>1, <1>2, <2>3, <2>4
       DEF HandlerOK, LabelsOK, ReadsOK, ConsentOK, TokenOK, IsState, Kind, Plan, Policy,
           Identified, Deciding, Ids
  <2>6. /\ \A k \in Handlers : k # h => handler'[k] = handler[k]
        /\ handler' = [k \in Handlers |-> handler'[k]]
        /\ (\A k \in Handlers : HandlerOK(k, handler[k]))'
    BY <1>2, <1>3, <2>2, <2>5, HandlersKept
  <2>7. TypeOK'
    BY <1>2, <1>3, <2>6 DEF Inv, TypeOK, registry
  <2>8. StoreOK'
    BY <1>2, <1>3 DEF Inv, StoreOK, Backed, PageOf
  <2>9. /\ t.handler = h /\ t.request = g.request /\ t.app = g.app /\ t.policy = g.policy
        /\ t.subject = Identity(h).subject /\ t.email = Identity(h).email
        /\ t.version = Identity(h).version /\ t.scopes = g.scopes
        /\ t.roles = {r \in Identity(h).roles : Policy(h).scopes[r] \subseteq g.scopes}
        /\ t.exp = Earlier(now + Policy(h).ttl, g.deadline)
    BY DEF Claims
  <2>10. /\ t.subject = g.subject /\ t.email = g.email /\ t.version = g.version
    BY <1>2, <1>4, <2>4, <2>9, IdentityOK DEF Redeemable, Deciding
  <2>11. OneBearer'
    <3>1. \A q \in RequestIds : q # g.request => Bearers(q)' \subseteq Bearers(q)
      BY <1>2, <2>1, <2>3, <2>6, <2>9 DEF Bearers, Redeeming, Deciding, Kind, Plan
    <3>2. \A q \in RequestIds : q = g.request =>
            /\ <<"redeem", h>> \in Bearers(q)
            /\ Bearers(q)' \subseteq (Bearers(q) \ {<<"redeem", h>>}) \cup {<<"token", t>>}
      BY <1>2, <2>1, <2>3, <2>6, <2>9 DEF Bearers, Redeeming, Deciding, Kind, Plan
    <3> QED BY <1>2, <1>3, <3>1, <3>2, Passed DEF Inv
  <2>12. HistoryOK'
    BY <1>2, <1>3, <2>1, <2>4, <2>9, <2>10 DEF Inv, HistoryOK, GrantRecord
  <2>13. TokenWithinConsent'
    <3>1. \A u \in issued' : <<"token", u>> \in Bearers(u.request)'
      BY DEF Bearers
    <3>2. \A u, v \in issued' : u.request = v.request => u = v
      <4> SUFFICES ASSUME NEW u \in issued', NEW v \in issued', u.request = v.request
                   PROVE  u = v
        OBVIOUS
      <4>1. u.request \in RequestIds
        BY <2>12 DEF HistoryOK
      <4>2. <<"token", u>> \in Bearers(u.request)' /\ <<"token", v>> \in Bearers(u.request)'
        BY <3>1
      <4> QED BY <2>11, <4>1, <4>2 DEF OneBearer
    <3>3. t.exp <= g.deadline
      <4>1. now \in Nat /\ Policy(h).ttl \in Nat /\ g.deadline \in Nat
        BY <2>4, Deployed DEF Inv, TypeOK, GrantRecord
      <4> QED BY <2>9, <4>1 DEF Earlier
    <3>4. \A r \in t.roles : deployment.policy[t.policy].scopes[r] \subseteq g.scopes
      BY <2>4, <2>9 DEF Policy
    <3>5. PICK a \in approvals :
            /\ a.request = g.request /\ a.app = g.app /\ a.policy = g.policy
            /\ a.subject = g.subject /\ a.email = g.email /\ a.version = g.version
            /\ a.scopes = g.scopes /\ a.deadline = g.deadline
            /\ PageOf(a) \in pages
      BY SMTT(60), <2>4 DEF Backed
    <3>6. \E b \in approvals' :
            /\ b.request = t.request /\ b.app = t.app /\ b.policy = t.policy
            /\ b.subject = t.subject /\ b.email = t.email /\ b.version = t.version
            /\ t.scopes = b.scopes /\ t.exp <= b.deadline
            /\ \A r \in t.roles : deployment.policy[t.policy].scopes[r] \subseteq b.scopes
            /\ [request |-> b.request, subject |-> b.subject, email |-> b.email,
                version |-> b.version, session |-> b.session] \in pages'
      BY <1>2, <1>3, <2>9, <2>10, <3>3, <3>4, <3>5 DEF PageOf
    <3>7. \A u \in issued : \E b \in approvals' :
            /\ b.request = u.request /\ b.app = u.app /\ b.policy = u.policy
            /\ b.subject = u.subject /\ b.email = u.email /\ b.version = u.version
            /\ u.scopes = b.scopes /\ u.exp <= b.deadline
            /\ \A r \in u.roles : deployment'.policy[u.policy].scopes[r] \subseteq b.scopes
            /\ [request |-> b.request, subject |-> b.subject, email |-> b.email,
                version |-> b.version, session |-> b.session] \in pages'
      BY <1>2, <1>3 DEF Inv, TokenWithinConsent
    <3> HIDE DEF t
    <3> QED BY SMTT(60), <1>2, <2>1, <3>2, <3>6, <3>7 DEF TokenWithinConsent
  <2> QED BY <2>6, <2>7, <2>8, <2>11, <2>12, <2>13 DEF Inv
<1>5. CASE ~(Covered(h) /\ Redeemable(h))
  BY <1>2, <1>5, EndStep DEF SignToken, Reads
<1> QED BY <1>4, <1>5

(* The command took effect and its reply was lost: the record is consumed or *)
(* created with nobody to go on with it.                                     *)
LEMMA LoseReplyStep ==
  ASSUME Inv, NEW h \in Handlers, LoseReply(h)
  PROVE  Inv'
<1> DEFINE m == handler[h]
<1>1. UNCHANGED <<deployment, registry, edits, now, approvals, pages, issued, given>> /\ End(h)
  BY DEF LoseReply
<1>2. /\ handler' = [handler EXCEPT ![h] = handler'[h]]
      /\ HandlerOK(h, handler[h])' /\ ~Redeeming(handler'[h]) /\ handler'[h].pc # "create"
  <2>1. /\ handler' = [handler EXCEPT ![h] = handler'[h]]
        /\ handler'[h] = [Idle EXCEPT !.pc = "done"]
    BY <1>1 DEF End, Move, Inv, TypeOK
  <2> QED BY <2>1, EndedOK
<1>3. CASE m.pc = "consume" /\ Consumable(h) /\ Delete(h) /\ UNCHANGED <<drawn, audit>>
  <2>1. /\ StoreOK' /\ taker' \in [Ids -> Handlers \cup {Absent}]
        /\ m.id \in Ids /\ store[m.id] = m.snapshot /\ m.snapshot # Absent
        /\ store' = [i \in Ids |-> IF i = m.id THEN Absent ELSE store[i]]
        /\ \A i \in Ids : taker'[i] # Absent => <<taker'[i], "intent">> \in audit'
    BY <1>1, <1>3, Consumed
  <2>2. /\ \A k \in Handlers : k # h => handler'[k] = handler[k]
        /\ handler' = [k \in Handlers |-> handler'[k]]
        /\ (\A k \in Handlers : HandlerOK(k, handler[k]))'
    BY <1>1, <1>2, <1>3, HandlersKept
  <2>3. TypeOK'
    BY <1>1, <2>1, <2>2 DEF Inv, TypeOK, registry
  <2>4. OneBearer'
    <3>1. \A i \in CodeIds : store'[i] # Absent => store'[i] = store[i]
      BY <2>1 DEF Ids
    <3>2. \A q \in RequestIds : Bearers(q)' \subseteq Bearers(q)
      BY <1>1, <1>2, <2>2, <3>1 DEF Bearers, Kind, Plan
    <3>3. \A q \in RequestIds : q \in drawn /\ store[q] = Absent => store'[q] = Absent
      BY <2>1 DEF Ids
    <3> QED BY <1>3, <3>2, <3>3, Passed DEF Inv
  <2>5. HistoryOK' /\ TokenWithinConsent'
    BY <1>1, <1>3, <2>1 DEF Inv, HistoryOK, TokenWithinConsent
  <2> QED BY <2>1, <2>2, <2>3, <2>4, <2>5 DEF Inv
<1>4. CASE /\ m.pc = "create" /\ UNCHANGED <<taker, audit>>
           /\ \E c \in CodeIds \ drawn : Put(c, Grant(h))
  <2>1. PICK c \in CodeIds \ drawn : Put(c, Grant(h))
    BY <1>4
  <2>2. /\ StoreOK' /\ Grant(h).request = m.id /\ m.id \in RequestIds
        /\ Grant(h) \in GrantRecord
        /\ store' = [i \in Ids |-> IF i = c THEN Grant(h) ELSE store[i]]
        /\ drawn' = drawn \cup {c}
    BY <1>1, <1>4, <2>1, CodeStored
  <2>3. /\ \A k \in Handlers : k # h => handler'[k] = handler[k]
        /\ handler' = [k \in Handlers |-> handler'[k]]
        /\ (\A k \in Handlers : HandlerOK(k, handler[k]))'
    BY <1>1, <1>2, <1>4, HandlersKept
  <2>4. TypeOK'
    BY <1>1, <1>4, <2>2, <2>3 DEF Inv, TypeOK, registry
  <2>5. OneBearer'
    BY <1>1, <1>2, <1>4, <2>2, <2>3, CodeBears DEF Inv
  <2>6. HistoryOK' /\ TokenWithinConsent'
    BY <1>1, <1>4 DEF Inv, HistoryOK, TokenWithinConsent
  <2> QED BY <2>2, <2>3, <2>4, <2>5, <2>6 DEF Inv
<1>5. CASE audit' = audit \cup {<<h, m.pc>>} /\ UNCHANGED <<drawn, store, taker>>
  <2>1. /\ \A page \in pages : page.request \in RequestIds
        /\ \A k \in Handlers : k \in given => <<k, "outcome">> \in audit
    BY DEF Inv, HistoryOK
  <2> QED BY <1>1, <1>2, <1>5, <2>1, QuietStep DEF history
<1> QED BY <1>3, <1>4, <1>5 DEF LoseReply, At

----------------------------------------------------------------------------
(* Time, and edits of the registry *)

LEMMA EnvironmentSteps ==
  ASSUME Inv, Tick \/ (\E i \in Ids : Expire(i)) \/ RegistryEdit
  PROVE  Inv'
<1>1. /\ UNCHANGED <<deployment, drawn, taker, approvals, pages, issued, given, audit>>
  BY DEF Tick, Expire, RegistryEdit, Edit, Pending, EndSessions, ChangeEmail, SetStatus,
         RetireTenant, Assign, Define, SetAudience, history
<1>2. /\ \A k \in Handlers : IsState(handler'[k]) /\ Alike(handler[k], handler'[k])
      /\ handler' = [k \in Handlers |-> handler'[k]]
  <2>1. \A k \in Handlers : IsState(handler[k])
    BY DEF Inv, HandlerOK
  <2>2. CASE UNCHANGED handler
    BY <2>1, <2>2 DEF Alike, Inv, TypeOK
  <2>3. CASE RegistryEdit
    <3>1. PICK facts : handler' = [k \in Handlers |->
                         IF handler[k].known = {} THEN handler[k]
                         ELSE [handler[k] EXCEPT !.known = @ \cup facts]]
      BY <2>3 DEF RegistryEdit
    <3>2. ASSUME NEW k \in Handlers
          PROVE  IsState(handler'[k]) /\ Alike(handler[k], handler'[k])
      <4>1. CASE handler[k].known = {}
        <5>1. handler'[k] = handler[k]
          BY <3>1, <4>1
        <5> QED BY <2>1, <5>1 DEF Alike
      <4>2. CASE handler[k].known # {}
        <5>1. handler'[k] = [handler[k] EXCEPT !.known = handler[k].known \cup facts]
          BY <3>1, <4>2
        <5> QED BY <2>1, <5>1 DEF Alike, IsState, Fields
      <4> QED BY <4>1, <4>2
    <3> QED BY <3>1, <3>2
  <2> QED BY <2>2, <2>3 DEF Tick, Expire
<1>3. ASSUME NEW k \in Handlers PROVE HandlerOK(k, handler[k])'
  <2>1. HandlerOK(k, handler[k])
    BY DEF Inv
  <2> QED BY <1>1, <1>2, <2>1, StillOK
<1>4. /\ store' = [i \in Ids |-> store'[i]]
      /\ \A i \in Ids : store'[i] = store[i] \/ store'[i] = Absent
  BY DEF Tick, Expire, RegistryEdit, Inv, TypeOK
<1>5. TypeOK'
  <2>1. now' \in Nat
    BY DEF Tick, Expire, RegistryEdit, Inv, TypeOK
  <2>2. edits' \subseteq edits
    BY DEF Tick, Expire, RegistryEdit, Edit, Pending, EndSessions, ChangeEmail, SetStatus,
           RetireTenant, Assign, Define, SetAudience
  <2>3. account' \in [Users -> Account]
    <3>1. account \in [Users -> Account]
      BY DEF Inv, TypeOK
    <3>2. CASE UNCHANGED account
      BY <3>1, <3>2
    <3>3. ASSUME NEW e \in edits, EndSessions(e) PROVE account' \in [Users -> Account]
      <4>1. account' = [account EXCEPT ![e.user].version = account[e.user].version + 1]
        BY <3>3 DEF EndSessions
      <4>2. ASSUME NEW u \in Users PROVE account'[u] \in Account
        <5>1. account[u] \in Account /\ account[u].version + 1 \in Nat
          BY <3>1 DEF Account
        <5>2. [account[u] EXCEPT !.version = account[u].version + 1] \in Account
          BY <5>1 DEF Account
        <5> QED BY <3>1, <4>1, <5>1, <5>2
      <4> QED BY <3>1, <4>1, <4>2
    <3>4. ASSUME NEW e \in edits, ChangeEmail(e) PROVE account' \in [Users -> Account]
      <4>1. e.email \in Emails
        <5>1. deployment \in Deployments /\ e \in deployment.edits /\ e.what = "email"
          BY <3>4 DEF Inv, TypeOK, ChangeEmail, Pending
        <5> QED BY <5>1, AuthorityAssumption
      <4>2. account' = [account EXCEPT ![e.user].email = e.email]
        BY <3>4 DEF ChangeEmail
      <4>3. ASSUME NEW u \in Users PROVE account'[u] \in Account
        <5>1. account[u] \in Account
          BY <3>1
        <5>2. [account[u] EXCEPT !.email = e.email] \in Account
          BY <4>1, <5>1 DEF Account
        <5> QED BY <3>1, <4>2, <5>1, <5>2
      <4> QED BY <3>1, <4>2, <4>3
    <3>5. ASSUME NEW e \in edits, SetStatus(e) PROVE account' \in [Users -> Account]
      <4>1. e.on \in BOOLEAN
        <5>1. deployment \in Deployments /\ e \in deployment.edits /\ e.what = "status"
          BY <3>5 DEF Inv, TypeOK, SetStatus, Pending
        <5> QED BY <5>1, AuthorityAssumption
      <4>2. account' = [account EXCEPT ![e.user].active = e.on]
        BY <3>5 DEF SetStatus
      <4>3. ASSUME NEW u \in Users PROVE account'[u] \in Account
        <5>1. account[u] \in Account
          BY <3>1
        <5>2. [account[u] EXCEPT !.active = e.on] \in Account
          BY <4>1, <5>1 DEF Account
        <5> QED BY <3>1, <4>2, <5>1, <5>2
      <4> QED BY <3>1, <4>2, <4>3
    <3> QED
      BY <3>2, <3>3, <3>4, <3>5
         DEF Tick, Expire, RegistryEdit, Edit, RetireTenant, Assign, Define, SetAudience, registry
  <2> QED BY <1>1, <1>2, <1>4, <2>1, <2>2, <2>3 DEF Inv, TypeOK
<1>6. StoreOK'
  <2>1. \A i \in CodeIds : store'[i] # Absent => store'[i] = store[i] /\ Backed(store[i])
    BY <1>4 DEF Inv, StoreOK, Ids
  <2>2. \A i \in CodeIds : store'[i] # Absent => Backed(store[i])'
    BY <1>1, <2>1 DEF Backed, PageOf
  <2> QED BY <1>1, <1>4, <2>2 DEF Inv, StoreOK, Ids
<1>7. OneBearer'
  <2>1. \A q \in RequestIds : Bearers(q)' \subseteq Bearers(q)
    BY <1>1, <1>2, <1>4 DEF Bearers, Redeeming, Alike, Kind, Plan, Ids
  <2> QED BY <1>1, <1>4, <2>1, Passed DEF Inv, Ids
<1>8. HistoryOK' /\ TokenWithinConsent'
  BY <1>1 DEF Inv, HistoryOK, TokenWithinConsent
<1> QED BY <1>3, <1>5, <1>6, <1>7, <1>8 DEF Inv

----------------------------------------------------------------------------
(* Theorems *)

LEMMA InvInitially == NativeInit => Inv
<1> SUFFICES ASSUME NativeInit PROVE Inv
  OBVIOUS
<1>1. TypeOK
  BY AuthorityAssumption DEF NativeInit, AuthorityInit, TypeOK
<1>2. ASSUME NEW h \in Handlers PROVE HandlerOK(h, handler[h])
  <2>1. /\ handler[h].pc = "idle" /\ handler[h].todo = {} /\ handler[h].roles = {}
        /\ IsState(handler[h])
    BY DEF NativeInit, Idle, IsState, Fields
  <2> QED
    BY <2>1
       DEF HandlerOK, LabelsOK, ReadsOK, ConsentOK, TokenOK, Deciding, Identified, IsState
<1>3. StoreOK
  BY DEF NativeInit, StoreOK, Ids
<1>4. OneBearer
  <2>1. \A h \in Handlers : handler[h].pc = "idle"
    BY DEF NativeInit, Idle
  <2>2. \A q \in RequestIds : Bearers(q) = {}
    BY <2>1 DEF NativeInit, Bearers, Redeeming, Deciding, Ids
  <2> QED BY <2>2 DEF OneBearer
<1>5. HistoryOK /\ TokenWithinConsent
  BY DEF NativeInit, HistoryOK, TokenWithinConsent
<1> QED BY <1>1, <1>2, <1>3, <1>4, <1>5 DEF Inv

LEMMA InvStutters == Inv /\ UNCHANGED vars => Inv'
<1> SUFFICES ASSUME Inv, UNCHANGED vars PROVE Inv'
  OBVIOUS
<1>1. UNCHANGED <<deployment, account, edits, now, store, drawn, taker, pages, approvals, issued,
                  given, audit, handler>>
  BY DEF vars, registry, grants
<1>2. ASSUME NEW k \in Handlers PROVE HandlerOK(k, handler[k])'
  BY <1>1, Others DEF Inv
<1>3. TypeOK' /\ StoreOK'
  BY <1>1 DEF Inv, TypeOK, StoreOK, Backed, PageOf
<1>4. OneBearer'
  BY <1>1 DEF Inv, OneBearer, Bearers, Kind, Plan, Redeeming
<1>5. HistoryOK' /\ TokenWithinConsent'
  BY <1>1 DEF Inv, HistoryOK, TokenWithinConsent
<1> QED BY <1>2, <1>3, <1>4, <1>5 DEF Inv

LEMMA InvKept == Inv /\ [Next]_vars => Inv'
<1> SUFFICES ASSUME Inv, [Next]_vars PROVE Inv'
  OBVIOUS
<1>1. ASSUME NEW h \in Handlers, Serve(h) PROVE Inv'
  BY <1>1, ReadSteps, OpenSteps, AuthorizeStep, RecordSteps, ConsumeRequestStep, ConsumeCodeStep,
     CreateCodeStep, SignTokenStep DEF Serve
<1>2. ASSUME NEW h \in Handlers, Fail(h) \/ LoseReply(h) PROVE Inv'
  BY <1>2, OpenSteps, LoseReplyStep
<1> QED BY <1>1, <1>2, EnvironmentSteps, InvStutters DEF Next

(* The inductive invariant holds in every state. *)
THEOREM NativeInvariant == Spec => []Inv
<1> QED BY InvInitially, InvKept, PTL DEF Spec

(* A token carries what one approval of its request says and no request      *)
(* yields two; nothing is consumed, and nothing leaves the server, without   *)
(* its audit record: for any number of handlers, requests, codes, edits and  *)
(* faults, in whatever order their commands reach the store.                 *)
THEOREM ConsentIsHonoured == Spec => []ConsentHonoured
<1>1. Inv => ConsentHonoured
  <2> SUFFICES ASSUME Inv PROVE GrantsAudited
    BY DEF Inv, ConsentHonoured
  <2> QED BY DEF Inv, HistoryOK, GrantsAudited
<1> QED BY <1>1, NativeInvariant, PTL

----------------------------------------------------------------------------
(* The store implements one-time tickets *)

Ended == {i \in drawn : store[i] = Absent}

DrawnOK == drawn \subseteq Ids

(* The steps that only read. *)
Readers(h) ==
  \/ Resume(h) \/ ReadRequest(h) \/ ReadCode(h) \/ Present(h)
  \/ ReadSession(h) \/ ReadSessionTenant(h) \/ ReadSubject(h)
  \/ ReadBearer(h) \/ ReadBearerTenant(h) \/ ReadBearerAudience(h)
  \/ ReadHome(h) \/ ReadTarget(h) \/ ReadRoles(h) \/ ReadDefinition(h)
  \/ CheckForm(h) \/ Accept(h) \/ Fail(h)

LEMMA AuthorityReadersRead ==
  ASSUME NEW h \in Handlers,
         \/ ReadSession(h) \/ ReadSessionTenant(h) \/ ReadSubject(h)
         \/ ReadBearer(h) \/ ReadBearerTenant(h) \/ ReadBearerAudience(h)
         \/ ReadHome(h) \/ ReadTarget(h) \/ ReadRoles(h) \/ ReadDefinition(h)
  PROVE  Reads
BY ZenonT(60) DEF ReadSession, ReadSessionTenant, ReadSubject, ReadBearer, ReadBearerTenant,
       ReadBearerAudience, ReadHome, ReadTarget, ReadRoles, ReadDefinition

LEMMA OpenersRead ==
  ASSUME NEW h \in Handlers,
         \/ Resume(h) \/ ReadRequest(h) \/ ReadCode(h) \/ Present(h)
         \/ CheckForm(h) \/ Accept(h) \/ Fail(h)
  PROVE  Reads
BY DEF Resume, ReadRequest, ReadCode, Present, CheckForm, Accept, Fail

LEMMA ReadersRead ==
  ASSUME NEW h \in Handlers, Readers(h)
  PROVE  Reads
BY AuthorityReadersRead, OpenersRead DEF Readers

(* What a handler that creates a code does to the store, its reply lost or not. *)
LEMMA CreateCodeStores ==
  ASSUME NEW h \in Handlers, CreateCode(h)
  PROVE  /\ handler[h].pc = "create" /\ UNCHANGED <<deployment, now, taker, approvals, pages>>
         /\ UNCHANGED <<drawn, store>> \/ \E c \in CodeIds \ drawn : Put(c, Grant(h))
<1>1. /\ UNCHANGED <<deployment, registry, edits, now, taker, approvals, pages, issued, given, audit>>
      /\ handler[h].pc = "create"
  BY DEF CreateCode, At
<1>2. CASE Grant(h).expires > now
  <2>1. PICK c \in CodeIds \ drawn :
          Put(c, Grant(h)) /\ Move(h, [handler[h] EXCEPT !.pc = "outcome", !.id = c])
    BY <1>2 DEF CreateCode
  <2> QED BY <1>1, <2>1
<1>3. CASE ~(Grant(h).expires > now)
  <2>1. UNCHANGED <<drawn, store>>
    BY <1>3 DEF CreateCode
  <2> QED BY <1>1, <2>1
<1> QED BY <1>2, <1>3

LEMMA LoseReplyStores ==
  ASSUME NEW h \in Handlers, LoseReply(h)
  PROVE  /\ UNCHANGED <<deployment, now, approvals, pages>>
         /\ \/ handler[h].pc = "consume" /\ Consumable(h) /\ Delete(h) /\ UNCHANGED drawn
            \/ /\ handler[h].pc = "create" /\ taker' = taker
               /\ \E c \in CodeIds \ drawn : Put(c, Grant(h))
            \/ UNCHANGED <<drawn, store, taker>>
<1>1. UNCHANGED <<deployment, registry, edits, now, approvals, pages, issued, given>> /\ End(h)
  BY DEF LoseReply
<1>2. \/ handler[h].pc = "consume" /\ Consumable(h) /\ Delete(h) /\ UNCHANGED drawn
      \/ /\ handler[h].pc = "create" /\ taker' = taker
         /\ \E c \in CodeIds \ drawn : Put(c, Grant(h))
      \/ UNCHANGED <<drawn, store, taker>>
  BY DEF LoseReply, At
<1> QED BY <1>1, <1>2

LEMMA AuthorizeStores ==
  ASSUME NEW h \in Handlers, Authorize(h)
  PROVE  /\ taker' = taker
         /\ \E i \in RequestIds \ drawn :
              Put(i, [policy |-> Plan(h).policy, app |-> Plan(h).app,
                      expires |-> now + RequestTTL])
<1>1. UNCHANGED <<deployment, registry, edits, now, taker, pages, approvals, issued, given, audit>>
  BY DEF Authorize
<1>2. \E i \in RequestIds \ drawn :
        Put(i, [policy |-> Plan(h).policy, app |-> Plan(h).app, expires |-> now + RequestTTL])
  BY DEF Authorize
<1> QED BY <1>1, <1>2

LEMMA DrawnIds ==
  ASSUME DrawnOK, [Next]_vars
  PROVE  DrawnOK'
<1>1. UNCHANGED drawn \/ \E i \in Ids : drawn' = drawn \cup {i}
  <2>1. ASSUME NEW h \in Handlers, Authorize(h) \/ CreateCode(h) \/ LoseReply(h)
        PROVE  UNCHANGED drawn \/ \E i \in Ids : drawn' = drawn \cup {i}
    BY <2>1, AuthorizeStores, CreateCodeStores, LoseReplyStores DEF Put, Ids
  <2>2. ASSUME NEW h \in Handlers, Readers(h)
        PROVE  UNCHANGED drawn
    BY <2>2, ReadersRead DEF Reads, history
  <2>3. ASSUME NEW h \in Handlers,
               \/ ShowConsent(h) \/ SignToken(h) \/ RecordIntent(h) \/ ConsumeRequest(h)
               \/ ConsumeCode(h) \/ Answer(h)
        PROVE  UNCHANGED drawn
    BY <2>3 DEF ShowConsent, SignToken, RecordIntent, ConsumeRequest, ConsumeCode, Answer, history
  <2>4. CASE RegistryEdit \/ Tick \/ \E i \in Ids : Expire(i)
    BY <2>4 DEF RegistryEdit, Tick, Expire, history
  <2>5. CASE UNCHANGED vars
    BY <2>5 DEF vars, grants
  <2> QED BY <2>1, <2>2, <2>3, <2>4, <2>5 DEF Next, Serve, Readers
<1> QED BY <1>1 DEF DrawnOK

(* The four things a step does to the store, as steps of a ticket. *)
LEMMA NoTicketStep ==
  ASSUME UNCHANGED <<drawn, store, taker>>
  PROVE  UNCHANGED Tickets!vars
BY DEF Tickets!vars

LEMMA TicketIssued ==
  ASSUME Inv, DrawnOK, NEW i \in Ids \ drawn, NEW record, record # Absent,
         Put(i, record), taker' = taker
  PROVE  Tickets!Next
<1>1. store = [j \in Ids |-> store[j]] /\ store[i] = Absent
  BY DEF Inv, TypeOK, StoreOK
<1>2. store' = [store EXCEPT ![i] = record] /\ drawn' = drawn \cup {i}
  BY DEF Put
<1>3. store'[i] = record /\ \A j \in drawn : store'[j] = store[j]
  BY <1>1, <1>2 DEF DrawnOK
<1>4. Ended' = Ended
  BY <1>2, <1>3 DEF Ended
<1>5. Tickets!Issue(i)
  BY <1>1, <1>2, <1>3, <1>4 DEF Tickets!Issue, Ended
<1> QED BY <1>5 DEF Tickets!Next

LEMMA TicketEnds ==
  ASSUME Inv, DrawnOK, NEW i \in Ids, store[i] # Absent, UNCHANGED drawn,
         store' = [store EXCEPT ![i] = Absent]
  PROVE  /\ taker' = taker => Tickets!Next
         /\ \A h \in Handlers : taker' = [taker EXCEPT ![i] = h] => Tickets!Next
<1>1. store = [j \in Ids |-> store[j]] /\ i \in drawn
  BY DEF Inv, TypeOK, StoreOK
<1>2. Ended' = Ended \cup {i}
  BY <1>1 DEF Ended, DrawnOK
<1>3. taker' = taker => Tickets!Lapse(i)
  BY <1>2 DEF Tickets!Lapse, Ended
<1>4. \A h \in Handlers : taker' = [taker EXCEPT ![i] = h] => Tickets!Take(i, h)
  BY <1>2 DEF Tickets!Take, Ended
<1> QED BY <1>3, <1>4 DEF Tickets!Next

LEMMA TicketTaken ==
  ASSUME Inv, DrawnOK, NEW h \in Handlers, handler[h].pc = "consume", Consumable(h),
         Delete(h), UNCHANGED drawn
  PROVE  Tickets!Next
<1>1. handler[h].id \in Ids /\ handler[h].snapshot # Absent
  BY AbsentIsNoRecord DEF Inv, HandlerOK, LabelsOK, ConsentOK, TokenOK, Kind, Ids
<1>2. store[handler[h].id] # Absent
  BY <1>1 DEF Consumable
<1> QED BY <1>1, <1>2, TicketEnds DEF Delete

LEMMA GrantIsRecord ==
  ASSUME Inv, NEW h \in Handlers, handler[h].pc = "create", NEW c \in CodeIds \ drawn,
         Put(c, Grant(h)), UNCHANGED <<deployment, now, taker, approvals, pages>>
  PROVE  Grant(h) # Absent
BY CodeStored, AbsentIsNoRecord

LEMMA StepsRefine ==
  ASSUME Inv, DrawnOK, [Next]_vars
  PROVE  [Tickets!Next]_(Tickets!vars)
<1>1. ASSUME NEW h \in Handlers, Authorize(h) PROVE Tickets!Next
  <2>1. PICK i \in RequestIds \ drawn :
          Put(i, [policy |-> Plan(h).policy, app |-> Plan(h).app, expires |-> now + RequestTTL])
    BY <1>1, AuthorizeStores
  <2>2. [policy |-> Plan(h).policy, app |-> Plan(h).app, expires |-> now + RequestTTL]
          \in RequestRecord
    BY Deployed, TimesAreNatural DEF Inv, TypeOK, RequestRecord
  <2>3. taker' = taker
    BY <1>1, AuthorizeStores
  <2> QED BY <2>1, <2>2, <2>3, AbsentIsNoRecord, TicketIssued DEF Ids
<1>2. ASSUME NEW h \in Handlers, ConsumeRequest(h) \/ ConsumeCode(h)
      PROVE  Tickets!Next \/ UNCHANGED <<drawn, store, taker>>
  <2>1. handler[h].pc = "consume" /\ UNCHANGED drawn
    BY <1>2 DEF ConsumeRequest, ConsumeCode, At
  <2>2. (Consumable(h) /\ Delete(h)) \/ UNCHANGED <<drawn, store, taker>>
    BY <1>2 DEF ConsumeRequest, ConsumeCode
  <2> QED BY <2>1, <2>2, TicketTaken
<1>3. ASSUME NEW h \in Handlers, CreateCode(h)
      PROVE  Tickets!Next \/ UNCHANGED <<drawn, store, taker>>
  BY <1>3, CreateCodeStores, GrantIsRecord, TicketIssued DEF Ids
<1>4. ASSUME NEW h \in Handlers, LoseReply(h)
      PROVE  Tickets!Next \/ UNCHANGED <<drawn, store, taker>>
  BY <1>4, LoseReplyStores, TicketTaken, GrantIsRecord, TicketIssued DEF Ids
<1>5. ASSUME NEW i \in Ids, Expire(i) PROVE Tickets!Next
  BY <1>5, TicketEnds DEF Expire, history
<1>6. ASSUME NEW h \in Handlers, Readers(h)
      PROVE  UNCHANGED <<drawn, store, taker>>
  BY <1>6, ReadersRead DEF Reads, history
<1>7. ASSUME NEW h \in Handlers, ShowConsent(h) \/ SignToken(h) \/ RecordIntent(h) \/ Answer(h)
      PROVE  UNCHANGED <<drawn, store, taker>>
  BY <1>7 DEF ShowConsent, SignToken, RecordIntent, Answer, history
<1>8. CASE RegistryEdit \/ Tick \/ UNCHANGED vars
  <2>1. UNCHANGED <<drawn, store, taker>>
    BY <1>8 DEF RegistryEdit, Tick, vars, grants, history
  <2> QED BY <2>1, NoTicketStep
<1> QED
  BY <1>1, <1>2, <1>3, <1>4, <1>5, <1>6, <1>7, <1>8, NoTicketStep DEF Next, Serve, Readers

(* Requests and codes are one-time tickets: issued once, never changed,      *)
(* taken by at most one handler and never brought back, although store.go    *)
(* reads, checks and consumes them in separate commands.                     *)
THEOREM CodesAreTickets == Spec => GrantsAreTickets
<1>1. NativeInit => Tickets!Init /\ DrawnOK
  BY DEF NativeInit, Tickets!Init, DrawnOK
<1>2. Inv /\ DrawnOK /\ [Next]_vars
        => DrawnOK' /\ [Tickets!Next]_(Tickets!vars)
  BY DrawnIds, StepsRefine
<1> QED BY <1>1, <1>2, NativeInvariant, PTL DEF Spec, GrantsAreTickets, Tickets!Spec

----------------------------------------------------------------------------
(* The authority behind a decision *)

Reading == {"session", "bearer", "subject"} \cup Identified

(* What a handler has found so far was true at some moment of its decision. *)
Found(h, m) ==
  LET p == Policy(h)  u == m.user IN
  /\ m.pc \in Identified =>
       <<"version", u.id, u.record.version>> \in m.known /\ <<"active", u.id>> \in m.known
  /\ m.pc \in {"target", "roles", "definitions"} => <<"tenant", p.home>> \in m.known
  /\ m.pc \in {"roles", "definitions"} => <<"tenant", p.target>> \in m.known
  /\ m.pc = "definitions" =>
       /\ \A k \in m.todo : <<"role", u.id, p.target, PolicyRoles(p)[k]>> \in m.known
       /\ \A r \in m.roles : /\ <<"role", u.id, p.target, r>> \in m.known
                            /\ <<"definition", p.target, r, p.scopes[r]>> \in m.known

KnownOK(h, m) ==
  /\ m.known # {} => Facts \subseteq m.known
  /\ m.uses \subseteq m.known
  /\ Kind(h, {"consent", "token", "validate"}) /\ m.pc \in Reading => m.known # {}
  /\ Kind(h, {"token"}) /\ m.pc \in {"intent", "consume"} => m.known = {} /\ m.roles = {}
  /\ m.pc \in Reading \ {"definitions"} => m.roles = {}
  /\ m.known # {} => Found(h, m)

Known == \A h \in Handlers : KnownOK(h, handler[h])

(* Each read of the registry yields one of its facts. *)
LEMMA FactsRead ==
  /\ \A u \in Users : /\ <<"version", u, account[u].version>> \in Facts
                      /\ account[u].active => <<"active", u>> \in Facts
  /\ \A t \in active : <<"tenant", t>> \in Facts
  /\ \A u \in Users, t \in Tenants, r \in RoleNames :
       r \in held[<<u, t>>] => <<"role", u, t, r>> \in Facts
  /\ \A t \in Tenants, r \in RoleNames : <<"definition", t, r, definition[<<t, r>>]>> \in Facts
  /\ \A t \in Tenants : <<"audience", t, audience[t]>> \in Facts
<1>1. \A u \in Users : /\ <<"version", u, account[u].version>> \in Facts
                       /\ account[u].active => <<"active", u>> \in Facts
  BY DEF Facts
<1>2. \A t \in active : <<"tenant", t>> \in Facts
  BY DEF Facts
<1>3. ASSUME NEW u \in Users, NEW t \in Tenants, NEW r \in RoleNames, r \in held[<<u, t>>]
      PROVE  <<"role", u, t, r>> \in Facts
  <2>1. <<u, t, r>> \in {f \in Users \X Tenants \X RoleNames : f[3] \in held[<<f[1], f[2]>>]}
    BY <1>3
  <2>2. <<"role", u, t, r>> \in {<<"role", g[1], g[2], g[3]>> :
            g \in {f \in Users \X Tenants \X RoleNames : f[3] \in held[<<f[1], f[2]>>]}}
    BY SMTT(60), <2>1
  <2> QED BY <2>2 DEF Facts
<1>4. ASSUME NEW t \in Tenants, NEW r \in RoleNames
      PROVE  <<"definition", t, r, definition[<<t, r>>]>> \in Facts
  <2>1. <<t, r>> \in Tenants \X RoleNames
    OBVIOUS
  <2>2. <<"definition", t, r, definition[<<t, r>>]>>
          \in {<<"definition", tr[1], tr[2], definition[tr]>> : tr \in Tenants \X RoleNames}
    BY <2>1
  <2> QED BY <2>2 DEF Facts
<1>5. \A t \in Tenants : <<"audience", t, audience[t]>> \in Facts
  BY DEF Facts
<1> QED BY <1>1, <1>2, <1>3, <1>4, <1>5

LEMMA KnownStep ==
  ASSUME Inv, Known, NEW h \in Handlers, UNCHANGED <<deployment, registry>>,
         handler' = [handler EXCEPT ![h] = handler'[h]], KnownOK(h, handler'[h])
  PROVE  Known'
<1>1. Facts' = Facts
  BY DEF Facts, registry
<1>2. \A k \in Handlers : KnownOK(k, handler'[k])
  BY DEF Known, Inv, TypeOK
<1> QED BY ZenonT(60), <1>1, <1>2 DEF Known, KnownOK, Found, Kind, Plan, Policy

LEMMA KnownEnds ==
  ASSUME NEW h, NEW n, n = [Idle EXCEPT !.pc = "done"]
  PROVE  KnownOK(h, n)
<1>1. n.pc = "done" /\ n.known = {} /\ n.uses = {} /\ n.roles = {}
  BY DEF Idle
<1> QED BY <1>1 DEF KnownOK, Reading, Identified, Deciding

LEMMA Moves ==
  ASSUME Inv, NEW h \in Handlers, NEW r, Move(h, r)
  PROVE  handler' = [handler EXCEPT ![h] = handler'[h]] /\ handler'[h] = r
BY DEF Move, Inv, TypeOK

LEMMA KnownEndStep ==
  ASSUME Inv, Known, NEW h \in Handlers, UNCHANGED <<deployment, registry>>, End(h)
  PROVE  Known'
BY Moves, KnownEnds, KnownStep DEF End

(* A handler that reads on: what it found before is still in the facts of    *)
(* its decision, and what it reads now is true now.                          *)
Advances(h, m, n) ==
  /\ m.pc \in Reading /\ n.pc \in Reading /\ n.known = m.known /\ n.uses = m.uses
  /\ n.pc # "definitions" => n.roles = {}
  /\ Facts \subseteq m.known /\ Found(h, m) => Found(h, n)

LEMMA KnownAdvance ==
  ASSUME NEW h, NEW m, NEW n, KnownOK(h, m), Advances(h, m, n)
  PROVE  KnownOK(h, n)
<1>1. n.pc \notin {"intent", "consume"} /\ m.pc \in Reading /\ n.pc \in Reading
  BY DEF Advances, Reading, Identified, Deciding
<1> QED BY <1>1 DEF KnownOK, Advances

LEMMA KnownReadSteps ==
  ASSUME Inv, Known, NEW h \in Handlers,
         \/ ReadSession(h) \/ ReadSessionTenant(h) \/ ReadSubject(h)
         \/ ReadBearer(h) \/ ReadBearerTenant(h) \/ ReadBearerAudience(h)
         \/ ReadHome(h) \/ ReadTarget(h) \/ ReadRoles(h) \/ ReadDefinition(h)
  PROVE  Known'
<1> DEFINE m == handler[h]
           n == handler'[h]
           p == Policy(h)
           copy(u) == [id |-> u, record |-> account[u]]
<1>1. KnownOK(h, m) /\ HandlerOK(h, m)
  BY DEF Known, Inv
<1>2. IsState(m) /\ ReadsOK(h, m) /\ (m.pc \in Reading \ {"definitions"} => m.roles = {})
  BY <1>1 DEF HandlerOK, KnownOK
<1>3. UNCHANGED <<deployment, registry>>
  BY AuthorityReadersRead DEF Reads
<1>4. ASSUME NEW r, Move(h, r), Advances(h, m, r) PROVE Known'
  BY <1>1, <1>3, <1>4, Moves, KnownAdvance, KnownStep
<1>5. ASSUME End(h) PROVE Known'
  BY <1>3, <1>5, KnownEndStep
<1>6. ASSUME NEW u \in Users, account[u].active, m.pc \in {"session", "bearer", "subject"},
             NEW next, next \in {"sessionTenant", "bearerTenant", "home"},
             Move(h, [Copy(h, u) EXCEPT !.pc = next])
      PROVE  Known'
  <2> DEFINE r == [Copy(h, u) EXCEPT !.pc = next]
  <2>1. Copy(h, u) = [m EXCEPT !.user = copy(u)]
    BY DEF Copy
  <2>2. /\ r.pc = next /\ r.user = copy(u) /\ r.roles = m.roles /\ r.known = m.known
        /\ r.uses = m.uses
    BY <1>2, <2>1 DEF IsState, Fields
  <2>3. <<"version", u, account[u].version>> \in Facts /\ <<"active", u>> \in Facts
    BY <1>6, FactsRead
  <2>4. Facts \subseteq m.known => Found(h, r)
    BY <1>6, <2>2, <2>3 DEF Found, Identified, Deciding
  <2>5. m.roles = {}
    BY <1>2, <1>6 DEF Reading, Identified, Deciding
  <2>6. Advances(h, m, r)
    BY <1>6, <2>2, <2>4, <2>5 DEF Advances, Reading, Identified, Deciding
  <2> QED BY <1>4, <1>6, <2>6
<1>7. ASSUME NEW next,
             \/ m.pc = "sessionTenant" /\ next = "home"
             \/ m.pc = "bearerTenant" /\ next = "bearerAudience"
             \/ m.pc = "bearerAudience" /\ next = "home"
             \/ m.pc = "home" /\ next = "target" /\ p.home \in active
             \/ m.pc = "target" /\ next = "roles" /\ p.target \in active,
             Move(h, [m EXCEPT !.pc = next])
      PROVE  Known'
  <2> DEFINE r == [m EXCEPT !.pc = next]
  <2>1. /\ r.pc = next /\ r.user = m.user /\ r.roles = m.roles /\ r.known = m.known
        /\ r.uses = m.uses
    BY <1>2 DEF IsState, Fields
  <2>2. /\ p.home \in active => <<"tenant", p.home>> \in Facts
        /\ p.target \in active => <<"tenant", p.target>> \in Facts
    BY FactsRead
  <2>3. Facts \subseteq m.known /\ Found(h, m) => Found(h, r)
    BY <1>7, <2>1, <2>2 DEF Found, Identified, Deciding
  <2>4. m.roles = {}
    BY <1>2, <1>7 DEF Reading, Identified, Deciding
  <2>5. Advances(h, m, r)
    BY <1>7, <2>1, <2>3, <2>4 DEF Advances, Reading, Identified, Deciding
  <2> QED BY <1>4, <1>7, <2>5
<1>8. CASE ReadSession(h)
  <2>1. Session(h).user \in Users
    BY Deployed DEF Inv, TypeOK
  <2>2. m.pc = "session"
    BY <1>8 DEF ReadSession, At
  <2>3. \/ /\ account[Session(h).user].active
           /\ Move(h, [Copy(h, Session(h).user) EXCEPT !.pc = "sessionTenant"])
        \/ End(h)
    BY <1>8 DEF ReadSession
  <2> QED BY <1>5, <1>6, <2>1, <2>2, <2>3
<1>9. CASE ReadSubject(h)
  <2>1. m.pc = "subject"
    BY <1>9 DEF ReadSubject, At
  <2>2. m.snapshot.subject \in Users
    BY <1>1, <2>1 DEF HandlerOK, LabelsOK, TokenOK, GrantRecord, Kind
  <2>3. \/ /\ account[m.snapshot.subject].active
           /\ Move(h, [Copy(h, m.snapshot.subject) EXCEPT !.pc = "home"])
        \/ End(h)
    BY <1>9 DEF ReadSubject
  <2> QED BY <1>5, <1>6, <2>1, <2>2, <2>3
<1>10. CASE ReadBearer(h)
  <2>1. m.pc = "bearer"
    BY <1>10 DEF ReadBearer, At
  <2>2. m.snapshot.subject \in Users
    BY <1>1, <2>1 DEF HandlerOK, LabelsOK
  <2>3. \/ /\ account[m.snapshot.subject].active
           /\ Move(h, [Copy(h, m.snapshot.subject) EXCEPT !.pc = "bearerTenant"])
        \/ End(h)
    BY <1>10 DEF ReadBearer
  <2> QED BY <1>5, <1>6, <2>1, <2>2, <2>3
<1>11. CASE ReadSessionTenant(h)
  <2>1. m.pc = "sessionTenant" /\ (Move(h, [m EXCEPT !.pc = "home"]) \/ End(h))
    BY <1>11 DEF ReadSessionTenant, At, Check
  <2> QED BY <1>5, <1>7, <2>1
<1>12. CASE ReadBearerTenant(h)
  <2>1. m.pc = "bearerTenant" /\ (Move(h, [m EXCEPT !.pc = "bearerAudience"]) \/ End(h))
    BY <1>12 DEF ReadBearerTenant, At, Check
  <2> QED BY <1>5, <1>7, <2>1
<1>13. CASE ReadBearerAudience(h)
  <2>1. m.pc = "bearerAudience" /\ (Move(h, [m EXCEPT !.pc = "home"]) \/ End(h))
    BY <1>13 DEF ReadBearerAudience, At, Check
  <2> QED BY <1>5, <1>7, <2>1
<1>14. CASE ReadHome(h)
  <2>1. m.pc = "home" /\ ((p.home \in active /\ Move(h, [m EXCEPT !.pc = "target"])) \/ End(h))
    BY <1>14 DEF ReadHome, At, Check
  <2> QED BY <1>5, <1>7, <2>1
<1>15. CASE ReadTarget(h)
  <2>1. m.pc = "target" /\ ((p.target \in active /\ Move(h, [m EXCEPT !.pc = "roles"])) \/ End(h))
    BY <1>15 DEF ReadTarget, At, Check
  <2> QED BY <1>5, <1>7, <2>1
<1>16. CASE ReadRoles(h)
  <2> DEFINE mine == {k \in DOMAIN PolicyRoles(p) :
                        PolicyRoles(p)[k] \in held[<<m.user.id, p.target>>]}
             r == [m EXCEPT !.pc = "definitions", !.todo = mine]
  <2>1. m.pc = "roles" /\ Move(h, r)
    BY <1>16 DEF ReadRoles, At
  <2>2. /\ r.pc = "definitions" /\ r.todo = mine /\ r.user = m.user /\ r.roles = m.roles
        /\ r.known = m.known /\ r.uses = m.uses
    BY <1>2 DEF IsState, Fields
  <2>3. m.user.id \in Users /\ m.roles = {}
    BY <1>2, <2>1 DEF ReadsOK, Person, Reading, Identified, Deciding
  <2>4. \A k \in mine : <<"role", m.user.id, p.target, PolicyRoles(p)[k]>> \in Facts
    BY <2>3, Deployed, FactsRead DEF Inv, TypeOK
  <2>5. Facts \subseteq m.known /\ Found(h, m) => Found(h, r)
    BY <2>1, <2>2, <2>3, <2>4 DEF Found, Identified, Deciding
  <2>6. Advances(h, m, r)
    BY <2>1, <2>2, <2>5 DEF Advances, Reading, Identified, Deciding
  <2> QED BY <1>4, <2>1, <2>6
<1>17. CASE ReadDefinition(h)
  <2>1. m.pc = "definitions"
    BY <1>17 DEF ReadDefinition, At
  <2>2. PICK k \in m.todo :
          \/ /\ definition[<<p.target, PolicyRoles(p)[k]>>] = p.scopes[PolicyRoles(p)[k]]
             /\ Move(h, [m EXCEPT !.todo = m.todo \ {k},
                                  !.roles = m.roles \cup {PolicyRoles(p)[k]}])
          \/ End(h)
    BY <1>17 DEF ReadDefinition
  <2> DEFINE r == [m EXCEPT !.todo = m.todo \ {k}, !.roles = m.roles \cup {PolicyRoles(p)[k]}]
  <2>3. /\ r.pc = "definitions" /\ r.todo = m.todo \ {k} /\ r.user = m.user
        /\ r.roles = m.roles \cup {PolicyRoles(p)[k]} /\ r.known = m.known /\ r.uses = m.uses
    BY <1>2, <2>1 DEF IsState, Fields
  <2>4. PolicyRoles(p)[k] \in RoleNames /\ p.target \in Tenants
    BY <1>2, Deployed DEF ReadsOK, Inv, TypeOK
  <2>5. <<"definition", p.target, PolicyRoles(p)[k], definition[<<p.target, PolicyRoles(p)[k]>>]>>
          \in Facts
    BY <2>4, FactsRead
  <2>6. ASSUME definition[<<p.target, PolicyRoles(p)[k]>>] = p.scopes[PolicyRoles(p)[k]],
               Facts \subseteq m.known, Found(h, m)
        PROVE  Found(h, r)
    BY <2>1, <2>3, <2>5, <2>6 DEF Found, Identified, Deciding
  <2>7. definition[<<p.target, PolicyRoles(p)[k]>>] = p.scopes[PolicyRoles(p)[k]]
          => Advances(h, m, r)
    BY <2>1, <2>3, <2>6 DEF Advances, Reading, Identified, Deciding
  <2> QED BY <1>4, <1>5, <2>2, <2>7
<1> QED
  BY <1>8, <1>9, <1>10, <1>11, <1>12, <1>13, <1>14, <1>15, <1>16, <1>17

(* A handler that begins: authorize, resume and token with no decision yet,  *)
(* consent and validate with the facts of the moment.                        *)
LEMMA KnownBegins ==
  ASSUME NEW h \in Handlers, NEW r, r.roles = {}, r.uses = {},
         \/ /\ r.known = {}
            /\ \/ Kind(h, {"authorize", "resume"}) /\ r.pc = "session"
               \/ Kind(h, {"token"}) /\ r.pc = "intent"
         \/ /\ r.known = Facts /\ Facts # {}
            /\ \/ Kind(h, {"consent"}) /\ r.pc = "session"
               \/ Kind(h, {"validate"}) /\ r.pc = "bearer"
  PROVE  KnownOK(h, r)
<1>1. r.pc \notin Identified
  BY DEF Identified, Deciding
<1>2. Found(h, r)
  BY <1>1 DEF Found, Identified, Deciding
<1> QED BY <1>1, <1>2 DEF KnownOK, Kind, Reading, Identified, Deciding

LEMMA FactsExist ==
  ASSUME NEW u \in Users PROVE Facts # {}
BY FactsRead

LEMMA KnownOpenSteps ==
  ASSUME Inv, Known, NEW h \in Handlers,
         Authorize(h) \/ Resume(h) \/ ReadRequest(h) \/ ReadCode(h) \/ Present(h)
  PROVE  Known'
<1>1. IsState(Idle) /\ Idle.roles = {} /\ Idle.uses = {} /\ Idle.known = {}
  BY DEF Idle, IsState, Fields
<1>2. UNCHANGED <<deployment, registry>>
  <2>1. CASE Authorize(h)
    <3>1. UNCHANGED <<deployment, registry, edits, now, taker, pages, approvals, issued, given,
                      audit>>
      BY <2>1 DEF Authorize
    <3> QED BY <3>1
  <2> QED BY <2>1, OpenersRead DEF Reads
<1>3. ASSUME NEW r, Move(h, r), KnownOK(h, r) PROVE Known'
  BY <1>2, <1>3, Moves, KnownStep
<1>4. CASE Authorize(h)
  <2>1. PICK i, request : Move(h, [Idle EXCEPT !.pc = "session", !.id = i, !.snapshot = request])
    BY <1>4 DEF Authorize
  <2> DEFINE r == [Idle EXCEPT !.pc = "session", !.id = i, !.snapshot = request]
  <2>2. r.pc = "session" /\ r.roles = {} /\ r.uses = {} /\ r.known = {}
    BY <1>1 DEF IsState, Fields
  <2>3. Kind(h, {"authorize", "resume"})
    BY <1>4 DEF Authorize, Kind
  <2> QED BY <1>3, <2>1, <2>2, <2>3, KnownBegins
<1>5. CASE Resume(h)
  <2>1. PICK i : Move(h, [Idle EXCEPT !.pc = "session", !.id = i, !.snapshot = store[i]])
    BY <1>5 DEF Resume
  <2> DEFINE r == [Idle EXCEPT !.pc = "session", !.id = i, !.snapshot = store[i]]
  <2>2. r.pc = "session" /\ r.roles = {} /\ r.uses = {} /\ r.known = {}
    BY <1>1 DEF IsState, Fields
  <2>3. Kind(h, {"authorize", "resume"})
    BY <1>5 DEF Resume, Kind
  <2> QED BY <1>3, <2>1, <2>2, <2>3, KnownBegins
<1>6. CASE ReadRequest(h)
  <2>1. PICK page : Move(h, [Idle EXCEPT !.pc = "session", !.id = page.request, !.page = page,
                              !.snapshot = store[page.request], !.known = Facts])
    BY <1>6 DEF ReadRequest
  <2> DEFINE r == [Idle EXCEPT !.pc = "session", !.id = page.request, !.page = page,
                     !.snapshot = store[page.request], !.known = Facts]
  <2>2. r.pc = "session" /\ r.roles = {} /\ r.uses = {} /\ r.known = Facts
    BY <1>1 DEF IsState, Fields
  <2>3. Kind(h, {"consent"})
    BY <1>6 DEF ReadRequest
  <2>4. Facts # {}
    BY Deployed, FactsExist DEF Inv, TypeOK
  <2> QED BY <1>3, <2>1, <2>2, <2>3, <2>4, KnownBegins
<1>7. CASE ReadCode(h)
  <2>1. PICK i : Move(h, [Idle EXCEPT !.pc = "intent", !.id = i, !.snapshot = store[i]])
    BY <1>7 DEF ReadCode
  <2> DEFINE r == [Idle EXCEPT !.pc = "intent", !.id = i, !.snapshot = store[i]]
  <2>2. r.pc = "intent" /\ r.roles = {} /\ r.uses = {} /\ r.known = {}
    BY <1>1 DEF IsState, Fields
  <2>3. Kind(h, {"token"})
    BY <1>7 DEF ReadCode
  <2> QED BY <1>3, <2>1, <2>2, <2>3, KnownBegins
<1>8. CASE Present(h)
  <2>1. PICK token : Move(h, [Idle EXCEPT !.pc = "bearer", !.snapshot = token, !.known = Facts])
    BY <1>8 DEF Present
  <2> DEFINE r == [Idle EXCEPT !.pc = "bearer", !.snapshot = token, !.known = Facts]
  <2>2. r.pc = "bearer" /\ r.roles = {} /\ r.uses = {} /\ r.known = Facts
    BY <1>1 DEF IsState, Fields
  <2>3. Kind(h, {"validate"})
    BY <1>8 DEF Present
  <2>4. Facts # {}
    BY Deployed, FactsExist DEF Inv, TypeOK
  <2> QED BY <1>3, <2>1, <2>2, <2>3, <2>4, KnownBegins
<1> QED BY <1>4, <1>5, <1>6, <1>7, <1>8

(* Everything a decision uses was found while it was taken. *)
LEMMA UsesKnown ==
  ASSUME Inv, Known, NEW h \in Handlers, AtAudience(h, {"consent", "token", "validate"})
  PROVE  Uses(h) \subseteq handler[h].known /\ handler[h].known # {}
<1> DEFINE m == handler[h]
           p == Policy(h)
<1>1. KnownOK(h, m) /\ m.pc = "definitions" /\ m.known # {}
  BY DEF Known, KnownOK, AtAudience, At, Reading, Identified, Deciding
<1>2. Facts \subseteq m.known /\ Found(h, m)
  BY <1>1 DEF KnownOK
<1>3. <<"audience", p.target, audience[p.target]>> \in Facts
  BY Deployed, FactsRead DEF Inv, TypeOK
<1> QED BY <1>1, <1>2, <1>3 DEF Uses, Found, Identified, Deciding

LEMMA KnownDecisions ==
  ASSUME Inv, Known, NEW h \in Handlers, CheckForm(h) \/ SignToken(h) \/ Accept(h)
  PROVE  Known'
<1> DEFINE m == handler[h]
<1>1. KnownOK(h, m) /\ IsState(m)
  BY DEF Known, Inv, HandlerOK
<1>2. UNCHANGED <<deployment, registry>>
  <2>1. CASE SignToken(h)
    <3>1. UNCHANGED <<deployment, registry, edits, now, store, history, pages, given, audit>>
      BY <2>1 DEF SignToken
    <3> QED BY <3>1
  <2> QED BY <2>1, OpenersRead DEF Reads
<1>3. AtAudience(h, {"consent", "token", "validate"})
  BY DEF CheckForm, SignToken, Accept, AtAudience, Kind
<1>4. Uses(h) \subseteq m.known /\ Facts \subseteq m.known /\ Found(h, m)
  BY <1>1, <1>3, UsesKnown DEF KnownOK
<1>5. ASSUME NEW r, Move(h, r), r.known = m.known, r.uses = Uses(h),
             \/ r.pc \in {"accepted", "outcome"}
             \/ r.pc = "intent" /\ Kind(h, {"consent"})
      PROVE  Known'
  <2>1. r.pc \notin Reading
    BY <1>5 DEF Reading, Identified, Deciding
  <2>2. Found(h, r)
    BY <1>5, <2>1 DEF Found, Reading, Identified, Deciding
  <2>3. KnownOK(h, r)
    BY <1>4, <1>5, <2>1, <2>2 DEF KnownOK, Kind
  <2> QED BY <1>2, <1>5, <2>3, Moves, KnownStep
<1>6. ASSUME End(h) PROVE Known'
  BY <1>2, <1>6, KnownEndStep
<1>7. CASE CheckForm(h)
  <2> DEFINE r == [m EXCEPT !.pc = "intent", !.identity = Identity(h), !.uses = Uses(h)]
  <2>1. (Move(h, r) \/ End(h)) /\ Kind(h, {"consent"})
    BY <1>7 DEF CheckForm, AtAudience
  <2>2. r.pc = "intent" /\ r.known = m.known /\ r.uses = Uses(h)
    BY <1>1 DEF IsState, Fields
  <2> QED BY <1>5, <1>6, <2>1, <2>2
<1>8. CASE SignToken(h)
  <2> DEFINE r == [m EXCEPT !.pc = "outcome", !.uses = Uses(h)]
  <2>1. Move(h, r) \/ End(h)
    BY <1>8 DEF SignToken
  <2>2. r.pc = "outcome" /\ r.known = m.known /\ r.uses = Uses(h)
    BY <1>1 DEF IsState, Fields
  <2> QED BY <1>5, <1>6, <2>1, <2>2
<1>9. CASE Accept(h)
  <2> DEFINE r == [m EXCEPT !.pc = "accepted", !.uses = Uses(h)]
  <2>1. Move(h, r) \/ End(h)
    BY <1>9 DEF Accept
  <2>2. r.pc = "accepted" /\ r.known = m.known /\ r.uses = Uses(h)
    BY <1>1 DEF IsState, Fields
  <2> QED BY <1>5, <1>6, <2>1, <2>2
<1> QED BY <1>7, <1>8, <1>9

(* The commands that change the store decide nothing; the consumption of a   *)
(* code starts the decision on the token.                                    *)
LEMMA KnownCommands ==
  ASSUME Inv, Known, NEW h \in Handlers,
         \/ ShowConsent(h) \/ RecordIntent(h) \/ Answer(h) \/ ConsumeRequest(h)
         \/ ConsumeCode(h) \/ CreateCode(h) \/ Fail(h) \/ LoseReply(h)
  PROVE  Known'
<1> DEFINE m == handler[h]
<1>1. KnownOK(h, m) /\ IsState(m) /\ HandlerOK(h, m)
  BY DEF Known, Inv, HandlerOK
<1>2. UNCHANGED <<deployment, registry>>
  <2>1. CASE Fail(h)
    BY <2>1, OpenersRead DEF Reads
  <2>2. CASE ShowConsent(h)
    BY <2>2 DEF ShowConsent
  <2>3. CASE RecordIntent(h)
    BY <2>3 DEF RecordIntent
  <2>4. CASE Answer(h)
    BY <2>4 DEF Answer
  <2>5. CASE ConsumeRequest(h)
    <3>1. UNCHANGED <<deployment, registry, edits, now, drawn, pages, issued, given, audit>>
      BY <2>5 DEF ConsumeRequest
    <3> QED BY <3>1
  <2>6. CASE ConsumeCode(h)
    <3>1. UNCHANGED <<deployment, registry, edits, now, drawn, approvals, pages, issued, given, audit>>
      BY <2>6 DEF ConsumeCode
    <3> QED BY <3>1
  <2>7. CASE CreateCode(h)
    <3>1. UNCHANGED <<deployment, registry, edits, now, taker, approvals, pages, issued, given, audit>>
      BY <2>7 DEF CreateCode
    <3> QED BY <3>1
  <2>8. CASE LoseReply(h)
    BY <2>8 DEF LoseReply
  <2> QED BY <2>1, <2>2, <2>3, <2>4, <2>5, <2>6, <2>7, <2>8
<1>3. ASSUME NEW r, Move(h, r), KnownOK(h, r) PROVE Known'
  BY <1>2, <1>3, Moves, KnownStep
<1>4. ASSUME End(h) PROVE Known'
  BY <1>2, <1>4, KnownEndStep
<1>5. ASSUME NEW r, r.known = m.known, r.uses = m.uses, r.roles = m.roles,
             r.pc \in {"consume", "outcome"},
             Kind(h, {"token"}) /\ r.pc = "consume" => m.pc = "intent"
      PROVE  KnownOK(h, r)
  <2>1. r.pc \notin Reading
    BY <1>5 DEF Reading, Identified, Deciding
  <2>2. Found(h, r)
    BY <1>5, <2>1 DEF Found, Reading, Identified, Deciding
  <2> QED BY <1>1, <1>5, <2>1, <2>2 DEF KnownOK
<1>6. CASE RecordIntent(h)
  <2> DEFINE r == [m EXCEPT !.pc = "consume"]
  <2>1. m.pc = "intent" /\ Move(h, r)
    BY <1>6 DEF RecordIntent, At
  <2>2. r.pc = "consume" /\ r.known = m.known /\ r.uses = m.uses /\ r.roles = m.roles
    BY <1>1 DEF IsState, Fields
  <2> QED BY <1>3, <1>5, <2>1, <2>2
<1>7. CASE ConsumeRequest(h)
  <2>1. PICK next \in {"create", "outcome"} :
          Move(h, [m EXCEPT !.known = {}, !.uses = {}, !.pc = next]) \/ End(h)
    BY <1>7 DEF ConsumeRequest
  <2> DEFINE r == [m EXCEPT !.known = {}, !.uses = {}, !.pc = next]
  <2>2. r.pc = next /\ r.known = {} /\ r.uses = {}
    BY <1>1 DEF IsState, Fields
  <2>3. KnownOK(h, r)
    BY <2>2 DEF KnownOK, Reading, Identified, Deciding
  <2> QED BY <1>3, <1>4, <2>1, <2>3
<1>8. CASE ConsumeCode(h)
  <2> DEFINE r == [m EXCEPT !.pc = "subject", !.known = Facts]
  <2>1. m.pc = "consume" /\ Kind(h, {"token"}) /\ (Move(h, r) \/ End(h))
    BY <1>8 DEF ConsumeCode, At
  <2>2. r.pc = "subject" /\ r.known = Facts /\ r.uses = m.uses /\ r.roles = m.roles
    BY <1>1 DEF IsState, Fields
  <2>3. m.uses = {} /\ m.roles = {}
    BY <1>1, <2>1 DEF KnownOK
  <2>4. Facts # {}
    BY Deployed, FactsExist DEF Inv, TypeOK
  <2>5. Found(h, r)
    BY <2>2 DEF Found, Identified, Deciding
  <2>6. KnownOK(h, r)
    BY <2>2, <2>3, <2>4, <2>5 DEF KnownOK
  <2> QED BY <1>3, <1>4, <2>1, <2>6
<1>9. CASE CreateCode(h)
  <2>1. (\E c : Move(h, [m EXCEPT !.pc = "outcome", !.id = c])) \/ End(h)
    BY <1>9 DEF CreateCode
  <2>2. ASSUME NEW c, Move(h, [m EXCEPT !.pc = "outcome", !.id = c]) PROVE Known'
    <3> DEFINE r == [m EXCEPT !.pc = "outcome", !.id = c]
    <3>1. r.pc = "outcome" /\ r.known = m.known /\ r.uses = m.uses /\ r.roles = m.roles
      BY <1>1 DEF IsState, Fields
    <3> QED BY <1>3, <1>5, <2>2, <3>1
  <2> QED BY <1>4, <2>1, <2>2
<1>10. CASE ShowConsent(h) \/ Answer(h) \/ Fail(h) \/ LoseReply(h)
  <2>1. End(h)
    BY <1>10 DEF ShowConsent, Answer, Fail, LoseReply
  <2> QED BY <1>4, <2>1
<1> QED BY <1>6, <1>7, <1>8, <1>9, <1>10

(* An edit adds the facts it makes true to every decision under way. *)
LEMMA KnownEdit ==
  ASSUME Inv, Known, RegistryEdit
  PROVE  Known'
<1> SUFFICES ASSUME NEW k \in Handlers PROVE KnownOK(k, handler[k])'
  BY DEF Known
<1>1. KnownOK(k, handler[k]) /\ IsState(handler[k])
  BY DEF Known, Inv, HandlerOK
<1>2. deployment' = deployment
  BY DEF RegistryEdit, Edit, EndSessions, ChangeEmail, SetStatus, RetireTenant, Assign, Define,
         SetAudience, Pending
<1>3. handler'[k] = IF handler[k].known = {} THEN handler[k]
                    ELSE [handler[k] EXCEPT !.known = handler[k].known \cup Facts']
  BY DEF RegistryEdit
<1>4. CASE handler[k].known = {}
  <2>1. handler'[k] = handler[k]
    BY <1>3, <1>4
  <2> QED BY <1>1, <1>2, <1>4, <2>1 DEF KnownOK, Kind, Plan
<1>5. CASE handler[k].known # {}
  <2>1. handler'[k] = [handler[k] EXCEPT !.known = handler[k].known \cup Facts']
    BY <1>3, <1>5
  <2>2. /\ handler'[k].known = handler[k].known \cup Facts'
        /\ handler'[k].pc = handler[k].pc /\ handler'[k].user = handler[k].user
        /\ handler'[k].todo = handler[k].todo /\ handler'[k].roles = handler[k].roles
        /\ handler'[k].uses = handler[k].uses
    BY SMTT(60), <1>1, <2>1 DEF IsState, Fields
  <2>3. Found(k, handler[k])'
    BY ZenonT(60), <1>1, <1>2, <1>5, <2>2 DEF KnownOK, Found, Policy, Plan
  <2> QED BY <1>1, <1>2, <1>5, <2>2, <2>3 DEF KnownOK, Kind, Plan
<1> QED BY <1>4, <1>5

LEMMA KnownKept == Inv /\ Known /\ [Next]_vars => Known'
<1> SUFFICES ASSUME Inv, Known, [Next]_vars PROVE Known'
  OBVIOUS
<1>1. ASSUME NEW h \in Handlers, Serve(h) \/ Fail(h) \/ LoseReply(h) PROVE Known'
  BY <1>1, KnownReadSteps, KnownOpenSteps, KnownDecisions, KnownCommands DEF Serve
<1>2. ASSUME UNCHANGED <<deployment, registry, handler>> PROVE Known'
  <2>1. Facts' = Facts
    BY <1>2 DEF Facts, registry
  <2> QED BY ZenonT(60), <1>2, <2>1 DEF Known, KnownOK, Found, Kind, Plan, Policy
<1>3. CASE Tick
  BY <1>2, <1>3 DEF Tick
<1>4. CASE \E i \in Ids : Expire(i)
  BY <1>2, <1>4 DEF Expire
<1>5. CASE UNCHANGED vars
  BY <1>2, <1>5 DEF vars, grants
<1> QED BY <1>1, <1>3, <1>4, <1>5, KnownEdit DEF Next

(* A consent, a redemption and a validation rest on facts that each held at  *)
(* some moment of the decision, for any edits of the registry between the    *)
(* reads and any number of concurrent handlers (native_saml.go reads them    *)
(* one by one).                                                             *)
THEOREM DecisionsAreCurrent == Spec => []DecisionsRestOnCurrentAuthority
<1>1. NativeInit => Known
  <2> SUFFICES ASSUME NativeInit, NEW h \in Handlers PROVE KnownOK(h, handler[h])
    BY DEF Known
  <2>1. /\ handler[h].pc = "idle" /\ handler[h].known = {} /\ handler[h].uses = {}
    BY DEF NativeInit, Idle
  <2> QED BY <2>1 DEF KnownOK, Reading, Identified, Deciding
<1>2. Known => DecisionsRestOnCurrentAuthority
  BY DEF Known, KnownOK, DecisionsRestOnCurrentAuthority
<1> QED BY <1>1, <1>2, KnownKept, NativeInvariant, PTL DEF Spec
=============================================================================
