---------------------------- MODULE TokensProofs ----------------------------
(***************************************************************************)
(* The theorems about AccessTokens, for any tenants, roles, principals and   *)
(* edits and any number of requests: every scope of a signed token was       *)
(* justified while it was decided, a token is accepted only on authority     *)
(* that held during its validation, and what an exchange signs a validation  *)
(* accepts until something is edited.                                        *)
(*                                                                         *)
(* A decision is a queue of reads, so its invariant says what the reads made  *)
(* so far have established, and what the reads still in the queue will: every  *)
(* fact a decision relies on is among the facts that held since it began, or   *)
(* the read that establishes it is still owed.  The second half of the module  *)
(* does the same for an exchange since which nothing was edited: what its      *)
(* reads told it is what a validation of its token will be told.               *)
(***************************************************************************)
EXTENDS AccessTokens, FiniteSetTheorems, SequenceTheorems, TLAPS

----------------------------------------------------------------------------
(* The invariant *)

IsSequence(s) == Len(s) \in Nat /\ s = [i \in 1..Len(s) |-> s[i]]
Queued(s) == {s[i] : i \in 1..Len(s)}

Fields == {"pc", "user", "todo", "target", "home", "ids", "roles", "defined", "allowed",
           "client", "direct", "logs", "token", "asOf", "known"}
IsState(m) == m = [f \in Fields |-> m[f]]

(* A handler is a record with a queue, and so far has read roles of tenants. *)
Shape(m) == IsState(m) /\ IsSequence(m.todo) /\ m.roles = [t \in Tenants |-> m.roles[t]]

RegistryOK ==
  /\ deployment \in Deployments /\ edits \subseteq deployment.edits
  /\ held \in [Users \X Tenants -> SUBSET RoleNames]
  /\ active \subseteq Tenants
  /\ handler = [h \in Handlers |-> handler[h]]
  /\ \A h \in Handlers : Shape(handler[h])

(* The facts of a decision include those of the moment. *)
FactsOK ==
  \A h \in Handlers : LET m == handler[h] IN
    /\ m.pc = "reading" => m.known # {}
    /\ m.known # {} => AllFacts \subseteq m.known

(* A role that counts in tenant t was held there since the decision began;    *)
(* the plain exchange also counts the stored role.                            *)
Legacy(h) == Plan(h).kind = "exchange" /\ Mode(h) = "legacy"
Grounded(h, m, t, r) ==
  t \in Tenants =>
    /\ r \in RoleNames
    /\ HeldIn(m.user, t, r, m.known) \/ (Legacy(h) /\ r = Principal(m.user).role)

DefinitionOK(h, m, d) ==
  d[1] \in Tenants =>
    Grounded(h, m, d[1], d[2]) /\ <<"definition", d[1], d[2], d[3]>> \in m.known /\ d[3] # Absent

DefinitionReadOK(h, m, x) ==
  x.what = "definition" => x.roles # {} /\ \A r \in x.roles : Grounded(h, m, x.tenant, r)

RolesOK(h, m) ==
  /\ \A t \in Tenants : \A r \in m.roles[t] : Grounded(h, m, t, r)
  /\ \A d \in m.defined : DefinitionOK(h, m, d)
  /\ \A x \in Queued(m.todo) : DefinitionReadOK(h, m, x)

(* Discovery goes on only with tenants whose member the subject is, unless    *)
(* the platform's own administrators.                                        *)
Within(h, m, t) == t \in Tenants => PlatformFederated(h) \/ MemberIn(m.user, t, m.known)

ExchangeReadOK(h, m, x) ==
  /\ x.rule = "home" => Principal(m.user).home = Absent
  /\ x.rule = "lenient" /\ x.what \in {"roles", "ids"} => Legacy(h)
  /\ x.rule = "skip" /\ x.what \in {"tenant", "client"} => Within(h, m, x.tenant)
  /\ x.what = "client" /\ x.rule # "skip" /\ Discovers(h) => x.tenant = m.target

ClientRead(x) == x.what = "client" /\ x.rule # "skip"
ListRead(x) == x.what = "ids" /\ x.rule = "lenient"

AllowedOK(h, m) ==
  LET home == Principal(m.user).home IN
  home # Absent =>
    /\ m.home = home
    /\ \A t \in m.allowed : t = home \/ Within(h, m, t)

TargetOK(h, m) ==
  LET home == Principal(m.user).home IN
  /\ ~Legacy(h) => m.target = Plan(h).target
  /\ Discovers(h) =>
       \/ \E x \in Queued(m.todo) : ClientRead(x)
       \/ m.client # Absent /\ (home # Absent => m.target = home \/ Within(h, m, m.target))
  /\ Legacy(h) =>
       \/ \E x \in Queued(m.todo) : ListRead(x)
       \/ m.target \in Tenants /\ (m.target = home \/ MemberIn(m.user, m.target, m.known))

PlatformOK(h, m) ==
  /\ m.logs \in {"assigned", "granted"} => <<"direct", m.user>> \in m.known \/ PlatformFederated(h)
  /\ m.direct => MayRecover(m.user)

ExchangeOK(h, m) ==
  /\ m.user = Session(h).user
  /\ \A x \in Queued(m.todo) : ExchangeReadOK(h, m, x)
  /\ AllowedOK(h, m) /\ TargetOK(h, m) /\ PlatformOK(h, m)

(* A validation has established what its reads confirm, or owes the read. *)
TenantOwed(t) == Read("tenant", t.tenant, {}, "must")
RolesOwed(t) == Read("roles", t.tenant, {}, "must")
DirectOwed == Read("direct", Master, {}, "must")

ConfirmedRoles(t, K) ==
  MemberIn(t.user, t.tenant, K) /\ \A r \in t.roles : HeldIn(t.user, t.tenant, r, K)

BearerOK(t) ==
  /\ LogsScope \in t.scopes /\ Principal(t.user).federated => t.privilege
  /\ t.origin => Principal(t.user).role = "ADMIN" /\ Principal(t.user).listed

OwedOK(m, t) ==
  /\ TenantOwed(t) \in Queued(m.todo) \/ <<"tenant", t.tenant>> \in m.known
  /\ t.roles # Absent /\ ~(t.origin /\ t.roles = {}) =>
       RolesOwed(t) \in Queued(m.todo) \/ ConfirmedRoles(t, m.known)
  /\ RecoveredClaims(t) \/ (LogsScope \in t.scopes /\ ~Principal(t.user).federated) =>
       DirectOwed \in Queued(m.todo) \/ <<"direct", t.user>> \in m.known

ValidationOK(h, m) ==
  /\ m.token \in tokens /\ m.user = m.token.user
  /\ <<"version", m.token.user, m.token.version>> \in m.known
  /\ \A x \in Queued(m.todo) : x.rule = "must" /\ x.what # "ids"
  /\ OwedOK(m, m.token) /\ BearerOK(m.token)

HandlerOK(h, m) ==
  m.pc = "reading" =>
    /\ m.user \in Users /\ RolesOK(h, m)
    /\ Plan(h).kind = "exchange" => ExchangeOK(h, m)
    /\ Plan(h).kind = "validate" => ValidationOK(h, m)

(* What a token says of its subject. *)
TokenOK(t) ==
  /\ t.user \in Users /\ t.tenant \in Tenants
  /\ Principal(t.user).federated /\ t.privilege => t.origin

TokensInv ==
  /\ RegistryOK /\ FactsOK
  /\ \A h \in Handlers : HandlerOK(h, handler[h])
  /\ \A t \in tokens : TokenOK(t)

----------------------------------------------------------------------------
(* Queues *)

LEMMA TailOf ==
  ASSUME NEW s, IsSequence(s), s # <<>>
  PROVE  IsSequence(Tail(s)) /\ Queued(s) = {Head(s)} \cup Queued(Tail(s))
<1> DEFINE S == Queued(s)
<1>1. s \in Seq(S)
  BY DEF IsSequence, Queued
<1>2. Len(s) \in Nat /\ \A i \in 1..Len(s) : s[i] \in S
  BY DEF IsSequence, Queued
<1> HIDE DEF S
<1>3. /\ Tail(s) \in Seq(S) /\ Len(Tail(s)) = Len(s) - 1
      /\ \A i \in 1..Len(Tail(s)) : Tail(s)[i] = s[i + 1]
  BY <1>1, HeadTailProperties
<1>4. Len(s) > 0 /\ Head(s) = s[1]
  BY <1>1, EmptySeq
<1>5. IsSequence(Tail(s))
  BY <1>3, LenProperties DEF IsSequence
<1>6. ASSUME NEW x \in Queued(s) PROVE x \in {Head(s)} \cup Queued(Tail(s))
  <2>1. PICK i \in 1..Len(s) : x = s[i]
    BY DEF Queued
  <2>2. CASE i = 1
    BY <1>4, <2>1, <2>2
  <2>3. CASE i # 1
    <3>1. i - 1 \in 1..Len(Tail(s)) /\ (i - 1) + 1 = i
      BY <1>2, <1>3, <2>3
    <3>2. Tail(s)[i - 1] = x
      BY <1>3, <2>1, <3>1
    <3> QED BY <3>1, <3>2 DEF Queued
  <2> QED BY <2>2, <2>3
<1>7. ASSUME NEW x \in Queued(Tail(s)) PROVE x \in Queued(s)
  <2>1. PICK i \in 1..Len(Tail(s)) : x = Tail(s)[i]
    BY DEF Queued
  <2>2. i + 1 \in 1..Len(s) /\ x = s[i + 1]
    BY <1>2, <1>3, <2>1
  <2> QED BY <2>2 DEF Queued
<1>8. Head(s) \in Queued(s)
  BY <1>2, <1>4 DEF Queued
<1> QED BY <1>5, <1>6, <1>7, <1>8

LEMMA Concatenation ==
  ASSUME NEW a, NEW b, IsSequence(a), IsSequence(b)
  PROVE  IsSequence(a \o b) /\ Queued(a \o b) = Queued(a) \cup Queued(b)
<1> DEFINE S == Queued(a) \cup Queued(b)
<1>1. a \in Seq(S) /\ b \in Seq(S)
  BY DEF IsSequence, Queued
<1>2. Len(a) \in Nat /\ Len(b) \in Nat
  BY DEF IsSequence
<1> HIDE DEF S
<1>3. /\ a \o b \in Seq(S) /\ Len(a \o b) = Len(a) + Len(b)
      /\ \A i \in 1..(Len(a) + Len(b)) : (a \o b)[i] = IF i <= Len(a) THEN a[i] ELSE b[i - Len(a)]
  BY <1>1, ConcatProperties
<1>4. IsSequence(a \o b)
  BY <1>3, LenProperties DEF IsSequence
<1>5. ASSUME NEW x \in Queued(a \o b) PROVE x \in Queued(a) \cup Queued(b)
  <2>1. PICK i \in 1..Len(a \o b) : x = (a \o b)[i]
    BY DEF Queued
  <2>2. CASE i <= Len(a)
    BY <1>2, <1>3, <2>1, <2>2 DEF Queued
  <2>3. CASE ~(i <= Len(a))
    <3>1. i - Len(a) \in 1..Len(b) /\ x = b[i - Len(a)]
      BY <1>2, <1>3, <2>1, <2>3
    <3> QED BY <3>1 DEF Queued
  <2> QED BY <2>2, <2>3
<1>6. ASSUME NEW x \in Queued(a) PROVE x \in Queued(a \o b)
  <2>1. PICK i \in 1..Len(a) : x = a[i]
    BY DEF Queued
  <2>2. i \in 1..Len(a \o b) /\ x = (a \o b)[i]
    BY <1>2, <1>3, <2>1
  <2> QED BY <2>2 DEF Queued
<1>7. ASSUME NEW x \in Queued(b) PROVE x \in Queued(a \o b)
  <2>1. PICK i \in 1..Len(b) : x = b[i]
    BY DEF Queued
  <2>2. /\ Len(a) + i \in 1..Len(a \o b) /\ ~(Len(a) + i <= Len(a))
        /\ (Len(a) + i) - Len(a) = i
    BY <1>2, <1>3
  <2>3. x = (a \o b)[Len(a) + i]
    BY <1>3, <2>1, <2>2
  <2> QED BY <2>2, <2>3 DEF Queued
<1> QED BY <1>4, <1>5, <1>6, <1>7

LEMMA EmptyQueue == IsSequence(<<>>) /\ Queued(<<>>) = {}
BY DEF IsSequence, Queued

LEMMA OneRead ==
  ASSUME NEW x
  PROVE  IsSequence(<<x>>) /\ Queued(<<x>>) = {x}
BY DEF IsSequence, Queued

LEMMA TwoReads ==
  ASSUME NEW x, NEW y
  PROVE  IsSequence(<<x, y>>) /\ Queued(<<x, y>>) = {x, y}
BY DEF IsSequence, Queued

LEMMA ReadFields ==
  ASSUME NEW what, NEW t, NEW roles, NEW rule
  PROVE  LET x == Read(what, t, roles, rule) IN
         x.what = what /\ x.tenant = t /\ x.roles = roles /\ x.rule = rule
BY DEF Read

----------------------------------------------------------------------------
(* Facts *)

(* Each read of the registry yields one of the facts of the moment. *)
LEMMA ReadsAreFacts ==
  /\ \A u \in Users : <<"version", u, account[u].version>> \in AllFacts
  /\ \A t \in active : <<"tenant", t>> \in AllFacts
  /\ \A u \in Users, t \in Tenants, r \in RoleNames :
       r \in held[<<u, t>>] => <<"role", u, t, r>> \in AllFacts
  /\ \A t \in Tenants, r \in RoleNames : <<"definition", t, r, definition[<<t, r>>]>> \in AllFacts
  /\ \A u \in direct : <<"direct", u>> \in AllFacts
<1>1. \A u \in Users : <<"version", u, account[u].version>> \in AllFacts
  BY DEF AllFacts, Facts
<1>2. \A t \in active : <<"tenant", t>> \in AllFacts
  BY DEF AllFacts, Facts
<1>3. ASSUME NEW u \in Users, NEW t \in Tenants, NEW r \in RoleNames, r \in held[<<u, t>>]
      PROVE  <<"role", u, t, r>> \in AllFacts
  <2> DEFINE G == {f \in Users \X Tenants \X RoleNames : f[3] \in held[<<f[1], f[2]>>]}
  <2>1. <<u, t, r>> \in G
    BY <1>3
  <2> HIDE DEF G
  <2>2. <<"role", u, t, r>> \in {<<"role", g[1], g[2], g[3]>> : g \in G}
    BY <2>1
  <2> QED BY <2>2 DEF AllFacts, Facts, G
<1>4. ASSUME NEW t \in Tenants, NEW r \in RoleNames
      PROVE  <<"definition", t, r, definition[<<t, r>>]>> \in AllFacts
  <2>1. <<"definition", t, r, definition[<<t, r>>]>>
          \in {<<"definition", tr[1], tr[2], definition[tr]>> : tr \in Tenants \X RoleNames}
    BY <<t, r>> \in Tenants \X RoleNames
  <2> QED BY <2>1 DEF AllFacts, Facts
<1>5. \A u \in direct : <<"direct", u>> \in AllFacts
  BY DEF AllFacts
<1> QED BY <1>1, <1>2, <1>3, <1>4, <1>5

LEMMA SameFacts ==
  ASSUME UNCHANGED <<registry, direct>>
  PROVE  AllFacts' = AllFacts
BY DEF AllFacts, Facts, registry

(* The subject's role in a tenant, while a decision is taken *)
LEMMA RolesHeld ==
  ASSUME TokensInv, NEW h \in Handlers, NEW m, m = handler[h], m.pc = "reading", m.user \in Users,
         NEW t \in Tenants
  PROVE  /\ \A r \in held[<<m.user, t>>] : r \in RoleNames /\ HeldIn(m.user, t, r, m.known)
         /\ held[<<m.user, t>>] # {} => MemberIn(m.user, t, m.known)
<1>1. AllFacts \subseteq m.known
  BY DEF TokensInv, FactsOK
<1>2. held[<<m.user, t>>] \subseteq RoleNames
  BY DEF TokensInv, RegistryOK
<1>3. \A r \in held[<<m.user, t>>] : r \in RoleNames /\ HeldIn(m.user, t, r, m.known)
  BY SMTT(60), <1>1, <1>2, ReadsAreFacts DEF HeldIn
<1> QED BY <1>3 DEF MemberIn

----------------------------------------------------------------------------
(* Steps of one handler *)

LEMMA Frame ==
  ASSUME NEW h, NEW m, HandlerOK(h, m), UNCHANGED deployment, tokens \subseteq tokens'
  PROVE  HandlerOK(h, m)'
BY ZenonT(60) DEF HandlerOK, RolesOK, Grounded, DefinitionOK, DefinitionReadOK, ExchangeOK, ExchangeReadOK,
       AllowedOK, TargetOK, PlatformOK, ValidationOK, OwedOK, BearerOK, Within, Legacy, Plan, Mode,
       Session, Principal, PlatformFederated, LocalFederated, Privileged, Discovers, MayRecover

LEMMA TokenFrame ==
  ASSUME NEW t, TokenOK(t), UNCHANGED deployment
  PROVE  TokenOK(t)'
BY DEF TokenOK, Principal

LEMMA Moves ==
  ASSUME TokensInv, NEW h \in Handlers, NEW n, Move(h, n)
  PROVE  /\ handler' = [k \in Handlers |-> handler'[k]] /\ handler'[h] = n
         /\ \A k \in Handlers \ {h} : handler'[k] = handler[k]
BY DEF Move, TokensInv, RegistryOK

KnownOK(n) ==
  /\ n.pc = "reading" => n.known # {}
  /\ n.known # {} => AllFacts \subseteq n.known

LEMMA HandlerStep ==
  ASSUME TokensInv, NEW h \in Handlers, NEW n, Move(h, n),
         UNCHANGED <<deployment, registry, edits, direct>>,
         tokens \subseteq tokens', \A t \in tokens' \ tokens : TokenOK(t),
         Shape(n), KnownOK(n), HandlerOK(h, n)
  PROVE  TokensInv'
<1>1. /\ handler' = [k \in Handlers |-> handler'[k]] /\ handler'[h] = n
      /\ \A k \in Handlers \ {h} : handler'[k] = handler[k]
  BY Moves
<1>2. \A k \in Handlers : Shape(handler'[k])
  BY <1>1 DEF TokensInv, RegistryOK
<1>3. RegistryOK'
  BY <1>1, <1>2 DEF TokensInv, RegistryOK, registry
<1>4. AllFacts' = AllFacts
  BY SameFacts
<1>5. FactsOK'
  BY <1>1, <1>4 DEF TokensInv, FactsOK, KnownOK
<1>6. ASSUME NEW k \in Handlers PROVE HandlerOK(k, handler[k])'
  <2>1. PICK m : m = handler'[k] /\ HandlerOK(k, m)
    BY <1>1 DEF TokensInv
  <2>2. HandlerOK(k, m)'
    BY <2>1, Frame
  <2> QED BY <2>1, <2>2
<1>7. ASSUME NEW t \in tokens' PROVE TokenOK(t)'
  <2>1. TokenOK(t)
    BY DEF TokensInv
  <2> QED BY <2>1, TokenFrame
<1> QED BY <1>3, <1>5, <1>6, <1>7 DEF TokensInv

LEMMA EndStep ==
  ASSUME TokensInv, NEW h \in Handlers, End(h), UNCHANGED <<deployment, registry, edits, direct>>,
         tokens \subseteq tokens', \A t \in tokens' \ tokens : TokenOK(t)
  PROVE  TokensInv'
<1>1. PICK n : n = [Idle EXCEPT !.pc = "done"]
  OBVIOUS
<1>2. /\ n.pc = "done" /\ n.known = {} /\ n.todo = <<>> /\ n.roles = [t \in Tenants |-> {}]
      /\ IsState(n)
  BY <1>1 DEF Idle, IsState, Fields
<1>3. Shape(n) /\ KnownOK(n) /\ HandlerOK(h, n)
  BY <1>2, EmptyQueue DEF Shape, KnownOK, HandlerOK
<1> QED BY <1>1, <1>3, HandlerStep DEF End

----------------------------------------------------------------------------
(* Reading on *)

(* What a read may change of handler m before its queue moves on, *)
Amends(m, r) ==
  /\ IsState(r) /\ r.pc = m.pc /\ r.user = m.user /\ r.todo = m.todo /\ r.token = m.token
  /\ r.asOf = m.asOf /\ r.known = m.known /\ r.roles = [t \in Tenants |-> r.roles[t]]

(* and the handler n that goes on. *)
GoesOn(m, r, more, n) ==
  Amends(m, r) /\ IsSequence(more) /\ n = [r EXCEPT !.todo = more \o Tail(@)]

Alike(r, n) ==
  /\ n.pc = r.pc /\ n.user = r.user /\ n.target = r.target /\ n.home = r.home
  /\ n.roles = r.roles /\ n.defined = r.defined /\ n.allowed = r.allowed /\ n.client = r.client
  /\ n.direct = r.direct /\ n.logs = r.logs /\ n.token = r.token /\ n.asOf = r.asOf
  /\ n.known = r.known

AtRead(h, m) == m = handler[h] /\ m.pc = "reading" /\ m.todo # <<>>

LEMMA Reader ==
  ASSUME TokensInv, NEW h \in Handlers, NEW m, AtRead(h, m)
  PROVE  /\ Shape(m) /\ m.known # {} /\ AllFacts \subseteq m.known
         /\ m.user \in Users /\ RolesOK(h, m)
         /\ Plan(h).kind = "exchange" => ExchangeOK(h, m)
         /\ Plan(h).kind = "validate" => ValidationOK(h, m)
BY DEF TokensInv, RegistryOK, FactsOK, HandlerOK, AtRead

LEMMA GoingOn ==
  ASSUME NEW m, Shape(m), m.todo # <<>>, NEW r, NEW more, NEW n, GoesOn(m, r, more, n)
  PROVE  /\ Shape(n) /\ Alike(r, n)
         /\ Queued(n.todo) = Queued(more) \cup Queued(Tail(m.todo))
         /\ Queued(m.todo) = {Head(m.todo)} \cup Queued(Tail(m.todo))
<1>1. IsSequence(Tail(m.todo)) /\ Queued(m.todo) = {Head(m.todo)} \cup Queued(Tail(m.todo))
  BY TailOf DEF Shape
<1>2. PICK q : q = more \o Tail(m.todo)
  OBVIOUS
<1>3. IsSequence(q) /\ Queued(q) = Queued(more) \cup Queued(Tail(m.todo))
  BY <1>1, <1>2, Concatenation DEF GoesOn
<1>4. n = [r EXCEPT !.todo = q] /\ IsState(r)
  BY <1>2 DEF GoesOn, Amends
<1>5. n.todo = q /\ Alike(r, n) /\ IsState(n)
  BY <1>4 DEF IsState, Fields, Alike
<1>6. n.roles = [t \in Tenants |-> n.roles[t]]
  BY <1>5 DEF Alike, GoesOn, Amends
<1> QED BY <1>1, <1>3, <1>5, <1>6 DEF Shape

LEMMA GoesOnStep ==
  ASSUME TokensInv, NEW h \in Handlers, NEW m, AtRead(h, m), NEW r, NEW more, NEW n,
         GoesOn(m, r, more, n), Move(h, n), Reads, HandlerOK(h, n)
  PROVE  TokensInv'
<1>1. Shape(m) /\ m.todo # <<>> /\ m.known # {} /\ AllFacts \subseteq m.known
  BY Reader DEF AtRead
<1>2. Shape(n) /\ Alike(r, n)
  BY <1>1, GoingOn
<1>3. KnownOK(n)
  BY <1>1, <1>2 DEF KnownOK, Alike, GoesOn, Amends
<1> QED BY <1>2, <1>3, HandlerStep DEF Reads

LEMMA RolesGoOn ==
  ASSUME TokensInv, NEW h \in Handlers, NEW m, AtRead(h, m), NEW r, NEW more, NEW n,
         GoesOn(m, r, more, n),
         \A t \in Tenants : \A q \in r.roles[t] : Grounded(h, m, t, q),
         \A d \in r.defined : DefinitionOK(h, m, d),
         \A x \in Queued(more) : DefinitionReadOK(h, m, x)
  PROVE  RolesOK(h, n)
<1>1. Shape(m) /\ m.todo # <<>> /\ RolesOK(h, m)
  BY Reader DEF AtRead
<1>2. /\ Alike(r, n) /\ Queued(n.todo) = Queued(more) \cup Queued(Tail(m.todo))
      /\ Queued(m.todo) = {Head(m.todo)} \cup Queued(Tail(m.todo))
  BY <1>1, GoingOn
<1>3. /\ n.user = m.user /\ n.known = m.known /\ n.roles = r.roles /\ n.defined = r.defined
      /\ \A x \in Queued(n.todo) : x \in Queued(more) \cup Queued(m.todo)
  BY <1>2 DEF GoesOn, Amends, Alike
<1>4. \A t, q : Grounded(h, m, t, q) => Grounded(h, n, t, q)
  BY <1>3 DEF Grounded
<1>5. \A d : DefinitionOK(h, m, d) => DefinitionOK(h, n, d)
  BY <1>3, <1>4 DEF DefinitionOK
<1>6. \A x : DefinitionReadOK(h, m, x) => DefinitionReadOK(h, n, x)
  BY <1>4 DEF DefinitionReadOK
<1> QED BY <1>1, <1>3, <1>4, <1>5, <1>6 DEF RolesOK

LEMMA ExchangeGoesOn ==
  ASSUME TokensInv, NEW h \in Handlers, NEW m, AtRead(h, m), NEW r, NEW more, NEW n,
         GoesOn(m, r, more, n), Plan(h).kind = "exchange",
         r.target = m.target \/ ~Discovers(h),
         \A x \in Queued(more) : ExchangeReadOK(h, r, x),
         AllowedOK(h, r), PlatformOK(h, r), TargetOK(h, n)
  PROVE  ExchangeOK(h, n)
<1>1. Shape(m) /\ m.todo # <<>> /\ ExchangeOK(h, m)
  BY Reader DEF AtRead
<1>2. /\ Alike(r, n) /\ Queued(n.todo) = Queued(more) \cup Queued(Tail(m.todo))
      /\ Queued(m.todo) = {Head(m.todo)} \cup Queued(Tail(m.todo))
  BY <1>1, GoingOn
<1>3. /\ Alike(r, n) /\ r.user = m.user /\ r.known = m.known
      /\ \A x \in Queued(n.todo) : x \in Queued(more) \cup Queued(m.todo)
  BY <1>2 DEF GoesOn, Amends
<1>4. \A t : Within(h, m, t) => Within(h, n, t)
  BY <1>3 DEF Within, Alike
<1>5. \A t : Within(h, r, t) => Within(h, n, t)
  BY <1>3 DEF Within, Alike
<1>6. \A x \in Queued(m.todo) : ExchangeReadOK(h, n, x)
  BY <1>1, <1>3, <1>4 DEF ExchangeOK, ExchangeReadOK, Alike
<1>7. \A x \in Queued(more) : ExchangeReadOK(h, n, x)
  BY <1>3, <1>5 DEF ExchangeReadOK, Alike
<1>8. AllowedOK(h, n)
  BY <1>3, <1>5 DEF AllowedOK, Alike
<1>9. PlatformOK(h, n)
  BY <1>3 DEF PlatformOK, Alike
<1>10. n.user = Session(h).user
  BY <1>1, <1>3 DEF ExchangeOK, Alike
<1> QED BY <1>3, <1>6, <1>7, <1>8, <1>9, <1>10 DEF ExchangeOK

(* A read that is neither the target's client nor the plain listing *)
LEMMA TargetGoesOn ==
  ASSUME TokensInv, NEW h \in Handlers, NEW m, AtRead(h, m), NEW r, NEW more, NEW n,
         GoesOn(m, r, more, n), Plan(h).kind = "exchange",
         r.target = m.target, r.client = m.client,
         ~ClientRead(Head(m.todo)), ~ListRead(Head(m.todo))
  PROVE  TargetOK(h, n)
<1>1. Shape(m) /\ m.todo # <<>> /\ TargetOK(h, m)
  BY Reader DEF AtRead, ExchangeOK
<1>2. /\ Alike(r, n) /\ Queued(n.todo) = Queued(more) \cup Queued(Tail(m.todo))
      /\ Queued(m.todo) = {Head(m.todo)} \cup Queued(Tail(m.todo))
  BY ZenonT(60), <1>1, GoingOn
<1>3. /\ Alike(r, n) /\ r.user = m.user /\ r.known = m.known
      /\ \A x \in Queued(m.todo) : x = Head(m.todo) \/ x \in Queued(n.todo)
  BY <1>2 DEF GoesOn, Amends
<1>4. \A t : Within(h, m, t) => Within(h, n, t)
  BY <1>3 DEF Within, Alike
<1> QED BY <1>1, <1>3, <1>4 DEF TargetOK, Alike

(* What the first read of a validation has confirmed when it goes on. *)
Confirmed(m) ==
  LET t == m.token  x == Head(m.todo) IN
  /\ x = TenantOwed(t) => <<"tenant", t.tenant>> \in m.known
  /\ x = RolesOwed(t) => ConfirmedRoles(t, m.known)
  /\ x = DirectOwed => <<"direct", t.user>> \in m.known

LEMMA ValidationGoesOn ==
  ASSUME TokensInv, NEW h \in Handlers, NEW m, AtRead(h, m), NEW r, NEW more, NEW n,
         GoesOn(m, r, more, n), Plan(h).kind = "validate",
         \A x \in Queued(more) : x.rule = "must" /\ x.what # "ids", Confirmed(m)
  PROVE  ValidationOK(h, n)
<1>1. Shape(m) /\ m.todo # <<>> /\ ValidationOK(h, m)
  BY Reader DEF AtRead
<1>2. /\ Alike(r, n) /\ Queued(n.todo) = Queued(more) \cup Queued(Tail(m.todo))
      /\ Queued(m.todo) = {Head(m.todo)} \cup Queued(Tail(m.todo))
  BY ZenonT(60), <1>1, GoingOn
<1>3. /\ n.user = m.user /\ n.known = m.known /\ n.token = m.token
      /\ \A x \in Queued(n.todo) : x \in Queued(more) \cup Queued(m.todo)
      /\ \A x \in Queued(m.todo) : x = Head(m.todo) \/ x \in Queued(n.todo)
  BY <1>2 DEF GoesOn, Amends, Alike
<1>4. OwedOK(n, m.token)
  BY <1>1, <1>3 DEF ValidationOK, OwedOK, Confirmed
<1> QED BY <1>1, <1>3, <1>4 DEF ValidationOK

LEMMA Kinds ==
  ASSUME TokensInv, NEW h \in Handlers
  PROVE  /\ Plan(h).kind \in {"exchange", "validate"}
         /\ Plan(h).kind = "exchange" =>
              /\ Mode(h) \in {"legacy", "strict", "v1", "v2"}
              /\ Mode(h) # "legacy" => Plan(h).target \in Tenants
              /\ Session(h).user \in Users
         /\ \A u \in Users : Principal(u) \in
              [home : Tenants \cup {Absent}, role : RoleNames, federated : BOOLEAN, listed : BOOLEAN]
BY TokenDeployments DEF TokensInv, RegistryOK, Plan, Mode, Session, Principal

LEMMA HandlerOn ==
  ASSUME TokensInv, NEW h \in Handlers, NEW m, AtRead(h, m), NEW r, NEW more, NEW n,
         GoesOn(m, r, more, n), RolesOK(h, n),
         Plan(h).kind = "exchange" => ExchangeOK(h, n),
         Plan(h).kind = "validate" => ValidationOK(h, n)
  PROVE  HandlerOK(h, n)
<1>1. Shape(m) /\ m.todo # <<>> /\ m.user \in Users
  BY Reader DEF AtRead
<1>2. Alike(r, n)
  BY <1>1, GoingOn
<1> QED BY <1>1, <1>2 DEF HandlerOK, Alike, GoesOn, Amends

LEMMA RefuseStep ==
  ASSUME TokensInv, NEW h \in Handlers, NEW ok, Refuse(h, ok), Reads
  PROVE  TokensInv'
<1>1. End(h) /\ UNCHANGED <<deployment, registry, edits, direct>> /\ tokens' = tokens
  BY DEF Refuse, Reads
<1> QED BY <1>1, EndStep

LEMMA AmendsItself ==
  ASSUME NEW m, Shape(m)
  PROVE  Amends(m, m)
BY DEF Shape, Amends

(* One read per tenant of a list *)
LEMMA ListedReads ==
  ASSUME NEW S, S \subseteq Tenants, NEW what, NEW rule, NEW q, q = ReadEach(what, S, rule)
  PROVE  IsSequence(q) /\ \A x \in Queued(q) : x.what = what /\ x.rule = rule
<1>1. Cardinality(S) \in Nat
  BY TokenDeployments, FS_Subset, FS_CardinalityType
<1>2. PICK k \in Nat : k = Cardinality(S)
  BY <1>1
<1>3. /\ q = [i \in 1..k |-> q[i]]
      /\ \A i \in 1..k : q[i] = Read(what, InOrder(S)[i], {}, rule)
  BY <1>2 DEF ReadEach
<1>4. \A i \in 1..k : q[i].what = what /\ q[i].rule = rule
  BY <1>3, ReadFields
<1>5. q \in Seq({q[i] : i \in 1..k})
  BY ONLY <1>3, k \in Nat
<1>6. Len(q) = k
  BY ONLY <1>3, <1>5, k \in Nat, LenProperties
<1> QED BY ONLY <1>3, <1>4, <1>6, k \in Nat DEF IsSequence, Queued

LEMMA DefinitionReads ==
  ASSUME NEW t, NEW roles, NEW rule, NEW q, q = Definitions(t, roles, rule)
  PROVE  /\ IsSequence(q)
         /\ \A x \in Queued(q) : /\ x.what = "definition" /\ x.tenant = t /\ x.roles = roles
                                 /\ x.rule = rule /\ roles # {}
<1>1. CASE roles = {}
  BY <1>1, EmptyQueue DEF Definitions
<1>2. CASE roles # {}
  <2>1. PICK x : x = Read("definition", t, roles, rule)
    OBVIOUS
  <2>2. IsSequence(q) /\ Queued(q) = {x}
    BY <1>2, <2>1, OneRead DEF Definitions
  <2>3. x.what = "definition" /\ x.tenant = t /\ x.roles = roles /\ x.rule = rule
    BY <2>1, ReadFields
  <2> QED BY <1>2, <2>2, <2>3
<1> QED BY <1>1, <1>2

----------------------------------------------------------------------------
(* The lists of tenants *)

LEMMA Lists ==
  ASSUME TokensInv, NEW h \in Handlers, NEW rule, Listing(h, rule), NEW m, m = handler[h]
  PROVE  /\ AtRead(h, m) /\ Shape(m) /\ Head(m.todo) \in Queued(m.todo)
         /\ Head(m.todo).what = "ids" /\ Head(m.todo).rule = rule
         /\ ~ClientRead(Head(m.todo))
         /\ Plan(h).kind = "exchange" /\ RolesOK(h, m) /\ ExchangeOK(h, m)
         /\ ExchangeReadOK(h, m, Head(m.todo))
<1>1. AtRead(h, m) /\ Head(m.todo).what = "ids" /\ Head(m.todo).rule = rule
  BY DEF Listing, Reading, Head1, AtRead
<1>2. /\ Shape(m) /\ RolesOK(h, m)
      /\ Plan(h).kind = "exchange" => ExchangeOK(h, m)
      /\ Plan(h).kind = "validate" => ValidationOK(h, m)
  BY <1>1, Reader
<1>3. Head(m.todo) \in Queued(m.todo)
  BY <1>1, <1>2, TailOf DEF AtRead, Shape
<1>4. Plan(h).kind = "exchange"
  BY <1>1, <1>2, <1>3, Kinds DEF ValidationOK
<1>5. ExchangeReadOK(h, m, Head(m.todo))
  BY <1>2, <1>3, <1>4 DEF ExchangeOK
<1> QED BY <1>1, <1>2, <1>3, <1>4, <1>5 DEF ClientRead

LEMMA MembershipsOK ==
  ASSUME NEW u
  PROVE  Memberships(u) \subseteq Tenants
BY DEF Memberships

(* A list that changes neither the subject's roles nor the target *)
LEMMA ListGoesOn ==
  ASSUME TokensInv, NEW h \in Handlers, NEW rule, Listing(h, rule), rule # "lenient",
         NEW m, m = handler[h], NEW r, NEW more, Reads, Advance(h, r, more),
         Amends(m, r), IsSequence(more), r.roles = m.roles, r.defined = m.defined,
         r.target = m.target, r.client = m.client,
         \A x \in Queued(more) : x.what # "definition" /\ ExchangeReadOK(h, r, x),
         AllowedOK(h, r), PlatformOK(h, r)
  PROVE  TokensInv'
<1>1. PICK n : n = [r EXCEPT !.todo = more \o Tail(@)]
  OBVIOUS
<1>2. GoesOn(m, r, more, n) /\ Move(h, n)
  BY <1>1 DEF GoesOn, Advance
<1>3. /\ AtRead(h, m) /\ Plan(h).kind = "exchange" /\ RolesOK(h, m)
      /\ ~ClientRead(Head(m.todo)) /\ ~ListRead(Head(m.todo))
  BY Lists DEF ListRead
<1>4. \A x \in Queued(more) : DefinitionReadOK(h, m, x)
  BY DEF DefinitionReadOK
<1>5. /\ \A t \in Tenants : \A q \in r.roles[t] : Grounded(h, m, t, q)
      /\ \A d \in r.defined : DefinitionOK(h, m, d)
  BY <1>3 DEF RolesOK
<1>6. RolesOK(h, n)
  BY <1>2, <1>3, <1>4, <1>5, RolesGoOn
<1>7. TargetOK(h, n)
  BY <1>2, <1>3, TargetGoesOn
<1>8. ExchangeOK(h, n)
  BY <1>2, <1>3, <1>7, ExchangeGoesOn
<1>9. HandlerOK(h, n)
  BY <1>2, <1>3, <1>6, <1>8, HandlerOn
<1> QED BY <1>2, <1>3, <1>9, GoesOnStep

LEMMA ListTargetsStep ==
  ASSUME TokensInv, NEW h \in Handlers, ListTargets(h)
  PROVE  TokensInv'
<1>1. PICK m : m = handler[h]
  OBVIOUS
<1>2. PICK S : S = Memberships(m.user)
  OBVIOUS
<1>3. PICK a : a = ReadEach("roles", S, "must")
  OBVIOUS
<1>4. PICK y : y = Read("tenant", m.target, {}, "define")
  OBVIOUS
<1>5. PICK more : more = a \o <<y>>
  OBVIOUS
<1>6. PICK ok \in Outcomes : Advance(h, m, more) \/ Refuse(h, ok)
  BY <1>1, <1>2, <1>3, <1>4, <1>5 DEF ListTargets
<1>7. Listing(h, "must") /\ Reads
  BY DEF ListTargets
<1>8. CASE Refuse(h, ok)
  BY <1>7, <1>8, RefuseStep
<1>9. CASE Advance(h, m, more)
  <2>1. Shape(m) /\ ExchangeOK(h, m)
    BY <1>1, <1>7, Lists
  <2>2. IsSequence(a) /\ \A x \in Queued(a) : x.what = "roles" /\ x.rule = "must"
    BY <1>2, <1>3, MembershipsOK, ListedReads
  <2>3. y.what = "tenant" /\ y.rule = "define"
    BY <1>4, ReadFields
  <2>4. IsSequence(more) /\ Queued(more) = Queued(a) \cup {y}
    BY <1>5, <2>2, OneRead, Concatenation
  <2>5. \A x \in Queued(more) : x.what # "definition" /\ ExchangeReadOK(h, m, x)
    BY <2>2, <2>3, <2>4 DEF ExchangeReadOK
  <2>6. AllowedOK(h, m) /\ PlatformOK(h, m)
    BY <2>1 DEF ExchangeOK
  <2> QED BY <1>1, <1>7, <1>9, <2>1, <2>4, <2>5, <2>6, AmendsItself, ListGoesOn
<1> QED BY <1>6, <1>8, <1>9

LEMMA DeriveHomeStep ==
  ASSUME TokensInv, NEW h \in Handlers, DeriveHome(h)
  PROVE  TokensInv'
<1>1. PICK m : m = handler[h]
  OBVIOUS
<1>2. PICK first : first = InOrder(Memberships(m.user))[1]
  OBVIOUS
<1>3. PICK r : r = [m EXCEPT !.home = first, !.allowed = {first}]
  OBVIOUS
<1>4. PICK y : y = Read("tenant", first, {}, "must")
  OBVIOUS
<1>5. PICK ok \in Outcomes : Advance(h, r, <<y>>) \/ Refuse(h, ok)
  BY <1>1, <1>2, <1>3, <1>4 DEF DeriveHome
<1>6. Listing(h, "home") /\ Reads
  BY DEF DeriveHome
<1>7. CASE Refuse(h, ok)
  BY <1>6, <1>7, RefuseStep
<1>8. CASE Advance(h, r, <<y>>)
  <2>1. /\ Shape(m) /\ ExchangeOK(h, m) /\ ExchangeReadOK(h, m, Head(m.todo))
        /\ Head(m.todo).rule = "home"
    BY <1>1, <1>6, Lists
  <2>2. /\ Amends(m, r) /\ r.roles = m.roles /\ r.defined = m.defined /\ r.target = m.target
        /\ r.client = m.client /\ r.logs = m.logs /\ r.direct = m.direct
    BY <1>3, <2>1 DEF Amends, Shape, IsState, Fields
  <2>3. r.user = m.user /\ r.known = m.known
    BY <2>2 DEF Amends
  <2>4. y.what = "tenant" /\ y.rule = "must"
    BY <1>4, ReadFields
  <2>5. IsSequence(<<y>>) /\ Queued(<<y>>) = {y}
    BY OneRead
  <2>6. \A x \in Queued(<<y>>) : x.what # "definition" /\ ExchangeReadOK(h, r, x)
    BY <2>4, <2>5 DEF ExchangeReadOK
  <2>7. AllowedOK(h, r)
    BY <2>1, <2>3 DEF ExchangeReadOK, AllowedOK
  <2>8. PlatformOK(h, r)
    BY <2>1, <2>2, <2>3 DEF ExchangeOK, PlatformOK
  <2>9. PICK more : more = <<y>>
    OBVIOUS
  <2>10. /\ Advance(h, r, more) /\ IsSequence(more)
         /\ \A x \in Queued(more) : x.what # "definition" /\ ExchangeReadOK(h, r, x)
    BY <1>8, <2>5, <2>6, <2>9
  <2> QED BY <1>1, <1>6, <2>2, <2>7, <2>8, <2>10, ListGoesOn
<1> QED BY <1>5, <1>7, <1>8

LEMMA DiscoverStep ==
  ASSUME TokensInv, NEW h \in Handlers, Discover(h)
  PROVE  TokensInv'
<1>1. PICK m : m = handler[h]
  OBVIOUS
<1>2. PICK ids : ids = IF PlatformFederated(h) THEN active ELSE Memberships(m.user)
  OBVIOUS
<1>3. PICK r : r = [m EXCEPT !.ids = ids]
  OBVIOUS
<1>4. PICK more : more = LoopReads(h, ids)
  OBVIOUS
<1>5. PICK ok \in Outcomes : Advance(h, r, more) \/ Refuse(h, ok)
  BY <1>1, <1>2, <1>3, <1>4 DEF Discover
<1>6. Listing(h, "skip") /\ Reads
  BY DEF Discover
<1>7. CASE Refuse(h, ok)
  BY <1>6, <1>7, RefuseStep
<1>8. CASE Advance(h, r, more)
  <2>1. Shape(m) /\ ExchangeOK(h, m)
    BY <1>1, <1>6, Lists
  <2>2. /\ Amends(m, r) /\ r.roles = m.roles /\ r.defined = m.defined /\ r.target = m.target
        /\ r.client = m.client /\ r.logs = m.logs /\ r.direct = m.direct
        /\ r.home = m.home /\ r.allowed = m.allowed
    BY <1>3, <2>1 DEF Amends, Shape, IsState, Fields
  <2>3. r.user = m.user /\ r.known = m.known
    BY <2>2 DEF Amends
  <2>4. ids \subseteq Tenants
    BY <1>2, MembershipsOK DEF TokensInv, RegistryOK
  <2>5. PICK S, what : /\ S \subseteq Tenants /\ more = ReadEach(what, S, "skip")
                       /\ what = IF PlatformFederated(h) THEN "tenant" ELSE "roles"
    BY <1>4, <2>4 DEF LoopReads
  <2>6. IsSequence(more) /\ \A x \in Queued(more) : x.what = what /\ x.rule = "skip"
    BY <2>5, ListedReads
  <2>7. \A x \in Queued(more) : x.what # "definition" /\ ExchangeReadOK(h, r, x)
    BY <2>5, <2>6 DEF ExchangeReadOK, Within
  <2>8. \A t : Within(h, m, t) => Within(h, r, t)
    BY <2>3 DEF Within
  <2>9. AllowedOK(h, r)
    BY <2>1, <2>2, <2>3, <2>8 DEF ExchangeOK, AllowedOK
  <2>10. PlatformOK(h, r)
    BY <2>1, <2>2, <2>3 DEF ExchangeOK, PlatformOK
  <2> QED BY <1>1, <1>6, <1>8, <2>2, <2>6, <2>7, <2>9, <2>10, ListGoesOn
<1> QED BY <1>5, <1>7, <1>8

(* The plain exchange finds its target among the subject's tenants, or at     *)
(* its home.                                                                 *)
LEMMA ListLenientlyStep ==
  ASSUME TokensInv, NEW h \in Handlers, ListLeniently(h)
  PROVE  TokensInv'
<1>1. PICK m, home : m = handler[h] /\ home = Principal(m.user).home
  OBVIOUS
<1>2. Listing(h, "lenient") /\ Reads
  BY DEF ListLeniently
<1>3. PICK ok \in Outcomes :
        \/ Refuse(h, ok)
        \/ \E t :
             LET client == <<Read("client", t, {}, "must")>> IN
             /\ t # Absent /\ (t = home \/ t \in Memberships(m.user))
             /\ Advance(h, [m EXCEPT !.target = t],
                  IF home = Absent THEN <<Read("roles", t, {}, "resolve")>> \o client
                  ELSE IF EffectiveRole(m.user, Privileged(h)) \notin {"ADMIN", "COMPANY_ADMIN"}
                  THEN client \o <<Read("roles", t, {}, "lenient")>>
                  ELSE client)
  BY SMTT(60), <1>1 DEF ListLeniently
<1>4. CASE Refuse(h, ok)
  BY <1>2, <1>4, RefuseStep
<1>5. ASSUME ~Refuse(h, ok) PROVE TokensInv'
  <2>1. PICK t, c, q, r, more :
          /\ t # Absent /\ (t = home \/ t \in Memberships(m.user))
          /\ c = Read("client", t, {}, "must")
          /\ \E rule : rule \in {"resolve", "lenient"} /\ q = Read("roles", t, {}, rule)
          /\ r = [m EXCEPT !.target = t]
          /\ more \in {<<q>> \o <<c>>, <<c>> \o <<q>>, <<c>>}
          /\ Advance(h, r, more)
    BY <1>3, <1>5
  <2>2. /\ Shape(m) /\ AtRead(h, m) /\ ExchangeOK(h, m) /\ RolesOK(h, m)
        /\ Plan(h).kind = "exchange" /\ Legacy(h)
    BY <1>1, <1>2, Lists DEF ExchangeReadOK
  <2>3. /\ Amends(m, r) /\ r.roles = m.roles /\ r.defined = m.defined /\ r.target = t
        /\ r.logs = m.logs /\ r.direct = m.direct
        /\ r.home = m.home /\ r.allowed = m.allowed
    BY <2>1, <2>2 DEF Amends, Shape, IsState, Fields
  <2>4. r.user = m.user /\ r.known = m.known
    BY <2>3 DEF Amends
  <2>5. m.user \in Users
    BY <2>2, Reader
  <2>6. t \in Tenants
    BY <1>1, <2>1, <2>5, Kinds, MembershipsOK
  <2>7. t = home \/ MemberIn(m.user, t, m.known)
    BY <2>1, <2>2, <2>5, <2>6, RolesHeld DEF Memberships, AtRead
  <2>8. IsSequence(more) /\ \A x \in Queued(more) : x \in {c, q}
    <3>1. PICK a, b : a = <<c>> /\ b = <<q>>
      OBVIOUS
    <3>2. IsSequence(a) /\ Queued(a) = {c} /\ IsSequence(b) /\ Queued(b) = {q}
      BY <3>1, OneRead
    <3>3. /\ IsSequence(a \o b) /\ Queued(a \o b) = {c, q}
          /\ IsSequence(b \o a) /\ Queued(b \o a) = {c, q}
      BY <3>2, Concatenation
    <3>4. more \in {b \o a, a \o b, a}
      BY <2>1, <3>1
    <3> QED BY <3>2, <3>3, <3>4
  <2>9. /\ c.what = "client" /\ c.rule = "must"
        /\ q.what = "roles" /\ q.rule \in {"resolve", "lenient"}
    BY <2>1, ReadFields
  <2>10. ~Discovers(h)
    BY <2>2 DEF Legacy, Discovers
  <2>11. \A x \in Queued(more) : x.what # "definition" /\ ExchangeReadOK(h, r, x)
    BY <2>2, <2>8, <2>9, <2>10 DEF ExchangeReadOK
  <2>12. \A x \in Queued(more) : DefinitionReadOK(h, m, x)
    BY <2>11 DEF DefinitionReadOK
  <2>13. \A u : Within(h, m, u) => Within(h, r, u)
    BY <2>4 DEF Within
  <2>14. AllowedOK(h, r)
    BY <2>2, <2>3, <2>4, <2>13 DEF ExchangeOK, AllowedOK
  <2>15. PlatformOK(h, r)
    BY <2>2, <2>3, <2>4 DEF ExchangeOK, PlatformOK
  <2>16. PICK n : n = [r EXCEPT !.todo = more \o Tail(@)]
    OBVIOUS
  <2>17. GoesOn(m, r, more, n) /\ Move(h, n)
    BY <2>1, <2>3, <2>8, <2>16 DEF GoesOn, Advance
  <2>18. Alike(r, n)
    BY <2>2, <2>17, GoingOn DEF AtRead
  <2>19. TargetOK(h, n)
    BY <1>1, <2>2, <2>3, <2>4, <2>6, <2>7, <2>10, <2>18 DEF TargetOK, Alike
  <2>20. ExchangeOK(h, n)
    BY <2>2, <2>10, <2>11, <2>14, <2>15, <2>17, <2>19, ExchangeGoesOn
  <2>21. /\ \A u \in Tenants : \A s \in r.roles[u] : Grounded(h, m, u, s)
         /\ \A d \in r.defined : DefinitionOK(h, m, d)
    BY <2>2, <2>3 DEF RolesOK
  <2>22. RolesOK(h, n)
    BY <2>2, <2>12, <2>17, <2>21, RolesGoOn
  <2>23. HandlerOK(h, n)
    BY <2>2, <2>17, <2>20, <2>22, HandlerOn
  <2> QED BY <1>2, <2>2, <2>17, <2>23, GoesOnStep
<1> QED BY <1>4, <1>5

----------------------------------------------------------------------------
(* The other reads *)

RolesReady(h, m, r, more) ==
  /\ \A t \in Tenants : \A q \in r.roles[t] : Grounded(h, m, t, q)
  /\ \A d \in r.defined : DefinitionOK(h, m, d)
  /\ \A x \in Queued(more) : DefinitionReadOK(h, m, x)

TargetReady(h, m, r) ==
  \/ r.client = m.client /\ ~ClientRead(Head(m.todo))
  \/ Discovers(h) =>
       /\ r.client # Absent
       /\ Principal(m.user).home # Absent =>
            r.target = Principal(m.user).home \/ Within(h, m, r.target)

ExchangeReady(h, m, r, more) ==
  /\ r.target = m.target /\ TargetReady(h, m, r)
  /\ \A x \in Queued(more) : ExchangeReadOK(h, r, x)
  /\ AllowedOK(h, r) /\ PlatformOK(h, r)

ValidationReady(m, more) ==
  Confirmed(m) /\ \A x \in Queued(more) : x.rule = "must" /\ x.what # "ids"

LEMMA AtHead ==
  ASSUME TokensInv, NEW h \in Handlers, NEW what, Reading(h, what), NEW m, m = handler[h],
         NEW x, x = Head(m.todo)
  PROVE  /\ AtRead(h, m) /\ Shape(m) /\ AllFacts \subseteq m.known /\ m.user \in Users
         /\ x \in Queued(m.todo) /\ x.what = what /\ RolesOK(h, m) /\ DefinitionReadOK(h, m, x)
         /\ Plan(h).kind = "exchange" => ExchangeOK(h, m) /\ ExchangeReadOK(h, m, x)
         /\ Plan(h).kind = "validate" => ValidationOK(h, m) /\ x.rule = "must"
<1>1. AtRead(h, m) /\ x.what = what
  BY DEF Reading, Head1, AtRead
<1>2. /\ Shape(m) /\ RolesOK(h, m) /\ AllFacts \subseteq m.known /\ m.user \in Users
      /\ Plan(h).kind = "exchange" => ExchangeOK(h, m)
      /\ Plan(h).kind = "validate" => ValidationOK(h, m)
  BY <1>1, Reader
<1>3. x \in Queued(m.todo)
  BY <1>1, <1>2, TailOf DEF AtRead, Shape
<1> QED BY <1>1, <1>2, <1>3 DEF RolesOK, ExchangeOK, ValidationOK

LEMMA ReadGoesOn ==
  ASSUME TokensInv, NEW h \in Handlers, NEW what, Reading(h, what), what # "ids",
         NEW m, m = handler[h], NEW r, NEW more, Reads, Advance(h, r, more),
         Amends(m, r), IsSequence(more), RolesReady(h, m, r, more),
         Plan(h).kind = "exchange" => ExchangeReady(h, m, r, more),
         Plan(h).kind = "validate" => ValidationReady(m, more)
  PROVE  TokensInv'
<1>1. PICK n : n = [r EXCEPT !.todo = more \o Tail(@)]
  OBVIOUS
<1>2. GoesOn(m, r, more, n) /\ Move(h, n)
  BY <1>1 DEF GoesOn, Advance
<1>3. AtRead(h, m) /\ Shape(m) /\ m.todo # <<>> /\ Head(m.todo).what = what
  BY AtHead DEF AtRead
<1>4. RolesOK(h, n)
  BY <1>2, <1>3, RolesGoOn DEF RolesReady
<1>5. ASSUME Plan(h).kind = "exchange" PROVE ExchangeOK(h, n)
  <2>1. ExchangeReady(h, m, r, more) /\ ~ListRead(Head(m.todo))
    BY <1>3, <1>5 DEF ListRead
  <2>2. TargetOK(h, n)
    <3>1. CASE r.client = m.client /\ ~ClientRead(Head(m.todo))
      BY <1>2, <1>3, <1>5, <2>1, <3>1, TargetGoesOn DEF ExchangeReady
    <3>2. CASE Discovers(h) =>
                 /\ r.client # Absent
                 /\ Principal(m.user).home # Absent =>
                      r.target = Principal(m.user).home \/ Within(h, m, r.target)
      <4>1. /\ Alike(r, n) /\ Queued(n.todo) = Queued(more) \cup Queued(Tail(m.todo))
            /\ Queued(m.todo) = {Head(m.todo)} \cup Queued(Tail(m.todo))
        BY SMTT(60), <1>2, <1>3, GoingOn
      <4>2. TargetOK(h, m)
        BY <1>3, <1>5, Reader DEF ExchangeOK
      <4>3. /\ n.user = m.user /\ n.known = m.known /\ n.target = m.target /\ n.client = r.client
            /\ r.target = m.target
            /\ \A x \in Queued(m.todo) : x = Head(m.todo) \/ x \in Queued(n.todo)
        BY <1>2, <2>1, <4>1 DEF GoesOn, Amends, Alike, ExchangeReady
      <4>4. Within(h, m, m.target) => Within(h, n, m.target)
        BY <4>3 DEF Within
      <4> QED BY <2>1, <3>2, <4>2, <4>3, <4>4 DEF TargetOK
    <3> QED BY <2>1, <3>1, <3>2 DEF ExchangeReady, TargetReady
  <2> QED BY <1>2, <1>3, <1>5, <2>1, <2>2, ExchangeGoesOn DEF ExchangeReady
<1>6. ASSUME Plan(h).kind = "validate" PROVE ValidationOK(h, n)
  BY <1>2, <1>3, <1>6, ValidationGoesOn DEF ValidationReady
<1>7. HandlerOK(h, n)
  BY <1>2, <1>3, <1>4, <1>5, <1>6, HandlerOn
<1> QED BY <1>2, <1>3, <1>7, GoesOnStep

LEMMA ReadRolesStep ==
  ASSUME TokensInv, NEW h \in Handlers, ReadRoles(h)
  PROVE  TokensInv'
<1>1. PICK m, x : m = handler[h] /\ x = Head(m.todo)
  OBVIOUS
<1>2. Reading(h, "roles") /\ Reads
  BY DEF ReadRoles
<1>3. PICK ok, own, roles, r, more :
        /\ own = IF x.rule = "lenient" THEN {Principal(m.user).role} ELSE {}
        /\ roles = (IF ok THEN held[<<m.user, x.tenant>>] ELSE {}) \cup own
        /\ r = [m EXCEPT !.roles[x.tenant] = roles]
        /\ more = IF x.rule \in {"resolve", "lenient"} \/ Plan(h).kind = "validate"
                  THEN Definitions(x.tenant, roles, x.rule)
                  ELSE IF x.rule = "skip" THEN <<Read("tenant", x.tenant, {}, "skip")>> ELSE <<>>
        /\ \/ Refuse(h, ok)
           \/ /\ ok \/ x.rule = "lenient"
              /\ roles # {}
              /\ Plan(h).kind = "validate" => roles = m.token.roles
              /\ Advance(h, r, more)
  BY ZenonT(60), <1>1 DEF ReadRoles, Head1
<1>4. CASE Refuse(h, ok)
  BY <1>2, <1>4, RefuseStep
<1>5. ASSUME ~Refuse(h, ok) PROVE TokensInv'
  <2>1. /\ ok \/ x.rule = "lenient"
        /\ roles # {}
        /\ Plan(h).kind = "validate" => roles = m.token.roles
        /\ Advance(h, r, more)
    BY <1>3, <1>5
  <2>2. /\ AtRead(h, m) /\ Shape(m) /\ m.user \in Users /\ x.what = "roles" /\ RolesOK(h, m)
        /\ Plan(h).kind = "exchange" => ExchangeOK(h, m) /\ ExchangeReadOK(h, m, x)
        /\ Plan(h).kind = "validate" => ValidationOK(h, m) /\ x.rule = "must"
    BY <1>1, <1>2, AtHead
  <2>3. m.pc = "reading" /\ Plan(h).kind \in {"exchange", "validate"} /\ Principal(m.user).role \in RoleNames
    BY <2>2, Kinds DEF AtRead
  <2>4. /\ Amends(m, r) /\ r.defined = m.defined /\ r.target = m.target
        /\ r.client = m.client /\ r.logs = m.logs /\ r.direct = m.direct
        /\ r.home = m.home /\ r.allowed = m.allowed
        /\ r.roles = [m.roles EXCEPT ![x.tenant] = roles]
    BY ZenonT(60), <1>3, <2>2 DEF Amends, Shape, IsState, Fields
  <2>5. r.user = m.user /\ r.known = m.known
    BY <2>4 DEF Amends
  <2>6. ASSUME x.tenant \in Tenants
        PROVE  /\ \A q \in held[<<m.user, x.tenant>>] :
                    q \in RoleNames /\ HeldIn(m.user, x.tenant, q, m.known)
               /\ held[<<m.user, x.tenant>>] # {} => MemberIn(m.user, x.tenant, m.known)
    BY <1>1, <2>2, <2>3, <2>6, RolesHeld
  <2>7. x.rule = "lenient" => Legacy(h)
    BY <2>2, <2>3 DEF ExchangeReadOK
  <2>8. \A q \in roles : Grounded(h, m, x.tenant, q)
    BY <1>3, <2>3, <2>6, <2>7 DEF Grounded
  <2>9. x.rule # "lenient" => roles = held[<<m.user, x.tenant>>]
    BY <1>3, <2>1
  <2>10. IsSequence(more) /\ \A y \in Queued(more) :
           \/ y.what = "definition" /\ y.tenant = x.tenant /\ y.roles = roles /\ y.rule = x.rule
           \/ /\ y.what = "tenant" /\ y.tenant = x.tenant /\ y.rule = "skip"
              /\ x.rule = "skip" /\ Plan(h).kind # "validate"
    <3>1. CASE x.rule \in {"resolve", "lenient"} \/ Plan(h).kind = "validate"
      BY <1>3, <3>1, DefinitionReads
    <3>2. CASE /\ ~(x.rule \in {"resolve", "lenient"} \/ Plan(h).kind = "validate")
               /\ x.rule = "skip"
      <4>1. PICK y : y = Read("tenant", x.tenant, {}, "skip")
        OBVIOUS
      <4>2. IsSequence(more) /\ Queued(more) = {y}
        BY <1>3, <3>2, <4>1, OneRead
      <4>3. y.what = "tenant" /\ y.tenant = x.tenant /\ y.rule = "skip"
        BY <4>1, ReadFields
      <4> QED BY <3>2, <4>2, <4>3
    <3>3. CASE /\ ~(x.rule \in {"resolve", "lenient"} \/ Plan(h).kind = "validate")
               /\ x.rule # "skip"
      BY <1>3, <3>3, EmptyQueue
    <3> QED BY <3>1, <3>2, <3>3
  <2>11. RolesReady(h, m, r, more)
    <3>1. \A t \in Tenants : \A q \in r.roles[t] : Grounded(h, m, t, q)
      BY <2>2, <2>4, <2>8 DEF RolesOK, Shape
    <3>2. \A y \in Queued(more) : DefinitionReadOK(h, m, y)
      BY <2>1, <2>8, <2>10 DEF DefinitionReadOK
    <3> QED BY <2>2, <2>4, <3>1, <3>2 DEF RolesReady, RolesOK
  <2>12. ASSUME Plan(h).kind = "exchange" PROVE ExchangeReady(h, m, r, more)
    <3>1. x.rule = "skip" => Within(h, r, x.tenant)
      BY <2>1, <2>5, <2>6, <2>9 DEF Within
    <3>2. \A y \in Queued(more) : ExchangeReadOK(h, r, y)
      BY <2>2, <2>5, <2>10, <2>12, <3>1 DEF ExchangeReadOK
    <3>3. \A t : Within(h, m, t) => Within(h, r, t)
      BY <2>5 DEF Within
    <3>4. AllowedOK(h, r)
      BY <2>2, <2>4, <2>5, <2>12, <3>3 DEF ExchangeOK, AllowedOK
    <3>5. PlatformOK(h, r)
      BY <2>2, <2>4, <2>5, <2>12 DEF ExchangeOK, PlatformOK
    <3>6. TargetReady(h, m, r)
      BY <1>1, <2>2, <2>4 DEF TargetReady, ClientRead
    <3> QED BY <2>4, <3>2, <3>4, <3>5, <3>6 DEF ExchangeReady
  <2>13. ASSUME Plan(h).kind = "validate" PROVE ValidationReady(m, more)
    <3>1. \A y \in Queued(more) : y.rule = "must" /\ y.what # "ids"
      BY <2>2, <2>10, <2>13
    <3>2. m.token \in tokens /\ m.user = m.token.user /\ m.token.tenant \in Tenants
      BY <2>2, <2>13 DEF ValidationOK, TokensInv, TokenOK
    <3>3. x = RolesOwed(m.token) => ConfirmedRoles(m.token, m.known)
      <4>1. SUFFICES ASSUME x = RolesOwed(m.token) PROVE ConfirmedRoles(m.token, m.known)
        OBVIOUS
      <4>2. x.tenant = m.token.tenant
        BY <4>1, ReadFields DEF RolesOwed
      <4> QED BY <2>1, <2>2, <2>6, <2>9, <2>13, <3>2, <4>2 DEF ConfirmedRoles
    <3>4. x # TenantOwed(m.token) /\ x # DirectOwed
      BY <2>2, ReadFields DEF TenantOwed, DirectOwed
    <3> QED BY <1>1, <3>1, <3>3, <3>4 DEF ValidationReady, Confirmed
  <2>14. IsSequence(more)
    BY <2>10
  <2> QED BY <1>1, <1>2, <2>1, <2>4, <2>11, <2>12, <2>13, <2>14, ReadGoesOn
<1> QED BY <1>4, <1>5

(* A read that changes only which tenants discovery allows *)
LEMMA AllowedChange ==
  ASSUME NEW m, Shape(m), NEW A, NEW r, r = [m EXCEPT !.allowed = A]
  PROVE  /\ Amends(m, r) /\ r.defined = m.defined /\ r.target = m.target
         /\ r.client = m.client /\ r.logs = m.logs /\ r.direct = m.direct
         /\ r.home = m.home /\ r.allowed = A /\ r.roles = m.roles
         /\ r.user = m.user /\ r.known = m.known
BY DEF Amends, Shape, IsState, Fields

LEMMA ReadTenantStep ==
  ASSUME TokensInv, NEW h \in Handlers, ReadTenant(h)
  PROVE  TokensInv'
<1>1. PICK m, x : m = handler[h] /\ x = Head(m.todo)
  OBVIOUS
<1>2. Reading(h, "tenant") /\ Reads
  BY DEF ReadTenant
<1>3. /\ AtRead(h, m) /\ Shape(m) /\ m.user \in Users /\ x.what = "tenant" /\ RolesOK(h, m)
      /\ AllFacts \subseteq m.known
      /\ Plan(h).kind = "exchange" => ExchangeOK(h, m) /\ ExchangeReadOK(h, m, x)
      /\ Plan(h).kind = "validate" => ValidationOK(h, m) /\ x.rule = "must"
  BY <1>1, <1>2, AtHead
<1>4. m = [m EXCEPT !.allowed = m.allowed]
  BY SMTT(60), <1>3 DEF Shape, IsState, Fields
<1>5. PICK ok \in Outcomes :
        \/ Refuse(h, ok)
        \/ \E partial \in BOOLEAN : \E more :
             /\ x.tenant \in active /\ (partial => x.rule = "skip")
             /\ more = IF x.rule = "define" THEN Definitions(x.tenant, m.roles[x.tenant], "must")
                       ELSE IF x.rule = "skip" /\ Full(h, x.tenant)
                       THEN <<Read("client", x.tenant, {}, "skip")>> ELSE <<>>
             /\ Advance(h, [m EXCEPT !.allowed = IF partial THEN @ \cup {x.tenant} ELSE @], more)
        \/ x.rule = "skip" /\ Advance(h, m, <<>>)
  BY <1>1 DEF ReadTenant, Head1
<1>6. CASE Refuse(h, ok)
  BY <1>2, <1>6, RefuseStep
<1>7. ASSUME ~Refuse(h, ok) PROVE TokensInv'
  <2>1. PICK A, r, more :
          /\ x.tenant \in active \/ x.rule = "skip"
          /\ A = m.allowed \/ (x.rule = "skip" /\ A = m.allowed \cup {x.tenant})
          /\ \/ x.rule = "define" /\ more = Definitions(x.tenant, m.roles[x.tenant], "must")
             \/ x.rule = "skip" /\ more = <<Read("client", x.tenant, {}, "skip")>>
             \/ more = <<>>
          /\ r = [m EXCEPT !.allowed = A] /\ Advance(h, r, more)
    <3>1. CASE x.rule = "skip" /\ Advance(h, m, <<>>)
      BY <1>4, <3>1
    <3>2. CASE ~(x.rule = "skip" /\ Advance(h, m, <<>>))
      <4>1. PICK partial, more :
             /\ x.tenant \in active /\ (partial => x.rule = "skip")
             /\ more = IF x.rule = "define" THEN Definitions(x.tenant, m.roles[x.tenant], "must")
                       ELSE IF x.rule = "skip" /\ Full(h, x.tenant)
                       THEN <<Read("client", x.tenant, {}, "skip")>> ELSE <<>>
             /\ Advance(h, [m EXCEPT !.allowed = IF partial THEN @ \cup {x.tenant} ELSE @], more)
        BY <1>5, <1>7, <3>2
      <4>2. PICK A : A = IF partial THEN m.allowed \cup {x.tenant} ELSE m.allowed
        OBVIOUS
      <4>3. PICK r : r = [m EXCEPT !.allowed = A]
        OBVIOUS
      <4>4. Advance(h, r, more)
        BY <4>1, <4>2, <4>3
      <4>5. A = m.allowed \/ (x.rule = "skip" /\ A = m.allowed \cup {x.tenant})
        BY <4>1, <4>2
      <4> QED BY <4>1, <4>3, <4>4, <4>5
    <3> QED BY <3>1, <3>2
  <2>2. /\ Amends(m, r) /\ r.defined = m.defined /\ r.target = m.target
        /\ r.client = m.client /\ r.logs = m.logs /\ r.direct = m.direct
        /\ r.home = m.home /\ r.allowed = A /\ r.roles = m.roles
        /\ r.user = m.user /\ r.known = m.known
    BY <1>3, <2>1, AllowedChange
  <2>3. IsSequence(more) /\ \A y \in Queued(more) :
          \/ /\ y.what = "definition" /\ y.tenant = x.tenant /\ y.roles = m.roles[x.tenant]
             /\ y.roles # {} /\ y.rule = "must" /\ x.rule = "define"
          \/ y.what = "client" /\ y.tenant = x.tenant /\ y.rule = "skip" /\ x.rule = "skip"
    <3>1. CASE x.rule = "define" /\ more = Definitions(x.tenant, m.roles[x.tenant], "must")
      BY <3>1, DefinitionReads
    <3>2. CASE x.rule = "skip" /\ more = <<Read("client", x.tenant, {}, "skip")>>
      <4>1. PICK y : y = Read("client", x.tenant, {}, "skip")
        OBVIOUS
      <4>2. IsSequence(more) /\ Queued(more) = {y}
        BY <3>2, <4>1, OneRead
      <4>3. y.what = "client" /\ y.tenant = x.tenant /\ y.rule = "skip"
        BY <4>1, ReadFields
      <4> QED BY <3>2, <4>2, <4>3
    <3>3. CASE more = <<>>
      BY <3>3, EmptyQueue
    <3> QED BY <2>1, <3>1, <3>2, <3>3
  <2>4. RolesReady(h, m, r, more)
    <3>1. \A q \in m.roles[x.tenant] : Grounded(h, m, x.tenant, q)
      BY <1>3 DEF RolesOK, Grounded
    <3>2. \A y \in Queued(more) : DefinitionReadOK(h, m, y)
      BY <2>3, <3>1 DEF DefinitionReadOK
    <3> QED BY <1>3, <2>2, <3>2 DEF RolesReady, RolesOK
  <2>5. ASSUME Plan(h).kind = "exchange" PROVE ExchangeReady(h, m, r, more)
    <3>1. x.rule = "skip" => Within(h, r, x.tenant)
      BY <1>3, <2>2, <2>5 DEF ExchangeReadOK, Within
    <3>2. \A y \in Queued(more) : ExchangeReadOK(h, r, y)
      BY <2>3, <3>1 DEF ExchangeReadOK
    <3>3. \A t : Within(h, m, t) => Within(h, r, t)
      BY <2>2 DEF Within
    <3>4. AllowedOK(h, r)
      BY <1>3, <2>1, <2>2, <2>5, <3>1, <3>3 DEF ExchangeOK, AllowedOK
    <3>5. PlatformOK(h, r)
      BY <1>3, <2>2, <2>5 DEF ExchangeOK, PlatformOK
    <3>6. TargetReady(h, m, r)
      BY <1>1, <1>3, <2>2 DEF TargetReady, ClientRead
    <3> QED BY <2>2, <3>2, <3>4, <3>5, <3>6 DEF ExchangeReady
  <2>6. ASSUME Plan(h).kind = "validate" PROVE ValidationReady(m, more)
    <3>1. \A y \in Queued(more) : y.rule = "must" /\ y.what # "ids"
      BY <1>3, <2>3, <2>6
    <3>2. x = TenantOwed(m.token) => <<"tenant", m.token.tenant>> \in m.known
      <4>1. SUFFICES ASSUME x = TenantOwed(m.token) PROVE <<"tenant", m.token.tenant>> \in m.known
        OBVIOUS
      <4>2. x.tenant = m.token.tenant
        BY <4>1, ReadFields DEF TenantOwed
      <4> QED BY <1>3, <2>1, <2>6, <4>2, ReadsAreFacts
    <3>3. x # RolesOwed(m.token) /\ x # DirectOwed
      BY <1>3, ReadFields DEF RolesOwed, DirectOwed
    <3> QED BY <1>1, <3>1, <3>2, <3>3 DEF ValidationReady, Confirmed
  <2>7. IsSequence(more)
    BY <2>3
  <2> QED BY <1>1, <1>2, <2>1, <2>2, <2>4, <2>5, <2>6, <2>7, ReadGoesOn
<1> QED BY <1>6, <1>7

LEMMA ReadClientStep ==
  ASSUME TokensInv, NEW h \in Handlers, ReadClient(h)
  PROVE  TokensInv'
<1>1. PICK m, x : m = handler[h] /\ x = Head(m.todo)
  OBVIOUS
<1>2. Reading(h, "client") /\ Reads
  BY DEF ReadClient
<1>3. /\ AtRead(h, m) /\ Shape(m) /\ m.user \in Users /\ x.what = "client" /\ RolesOK(h, m)
      /\ Plan(h).kind = "exchange" => ExchangeOK(h, m) /\ ExchangeReadOK(h, m, x)
      /\ Plan(h).kind = "validate" => ValidationOK(h, m) /\ x.rule = "must"
  BY <1>1, <1>2, AtHead
<1>4. m = [m EXCEPT !.allowed = m.allowed]
  BY SMTT(60), <1>3 DEF Shape, IsState, Fields
<1>5. PICK ok, scopes :
        \/ Refuse(h, ok)
        \/ x.rule = "skip" /\ Advance(h, [m EXCEPT !.allowed = @ \cup {x.tenant}],
                                      Definitions(x.tenant, m.roles[x.tenant], "skip"))
        \/ x.rule = "skip" /\ Advance(h, m, <<>>)
        \/ /\ x.rule # "skip" /\ scopes # Absent
           /\ Plan(h).kind = "exchange" /\ Discovers(h) => x.tenant \in m.allowed
           /\ Advance(h, [m EXCEPT !.client = scopes], <<>>)
  BY <1>1 DEF ReadClient, Head1
<1>6. CASE Refuse(h, ok)
  BY <1>2, <1>6, RefuseStep
<1>7. \A y : x # TenantOwed(y) /\ x # RolesOwed(y) /\ x # DirectOwed
  BY <1>3, ReadFields DEF TenantOwed, RolesOwed, DirectOwed
<1>8. ASSUME NEW A, NEW r, NEW more, x.rule = "skip",
             A = m.allowed \/ A = m.allowed \cup {x.tenant},
             more = <<>> \/ more = Definitions(x.tenant, m.roles[x.tenant], "skip"),
             r = [m EXCEPT !.allowed = A], Advance(h, r, more)
      PROVE  TokensInv'
  <2>1. /\ Amends(m, r) /\ r.defined = m.defined /\ r.target = m.target
        /\ r.client = m.client /\ r.logs = m.logs /\ r.direct = m.direct
        /\ r.home = m.home /\ r.allowed = A /\ r.roles = m.roles
        /\ r.user = m.user /\ r.known = m.known
    BY SMTT(60), <1>3, <1>8, AllowedChange
  <2>2. IsSequence(more) /\ \A y \in Queued(more) :
          /\ y.what = "definition" /\ y.tenant = x.tenant /\ y.roles = m.roles[x.tenant]
          /\ y.roles # {} /\ y.rule = "skip"
    BY <1>8, EmptyQueue, DefinitionReads
  <2>3. RolesReady(h, m, r, more)
    <3>1. \A q \in m.roles[x.tenant] : Grounded(h, m, x.tenant, q)
      BY <1>3 DEF RolesOK, Grounded
    <3>2. \A y \in Queued(more) : DefinitionReadOK(h, m, y)
      BY <2>2, <3>1 DEF DefinitionReadOK
    <3> QED BY <1>3, <2>1, <3>2 DEF RolesReady, RolesOK
  <2>4. Plan(h).kind = "exchange"
    BY <1>3, <1>8, Kinds
  <2>5. ExchangeReady(h, m, r, more)
    <3>1. Within(h, r, x.tenant)
      BY <1>3, <1>8, <2>1, <2>4 DEF ExchangeReadOK, Within
    <3>2. \A y \in Queued(more) : ExchangeReadOK(h, r, y)
      BY <2>2 DEF ExchangeReadOK
    <3>3. \A t : Within(h, m, t) => Within(h, r, t)
      BY <2>1 DEF Within
    <3>4. AllowedOK(h, r)
      BY <1>3, <1>8, <2>1, <2>4, <3>1, <3>3 DEF ExchangeOK, AllowedOK
    <3>5. PlatformOK(h, r)
      BY <1>3, <2>1, <2>4 DEF ExchangeOK, PlatformOK
    <3>6. TargetReady(h, m, r)
      BY <1>1, <1>8, <2>1 DEF TargetReady, ClientRead
    <3> QED BY <2>1, <3>2, <3>4, <3>5, <3>6 DEF ExchangeReady
  <2>6. IsSequence(more) /\ Plan(h).kind # "validate"
    BY <2>2, <2>4
  <2> QED BY <1>1, <1>2, <1>8, <2>1, <2>3, <2>5, <2>6, ReadGoesOn
<1>9. ASSUME x.rule # "skip", scopes # Absent,
             Plan(h).kind = "exchange" /\ Discovers(h) => x.tenant \in m.allowed,
             Advance(h, [m EXCEPT !.client = scopes], <<>>)
      PROVE  TokensInv'
  <2>1. PICK r, more : r = [m EXCEPT !.client = scopes] /\ more = <<>> /\ Advance(h, r, more)
    BY <1>9
  <2>2. /\ Amends(m, r) /\ r.defined = m.defined /\ r.target = m.target
        /\ r.client = scopes /\ r.logs = m.logs /\ r.direct = m.direct
        /\ r.home = m.home /\ r.allowed = m.allowed /\ r.roles = m.roles
        /\ r.user = m.user /\ r.known = m.known
    BY <1>3, <2>1 DEF Amends, Shape, IsState, Fields
  <2>3. IsSequence(more) /\ Queued(more) = {}
    BY <2>1, EmptyQueue
  <2>4. RolesReady(h, m, r, more)
    BY <1>3, <2>2, <2>3 DEF RolesReady, RolesOK
  <2>5. ASSUME Plan(h).kind = "exchange" PROVE ExchangeReady(h, m, r, more)
    <3>1. \A t : Within(h, m, t) => Within(h, r, t)
      BY <2>2 DEF Within
    <3>2. AllowedOK(h, r)
      BY <1>3, <2>2, <2>5, <3>1 DEF ExchangeOK, AllowedOK
    <3>3. PlatformOK(h, r)
      BY <1>3, <2>2, <2>5 DEF ExchangeOK, PlatformOK
    <3>4. TargetReady(h, m, r)
      BY <1>3, <1>9, <2>2, <2>5 DEF TargetReady, ExchangeReadOK, ExchangeOK, AllowedOK
    <3> QED BY <2>2, <2>3, <3>2, <3>3, <3>4 DEF ExchangeReady
  <2>6. ValidationReady(m, more)
    BY <1>1, <1>7, <2>3 DEF ValidationReady, Confirmed
  <2> QED BY <1>1, <1>2, <2>1, <2>2, <2>3, <2>4, <2>5, <2>6, ReadGoesOn
<1>10. CASE x.rule = "skip" /\ Advance(h, m, <<>>)
  BY <1>4, <1>8, <1>10
<1>11. CASE x.rule = "skip" /\ Advance(h, [m EXCEPT !.allowed = @ \cup {x.tenant}],
                                       Definitions(x.tenant, m.roles[x.tenant], "skip"))
  <2>1. PICK A, more : /\ A = m.allowed \cup {x.tenant}
                       /\ more = Definitions(x.tenant, m.roles[x.tenant], "skip")
    OBVIOUS
  <2>2. Advance(h, [m EXCEPT !.allowed = A], more)
    BY <1>11, <2>1
  <2> QED BY <1>8, <1>11, <2>1, <2>2
<1> QED BY <1>5, <1>6, <1>9, <1>10, <1>11

LEMMA ReadDefinitionStep ==
  ASSUME TokensInv, NEW h \in Handlers, ReadDefinition(h)
  PROVE  TokensInv'
<1>1. PICK m, x : m = handler[h] /\ x = Head(m.todo)
  OBVIOUS
<1>2. Reading(h, "definition") /\ Reads
  BY DEF ReadDefinition
<1>3. /\ AtRead(h, m) /\ Shape(m) /\ m.user \in Users /\ x.what = "definition" /\ RolesOK(h, m)
      /\ DefinitionReadOK(h, m, x) /\ AllFacts \subseteq m.known
      /\ Plan(h).kind = "exchange" => ExchangeOK(h, m) /\ ExchangeReadOK(h, m, x)
      /\ Plan(h).kind = "validate" => ValidationOK(h, m) /\ x.rule = "must"
  BY <1>1, <1>2, AtHead
<1>4. PICK role, rest, scopes :
        /\ role = CHOOSE q \in x.roles : TRUE
        /\ rest = Definitions(x.tenant, x.roles \ {role}, x.rule)
        /\ scopes = definition[<<x.tenant, role>>]
  BY SMTT(60)
<1>5. PICK ok \in Outcomes :
        \/ Refuse(h, ok)
        \/ /\ scopes # Absent
           /\ Advance(h, [m EXCEPT !.defined = @ \cup {<<x.tenant, role, scopes>>}], rest)
        \/ Advance(h, m, rest)
        \/ x.rule = "skip" /\ Advance(h, [m EXCEPT !.allowed = @ \ {x.tenant}], <<>>)
  BY <1>1, <1>4 DEF ReadDefinition, Head1
<1>6. CASE Refuse(h, ok)
  BY <1>2, <1>6, RefuseStep
<1>7. \A y : x # TenantOwed(y) /\ x # RolesOwed(y) /\ x # DirectOwed
  BY <1>3, ReadFields DEF TenantOwed, RolesOwed, DirectOwed
<1>8. role \in x.roles /\ \A q \in x.roles : Grounded(h, m, x.tenant, q)
  BY <1>3, <1>4 DEF DefinitionReadOK
<1>9. IsSequence(rest) /\ \A y \in Queued(rest) :
        /\ y.what = "definition" /\ y.tenant = x.tenant /\ y.roles = x.roles \ {role}
        /\ y.roles # {} /\ y.rule = x.rule
  BY <1>4, DefinitionReads
<1>10. scopes # Absent => DefinitionOK(h, m, <<x.tenant, role, scopes>>)
  BY <1>3, <1>4, <1>8, ReadsAreFacts DEF DefinitionOK, Grounded
<1>11. ASSUME NEW D, NEW A, NEW r, NEW more,
              \A d \in D : d \in m.defined \/ DefinitionOK(h, m, d), A \subseteq m.allowed,
              more = <<>> \/ more = rest, IsState(r), Amends(m, r), Advance(h, r, more),
              r.defined = D, r.allowed = A, r.target = m.target, r.client = m.client,
              r.logs = m.logs, r.direct = m.direct, r.home = m.home, r.roles = m.roles
       PROVE  TokensInv'
  <2>1. r.user = m.user /\ r.known = m.known
    BY <1>11 DEF Amends
  <2>2. IsSequence(more) /\ \A y \in Queued(more) :
          /\ y.what = "definition" /\ y.tenant = x.tenant /\ y.roles = x.roles \ {role}
          /\ y.roles # {} /\ y.rule = x.rule
    BY <1>9, <1>11, EmptyQueue
  <2>3. RolesReady(h, m, r, more)
    <3>1. \A y \in Queued(more) : DefinitionReadOK(h, m, y)
      BY <1>8, <2>2 DEF DefinitionReadOK
    <3> QED BY <1>3, <1>11, <3>1 DEF RolesReady, RolesOK
  <2>4. ASSUME Plan(h).kind = "exchange" PROVE ExchangeReady(h, m, r, more)
    <3>1. \A y \in Queued(more) : ExchangeReadOK(h, r, y)
      BY <1>3, <2>1, <2>2, <2>4 DEF ExchangeReadOK
    <3>2. \A t : Within(h, m, t) => Within(h, r, t)
      BY <2>1 DEF Within
    <3>3. AllowedOK(h, r)
      BY <1>3, <1>11, <2>1, <2>4, <3>2 DEF ExchangeOK, AllowedOK
    <3>4. PlatformOK(h, r)
      BY <1>3, <1>11, <2>1, <2>4 DEF ExchangeOK, PlatformOK
    <3>5. TargetReady(h, m, r)
      BY <1>1, <1>3, <1>11 DEF TargetReady, ClientRead
    <3> QED BY <1>11, <3>1, <3>3, <3>4, <3>5 DEF ExchangeReady
  <2>5. ASSUME Plan(h).kind = "validate" PROVE ValidationReady(m, more)
    BY <1>1, <1>3, <1>7, <2>2, <2>5 DEF ValidationReady, Confirmed
  <2>6. IsSequence(more)
    BY <2>2
  <2> QED BY <1>1, <1>2, <1>11, <2>3, <2>4, <2>5, <2>6, ReadGoesOn
<1>12. CASE /\ scopes # Absent
            /\ Advance(h, [m EXCEPT !.defined = @ \cup {<<x.tenant, role, scopes>>}], rest)
  <2>1. PICK D : D = m.defined \cup {<<x.tenant, role, scopes>>}
    OBVIOUS
  <2>2. PICK r : r = [m EXCEPT !.defined = D]
    OBVIOUS
  <2>3. Advance(h, r, rest)
    BY <1>12, <2>1, <2>2
  <2>4. /\ Amends(m, r) /\ IsState(r) /\ r.defined = D /\ r.allowed = m.allowed
        /\ r.target = m.target /\ r.client = m.client
        /\ r.logs = m.logs /\ r.direct = m.direct /\ r.home = m.home /\ r.roles = m.roles
    BY <1>3, <2>2 DEF Amends, Shape, IsState, Fields
  <2>5. \A d \in D : d \in m.defined \/ DefinitionOK(h, m, d)
    BY <1>10, <1>12, <2>1
  <2> QED BY <1>11, <2>3, <2>4, <2>5
<1>13. CASE Advance(h, m, rest)
  <2>1. IsState(m) /\ Amends(m, m)
    BY <1>3, AmendsItself DEF Shape
  <2> QED BY <1>11, <1>13, <2>1
<1>14. CASE Advance(h, [m EXCEPT !.allowed = @ \ {x.tenant}], <<>>)
  <2>1. PICK A : A = m.allowed \ {x.tenant}
    OBVIOUS
  <2>2. PICK r, more : r = [m EXCEPT !.allowed = A] /\ more = <<>>
    OBVIOUS
  <2>3. Advance(h, r, more)
    BY <1>14, <2>1, <2>2
  <2>4. /\ Amends(m, r) /\ r.defined = m.defined /\ r.allowed = A
        /\ r.target = m.target /\ r.client = m.client
        /\ r.logs = m.logs /\ r.direct = m.direct /\ r.home = m.home /\ r.roles = m.roles
    BY SMTT(60), <1>3, <2>2, AllowedChange
  <2>5. IsState(r) /\ A \subseteq m.allowed
    BY <2>1, <2>4 DEF Amends
  <2> QED BY <1>11, <2>2, <2>3, <2>4, <2>5
<1> QED BY <1>5, <1>6, <1>12, <1>13, <1>14

LEMMA ReadDirectStep ==
  ASSUME TokensInv, NEW h \in Handlers, ReadDirect(h)
  PROVE  TokensInv'
<1>1. PICK m, x : m = handler[h] /\ x = Head(m.todo)
  OBVIOUS
<1>2. Reading(h, "direct") /\ Reads
  BY DEF ReadDirect
<1>3. /\ AtRead(h, m) /\ Shape(m) /\ m.user \in Users /\ x.what = "direct" /\ RolesOK(h, m)
      /\ AllFacts \subseteq m.known
      /\ Plan(h).kind = "exchange" => ExchangeOK(h, m) /\ ExchangeReadOK(h, m, x)
      /\ Plan(h).kind = "validate" => ValidationOK(h, m) /\ x.rule = "must"
  BY <1>1, <1>2, AtHead
<1>4. PICK ok \in Outcomes :
        \/ Refuse(h, ok)
        \/ \E own :
             /\ x.rule = "must" => m.user \in direct
             /\ own /\ Plan(h).kind = "exchange" => MayRecover(m.user)
             /\ Advance(h, [m EXCEPT !.direct = own], <<>>)
  BY <1>1 DEF ReadDirect, Head1
<1>5. CASE Refuse(h, ok)
  BY <1>2, <1>5, RefuseStep
<1>6. ASSUME ~Refuse(h, ok) PROVE TokensInv'
  <2>1. PICK own, r, more :
          /\ x.rule = "must" => m.user \in direct
          /\ own /\ Plan(h).kind = "exchange" => MayRecover(m.user)
          /\ r = [m EXCEPT !.direct = own] /\ more = <<>> /\ Advance(h, r, more)
    BY <1>4, <1>6
  <2>2. /\ Amends(m, r) /\ r.defined = m.defined /\ r.target = m.target
        /\ r.client = m.client /\ r.logs = m.logs /\ r.direct = own
        /\ r.home = m.home /\ r.allowed = m.allowed /\ r.roles = m.roles
        /\ r.user = m.user /\ r.known = m.known
    BY <1>3, <2>1 DEF Amends, Shape, IsState, Fields
  <2>3. IsSequence(more) /\ Queued(more) = {}
    BY <2>1, EmptyQueue
  <2>4. RolesReady(h, m, r, more)
    BY <1>3, <2>2, <2>3 DEF RolesReady, RolesOK
  <2>5. ASSUME Plan(h).kind = "exchange" PROVE ExchangeReady(h, m, r, more)
    <3>1. \A t : Within(h, m, t) => Within(h, r, t)
      BY <2>2 DEF Within
    <3>2. AllowedOK(h, r)
      BY <1>3, <2>2, <2>5, <3>1 DEF ExchangeOK, AllowedOK
    <3>3. PlatformOK(h, r)
      BY <1>3, <2>1, <2>2, <2>5 DEF ExchangeOK, PlatformOK
    <3>4. TargetReady(h, m, r)
      BY <1>1, <1>3, <2>2 DEF TargetReady, ClientRead
    <3> QED BY <2>2, <2>3, <3>2, <3>3, <3>4 DEF ExchangeReady
  <2>6. ASSUME Plan(h).kind = "validate" PROVE ValidationReady(m, more)
    <3>1. m.user = m.token.user /\ m.user \in direct
      BY <1>3, <2>1, <2>6 DEF ValidationOK
    <3>2. <<"direct", m.token.user>> \in m.known
      BY <1>3, <3>1, ReadsAreFacts
    <3>3. x # TenantOwed(m.token) /\ x # RolesOwed(m.token)
      BY <1>3, ReadFields DEF TenantOwed, RolesOwed
    <3> QED BY <1>1, <2>3, <3>2, <3>3 DEF ValidationReady, Confirmed
  <2> QED BY <1>1, <1>2, <2>1, <2>2, <2>3, <2>4, <2>5, <2>6, ReadGoesOn
<1> QED BY <1>5, <1>6

----------------------------------------------------------------------------
(* Starting a decision *)

OpeningRead(h, u, x) ==
  /\ x.what \in {"ids", "tenant", "client", "direct"}
  /\ x.rule = "home" => Principal(u).home = Absent
  /\ x.rule = "lenient" /\ x.what = "ids" => Legacy(h)
  /\ x.rule = "skip" => x.what = "ids"
  /\ x.what = "client" => x.tenant = Plan(h).target

OpeningPart(h, u, q) == IsSequence(q) /\ \A x \in Queued(q) : OpeningRead(h, u, x)

LEMMA OpeningParts ==
  ASSUME NEW h, NEW u, NEW a, NEW b, NEW c, c = a \o b,
         OpeningPart(h, u, a), OpeningPart(h, u, b)
  PROVE  OpeningPart(h, u, c) /\ \A x : x \in Queued(c) <=> x \in Queued(a) \/ x \in Queued(b)
<1>1. IsSequence(a \o b) /\ Queued(a \o b) = Queued(a) \cup Queued(b)
  BY Concatenation DEF OpeningPart
<1> QED BY <1>1 DEF OpeningPart

LEMMA OpeningOne ==
  ASSUME NEW h, NEW u, NEW x, OpeningRead(h, u, x)
  PROVE  OpeningPart(h, u, <<x>>) /\ Queued(<<x>>) = {x}
BY OneRead DEF OpeningPart

LEMMA OpeningEmpty ==
  ASSUME NEW h, NEW u
  PROVE  OpeningPart(h, u, <<>>)
BY EmptyQueue DEF OpeningPart

LEMMA OpeningOK ==
  ASSUME TokensInv, NEW h \in Handlers, Plan(h).kind = "exchange", NEW u, NEW q,
         q = OpeningReads(h, u)
  PROVE  /\ OpeningPart(h, u, q)
         /\ Discovers(h) => \E x \in Queued(q) : ClientRead(x)
         /\ Legacy(h) => \E x \in Queued(q) : ListRead(x)
<1>1. PICK home, client, homeReads, listing, again, sessionTenant, lenient, list, own :
        /\ home = Principal(u).home
        /\ client = Read("client", Plan(h).target, {}, "must")
        /\ lenient = Read("ids", Absent, {}, "lenient")
        /\ list = Read("ids", Absent, {}, "must")
        /\ own = Read("direct", Master, {}, "lenient")
        /\ homeReads = IF home = Absent THEN <<Read("ids", Absent, {}, "home")>>
                       ELSE <<Read("tenant", home, {}, "must")>>
        /\ listing = IF LocalFederated(h) /\ ~PlatformFederated(h) THEN <<>>
                     ELSE <<Read("ids", Absent, {}, "skip")>>
        /\ again = IF Plan(h).target # home /\ ~PlatformFederated(h) THEN <<list>> ELSE <<>>
        /\ sessionTenant = IF home = Absent THEN <<>> ELSE <<Read("tenant", home, {}, "must")>>
  OBVIOUS
<1>2. PICK body :
        /\ q = sessionTenant \o body
        /\ body = CASE Mode(h) = "legacy" -> <<lenient>>
                    [] Mode(h) = "strict" -> <<list, client>>
                    [] Mode(h) = "v1"     -> homeReads \o listing \o <<client>> \o again
                    [] Mode(h) = "v2"     -> homeReads \o listing \o <<own, client>>
  BY <1>1 DEF OpeningReads
<1>3. Mode(h) \in {"legacy", "strict", "v1", "v2"}
  BY Kinds
<1>4. /\ OpeningRead(h, u, client) /\ OpeningRead(h, u, list) /\ OpeningRead(h, u, own)
      /\ ClientRead(client) /\ ListRead(lenient)
      /\ Mode(h) = "legacy" => OpeningRead(h, u, lenient)
  BY <1>1, ReadFields DEF OpeningRead, ClientRead, ListRead, Legacy
<1>5. OpeningPart(h, u, homeReads)
  <2>1. PICK x : x = IF home = Absent THEN Read("ids", Absent, {}, "home")
                     ELSE Read("tenant", home, {}, "must")
    OBVIOUS
  <2>2. OpeningRead(h, u, x) /\ homeReads = <<x>>
    BY <1>1, <2>1, ReadFields DEF OpeningRead
  <2> QED BY <2>2, OpeningOne
<1>6. OpeningPart(h, u, listing)
  <2>1. PICK x : x = Read("ids", Absent, {}, "skip")
    OBVIOUS
  <2>2. OpeningRead(h, u, x) /\ listing \in {<<>>, <<x>>}
    BY <1>1, <2>1, ReadFields DEF OpeningRead
  <2> QED BY <2>2, OpeningOne, OpeningEmpty
<1>7. OpeningPart(h, u, again)
  BY <1>1, <1>4, OpeningOne, OpeningEmpty
<1>8. OpeningPart(h, u, sessionTenant)
  <2>1. PICK x : x = Read("tenant", home, {}, "must")
    OBVIOUS
  <2>2. OpeningRead(h, u, x) /\ sessionTenant \in {<<>>, <<x>>}
    BY <1>1, <2>1, ReadFields DEF OpeningRead
  <2> QED BY <2>2, OpeningOne, OpeningEmpty
<1>9. /\ OpeningPart(h, u, <<list, client>>) /\ client \in Queued(<<list, client>>)
      /\ OpeningPart(h, u, <<own, client>>) /\ client \in Queued(<<own, client>>)
  BY <1>4, TwoReads DEF OpeningPart
<1>10. /\ OpeningPart(h, u, body)
       /\ Discovers(h) => client \in Queued(body)
       /\ Mode(h) = "legacy" => lenient \in Queued(body)
  <2>1. CASE Mode(h) = "legacy"
    BY <1>2, <1>4, <2>1, OpeningOne DEF Discovers
  <2>2. CASE Mode(h) = "strict"
    BY <1>2, <1>9, <2>2 DEF Discovers
  <2>3. CASE Mode(h) = "v1"
    <3>1. PICK a : a = <<client>>
      OBVIOUS
    <3>2. PICK b : b = homeReads \o listing
      OBVIOUS
    <3>3. PICK c : c = b \o a
      OBVIOUS
    <3>4. PICK d : d = c \o again
      OBVIOUS
    <3>5. OpeningPart(h, u, a) /\ Queued(a) = {client}
      BY <1>4, <3>1, OpeningOne
    <3>6. OpeningPart(h, u, b)
      BY <1>5, <1>6, <3>2, OpeningParts
    <3>7. OpeningPart(h, u, c) /\ client \in Queued(c)
      BY <3>3, <3>5, <3>6, OpeningParts
    <3>8. OpeningPart(h, u, d) /\ client \in Queued(d)
      BY <1>7, <3>4, <3>7, OpeningParts
    <3>9. body = d
      BY <1>2, <2>3, <3>1, <3>2, <3>3, <3>4
    <3> QED BY <2>3, <3>8, <3>9
  <2>4. CASE Mode(h) = "v2"
    <3>1. PICK a : a = <<own, client>>
      OBVIOUS
    <3>2. PICK b : b = homeReads \o listing
      OBVIOUS
    <3>3. PICK c : c = b \o a
      OBVIOUS
    <3>4. OpeningPart(h, u, a) /\ client \in Queued(a)
      BY <1>9, <3>1
    <3>5. OpeningPart(h, u, b)
      BY <1>5, <1>6, <3>2, OpeningParts
    <3>6. OpeningPart(h, u, c) /\ client \in Queued(c)
      BY <3>3, <3>4, <3>5, OpeningParts
    <3>7. body = c
      BY <1>2, <2>4, <3>1, <3>2, <3>3
    <3> QED BY <2>4, <3>6, <3>7
  <2> QED BY <1>3, <2>1, <2>2, <2>3, <2>4
<1>11. q = sessionTenant \o body
  BY <1>2
<1>12. OpeningPart(h, u, q) /\ \A x \in Queued(body) : x \in Queued(q)
  BY ZenonT(60), <1>8, <1>10, <1>11, OpeningParts
<1> QED BY <1>4, <1>10, <1>12 DEF Legacy

LEMMA ExchangeStep ==
  ASSUME TokensInv, NEW h \in Handlers, Exchange(h)
  PROVE  TokensInv'
<1>1. PICK u, q, home :
        /\ u = Session(h).user /\ q = OpeningReads(h, u) /\ home = Principal(u).home
  OBVIOUS
<1>2. PICK A : A = IF Discovers(h) THEN {home} ELSE {}
  OBVIOUS
<1>3. PICK n : n = [Idle EXCEPT !.pc = "reading", !.user = u, !.todo = q,
                      !.target = Plan(h).target, !.home = home, !.allowed = A,
                      !.asOf = edits, !.known = AllFacts]
  OBVIOUS
<1>4. Move(h, n) \/ End(h)
  BY <1>1, <1>2, <1>3 DEF Exchange
<1>5. /\ UNCHANGED <<deployment, registry, edits, direct>> /\ tokens' = tokens
      /\ Plan(h).kind = "exchange"
  BY DEF Exchange, Reads
<1>6. CASE End(h)
  BY <1>5, <1>6, EndStep
<1>7. CASE Move(h, n)
  <2>1. /\ IsState(n) /\ n.pc = "reading" /\ n.user = u /\ n.todo = q /\ n.target = Plan(h).target
        /\ n.home = home /\ n.allowed = A /\ n.known = AllFacts /\ n.client = Absent
        /\ n.roles = [t \in Tenants |-> {}] /\ n.defined = {} /\ n.direct = FALSE /\ n.logs = "open"
    BY ZenonT(60), <1>3 DEF Idle, IsState, Fields
  <2>2. /\ OpeningPart(h, u, q)
        /\ Discovers(h) => \E x \in Queued(q) : ClientRead(x)
        /\ Legacy(h) => \E x \in Queued(q) : ListRead(x)
    BY <1>1, <1>5, OpeningOK
  <2>3. u \in Users
    BY <1>1, <1>5, Kinds
  <2>4. AllFacts # {}
    BY <2>3, ReadsAreFacts
  <2>5. Shape(n)
    BY <2>1, <2>2 DEF Shape, OpeningPart
  <2>6. KnownOK(n)
    BY <2>1, <2>4 DEF KnownOK
  <2>7. RolesOK(h, n)
    BY <2>1, <2>2 DEF RolesOK, DefinitionReadOK, OpeningPart, OpeningRead
  <2>8. \A x \in Queued(n.todo) : ExchangeReadOK(h, n, x)
    BY <2>1, <2>2 DEF ExchangeReadOK, OpeningPart, OpeningRead
  <2>9. AllowedOK(h, n)
    BY <1>1, <1>2, <2>1 DEF AllowedOK
  <2>10. TargetOK(h, n)
    BY <2>1, <2>2 DEF TargetOK
  <2>11. PlatformOK(h, n)
    BY <2>1 DEF PlatformOK
  <2>12. ExchangeOK(h, n)
    BY <1>1, <2>1, <2>8, <2>9, <2>10, <2>11 DEF ExchangeOK
  <2>13. HandlerOK(h, n)
    BY <1>5, <2>1, <2>3, <2>7, <2>12 DEF HandlerOK
  <2> QED BY <1>5, <1>7, <2>5, <2>6, <2>13, HandlerStep
<1> QED BY <1>4, <1>6, <1>7

LEMMA ValidationReadsOK ==
  ASSUME NEW t, NEW q, q = ValidationReads(t)
  PROVE  /\ IsSequence(q)
         /\ \A x \in Queued(q) : x.rule = "must" /\ x.what \notin {"ids", "definition"}
         /\ TenantOwed(t) \in Queued(q)
         /\ t.roles # Absent /\ ~(t.origin /\ t.roles = {}) => RolesOwed(t) \in Queued(q)
         /\ RecoveredClaims(t) \/ (LogsScope \in t.scopes /\ ~Principal(t.user).federated) =>
              DirectOwed \in Queued(q)
<1>1. PICK own, tenant, client, roles :
        /\ own = DirectOwed /\ tenant = TenantOwed(t)
        /\ client = Read("client", t.tenant, {}, "must") /\ roles = RolesOwed(t)
  OBVIOUS
<1>2. PICK a, b, c, d :
        /\ a = IF LogsScope \in t.scopes /\ ~Principal(t.user).federated THEN <<own>> ELSE <<>>
        /\ b = <<tenant, client>>
        /\ c = IF t.roles = Absent \/ (t.origin /\ t.roles = {}) THEN <<>> ELSE <<roles>>
        /\ d = IF RecoveredClaims(t) THEN <<own>> ELSE <<>>
  OBVIOUS
<1>3. /\ IsSequence(a) /\ (\A x \in Queued(a) : x = own)
      /\ (LogsScope \in t.scopes /\ ~Principal(t.user).federated) => own \in Queued(a)
  BY <1>2, OneRead, EmptyQueue
<1>4. IsSequence(b) /\ \A x : x \in Queued(b) <=> x \in {tenant, client}
  BY <1>2, TwoReads
<1>5. /\ IsSequence(c) /\ (\A x \in Queued(c) : x = roles)
      /\ t.roles # Absent /\ ~(t.origin /\ t.roles = {}) => roles \in Queued(c)
  BY <1>2, OneRead, EmptyQueue
<1>6. /\ IsSequence(d) /\ (\A x \in Queued(d) : x = own)
      /\ RecoveredClaims(t) => own \in Queued(d)
  BY <1>2, OneRead, EmptyQueue
<1>7. q = ((a \o b) \o c) \o d
  BY <1>1, <1>2 DEF ValidationReads, TenantOwed, RolesOwed, DirectOwed
<1>8. PICK e : e = a \o b
  OBVIOUS
<1>9. PICK f : f = e \o c
  OBVIOUS
<1>10. q = f \o d
  BY <1>7, <1>8, <1>9
<1>11. IsSequence(e) /\ Queued(e) = Queued(a) \cup Queued(b)
  BY <1>3, <1>4, <1>8, Concatenation
<1>12. IsSequence(f) /\ Queued(f) = Queued(e) \cup Queued(c)
  BY <1>5, <1>9, <1>11, Concatenation
<1>13. IsSequence(q) /\ Queued(q) = Queued(f) \cup Queued(d)
  BY <1>6, <1>10, <1>12, Concatenation
<1>14. \A x \in {own, tenant, client, roles} : x.rule = "must" /\ x.what \notin {"ids", "definition"}
  BY <1>1, ReadFields DEF TenantOwed, RolesOwed, DirectOwed
<1>15. \A x \in Queued(q) : x \in {own, tenant, client, roles}
  BY <1>3, <1>4, <1>5, <1>6, <1>11, <1>12, <1>13
<1>16. tenant \in Queued(q)
  BY <1>4, <1>11, <1>12, <1>13
<1>17. t.roles # Absent /\ ~(t.origin /\ t.roles = {}) => roles \in Queued(q)
  BY <1>5, <1>12, <1>13
<1>18. RecoveredClaims(t) \/ (LogsScope \in t.scopes /\ ~Principal(t.user).federated) => own \in Queued(q)
  BY <1>3, <1>6, <1>11, <1>12, <1>13
<1>19. IsSequence(q) /\ \A x \in Queued(q) : x.rule = "must" /\ x.what \notin {"ids", "definition"}
  BY <1>13, <1>14, <1>15
<1> QED BY <1>1, <1>16, <1>17, <1>18, <1>19

LEMMA ValidateStep ==
  ASSUME TokensInv, NEW h \in Handlers, Validate(h)
  PROVE  TokensInv'
<1>1. PICK t \in tokens :
        \/ End(h)
        \/ /\ account[t.user].version = t.version
           /\ PlatformAuthorityValid(t.user, t.privilege, t.origin)
           /\ LogsScope \in t.scopes => FederatedLogsClaims(t)
           /\ Move(h, [Idle EXCEPT !.pc = "reading", !.user = t.user, !.token = t,
                         !.target = t.tenant, !.todo = ValidationReads(t), !.known = AllFacts])
  BY DEF Validate
<1>2. /\ UNCHANGED <<deployment, registry, edits, direct>> /\ tokens' = tokens
      /\ Plan(h).kind = "validate"
  BY DEF Validate, Reads
<1>3. CASE End(h)
  BY <1>2, <1>3, EndStep
<1>4. ASSUME ~End(h) PROVE TokensInv'
  <2>1. PICK q : q = ValidationReads(t)
    OBVIOUS
  <2>2. PICK n : n = [Idle EXCEPT !.pc = "reading", !.user = t.user, !.token = t,
                        !.target = t.tenant, !.todo = q, !.known = AllFacts]
    OBVIOUS
  <2>3. /\ account[t.user].version = t.version
        /\ PlatformAuthorityValid(t.user, t.privilege, t.origin)
        /\ LogsScope \in t.scopes => FederatedLogsClaims(t)
        /\ Move(h, n)
    BY <1>1, <1>4, <2>1, <2>2
  <2>4. /\ IsState(n) /\ n.pc = "reading" /\ n.user = t.user /\ n.todo = q /\ n.token = t
        /\ n.known = AllFacts /\ n.roles = [u \in Tenants |-> {}] /\ n.defined = {}
    BY ZenonT(60), <2>2 DEF Idle, IsState, Fields
  <2>5. /\ IsSequence(q)
        /\ \A x \in Queued(q) : x.rule = "must" /\ x.what \notin {"ids", "definition"}
        /\ TenantOwed(t) \in Queued(q)
        /\ t.roles # Absent /\ ~(t.origin /\ t.roles = {}) => RolesOwed(t) \in Queued(q)
        /\ RecoveredClaims(t) \/ (LogsScope \in t.scopes /\ ~Principal(t.user).federated) =>
             DirectOwed \in Queued(q)
    BY <2>1, ValidationReadsOK
  <2>6. t.user \in Users
    BY DEF TokensInv, TokenOK
  <2>7. <<"version", t.user, t.version>> \in AllFacts
    BY <2>3, <2>6, ReadsAreFacts
  <2>8. Shape(n)
    BY <2>4, <2>5 DEF Shape
  <2>9. KnownOK(n)
    BY <2>4, <2>7 DEF KnownOK
  <2>10. RolesOK(h, n)
    BY <2>4, <2>5 DEF RolesOK, DefinitionReadOK
  <2>11. Principal(t.user).federated \in BOOLEAN
    BY <2>6, Kinds
  <2>12. BearerOK(t)
    BY <2>3, <2>11 DEF BearerOK, PlatformAuthorityValid, FederatedLogsClaims
  <2>13. OwedOK(n, t)
    BY <2>4, <2>5 DEF OwedOK
  <2>14. ValidationOK(h, n)
    BY <2>4, <2>5, <2>7, <2>12, <2>13 DEF ValidationOK
  <2>15. HandlerOK(h, n)
    BY <1>2, <2>4, <2>6, <2>10, <2>14 DEF HandlerOK
  <2> QED BY <1>2, <2>3, <2>8, <2>9, <2>15, HandlerStep
<1> QED BY SMTT(60), <1>3, <1>4

----------------------------------------------------------------------------
(* Ending a decision *)

LEMMA AtTheEnd ==
  ASSUME TokensInv, NEW h \in Handlers, AtEnd(h), NEW m, m = handler[h]
  PROVE  /\ m.pc = "reading" /\ Shape(m) /\ m.known # {} /\ AllFacts \subseteq m.known
         /\ m.user \in Users /\ RolesOK(h, m) /\ Queued(m.todo) = {}
         /\ Plan(h).kind = "exchange" => ExchangeOK(h, m)
         /\ Plan(h).kind = "validate" => ValidationOK(h, m)
BY EmptyQueue DEF TokensInv, RegistryOK, FactsOK, HandlerOK, AtEnd

(* Only what the decision knows of the platform log scope changes. *)
LEMMA LogsStep ==
  ASSUME TokensInv, NEW h \in Handlers, Signing(h), NEW m, m = handler[h], NEW logs,
         Move(h, [m EXCEPT !.logs = logs]), Reads,
         logs \in {"assigned", "granted"} => <<"direct", m.user>> \in m.known \/ PlatformFederated(h)
  PROVE  TokensInv'
<1>1. PICK n : n = [m EXCEPT !.logs = logs]
  OBVIOUS
<1>2. /\ m.pc = "reading" /\ Shape(m) /\ m.known # {} /\ AllFacts \subseteq m.known
      /\ m.user \in Users /\ RolesOK(h, m) /\ Plan(h).kind = "exchange" /\ ExchangeOK(h, m)
  BY AtTheEnd DEF Signing
<1>3. IsState(n) /\ n.todo = m.todo /\ n.logs = logs
  BY <1>1, <1>2 DEF Shape, IsState, Fields
<1>4. /\ n.pc = m.pc /\ n.user = m.user /\ n.target = m.target /\ n.home = m.home
      /\ n.roles = m.roles /\ n.defined = m.defined /\ n.allowed = m.allowed /\ n.client = m.client
      /\ n.direct = m.direct /\ n.known = m.known
  BY <1>1, <1>2 DEF Shape, IsState, Fields
<1>5. Shape(n) /\ KnownOK(n)
  BY <1>2, <1>3, <1>4 DEF Shape, KnownOK
<1>6. RolesOK(h, n)
  BY <1>2, <1>3, <1>4 DEF RolesOK, Grounded, DefinitionOK, DefinitionReadOK
<1>7. \A t : Within(h, m, t) => Within(h, n, t)
  BY <1>4 DEF Within
<1>8. \A x \in Queued(n.todo) : ExchangeReadOK(h, n, x)
  BY <1>2, <1>3, <1>4, <1>7 DEF ExchangeOK, ExchangeReadOK
<1>9. AllowedOK(h, n)
  BY <1>2, <1>4, <1>7 DEF ExchangeOK, AllowedOK
<1>10. TargetOK(h, n)
  BY <1>2, <1>3, <1>4, <1>7 DEF ExchangeOK, TargetOK
<1>11. PlatformOK(h, n)
  BY <1>2, <1>3, <1>4 DEF ExchangeOK, PlatformOK
<1>12. HandlerOK(h, n)
  BY <1>2, <1>4, <1>6, <1>8, <1>9, <1>10, <1>11 DEF HandlerOK, ExchangeOK
<1>13. UNCHANGED <<deployment, registry, edits, direct>> /\ tokens' = tokens /\ Move(h, n)
  BY <1>1 DEF Reads
<1> QED BY <1>5, <1>12, <1>13, HandlerStep

LEMMA ReadLogsAuthorityStep ==
  ASSUME TokensInv, NEW h \in Handlers, ReadLogsAuthority(h)
  PROVE  TokensInv'
<1>1. PICK m : m = handler[h]
  OBVIOUS
<1>2. Signing(h) /\ Reads
  BY DEF ReadLogsAuthority, LogsOpen
<1>3. PICK mine, logs :
        /\ mine => PlatformFederated(h) \/ m.user \in direct
        /\ logs = IF LogsAsked(h) /\ mine THEN "assigned" ELSE "denied"
        /\ Move(h, [m EXCEPT !.logs = logs])
  BY <1>1 DEF ReadLogsAuthority
<1>4. AllFacts \subseteq m.known
  BY <1>1, <1>2, AtTheEnd DEF Signing
<1>5. logs \in {"assigned", "granted"} => <<"direct", m.user>> \in m.known \/ PlatformFederated(h)
  BY <1>3, <1>4, ReadsAreFacts
<1> QED BY <1>1, <1>2, <1>3, <1>5, LogsStep

LEMMA ReadLogsClientStep ==
  ASSUME TokensInv, NEW h \in Handlers, ReadLogsClient(h)
  PROVE  TokensInv'
<1>1. PICK m : m = handler[h]
  OBVIOUS
<1>2. Signing(h) /\ Reads /\ m.logs = "assigned"
  BY <1>1 DEF ReadLogsClient, LogsOpen
<1>3. PICK logs : Move(h, [m EXCEPT !.logs = logs])
  BY <1>1 DEF ReadLogsClient
<1>4. <<"direct", m.user>> \in m.known \/ PlatformFederated(h)
  BY <1>1, <1>2, AtTheEnd DEF Signing, ExchangeOK, PlatformOK
<1> QED BY <1>1, <1>2, <1>3, <1>4, LogsStep

(* A role that counts, with its definition, conveys its scopes: c is the      *)
(* token that is signed, or the one that is validated.                        *)
LEMMA PermissionsConveyed ==
  ASSUME NEW h, NEW m, RolesOK(h, m), NEW c, c.user = m.user, c.tenant \in Tenants,
         Legacy(h) => c.mode = "legacy" /\ BelongsIn(c, m.known),
         NEW s, s \in Permissions(m, c.tenant)
  PROVE  Conveyed(c, s, m.known)
<1>1. PICK d \in m.defined : d[1] = c.tenant /\ s \in d[3]
  BY DEF Permissions
<1>2. /\ Grounded(h, m, c.tenant, d[2]) /\ d[3] # Absent
      /\ <<"definition", c.tenant, d[2], d[3]>> \in m.known
  BY <1>1 DEF RolesOK, DefinitionOK
<1>3. d[2] \in RoleNames /\ CountsIn(c, d[2], m.known)
  BY <1>2 DEF Grounded, CountsIn
<1>4. DefinedIn(c.tenant, d[2], s, m.known)
  BY <1>1, <1>2 DEF DefinedIn
<1> QED BY <1>3, <1>4 DEF Conveyed

LEMMA CreatorConveys ==
  ASSUME NEW h, NEW m, RolesOK(h, m), ~Legacy(h), NEW c, c.user = m.user, c.tenant \in Tenants,
         CreatorAdministrator(m, c.tenant), NEW s \in SecretScopes
  PROVE  ByCreator(c, s, m.known)
<1>1. PICK d \in m.defined : /\ d[1] = c.tenant /\ d[2] = CreatorRole[c.tenant]
                             /\ IdentityWrite \in d[3]
  BY DEF CreatorAdministrator
<1>2. /\ Grounded(h, m, c.tenant, d[2]) /\ d[3] # Absent
      /\ <<"definition", c.tenant, d[2], d[3]>> \in m.known
  BY <1>1 DEF RolesOK, DefinitionOK
<1>3. HeldIn(c.user, c.tenant, CreatorRole[c.tenant], m.known)
  BY <1>1, <1>2 DEF Grounded
<1>4. DefinedIn(c.tenant, CreatorRole[c.tenant], IdentityWrite, m.known)
  BY <1>1, <1>2 DEF DefinedIn
<1> QED BY <1>3, <1>4 DEF ByCreator

LEMMA HomeRoles ==
  ASSUME NEW role, NEW S, NEW s, s \in HomeAuthority(role, S)
  PROVE  /\ role \in {"ADMIN", "COMPANY_ADMIN"} /\ (s = PlatformScope => role = "ADMIN")
         /\ s \in S
BY DEF HomeAuthority

LEMMA HomeGlobalRoles ==
  ASSUME NEW role, NEW S, NEW s, s \in HomeGlobalAuthority(role, S)
  PROVE  s \in HomeAuthority(role, S) /\ (s \notin Assignable \/ s = FeatureWrite)
BY ScopeClasses DEF HomeGlobalAuthority, RequiresHomeAuthority, Global

(* Where a signed token is for *)
LEMMA SignedTarget ==
  ASSUME TokensInv, NEW h \in Handlers, Signing(h), NEW m, m = handler[h],
         NEW home, home = Principal(m.user).home
  PROVE  /\ m.target \in Tenants
         /\ Discovers(h) => /\ m.client # Absent
                            /\ home # Absent => \/ m.target = home \/ PlatformFederated(h)
                                                \/ MemberIn(m.user, m.target, m.known)
         /\ Legacy(h) => m.target = home \/ MemberIn(m.user, m.target, m.known)
         /\ home # Absent => m.home = home
         /\ m.user = Session(h).user /\ Plan(h).kind = "exchange" /\ RolesOK(h, m) /\ PlatformOK(h, m)
<1>1. Queued(m.todo) = {} /\ ExchangeOK(h, m) /\ RolesOK(h, m) /\ Plan(h).kind = "exchange"
  BY AtTheEnd DEF Signing
<1>2. TargetOK(h, m) /\ AllowedOK(h, m) /\ PlatformOK(h, m) /\ m.user = Session(h).user
  BY <1>1 DEF ExchangeOK
<1>3. m.target \in Tenants
  BY <1>1, <1>2, Kinds DEF TargetOK, Legacy
<1> QED BY <1>1, <1>2, <1>3 DEF TargetOK, AllowedOK, Within

(* Every scope an exchange may sign is justified. *)
LEMMA EffectiveJustified ==
  ASSUME TokensInv, NEW h \in Handlers, Signing(h), NEW m, m = handler[h],
         NEW c, c.user = m.user, c.tenant = m.target, c.mode = Mode(h), c.origin = Privileged(h),
         NEW s, s \in EffectiveScopes(h)
  PROVE  Justified(c, s, m.known)
<1>1. PICK home, role : home = Principal(m.user).home /\ role = EffectiveRole(m.user, Privileged(h))
  OBVIOUS
<1>2. /\ m.target \in Tenants
      /\ Discovers(h) => /\ m.client # Absent
                         /\ home # Absent => \/ m.target = home \/ PlatformFederated(h)
                                             \/ MemberIn(m.user, m.target, m.known)
      /\ Legacy(h) => m.target = home \/ MemberIn(m.user, m.target, m.known)
      /\ home # Absent => m.home = home
      /\ m.user = Session(h).user /\ Plan(h).kind = "exchange" /\ RolesOK(h, m)
  BY <1>1, SignedTarget
<1>3. Legacy(h) => c.mode = "legacy" /\ BelongsIn(c, m.known)
  BY <1>1, <1>2 DEF Legacy, BelongsIn
<1>4. s \in Permissions(m, m.target) => Conveyed(c, s, m.known)
  BY <1>2, <1>3, PermissionsConveyed
<1>5. PlatformFederated(h) =>
        Principal(m.user).federated /\ home = Master /\ home # Absent /\ Privileged(h)
  BY <1>1, <1>2 DEF PlatformFederated, LocalFederated
<1>6. CASE Discovers(h)
  <2>1. s \in TargetAuthority(h) /\ ~Legacy(h)
    BY <1>1, <1>6 DEF EffectiveScopes, Discovers, Legacy
  <2>2. CASE (m.target = m.home /\ home # Absent) \/ PlatformFederated(h)
    <3>1. s \in HomeAuthority(role, m.client)
      BY <1>1, <2>1, <2>2 DEF TargetAuthority
    <3>2. role \in {"ADMIN", "COMPANY_ADMIN"} /\ (s = PlatformScope => role = "ADMIN")
      BY <3>1, HomeRoles
    <3>3. ByHome(c, s, m.known)
      BY <1>1, <1>2, <1>5, <2>2, <3>2 DEF ByHome
    <3> QED BY <3>3 DEF Justified
  <2>3. CASE ~((m.target = m.home /\ home # Absent) \/ PlatformFederated(h))
    <3>1. \/ s \in Permissions(m, m.target)
          \/ CreatorAdministrator(m, m.target) /\ s \in SecretScopes
          \/ home # Absent /\ s \in HomeGlobalAuthority(role, m.client)
      BY <1>1, <2>1, <2>3 DEF TargetAuthority
    <3>2. CASE s \in Permissions(m, m.target)
      BY <1>4, <3>2 DEF Justified
    <3>3. CASE CreatorAdministrator(m, m.target) /\ s \in SecretScopes
      BY <1>2, <2>1, <3>3, CreatorConveys DEF Justified
    <3>4. CASE home # Absent /\ s \in HomeGlobalAuthority(role, m.client)
      <4>1. s \in HomeAuthority(role, m.client) /\ (s \notin Assignable \/ s = FeatureWrite)
        BY <3>4, HomeGlobalRoles
      <4>2. role \in {"ADMIN", "COMPANY_ADMIN"} /\ (s = PlatformScope => role = "ADMIN")
        BY <4>1, HomeRoles
      <4>3. m.target = home \/ MemberIn(m.user, m.target, m.known)
        BY <1>2, <1>6, <2>3, <3>4
      <4>4. ByHome(c, s, m.known)
        BY <1>1, <3>4, <4>1, <4>2, <4>3 DEF ByHome
      <4> QED BY <4>4 DEF Justified
    <3> QED BY <3>1, <3>2, <3>3, <3>4
  <2> QED BY <2>2, <2>3
<1>7. CASE ~Discovers(h)
  <2>1. PICK asked : /\ s \in asked
                     /\ IF Scoped(h) THEN asked \subseteq Permissions(m, m.target)
                        ELSE asked = {} \/ ScopesAllowed(h, asked)
    BY <1>1, <1>7 DEF EffectiveScopes
  <2>2. CASE Scoped(h)
    BY <1>4, <2>1, <2>2 DEF Justified
  <2>3. CASE ~Scoped(h)
    <3>1. Mode(h) = "legacy" /\ Legacy(h) /\ home # Absent
      BY <1>1, <1>2, <1>7, <2>3, Kinds DEF Scoped, Legacy, Discovers
    <3>2. m.target = home \/ MemberIn(m.user, m.target, m.known)
      BY <1>2, <3>1
    <3>3. \/ role = "ADMIN" \/ (role = "COMPANY_ADMIN" /\ PlatformScope \notin asked)
          \/ s \in Permissions(m, m.target)
          \/ s \in EmployeeScopes /\ "EMPLOYEE" \in m.roles[m.target]
      BY <1>1, <2>1, <2>3 DEF ScopesAllowed
    <3>4. CASE role = "ADMIN" \/ (role = "COMPANY_ADMIN" /\ PlatformScope \notin asked)
      <4>1. ByHome(c, s, m.known)
        BY <1>1, <2>1, <3>1, <3>2, <3>4 DEF ByHome
      <4> QED BY <4>1 DEF Justified
    <3>5. CASE s \in Permissions(m, m.target)
      BY <1>4, <3>5 DEF Justified
    <3>6. CASE s \in EmployeeScopes /\ "EMPLOYEE" \in m.roles[m.target]
      <4>1. Grounded(h, m, m.target, "EMPLOYEE")
        BY <1>2, <3>6 DEF RolesOK
      <4>2. CountsIn(c, "EMPLOYEE", m.known)
        BY <1>2, <1>3, <3>1, <4>1 DEF Grounded, CountsIn
      <4> QED BY <3>6, <4>2 DEF Justified
    <3> QED BY <3>3, <3>4, <3>5, <3>6
  <2> QED BY <2>2, <2>3
<1> QED BY <1>6, <1>7

LEMMA ClaimsOK ==
  ASSUME TokensInv, NEW h \in Handlers, Signing(h), NEW m, m = handler[h], NEW S,
         NEW c, c = Claims(h, S)
  PROVE  /\ c.user = m.user /\ c.tenant = m.target /\ c.mode = Mode(h) /\ c.origin = Privileged(h)
         /\ c.known = m.known /\ c.scopes = S /\ TokenOK(c)
<1>1. PICK role : role = EffectiveRole(m.user, Privileged(h))
  OBVIOUS
<1>2. /\ c.user = m.user /\ c.tenant = m.target /\ c.mode = Mode(h) /\ c.origin = Privileged(h)
      /\ c.known = m.known /\ c.scopes = S
      /\ c.privilege => Recovered(h) \/ role = "ADMIN"
  BY <1>1 DEF Claims
<1>3. m.user \in Users
  BY AtTheEnd DEF Signing
<1>4. m.target \in Tenants /\ PlatformOK(h, m)
  BY SignedTarget
<1>5. Recovered(h) => ~Principal(m.user).federated
  BY <1>4 DEF Recovered, PlatformOK, MayRecover
<1>6. role = "ADMIN" /\ Principal(m.user).federated => Privileged(h)
  BY <1>1 DEF EffectiveRole
<1>7. TokenOK(c)
  BY <1>2, <1>3, <1>4, <1>5, <1>6 DEF TokenOK
<1> QED BY <1>2, <1>7

LEMMA SignStep ==
  ASSUME TokensInv, NEW h \in Handlers, Sign(h)
  PROVE  TokensInv' /\ tokens \subseteq tokens' /\ \A t \in tokens' \ tokens : JustifiedToken(t)
<1>1. PICK m, kept :
        /\ m = handler[h] /\ kept \subseteq EffectiveScopes(h)
        /\ LogsScope \in kept => m.logs = "granted"
        /\ tokens' = tokens \/ tokens' = tokens \cup {Claims(h, kept)}
  BY DEF Sign
<1>2. Signing(h) /\ End(h) /\ UNCHANGED <<deployment, registry, edits, direct>>
  BY DEF Sign
<1>3. PICK c : c = Claims(h, kept)
  OBVIOUS
<1>4. /\ c.user = m.user /\ c.tenant = m.target /\ c.mode = Mode(h) /\ c.origin = Privileged(h)
      /\ c.known = m.known /\ c.scopes = kept /\ TokenOK(c)
  BY <1>1, <1>2, <1>3, ClaimsOK
<1>5. \A s \in kept : Justified(c, s, m.known)
  BY <1>1, <1>2, <1>4, EffectiveJustified
<1>6. PlatformOK(h, m) /\ m.user = Session(h).user
  BY <1>1, <1>2, SignedTarget
<1>7. LogsJustified(c, m.known)
  BY <1>1, <1>4, <1>6 DEF LogsJustified, PlatformOK, PlatformFederated, LocalFederated
<1>8. JustifiedToken(c)
  BY <1>4, <1>5, <1>7 DEF JustifiedToken
<1>9. tokens \subseteq tokens' /\ \A t \in tokens' \ tokens : t = c
  BY <1>1, <1>3
<1>10. TokensInv'
  BY <1>2, <1>4, <1>9, EndStep
<1> QED BY <1>8, <1>9, <1>10

LEMMA ConcludeStep ==
  ASSUME TokensInv, NEW h \in Handlers, Conclude(h)
  PROVE  TokensInv' /\ \A v \in verdicts' \ verdicts : v.accept => RestsOnCurrent(v)
<1>1. PICK m, t, v :
        /\ m = handler[h] /\ t = m.token
        /\ v.token = t /\ v.known = m.known
        /\ v.accept => t.scopes = {} \/ (t.roles # Absent => t.scopes \subseteq CurrentAuthority(h))
        /\ verdicts' = verdicts \cup {v}
  <2>1. PICK m, t : m = handler[h] /\ t = m.token
    OBVIOUS
  <2>2. PICK accept :
          /\ accept => t.scopes = {} \/ (t.roles # Absent => t.scopes \subseteq CurrentAuthority(h))
          /\ verdicts' = verdicts \cup {[token |-> t, accept |-> accept, faulty |-> FALSE,
                                         quiet |-> t.asOf = edits, known |-> m.known]}
    BY <2>1 DEF Conclude
  <2>3. PICK v : v = [token |-> t, accept |-> accept, faulty |-> FALSE,
                      quiet |-> t.asOf = edits, known |-> m.known]
    OBVIOUS
  <2>4. v.token = t /\ v.known = m.known /\ v.accept = accept /\ verdicts' = verdicts \cup {v}
    BY <2>2, <2>3
  <2> QED BY <2>1, <2>2, <2>4
<1>2. /\ AtEnd(h) /\ Plan(h).kind = "validate" /\ End(h) /\ tokens' = tokens
      /\ UNCHANGED <<deployment, registry, edits, direct>>
  BY DEF Conclude, Reads
<1>3. TokensInv'
  BY <1>2, EndStep
<1>4. /\ Queued(m.todo) = {} /\ RolesOK(h, m) /\ ValidationOK(h, m) /\ ~Legacy(h)
      /\ m.user \in Users
  BY <1>1, <1>2, AtTheEnd DEF Legacy
<1>5. t \in tokens /\ m.user = t.user /\ OwedOK(m, t) /\ BearerOK(t) /\ TokenOK(t)
  BY <1>1, <1>4 DEF ValidationOK, TokensInv
<1>6. <<"tenant", t.tenant>> \in m.known /\ <<"version", t.user, t.version>> \in m.known
  BY <1>1, <1>4, <1>5 DEF OwedOK, ValidationOK
<1>7. /\ t.roles # Absent /\ ~(t.origin /\ t.roles = {}) => ConfirmedRoles(t, m.known)
      /\ RecoveredClaims(t) \/ (LogsScope \in t.scopes /\ ~Principal(t.user).federated) =>
           <<"direct", t.user>> \in m.known
  BY <1>4, <1>5 DEF OwedOK
<1>8. LogsJustified(t, m.known)
  BY <1>5, <1>7 DEF LogsJustified, BearerOK, TokenOK
<1>9. t.roles # Absent => \A r \in t.roles : HeldIn(t.user, t.tenant, r, m.known)
  BY <1>7 DEF ConfirmedRoles
<1>10. ASSUME v.accept, t.roles # Absent, NEW s \in t.scopes
       PROVE  Justified(t, s, m.known) \/ PlatformBearer(t, m.known)
  <2>1. PICK role : role = EffectiveRole(m.user, t.privilege /\ Principal(m.user).federated)
    OBVIOUS
  <2>2. \/ s \in Permissions(m, t.tenant)
        \/ CreatorAdministrator(m, t.tenant) /\ s \in SecretScopes
        \/ t.origin \/ RecoveredClaims(t)
        \/ Principal(m.user).home # Absent /\ s \in HomeGlobalAuthority(role, t.scopes)
    BY <1>1, <1>10, <2>1 DEF CurrentAuthority
  <2>3. CASE t.origin \/ RecoveredClaims(t)
    BY <1>5, <1>7, <2>3 DEF PlatformBearer, BearerOK
  <2>4. CASE s \in Permissions(m, t.tenant)
    <3>1. t.tenant \in Tenants
      BY <1>5 DEF TokenOK
    <3> QED BY <1>4, <1>5, <2>4, <3>1, PermissionsConveyed DEF Justified
  <2>5. CASE CreatorAdministrator(m, t.tenant) /\ s \in SecretScopes
    <3>1. t.tenant \in Tenants
      BY <1>5 DEF TokenOK
    <3> QED BY <1>4, <1>5, <2>5, <3>1, CreatorConveys DEF Justified
  <2>6. ASSUME ~t.origin, Principal(m.user).home # Absent, s \in HomeGlobalAuthority(role, t.scopes)
        PROVE  Justified(t, s, m.known)
    <3>1. s \in HomeAuthority(role, t.scopes) /\ (s \notin Assignable \/ s = FeatureWrite)
      BY <2>6, HomeGlobalRoles
    <3>2. role \in {"ADMIN", "COMPANY_ADMIN"} /\ (s = PlatformScope => role = "ADMIN")
      BY <3>1, HomeRoles
    <3>3. MemberIn(t.user, t.tenant, m.known)
      BY <1>7, <1>10, <2>6 DEF ConfirmedRoles
    <3>4. role = EffectiveRole(t.user, t.origin)
      BY <1>5, <2>1, <2>6 DEF EffectiveRole, TokenOK
    <3>5. ByHome(t, s, m.known)
      BY <1>5, <2>6, <3>1, <3>2, <3>3, <3>4 DEF ByHome
    <3> QED BY <3>5 DEF Justified
  <2> QED BY <2>2, <2>3, <2>4, <2>5, <2>6
<1>11. v.accept => RestsOnCurrent(v)
  BY <1>1, <1>6, <1>7, <1>8, <1>9, <1>10 DEF RestsOnCurrent
<1> QED BY <1>1, <1>3, <1>11

----------------------------------------------------------------------------
(* Edits of the registry *)

(* A decision under way learns of an edit only new facts. *)
LEMMA Learns ==
  ASSUME NEW h, NEW m, Shape(m), HandlerOK(h, m), NEW F, NEW n, n = [m EXCEPT !.known = @ \cup F]
  PROVE  Shape(n) /\ HandlerOK(h, n) /\ n.known = m.known \cup F /\ n.pc = m.pc
<1>1. /\ IsState(n) /\ n.known = m.known \cup F
      /\ n.pc = m.pc /\ n.user = m.user /\ n.todo = m.todo /\ n.target = m.target /\ n.home = m.home
      /\ n.roles = m.roles /\ n.defined = m.defined /\ n.allowed = m.allowed /\ n.client = m.client
      /\ n.direct = m.direct /\ n.logs = m.logs /\ n.token = m.token
  BY DEF Shape, IsState, Fields
<1>2. Shape(n)
  BY <1>1 DEF Shape
<1>3. \A u, t, r : HeldIn(u, t, r, m.known) => HeldIn(u, t, r, n.known)
  BY <1>1 DEF HeldIn
<1>4. \A u, t : MemberIn(u, t, m.known) => MemberIn(u, t, n.known)
  BY <1>3 DEF MemberIn
<1>5. \A t, r : Grounded(h, m, t, r) => Grounded(h, n, t, r)
  BY <1>1, <1>3 DEF Grounded
<1>6. \A t : Within(h, m, t) => Within(h, n, t)
  BY <1>1, <1>4 DEF Within
<1>7. RolesOK(h, m) => RolesOK(h, n)
  BY <1>1, <1>5 DEF RolesOK, DefinitionOK, DefinitionReadOK
<1>8. ASSUME ExchangeOK(h, m) PROVE ExchangeOK(h, n)
  <2>1. \A x \in Queued(n.todo) : ExchangeReadOK(h, n, x)
    BY <1>1, <1>6, <1>8 DEF ExchangeOK, ExchangeReadOK
  <2>2. AllowedOK(h, n)
    BY <1>1, <1>6, <1>8 DEF ExchangeOK, AllowedOK
  <2>3. TargetOK(h, n)
    BY <1>1, <1>4, <1>6, <1>8 DEF ExchangeOK, TargetOK
  <2>4. PlatformOK(h, n)
    BY <1>1, <1>8 DEF ExchangeOK, PlatformOK
  <2> QED BY <1>1, <1>8, <2>1, <2>2, <2>3, <2>4 DEF ExchangeOK
<1>9. ASSUME ValidationOK(h, m) PROVE ValidationOK(h, n)
  <2>1. ConfirmedRoles(m.token, m.known) => ConfirmedRoles(m.token, n.known)
    BY <1>3, <1>4 DEF ConfirmedRoles
  <2>2. OwedOK(n, m.token)
    BY <1>1, <1>9, <2>1 DEF ValidationOK, OwedOK
  <2> QED BY <1>1, <1>9, <2>2 DEF ValidationOK
<1>10. HandlerOK(h, n)
  BY <1>1, <1>7, <1>8, <1>9 DEF HandlerOK
<1> QED BY <1>1, <1>2, <1>10

LEMMA EditsOK ==
  ASSUME TokensInv, RegistryEdit
  PROVE  /\ UNCHANGED deployment /\ edits' \subseteq edits
         /\ held' \in [Users \X Tenants -> SUBSET RoleNames] /\ active' \subseteq active
<1>1. held \in [Users \X Tenants -> SUBSET RoleNames]
  BY DEF TokensInv, RegistryOK
<1>2. PICK e \in edits :
        \/ EndSessions(e) \/ ChangeEmail(e) \/ SetStatus(e) \/ RetireTenant(e) \/ Assign(e)
        \/ Define(e) \/ SetAudience(e) \/ WithdrawDirect(e)
  BY DEF RegistryEdit, Edit
<1>3. CASE Assign(e)
  <2>1. e.roles \subseteq RoleNames
    BY <1>3, TokenDeployments DEF Assign, Pending, TokensInv, RegistryOK
  <2> QED BY <1>1, <1>3, <2>1 DEF Assign, Pending
<1>4. CASE RetireTenant(e)
  BY <1>1, <1>4 DEF RetireTenant, Pending
<1>5. CASE EndSessions(e) \/ ChangeEmail(e) \/ SetStatus(e)
  BY <1>1, <1>5 DEF EndSessions, ChangeEmail, SetStatus, Pending
<1>6. CASE Define(e) \/ SetAudience(e) \/ WithdrawDirect(e)
  BY <1>1, <1>6 DEF Define, SetAudience, WithdrawDirect, Pending, registry
<1> QED BY <1>2, <1>3, <1>4, <1>5, <1>6

LEMMA RegistryEditStep ==
  ASSUME TokensInv, RegistryEdit
  PROVE  TokensInv'
<1>1. /\ UNCHANGED deployment /\ edits' \subseteq edits
      /\ held' \in [Users \X Tenants -> SUBSET RoleNames] /\ active' \subseteq active
  BY EditsOK
<1>2. PICK F : F = AllFacts'
  OBVIOUS
<1>3. /\ handler' = [h \in Handlers |->
                       IF handler[h].known = {} THEN handler[h]
                       ELSE [handler[h] EXCEPT !.known = @ \cup F]]
      /\ tokens' = tokens
  BY <1>2 DEF RegistryEdit
<1>4. ASSUME NEW h \in Handlers
      PROVE  /\ Shape(handler'[h]) /\ HandlerOK(h, handler'[h])
             /\ handler'[h].pc = "reading" => handler'[h].known # {}
             /\ handler'[h].known # {} => F \subseteq handler'[h].known
  <2>1. PICK m, n : m = handler[h] /\ n = handler'[h]
    OBVIOUS
  <2>2. Shape(m) /\ HandlerOK(h, m) /\ (m.pc = "reading" => m.known # {})
    BY <2>1 DEF TokensInv, RegistryOK, FactsOK
  <2>3. CASE m.known = {}
    <3>1. n = m
      BY <1>3, <2>1, <2>3
    <3> QED BY <2>1, <2>2, <2>3, <3>1
  <2>4. CASE m.known # {}
    <3>1. n = [m EXCEPT !.known = @ \cup F]
      BY <1>3, <2>1, <2>4
    <3>2. Shape(n) /\ HandlerOK(h, n) /\ n.known = m.known \cup F /\ n.pc = m.pc
      BY <2>2, <3>1, Learns
    <3> QED BY <2>1, <2>4, <3>2
  <2> QED BY <2>3, <2>4
<1>5. RegistryOK'
  BY <1>1, <1>3, <1>4 DEF TokensInv, RegistryOK
<1>6. FactsOK'
  BY <1>2, <1>4 DEF FactsOK
<1>7. ASSUME NEW h \in Handlers PROVE HandlerOK(h, handler[h])'
  <2>1. PICK n : n = handler'[h] /\ HandlerOK(h, n)
    BY <1>4
  <2>2. HandlerOK(h, n)'
    BY <1>1, <1>3, <2>1, Frame
  <2> QED BY <2>1, <2>2
<1>8. ASSUME NEW t \in tokens' PROVE TokenOK(t)'
  <2>1. TokenOK(t)
    BY <1>3 DEF TokensInv
  <2> QED BY <1>1, <2>1, TokenFrame
<1> QED BY <1>5, <1>6, <1>7, <1>8 DEF TokensInv

----------------------------------------------------------------------------
(* Every step *)

(* The steps that read on sign nothing, and a verdict they give is a refusal. *)
ReadStep(h) ==
  \/ ListTargets(h) \/ DeriveHome(h) \/ Discover(h) \/ ListLeniently(h)
  \/ ReadRoles(h) \/ ReadTenant(h) \/ ReadClient(h) \/ ReadDefinition(h) \/ ReadDirect(h)

LEMMA Refusal ==
  ASSUME NEW h, NEW ok, Refuse(h, ok)
  PROVE  \A v \in verdicts' \ verdicts : ~v.accept
BY DEF Refuse

LEMMA ReadStepVerdicts ==
  ASSUME NEW h \in Handlers, ReadStep(h)
  PROVE  tokens' = tokens /\ deployment' = deployment /\ \A v \in verdicts' \ verdicts : ~v.accept
<1>1. UNCHANGED verdicts \/ \E ok \in Outcomes : Refuse(h, ok)
  BY ZenonT(60) DEF ReadStep, ListTargets, DeriveHome, Discover, ListLeniently, ReadRoles, ReadTenant,
         ReadClient, ReadDefinition, ReadDirect
<1>2. Reads
  BY DEF ReadStep, ListTargets, DeriveHome, Discover, ListLeniently, ReadRoles, ReadTenant,
         ReadClient, ReadDefinition, ReadDirect
<1> QED BY SMTT(60), <1>1, <1>2, Refusal DEF Reads

(* What a step signs is justified, and what it accepts rests on current facts. *)
StepJustified ==
  /\ UNCHANGED deployment
  /\ tokens \subseteq tokens' /\ \A t \in tokens' \ tokens : JustifiedToken(t)
  /\ \A v \in verdicts' \ verdicts : v.accept => RestsOnCurrent(v)

LEMMA HandlerSteps ==
  ASSUME TokensInv, NEW h \in Handlers,
         \/ Exchange(h) \/ Validate(h) \/ ReadStep(h)
         \/ ReadLogsAuthority(h) \/ ReadLogsClient(h) \/ Sign(h) \/ Conclude(h)
  PROVE  TokensInv' /\ StepJustified
<1>1. CASE Exchange(h)
  BY <1>1, ExchangeStep DEF Exchange, Reads, StepJustified
<1>2. CASE Validate(h)
  <2>1. tokens' = tokens /\ deployment' = deployment
    BY <1>2 DEF Validate, Reads
  <2>2. \A v \in verdicts' \ verdicts : ~v.accept
    <3>1. PICK t \in tokens : \/ verdicts' = verdicts
                              \/ verdicts' = verdicts \cup
                                   {[token |-> t, accept |-> FALSE, faulty |-> FALSE,
                                     quiet |-> t.asOf = edits, known |-> AllFacts]}
      BY <1>2 DEF Validate
    <3> QED BY <3>1
  <2> QED BY <1>2, <2>1, <2>2, ValidateStep DEF StepJustified
<1>3. CASE ReadStep(h)
  <2>1. TokensInv'
    BY <1>3, ListTargetsStep, DeriveHomeStep, DiscoverStep, ListLenientlyStep, ReadRolesStep,
       ReadTenantStep, ReadClientStep, ReadDefinitionStep, ReadDirectStep DEF ReadStep
  <2> QED BY <1>3, <2>1, ReadStepVerdicts DEF StepJustified
<1>4. CASE ReadLogsAuthority(h)
  BY <1>4, ReadLogsAuthorityStep DEF ReadLogsAuthority, Reads, StepJustified
<1>5. CASE ReadLogsClient(h)
  BY <1>5, ReadLogsClientStep DEF ReadLogsClient, Reads, StepJustified
<1>6. CASE Sign(h)
  <2>1. deployment' = deployment /\ verdicts' = verdicts
    BY <1>6 DEF Sign
  <2> QED BY <1>6, <2>1, SignStep DEF StepJustified
<1>7. CASE Conclude(h)
  <2>1. tokens' = tokens /\ deployment' = deployment
    BY <1>7 DEF Conclude, Reads
  <2> QED BY <1>7, <2>1, ConcludeStep DEF StepJustified
<1> QED BY SMTT(60), <1>1, <1>2, <1>3, <1>4, <1>5, <1>6, <1>7

LEMMA NextSteps ==
  ASSUME TokensInv, [Next]_vars
  PROVE  TokensInv' /\ StepJustified
<1>1. CASE \E h \in Handlers :
             \/ Exchange(h) \/ Validate(h) \/ ReadStep(h)
             \/ ReadLogsAuthority(h) \/ ReadLogsClient(h) \/ Sign(h) \/ Conclude(h)
  BY <1>1, HandlerSteps
<1>2. CASE RegistryEdit
  <2>1. UNCHANGED <<deployment, tokens, verdicts>>
    BY <1>2, EditsOK DEF RegistryEdit
  <2> QED BY <1>2, <2>1, RegistryEditStep DEF StepJustified
<1>3. CASE UNCHANGED vars
  <2>1. /\ UNCHANGED <<deployment, held, active, edits, tokens, verdicts, handler>>
        /\ UNCHANGED <<registry, direct>>
    BY <1>3 DEF vars, registry, tokenState
  <2>2. AllFacts' = AllFacts
    BY <2>1, SameFacts
  <2>3. RegistryOK'
    BY <2>1 DEF TokensInv, RegistryOK
  <2>4. FactsOK'
    BY <2>1, <2>2 DEF TokensInv, FactsOK
  <2>5. ASSUME NEW h \in Handlers PROVE HandlerOK(h, handler[h])'
    <3>1. PICK m : m = handler[h] /\ HandlerOK(h, m)
      BY DEF TokensInv
    <3>2. HandlerOK(h, m)'
      BY <2>1, <3>1, Frame
    <3> QED BY <2>1, <3>1, <3>2
  <2>6. ASSUME NEW t \in tokens' PROVE TokenOK(t)'
    BY <2>1, TokenFrame DEF TokensInv
  <2> QED BY <2>1, <2>3, <2>4, <2>5, <2>6 DEF TokensInv, StepJustified
<1> QED BY <1>1, <1>2, <1>3 DEF Next, ReadStep

LEMMA InitInv ==
  ASSUME TokensInit
  PROVE  TokensInv
<1>1. /\ Idle.pc = "idle" /\ Idle.known = {} /\ Idle.todo = <<>>
      /\ Idle.roles = [t \in Tenants |-> {}] /\ IsState(Idle)
  BY DEF Idle, IsState, Fields
<1>2. Shape(Idle)
  BY <1>1, EmptyQueue DEF Shape
<1>3. handler = [h \in Handlers |-> Idle] /\ tokens = {}
  BY DEF TokensInit
<1>4. RegistryOK
  BY <1>2, <1>3, TokenDeployments DEF TokensInit, AuthorityInit, RegistryOK
<1>5. FactsOK
  BY <1>1, <1>3 DEF FactsOK
<1>6. \A h \in Handlers : HandlerOK(h, handler[h])
  BY <1>1, <1>3 DEF HandlerOK
<1> QED BY <1>3, <1>4, <1>5, <1>6 DEF TokensInv

----------------------------------------------------------------------------
(* The theorems *)

(* Every decision relies only on facts that held since it began, or owes the  *)
(* read that establishes them (TokenExchange, ValidateAccessToken).           *)
THEOREM TokensInvariant == Spec => []TokensInv
<1>1. TokensInit => TokensInv
  BY InitInv
<1>2. TokensInv /\ [Next]_vars => TokensInv'
  BY NextSteps
<1> QED BY <1>1, <1>2, PTL DEF Spec

LEMMA JustifiedFrame ==
  ASSUME NEW t, UNCHANGED deployment, JustifiedToken(t)
  PROVE  JustifiedToken(t)'
BY SMTT(60) DEF JustifiedToken, LogsJustified, Justified, Conveyed, CountsIn, BelongsIn, ByCreator, ByHome,
       EffectiveRole, Principal

LEMMA CurrentFrame ==
  ASSUME NEW v, UNCHANGED deployment, RestsOnCurrent(v)
  PROVE  RestsOnCurrent(v)'
BY DEF RestsOnCurrent, LogsJustified, Justified, Conveyed, CountsIn, BelongsIn, ByCreator, ByHome,
       EffectiveRole, Principal, PlatformBearer

(* Every scope of every signed token was justified by facts that held while   *)
(* its exchange was decided, whatever was edited between its reads.           *)
THEOREM SignedScopesJustified == Spec => []TokenScopesJustified
<1>1. TokensInit => TokenScopesJustified
  BY DEF TokensInit, TokenScopesJustified
<1>2. TokensInv /\ TokenScopesJustified /\ [Next]_vars => TokenScopesJustified'
  <2>1. SUFFICES ASSUME TokensInv, TokenScopesJustified, [Next]_vars
                 PROVE  TokenScopesJustified'
    OBVIOUS
  <2>2. StepJustified
    BY <2>1, NextSteps
  <2>3. ASSUME NEW t \in tokens' PROVE JustifiedToken(t)'
    BY <2>1, <2>2, JustifiedFrame DEF TokenScopesJustified, StepJustified
  <2> QED BY <2>3 DEF TokenScopesJustified
<1> QED BY <1>1, <1>2, TokensInvariant, PTL DEF Spec

(* A validation accepts a token only on the tenant, the session, the roles,    *)
(* the definitions and the assignment that held while it was taken.            *)
THEOREM AcceptedOnCurrentAuthority == Spec => []AcceptanceIsCurrent
<1>1. TokensInit => AcceptanceIsCurrent
  BY DEF TokensInit, AcceptanceIsCurrent
<1>2. TokensInv /\ AcceptanceIsCurrent /\ [Next]_vars => AcceptanceIsCurrent'
  <2>1. SUFFICES ASSUME TokensInv, AcceptanceIsCurrent, [Next]_vars
                 PROVE  AcceptanceIsCurrent'
    OBVIOUS
  <2>2. StepJustified
    BY <2>1, NextSteps
  <2>3. ASSUME NEW v \in verdicts', v.accept PROVE RestsOnCurrent(v)'
    <3>1. RestsOnCurrent(v)
      BY <2>1, <2>2, <2>3 DEF AcceptanceIsCurrent, StepJustified
    <3> QED BY <2>2, <3>1, CurrentFrame DEF StepJustified
  <2> QED BY <2>3 DEF AcceptanceIsCurrent
<1> QED BY <1>1, <1>2, TokensInvariant, PTL DEF Spec

----------------------------------------------------------------------------
(* What an exchange signs, a validation accepts *)

(* As long as no edit happens, an exchange establishes everything that a       *)
(* validation of its token will check.  In the middle of the exchange that is  *)
(* true only up to the reads it still owes, and only because of their order:    *)
(* the definitions of a role follow the read of the role, the client of the     *)
(* target comes after everything that may allow or rule out a tenant, and the   *)
(* second pass of the first cohort after the client.                           *)
Selects(x) == x.rule = "define" \/ (x.what = "ids" /\ x.rule = "must")
Follows(x, y) ==
  /\ y.what # "definition" /\ y.rule # "home"
  /\ ClientRead(x) => y.what = "ids" /\ y.rule = "must"
  /\ Selects(x) => ClientRead(y)
Ordered(q) == \A i, j \in 1..Len(q) : i < j => Follows(q[i], q[j])

(* The roles of the subject and their definitions *)
RolesRead(m, t) == m.roles[t] # {} /\ m.roles[t] = held[<<m.user, t>>]
Canonical(t, r) == definition[<<t, r>>] # Absent /\ ValidPermissions(definition[<<t, r>>])
Owes(q, t, r) == \E x \in Queued(q) : x.what = "definition" /\ x.tenant = t /\ r \in x.roles
Resolving(m, t) == RolesRead(m, t) /\ \A r \in m.roles[t] : Canonical(t, r) \/ Owes(m.todo, t, r)
Resolved(u, t) == held[<<u, t>>] # {} /\ \A r \in held[<<u, t>>] : Canonical(t, r)

(* Discovery defines the roles of these tenants before it allows them, except  *)
(* for the home that a user of the directory was given.                        *)
Vets(h, m, t) ==
  /\ Mode(h) = "v2" /\ ~PlatformFederated(h)
  /\ t # m.home \/ Principal(m.user).home = Absent
Undefined(m, t) == \A d \in m.defined : d[1] # t
Untouched(m, t) ==
  /\ Principal(m.user).home = Absent /\ t = m.home /\ Undefined(m, t)
  /\ \A r : ~Owes(m.todo, t, r)

SubjectFresh(h, m) ==
  LET s == Session(h)  a == account[m.user] IN
  /\ a.active /\ a.email = s.email /\ a.version = s.version
  /\ PlatformAuthorityValid(m.user, s.privilege, FALSE)

RolesFresh(h, m) ==
  /\ \A t \in Tenants : m.roles[t] \in {{}, held[<<m.user, t>>]}
  /\ PlatformFederated(h) /\ Discovers(h) => \A t \in Tenants : m.roles[t] = {}
  /\ \A d \in m.defined : d[1] \in Tenants =>
       d[2] \in m.roles[d[1]] /\ d[3] = definition[<<d[1], d[2]>>] /\ Canonical(d[1], d[2])

ReadFresh(h, m, x) ==
  LET t == x.tenant IN
  /\ x.what = "definition" =>
       /\ x.rule \in {"must", "skip"} /\ (x.rule = "skip" => Mode(h) = "v2")
       /\ t \in Tenants => x.roles \subseteq m.roles[t]
  /\ x.what = "roles" => x.rule \in {"must", "skip"} /\ ~(PlatformFederated(h) /\ Discovers(h))
  /\ x.what = "tenant" /\ x.rule = "skip" /\ ~PlatformFederated(h) /\ t \in Tenants => RolesRead(m, t)
  /\ x.what = "client" /\ x.rule = "skip" => Mode(h) = "v2" /\ t \in active /\ RolesRead(m, t)
  /\ x.what = "ids" /\ x.rule = "must" => Mode(h) # "v2" /\ ~(PlatformFederated(h) /\ Discovers(h))
  /\ x.rule = "define" => x.what = "tenant" /\ t = m.target /\ Mode(h) # "v2"
  /\ x.rule = "home" => m.defined = {}
  /\ ClientRead(x) => t = m.target

AllowedAt(h, m, t) ==
  /\ t \in active \/ Read("tenant", t, {}, "must") \in Queued(m.todo)
  /\ Vets(h, m, t) => Resolving(m, t) \/ Untouched(m, t)
AllowedFresh(h, m) == Discovers(h) => \A t \in m.allowed \cap Tenants : AllowedAt(h, m, t)

(* The target is discovered, *)
Settled(h, m) ==
  /\ m.target \in active /\ (Mode(h) = "v2" => m.todo = <<>>)
  /\ Vets(h, m, m.target) =>
       Resolving(m, m.target) \/ (Principal(m.user).home = Absent /\ Undefined(m, m.target))
DiscoveredFresh(h, m) ==
  Discovers(h) => Settled(h, m) \/ \E x \in Queued(m.todo) : ClientRead(x)

(* or resolved with the roles of the subject. *)
Targeted(h, m) ==
  \/ Mode(h) = "strict"
  \/ Mode(h) = "v1" /\ m.target # Principal(m.user).home /\ ~PlatformFederated(h)
ResolvedFresh(h, m) ==
  Targeted(h, m) =>
    \/ \E x \in Queued(m.todo) : x.what = "ids" /\ x.rule = "must"
    \/ /\ \E x \in Queued(m.todo) : x.rule = "define"
       /\ RolesRead(m, m.target) \/ Read("roles", m.target, {}, "must") \in Queued(m.todo)
    \/ m.target \in active /\ Resolving(m, m.target)

ClientFresh(h, m) ==
  /\ m.client = Absent => \E x \in Queued(m.todo) : ClientRead(x)
  /\ m.client # Absent => m.client = audience[m.target] /\ (Discovers(h) => m.client # {})

PlatformFresh(h, m) ==
  /\ m.direct => m.user \in direct
  /\ m.logs \in {"assigned", "granted"} =>
       IF Principal(m.user).federated THEN PlatformFederated(h) ELSE m.user \in direct

FreshExchange(h, m) ==
  /\ SubjectFresh(h, m) /\ RolesFresh(h, m)
  /\ Ordered(m.todo) /\ \A x \in Queued(m.todo) : ReadFresh(h, m, x)
  /\ AllowedFresh(h, m) /\ DiscoveredFresh(h, m) /\ ResolvedFresh(h, m)
  /\ ClientFresh(h, m) /\ PlatformFresh(h, m)

(* A token of an exchange since which no edit happened *)
Quiet(t) == t.asOf = edits /\ Comparable(t, AllFacts)

(* It names roles, which a validation reads again. *)
Named(t) == t.roles # Absent /\ ~(t.origin /\ t.roles = {})

Standing(t, s) ==
  \/ t.origin
  \/ \E r \in held[<<t.user, t.tenant>>] : s \in definition[<<t.tenant, r>>]
  \/ /\ s \in SecretScopes /\ CreatorRole[t.tenant] \in held[<<t.user, t.tenant>>]
     /\ IdentityWrite \in definition[<<t.tenant, CreatorRole[t.tenant]>>]
  \/ /\ Principal(t.user).home # Absent
     /\ s \in HomeGlobalAuthority(
                EffectiveRole(t.user, t.privilege /\ Principal(t.user).federated), t.scopes)

SessionCurrent(t) ==
  LET a == account[t.user] IN
  /\ a.active /\ a.email = t.email /\ a.version = t.version /\ FederatedHome(t)
  /\ PlatformAuthorityValid(t.user, t.privilege, t.origin)
  /\ LogsScope \in t.scopes => FederatedLogsClaims(t)

Acceptable(t) ==
  /\ SessionCurrent(t)
  /\ RecoveredClaims(t) \/ (LogsScope \in t.scopes /\ ~Principal(t.user).federated) =>
       t.user \in direct
  /\ t.tenant \in active
  /\ audience[t.tenant] \notin {Absent, {}} /\ t.scopes \subseteq audience[t.tenant]
  /\ Named(t) => t.roles = held[<<t.user, t.tenant>>] /\ Resolved(t.user, t.tenant)
  /\ t.roles # Absent => \A s \in t.scopes : Standing(t, s)

(* What a validation of it reads, and what it has read. *)
BearerRead(t, x) ==
  /\ x.what \in {"tenant", "client", "roles", "definition", "direct"} /\ x.rule = "must"
  /\ x.what # "direct" => x.tenant = t.tenant
  /\ x.what \in {"roles", "definition"} => Named(t)
  /\ x.what = "definition" => x.roles \subseteq t.roles
  /\ x.what = "direct" => t.user \in direct

FreshValidation(m) ==
  LET t == m.token IN
  /\ \A x \in Queued(m.todo) : BearerRead(t, x)
  /\ m.client = audience[t.tenant] \/ \E x \in Queued(m.todo) : x.what = "client"
  /\ Named(t) =>
       \/ RolesOwed(t) \in Queued(m.todo)
       \/ \A r \in t.roles : \/ <<t.tenant, r, definition[<<t.tenant, r>>]>> \in m.defined
                             \/ Owes(m.todo, t.tenant, r)

FreshOK(h, m) ==
  m.pc = "reading" =>
    /\ Plan(h).kind = "exchange" /\ ~Legacy(h) =>
         edits \subseteq m.asOf /\ (m.asOf = edits => FreshExchange(h, m))
    /\ Plan(h).kind = "validate" /\ Quiet(m.token) => FreshValidation(m)

FreshToken(t) ==
  t.mode # "legacy" => edits \subseteq t.asOf /\ (Quiet(t) => Acceptable(t))

FreshInv ==
  /\ \A h \in Handlers : FreshOK(h, handler[h])
  /\ \A t \in tokens : FreshToken(t)
  /\ FreshTokensAccepted

LEMMA OrderedTail ==
  ASSUME NEW q, IsSequence(q), q # <<>>, Ordered(q)
  PROVE  Ordered(Tail(q)) /\ \A y \in Queued(Tail(q)) : Follows(Head(q), y)
<1> DEFINE S == Queued(q)
<1>1. q \in Seq(S) /\ Len(q) \in Nat
  BY DEF IsSequence, Queued
<1> HIDE DEF S
<1>2. /\ Tail(q) \in Seq(S) /\ Len(Tail(q)) = Len(q) - 1
      /\ \A i \in 1..Len(Tail(q)) : Tail(q)[i] = q[i + 1]
  BY <1>1, HeadTailProperties
<1>3. Len(q) > 0 /\ Head(q) = q[1]
  BY <1>1, EmptySeq
<1>4. ASSUME NEW i \in 1..Len(Tail(q)), NEW j \in 1..Len(Tail(q)), i < j
      PROVE  Follows(Tail(q)[i], Tail(q)[j])
  <2>1. i + 1 \in 1..Len(q) /\ j + 1 \in 1..Len(q) /\ i + 1 < j + 1
    BY <1>1, <1>2, <1>4
  <2> QED BY <1>2, <2>1 DEF Ordered
<1>5. ASSUME NEW y \in Queued(Tail(q)) PROVE Follows(Head(q), y)
  <2>1. PICK i \in 1..Len(Tail(q)) : y = Tail(q)[i]
    BY DEF Queued
  <2>2. i + 1 \in 1..Len(q) /\ 1 \in 1..Len(q) /\ 1 < i + 1 /\ y = q[i + 1]
    BY <1>1, <1>2, <1>3, <2>1
  <2> QED BY <1>3, <2>2 DEF Ordered
<1> QED BY <1>4, <1>5 DEF Ordered

LEMMA OrderedConcat ==
  ASSUME NEW a, NEW b, IsSequence(a), IsSequence(b), Ordered(a), Ordered(b),
         \A x \in Queued(a), y \in Queued(b) : Follows(x, y)
  PROVE  Ordered(a \o b)
<1> DEFINE S == Queued(a) \cup Queued(b)
<1>1. a \in Seq(S) /\ b \in Seq(S)
  BY DEF IsSequence, Queued
<1>2. Len(a) \in Nat /\ Len(b) \in Nat
  BY DEF IsSequence
<1> HIDE DEF S
<1>3. /\ Len(a \o b) = Len(a) + Len(b)
      /\ \A i \in 1..(Len(a) + Len(b)) : (a \o b)[i] = IF i <= Len(a) THEN a[i] ELSE b[i - Len(a)]
  BY <1>1, ConcatProperties
<1>4. ASSUME NEW i \in 1..Len(a \o b), NEW j \in 1..Len(a \o b), i < j
      PROVE  Follows((a \o b)[i], (a \o b)[j])
  <2>1. CASE j <= Len(a)
    <3>1. i \in 1..Len(a) /\ j \in 1..Len(a) /\ (a \o b)[i] = a[i] /\ (a \o b)[j] = a[j]
      BY <1>2, <1>3, <1>4, <2>1
    <3> QED BY <1>4, <3>1 DEF Ordered
  <2>2. CASE i <= Len(a) /\ ~(j <= Len(a))
    <3>1. /\ i \in 1..Len(a) /\ j - Len(a) \in 1..Len(b)
          /\ (a \o b)[i] = a[i] /\ (a \o b)[j] = b[j - Len(a)]
      BY <1>2, <1>3, <1>4, <2>2
    <3>2. a[i] \in Queued(a) /\ b[j - Len(a)] \in Queued(b)
      BY <3>1 DEF Queued
    <3> QED BY <3>1, <3>2
  <2>3. CASE ~(i <= Len(a))
    <3>1. /\ i - Len(a) \in 1..Len(b) /\ j - Len(a) \in 1..Len(b) /\ i - Len(a) < j - Len(a)
          /\ (a \o b)[i] = b[i - Len(a)] /\ (a \o b)[j] = b[j - Len(a)]
      BY <1>2, <1>3, <1>4, <2>3
    <3> QED BY <3>1 DEF Ordered
  <2> QED BY <1>2, <1>3, <2>1, <2>2, <2>3
<1> QED BY <1>4 DEF Ordered

LEMMA OrderedSmall ==
  Ordered(<<>>) /\ \A x : Ordered(<<x>>)
BY DEF Ordered

LEMMA OrderedOn ==
  ASSUME NEW m, Shape(m), m.todo # <<>>, Ordered(m.todo), NEW r, NEW more, NEW n,
         GoesOn(m, r, more, n), Ordered(more),
         \A x \in Queued(more) : ~ClientRead(x) /\ (Selects(x) => Selects(Head(m.todo)))
  PROVE  Ordered(n.todo)
<1>1. IsSequence(Tail(m.todo))
  BY TailOf DEF Shape
<1>2. Ordered(Tail(m.todo)) /\ \A y \in Queued(Tail(m.todo)) : Follows(Head(m.todo), y)
  BY OrderedTail DEF Shape
<1>3. PICK q : q = more \o Tail(m.todo)
  OBVIOUS
<1>4. n = [r EXCEPT !.todo = q] /\ IsState(r) /\ IsSequence(more)
  BY <1>3 DEF GoesOn, Amends
<1>5. n.todo = q
  BY <1>4 DEF IsState, Fields
<1>6. \A x \in Queued(more), y \in Queued(Tail(m.todo)) : Follows(x, y)
  BY <1>2 DEF Follows
<1>7. Ordered(q)
  BY <1>1, <1>2, <1>3, <1>4, <1>6, OrderedConcat
<1> QED BY <1>5, <1>7

LEMMA Earlier ==
  ASSUME NEW S, S \subseteq Tenants, NEW x \in S, NEW y \in S, TenantOrder[x] < TenantOrder[y]
  PROVE  Cardinality({u \in S : TenantOrder[u] < TenantOrder[x]})
           < Cardinality({u \in S : TenantOrder[u] < TenantOrder[y]})
<1>1. PICK A, B : /\ A = {u \in S : TenantOrder[u] < TenantOrder[x]}
                  /\ B = {u \in S : TenantOrder[u] < TenantOrder[y]}
  OBVIOUS
<1>2. \A u \in S : TenantOrder[u] \in Nat
  BY TokenDeployments
<1>3. A \subseteq B /\ x \in B /\ x \notin A
  BY <1>1, <1>2
<1>4. IsFiniteSet(B)
  BY <1>1, TokenDeployments, FS_Subset
<1>5. IsFiniteSet(A) /\ Cardinality(A) <= Cardinality(B) /\ (Cardinality(A) = Cardinality(B) => A = B)
  BY <1>3, <1>4, FS_Subset
<1>6. Cardinality(A) \in Nat /\ Cardinality(B) \in Nat
  BY <1>4, <1>5, FS_CardinalityType
<1> QED BY <1>1, <1>3, <1>5, <1>6

(* No tenant of a list is left out. *)
LEMMA AllListed ==
  ASSUME NEW S, S \subseteq Tenants, NEW t \in S, NEW what, NEW rule
  PROVE  Read(what, t, {}, rule) \in Queued(ReadEach(what, S, rule))
<1> DEFINE L(x) == {u \in S : TenantOrder[u] < TenantOrder[x]}
<1>1. IsFiniteSet(S) /\ Cardinality(S) \in Nat
  BY TokenDeployments, FS_Subset, FS_CardinalityType
<1>2. IsFiniteSet(L(t)) /\ Cardinality(L(t)) <= Cardinality(S)
        /\ (Cardinality(L(t)) = Cardinality(S) => L(t) = S)
  BY <1>1, FS_Subset
<1>3. Cardinality(L(t)) \in Nat
  BY <1>2, FS_CardinalityType
<1>4. TenantOrder[t] \in Nat /\ \A x \in S : TenantOrder[x] \in Nat
  BY TokenDeployments
<1>5. t \notin L(t)
  BY <1>4
<1>6. PICK i : i = Cardinality(L(t)) + 1
  OBVIOUS
<1>7. Cardinality(L(t)) # Cardinality(S)
  BY <1>2, <1>5
<1>8. i \in 1..Cardinality(S) /\ i - 1 = Cardinality(L(t))
  BY ONLY <1>1, <1>2, <1>3, <1>6, <1>7
<1>9. ASSUME NEW x \in S, Cardinality(L(x)) = i - 1 PROVE x = t
  <2>1. Cardinality(L(x)) = Cardinality(L(t))
    BY <1>8, <1>9
  <2>2. ~(TenantOrder[x] < TenantOrder[t])
    <3>1. SUFFICES ASSUME TenantOrder[x] < TenantOrder[t] PROVE FALSE
      OBVIOUS
    <3>2. Cardinality(L(x)) < Cardinality(L(t))
      BY <3>1, Earlier
    <3> QED BY <1>3, <2>1, <3>2
  <2>3. ~(TenantOrder[t] < TenantOrder[x])
    <3>1. SUFFICES ASSUME TenantOrder[t] < TenantOrder[x] PROVE FALSE
      OBVIOUS
    <3>2. Cardinality(L(t)) < Cardinality(L(x))
      BY <3>1, Earlier
    <3> QED BY <1>3, <2>1, <3>2
  <2>4. TenantOrder[x] = TenantOrder[t]
    BY <1>4, <2>2, <2>3
  <2> QED BY <2>4, TokenDeployments
<1>10. InOrder(S)[i] = CHOOSE x \in S : Cardinality(L(x)) = i - 1
  BY <1>8 DEF InOrder
<1> HIDE DEF L
<1>11. InOrder(S)[i] = t
  BY <1>8, <1>9, <1>10
<1>12. PICK q : q = ReadEach(what, S, rule)
  OBVIOUS
<1>13. q[i] = Read(what, t, {}, rule)
  BY <1>8, <1>11, <1>12 DEF ReadEach
<1>14. PICK k \in Nat : k = Cardinality(S)
  BY <1>1
<1>15. q = [j \in 1..k |-> q[j]]
  BY <1>12, <1>14 DEF ReadEach
<1>16. q \in Seq({q[j] : j \in 1..k})
  BY ONLY <1>15, k \in Nat
<1>17. Len(q) = k
  BY ONLY <1>15, <1>16, k \in Nat, LenProperties
<1> QED BY <1>8, <1>12, <1>13, <1>14, <1>17 DEF Queued

----------------------------------------------------------------------------
(* Nothing is edited *)

LEMMA SameDeployment ==
  ASSUME UNCHANGED deployment, NEW h, NEW u
  PROVE  /\ Plan(h)' = Plan(h) /\ Mode(h)' = Mode(h) /\ Session(h)' = Session(h)
         /\ Principal(u)' = Principal(u) /\ (Discovers(h)' <=> Discovers(h))
         /\ (Legacy(h)' <=> Legacy(h)) /\ (PlatformFederated(h)' <=> PlatformFederated(h))
BY Zenon DEF Plan, Mode, Session, Principal, Discovers, Legacy, PlatformFederated, LocalFederated, Privileged

LEMMA SameComparable ==
  ASSUME UNCHANGED deployment, NEW t, NEW K
  PROVE  Comparable(t, K)' <=> Comparable(t, K)
BY Zenon DEF Comparable, Principal

LEMMA ExchangeFrame ==
  ASSUME NEW h, NEW m, UNCHANGED <<deployment, registry, edits, direct>>, FreshExchange(h, m)
  PROVE  FreshExchange(h, m)'
<1>1. /\ deployment' = deployment /\ account' = account /\ active' = active /\ held' = held
      /\ definition' = definition /\ audience' = audience /\ direct' = direct
  BY DEF registry
<1>2. SubjectFresh(h, m)'
  BY Zenon, <1>1 DEF FreshExchange, SubjectFresh, Session, Plan, PlatformAuthorityValid, Principal
<1>3. RolesFresh(h, m)'
  BY Zenon, <1>1 DEF FreshExchange, RolesFresh, Canonical, PlatformFederated, LocalFederated, Privileged,
     Discovers, Mode, Session, Plan, Principal
<1>4. ASSUME NEW x \in Queued(m.todo) PROVE ReadFresh(h, m, x)'
  BY Zenon, <1>1 DEF FreshExchange, ReadFresh, RolesRead, PlatformFederated, LocalFederated, Privileged,
     Discovers, Mode, Session, Plan, Principal
<1>5. AllowedFresh(h, m)'
  BY ZenonT(60), <1>1 DEF FreshExchange, AllowedFresh, AllowedAt, Vets, Resolving, RolesRead, Canonical, Untouched,
     Undefined, PlatformFederated, LocalFederated, Privileged, Discovers, Mode, Session, Plan, Principal
<1>6. DiscoveredFresh(h, m)'
  BY Zenon, <1>1 DEF FreshExchange, DiscoveredFresh, Settled, Vets, Resolving, RolesRead, Canonical,
     Undefined, PlatformFederated, LocalFederated, Privileged, Discovers, Mode, Session, Plan, Principal
<1>7. ResolvedFresh(h, m)'
  BY Zenon, <1>1 DEF FreshExchange, ResolvedFresh, Targeted, Resolving, RolesRead, Canonical,
     PlatformFederated, LocalFederated, Privileged, Mode, Session, Plan, Principal
<1>8. ClientFresh(h, m)' /\ PlatformFresh(h, m)'
  BY Zenon, <1>1 DEF FreshExchange, ClientFresh, PlatformFresh, PlatformFederated, LocalFederated, Privileged,
     Discovers, Mode, Session, Plan, Principal
<1> QED BY <1>2, <1>3, <1>4, <1>5, <1>6, <1>7, <1>8 DEF FreshExchange

LEMMA QuietFrame ==
  ASSUME NEW t, UNCHANGED <<deployment, registry, edits, direct>>
  PROVE  Quiet(t)' <=> Quiet(t)
BY SameFacts, SameComparable DEF Quiet

LEMMA AcceptableFrame ==
  ASSUME NEW t, UNCHANGED <<deployment, registry, edits, direct>>, Acceptable(t)
  PROVE  Acceptable(t)'
<1>1. /\ deployment' = deployment /\ account' = account /\ active' = active /\ held' = held
      /\ definition' = definition /\ audience' = audience /\ direct' = direct
  BY DEF registry
<1>2. SessionCurrent(t)'
  BY Zenon, <1>1 DEF Acceptable, SessionCurrent, PlatformAuthorityValid, FederatedLogsClaims,
     FederatedHome, Principal
<1>3. \A s : Standing(t, s)' <=> Standing(t, s)
  BY Zenon, <1>1 DEF Standing, Principal, EffectiveRole
<1> QED BY <1>1, <1>2, <1>3 DEF Acceptable, Resolved, Canonical, Principal

LEMMA ValidationFrame ==
  ASSUME NEW m, UNCHANGED <<deployment, registry, edits, direct>>, FreshValidation(m)
  PROVE  FreshValidation(m)'
BY DEF FreshValidation, BearerRead, registry

LEMMA FreshFrame ==
  ASSUME NEW h, NEW m, UNCHANGED <<deployment, registry, edits, direct>>, FreshOK(h, m)
  PROVE  FreshOK(h, m)'
<1>1. Plan(h)' = Plan(h) /\ (Legacy(h)' <=> Legacy(h))
  BY SameDeployment
<1>2. Quiet(m.token)' <=> Quiet(m.token)
  BY QuietFrame
<1> QED BY <1>1, <1>2, ExchangeFrame, ValidationFrame DEF FreshOK

LEMMA FreshTokenFrame ==
  ASSUME NEW t, UNCHANGED <<deployment, registry, edits, direct>>, FreshToken(t)
  PROVE  FreshToken(t)'
BY QuietFrame, AcceptableFrame DEF FreshToken

FreshVerdict(v) == v.quiet /\ ~v.faulty /\ Comparable(v.token, v.known) => v.accept

LEMMA FreshVerdictFrame ==
  ASSUME NEW v, UNCHANGED deployment, FreshVerdict(v)
  PROVE  FreshVerdict(v)'
BY SameComparable DEF FreshVerdict

LEMMA FreshKeeps ==
  ASSUME TokensInv, FreshInv, NEW h \in Handlers, NEW n, Move(h, n), FreshOK(h, n),
         UNCHANGED <<deployment, registry, edits, direct>>,
         \A t \in tokens' : t \in tokens \/ FreshToken(t),
         \A v \in verdicts' : v \in verdicts \/ FreshVerdict(v)
  PROVE  FreshInv'
<1>1. handler'[h] = n /\ \A k \in Handlers \ {h} : handler'[k] = handler[k]
  BY Moves
<1>2. ASSUME NEW k \in Handlers PROVE FreshOK(k, handler[k])'
  <2>1. PICK m : m = handler'[k] /\ FreshOK(k, m)
    BY <1>1 DEF FreshInv
  <2>2. FreshOK(k, m)'
    BY <2>1, FreshFrame
  <2> QED BY <2>1, <2>2
<1>3. ASSUME NEW t \in tokens' PROVE FreshToken(t)'
  <2>1. FreshToken(t)
    BY DEF FreshInv
  <2> QED BY <2>1, FreshTokenFrame
<1>4. ASSUME NEW v \in verdicts' PROVE FreshVerdict(v)'
  <2>1. FreshVerdict(v)
    BY DEF FreshInv, FreshTokensAccepted, FreshVerdict
  <2> QED BY <2>1, FreshVerdictFrame
<1>5. FreshTokensAccepted'
  BY <1>4 DEF FreshTokensAccepted, FreshVerdict
<1> QED BY <1>2, <1>3, <1>5 DEF FreshInv

LEMMA FreshEnd ==
  ASSUME TokensInv, FreshInv, NEW h \in Handlers, End(h),
         UNCHANGED <<deployment, registry, edits, direct>>,
         \A t \in tokens' : t \in tokens \/ FreshToken(t),
         \A v \in verdicts' : v \in verdicts \/ FreshVerdict(v)
  PROVE  FreshInv'
<1>1. PICK n : n = [Idle EXCEPT !.pc = "done"]
  OBVIOUS
<1>2. n.pc = "done"
  BY <1>1 DEF Idle
<1>3. FreshOK(h, n)
  BY <1>2 DEF FreshOK
<1> QED BY <1>1, <1>3, FreshKeeps DEF End

LEMMA LessComparable ==
  ASSUME NEW t, NEW K, NEW J, K \subseteq J, Comparable(t, J)
  PROVE  Comparable(t, K)
BY DEF Comparable

(* A validation of a quiet token is refused only after a failed read. *)
LEMMA FreshRefusal ==
  ASSUME TokensInv, FreshInv, NEW h \in Handlers, NEW m, m = handler[h], m.pc = "reading",
         NEW ok \in BOOLEAN, Refuse(h, ok), Reads,
         Plan(h).kind = "validate" /\ ok => ~Quiet(m.token)
  PROVE  FreshInv'
<1>1. /\ End(h) /\ UNCHANGED <<deployment, registry, edits, direct>> /\ tokens' = tokens
  BY DEF Refuse, Reads
<1>2. Plan(h).kind \in {"exchange", "validate"}
  BY Kinds
<1>3. CASE Plan(h).kind = "exchange"
  <2>1. verdicts' = verdicts
    BY <1>3 DEF Refuse
  <2> QED BY <1>1, <2>1, FreshEnd
<1>4. CASE Plan(h).kind = "validate"
  <2>1. PICK v : /\ v = [token |-> m.token, accept |-> FALSE, faulty |-> ~ok, known |-> m.known,
                         quiet |-> m.token.asOf = edits]
                 /\ verdicts' = verdicts \cup {v}
    BY <1>4 DEF Refuse
  <2>2. /\ v.token = m.token /\ (v.faulty <=> ~ok) /\ v.known = m.known
        /\ (v.quiet <=> m.token.asOf = edits)
    BY <2>1
  <2>3. AllFacts \subseteq m.known
    BY DEF TokensInv, FactsOK
  <2>4. FreshVerdict(v)
    BY <1>4, <2>2, <2>3, LessComparable DEF FreshVerdict, Quiet
  <2> QED BY <1>1, <2>1, <2>4, FreshEnd
<1> QED BY <1>2, <1>3, <1>4

----------------------------------------------------------------------------
(* An exchange goes on, and nothing was edited since it began *)

FreshAt(h, m) ==
  /\ AtRead(h, m) /\ Plan(h).kind = "exchange" /\ ~Legacy(h) /\ m.asOf = edits

LEMMA FreshReader ==
  ASSUME TokensInv, FreshInv, NEW h \in Handlers, NEW m, FreshAt(h, m)
  PROVE  /\ Shape(m) /\ m.todo # <<>> /\ ExchangeOK(h, m) /\ FreshExchange(h, m)
         /\ m.target \in Tenants /\ m.user \in Users /\ Head(m.todo) \in Queued(m.todo)
         /\ \A y \in Queued(Tail(m.todo)) : Follows(Head(m.todo), y)
         /\ ReadFresh(h, m, Head(m.todo))
         /\ Mode(h) \in {"strict", "v1", "v2"}
<1>1. Shape(m) /\ m.todo # <<>> /\ ExchangeOK(h, m) /\ m.user \in Users
  BY Reader DEF FreshAt, AtRead
<1>2. FreshExchange(h, m)
  BY DEF FreshInv, FreshOK, FreshAt, AtRead
<1>3. Mode(h) \in {"strict", "v1", "v2"} /\ m.target \in Tenants
  BY <1>1, Kinds DEF FreshAt, Legacy, ExchangeOK, TargetOK, Mode
<1>4. Head(m.todo) \in Queued(m.todo)
  BY <1>1, TailOf DEF Shape
<1>5. \A y \in Queued(Tail(m.todo)) : Follows(Head(m.todo), y)
  BY <1>1, <1>2, OrderedTail DEF Shape, FreshExchange
<1> QED BY <1>1, <1>2, <1>3, <1>4, <1>5 DEF FreshExchange

(* Roles that are read again are the same. *)
RolesGrow(m, r) ==
  \A t \in Tenants :
    r.roles[t] = m.roles[t] \/ (r.roles[t] # {} /\ r.roles[t] = held[<<m.user, t>>])

LEMMA GrownRoles ==
  ASSUME NEW h, NEW m, RolesFresh(h, m), NEW r, RolesGrow(m, r), r.user = m.user, NEW t \in Tenants
  PROVE  /\ m.roles[t] \subseteq r.roles[t]
         /\ RolesRead(m, t) => RolesRead(r, t) /\ r.roles[t] = m.roles[t]
BY DEF RolesFresh, RolesGrow, RolesRead

(* The definitions that the first read leaves open are read next. *)
SettlesAt(m, more, t) ==
  LET x == Head(m.todo) IN
  x.what = "definition" /\ x.tenant = t => \A r \in x.roles : Canonical(t, r) \/ Owes(more, t, r)

LEMMA OwesOn ==
  ASSUME NEW m, Shape(m), m.todo # <<>>, NEW r, NEW more, NEW n, GoesOn(m, r, more, n),
         NEW t, SettlesAt(m, more, t), NEW q, Owes(m.todo, t, q)
  PROVE  Canonical(t, q) \/ Owes(n.todo, t, q)
<1>1. /\ Queued(n.todo) = Queued(more) \cup Queued(Tail(m.todo))
      /\ Queued(m.todo) = {Head(m.todo)} \cup Queued(Tail(m.todo))
  BY GoingOn
<1> QED BY <1>1 DEF Owes, SettlesAt

LEMMA ResolvingOn ==
  ASSUME NEW h, NEW m, Shape(m), m.todo # <<>>, NEW r, NEW more, NEW n, GoesOn(m, r, more, n),
         RolesFresh(h, m), RolesGrow(m, r), NEW t \in Tenants, SettlesAt(m, more, t), Resolving(m, t)
  PROVE  Resolving(n, t)
<1>1. r.user = m.user /\ Alike(r, n)
  BY GoingOn DEF GoesOn, Amends
<1>2. RolesRead(r, t) /\ r.roles[t] = m.roles[t]
  BY <1>1, GrownRoles DEF Resolving
<1>3. \A q \in m.roles[t] : Canonical(t, q) \/ Owes(n.todo, t, q)
  BY OwesOn DEF Resolving
<1> QED BY <1>1, <1>2, <1>3 DEF Resolving, RolesRead, Alike

LEMMA ReadsFreshOn ==
  ASSUME TokensInv, FreshInv, NEW h \in Handlers, NEW m, FreshAt(h, m), NEW r, NEW more, NEW n,
         GoesOn(m, r, more, n), RolesGrow(m, r), r.target = m.target,
         \A x \in Queued(more) : ReadFresh(h, r, x)
  PROVE  \A x \in Queued(n.todo) : ReadFresh(h, n, x)
<1>1. /\ Shape(m) /\ m.todo # <<>> /\ RolesFresh(h, m) /\ \A x \in Queued(m.todo) : ReadFresh(h, m, x)
      /\ \A y \in Queued(Tail(m.todo)) : Follows(Head(m.todo), y)
  BY FreshReader DEF FreshExchange
<1>2. /\ Alike(r, n) /\ Queued(n.todo) = Queued(more) \cup Queued(Tail(m.todo))
      /\ Queued(m.todo) = {Head(m.todo)} \cup Queued(Tail(m.todo))
  BY <1>1, GoingOn
<1>3. r.user = m.user
  BY DEF GoesOn, Amends
<1>4. \A t : RolesRead(r, t) => RolesRead(n, t)
  BY <1>2 DEF RolesRead, Alike
<1>5. \A x \in Queued(more) : ReadFresh(h, n, x)
  BY <1>2, <1>4 DEF ReadFresh, Alike
<1>6. ASSUME NEW x \in Queued(Tail(m.todo)) PROVE ReadFresh(h, n, x)
  <2>1. x.rule # "home" /\ x.what # "definition" /\ ReadFresh(h, m, x)
    BY <1>1, <1>2 DEF Follows
  <2>2. x.tenant \in Tenants /\ RolesRead(m, x.tenant) => RolesRead(n, x.tenant)
    BY <1>1, <1>3, <1>4, GrownRoles
  <2>3. active \subseteq Tenants
    BY DEF TokensInv, RegistryOK
  <2> QED BY <1>2, <2>1, <2>2, <2>3 DEF ReadFresh, Alike
<1> QED BY <1>2, <1>5, <1>6

(* A tenant that stays allowed *)
LEMMA AllowedOn ==
  ASSUME TokensInv, FreshInv, NEW h \in Handlers, NEW m, FreshAt(h, m), NEW r, NEW more, NEW n,
         GoesOn(m, r, more, n), RolesGrow(m, r), r.home = m.home, NEW t \in Tenants, AllowedAt(h, m, t),
         Head(m.todo) = Read("tenant", t, {}, "must") => t \in active,
         SettlesAt(m, more, t),
         Vets(h, m, t) /\ Untouched(m, t) =>
           Resolving(n, t) \/ (Undefined(r, t) /\ \A q : ~Owes(more, t, q))
  PROVE  AllowedAt(h, n, t)
<1>1. /\ Shape(m) /\ m.todo # <<>> /\ RolesFresh(h, m)
  BY FreshReader DEF FreshExchange
<1>2. /\ Alike(r, n) /\ Queued(n.todo) = Queued(more) \cup Queued(Tail(m.todo))
      /\ Queued(m.todo) = {Head(m.todo)} \cup Queued(Tail(m.todo))
  BY <1>1, GoingOn
<1>3. n.user = m.user /\ n.home = m.home /\ n.defined = r.defined
  BY <1>2 DEF Alike, GoesOn, Amends
<1>4. t \in active \/ Read("tenant", t, {}, "must") \in Queued(n.todo)
  BY <1>2 DEF AllowedAt
<1>5. Vets(h, n, t) => Vets(h, m, t)
  BY <1>3 DEF Vets
<1>6. Resolving(m, t) => Resolving(n, t)
  BY <1>1, ResolvingOn
<1>7. ASSUME Untouched(m, t), Undefined(r, t), \A q : ~Owes(more, t, q) PROVE Untouched(n, t)
  <2>1. \A q : ~Owes(n.todo, t, q)
    BY <1>2, <1>7 DEF Untouched, Owes
  <2> QED BY <1>3, <1>7, <2>1 DEF Untouched, Undefined
<1> QED BY <1>4, <1>5, <1>6, <1>7 DEF AllowedAt

LEMMA DiscoveredOn ==
  ASSUME TokensInv, FreshInv, NEW h \in Handlers, NEW m, FreshAt(h, m), NEW r, NEW more, NEW n,
         GoesOn(m, r, more, n), r.target = m.target, ~ClientRead(Head(m.todo))
  PROVE  DiscoveredFresh(h, n)
<1>1. /\ Shape(m) /\ m.todo # <<>> /\ DiscoveredFresh(h, m)
  BY FreshReader DEF FreshExchange
<1>2. /\ Alike(r, n) /\ Queued(n.todo) = Queued(more) \cup Queued(Tail(m.todo))
      /\ Queued(m.todo) = {Head(m.todo)} \cup Queued(Tail(m.todo))
  BY <1>1, GoingOn
<1>3. Settled(h, m) => Settled(h, n)
  BY <1>1, <1>2 DEF Settled, Vets, Alike
<1> QED BY <1>1, <1>2, <1>3 DEF DiscoveredFresh

LEMMA ResolvedOn ==
  ASSUME TokensInv, FreshInv, NEW h \in Handlers, NEW m, FreshAt(h, m), NEW r, NEW more, NEW n,
         GoesOn(m, r, more, n), RolesGrow(m, r), r.target = m.target,
         ~Selects(Head(m.todo)), SettlesAt(m, more, m.target),
         Head(m.todo) = Read("roles", m.target, {}, "must") => RolesRead(r, m.target)
  PROVE  ResolvedFresh(h, n)
<1>1. /\ Shape(m) /\ m.todo # <<>> /\ ResolvedFresh(h, m) /\ RolesFresh(h, m) /\ m.target \in Tenants
  BY FreshReader DEF FreshExchange
<1>2. /\ Alike(r, n) /\ Queued(n.todo) = Queued(more) \cup Queued(Tail(m.todo))
      /\ Queued(m.todo) = {Head(m.todo)} \cup Queued(Tail(m.todo))
  BY <1>1, GoingOn
<1>3. n.user = m.user /\ n.target = m.target /\ n.roles = r.roles /\ r.user = m.user
  BY <1>2 DEF Alike, GoesOn, Amends
<1>4. Targeted(h, n) => Targeted(h, m)
  BY <1>3 DEF Targeted
<1>5. RolesRead(r, m.target) => RolesRead(n, m.target)
  BY <1>3 DEF RolesRead
<1>6. RolesRead(m, m.target) => RolesRead(n, m.target)
  BY <1>1, <1>3, <1>5, GrownRoles
<1>7. Resolving(m, m.target) => Resolving(n, m.target)
  BY <1>1, ResolvingOn
<1>8. \A x \in Queued(m.todo) : Selects(x) => x \in Queued(n.todo)
  BY <1>2
<1>9. Read("roles", m.target, {}, "must") \in Queued(m.todo) =>
        RolesRead(n, m.target) \/ Read("roles", m.target, {}, "must") \in Queued(n.todo)
  BY <1>2, <1>5
<1> QED BY <1>1, <1>3, <1>4, <1>6, <1>7, <1>8, <1>9 DEF ResolvedFresh, Selects

LEMMA ClientOn ==
  ASSUME TokensInv, FreshInv, NEW h \in Handlers, NEW m, FreshAt(h, m), NEW r, NEW more, NEW n,
         GoesOn(m, r, more, n), r.target = m.target, r.client = m.client, ~ClientRead(Head(m.todo))
  PROVE  ClientFresh(h, n)
<1>1. /\ Shape(m) /\ m.todo # <<>> /\ ClientFresh(h, m)
  BY FreshReader DEF FreshExchange
<1>2. /\ Alike(r, n) /\ Queued(n.todo) = Queued(more) \cup Queued(Tail(m.todo))
      /\ Queued(m.todo) = {Head(m.todo)} \cup Queued(Tail(m.todo))
  BY <1>1, GoingOn
<1> QED BY <1>1, <1>2 DEF ClientFresh, Alike

(* What a read leaves true of everything but the target *)
FreshReady(h, m, r, more) ==
  /\ r.target = m.target /\ RolesGrow(m, r) /\ RolesFresh(h, r) /\ PlatformFresh(h, r)
  /\ Ordered(more) /\ \A x \in Queued(more) :
       ReadFresh(h, r, x) /\ ~ClientRead(x) /\ (Selects(x) => Selects(Head(m.todo)))

LEMMA FreshAdvance ==
  ASSUME TokensInv, FreshInv, NEW h \in Handlers, NEW m, FreshAt(h, m), NEW r, NEW more, NEW n,
         GoesOn(m, r, more, n), FreshReady(h, m, r, more), AllowedFresh(h, n),
         DiscoveredFresh(h, n), ResolvedFresh(h, n), ClientFresh(h, n)
  PROVE  FreshExchange(h, n)
<1>1. /\ Shape(m) /\ m.todo # <<>> /\ FreshExchange(h, m)
  BY FreshReader
<1>2. Alike(r, n)
  BY <1>1, GoingOn
<1>3. n.user = m.user /\ r.user = m.user
  BY <1>2 DEF Alike, GoesOn, Amends
<1>4. SubjectFresh(h, n)
  BY <1>1, <1>3 DEF FreshExchange, SubjectFresh
<1>5. RolesFresh(h, n)
  BY <1>2, <1>3 DEF FreshReady, RolesFresh, Alike
<1>6. PlatformFresh(h, n)
  BY <1>2, <1>3 DEF FreshReady, PlatformFresh, Alike
<1>7. Ordered(n.todo)
  BY <1>1, OrderedOn DEF FreshReady, FreshExchange
<1>8. \A x \in Queued(n.todo) : ReadFresh(h, n, x)
  BY ReadsFreshOn DEF FreshReady
<1> QED BY <1>4, <1>5, <1>6, <1>7, <1>8 DEF FreshExchange

LEMMA FreshGoesOn ==
  ASSUME TokensInv, FreshInv, NEW h \in Handlers, NEW m, AtRead(h, m), NEW r, NEW more, NEW n,
         GoesOn(m, r, more, n), Move(h, n), Reads, UNCHANGED verdicts,
         FreshAt(h, m) => FreshExchange(h, n),
         Plan(h).kind = "validate" /\ Quiet(m.token) => FreshValidation(n)
  PROVE  FreshInv'
<1>1. Shape(m) /\ m.todo # <<>> /\ m.pc = "reading" /\ m = handler[h]
  BY Reader DEF AtRead
<1>2. Alike(r, n)
  BY <1>1, GoingOn
<1>3. n.asOf = m.asOf /\ n.token = m.token
  BY <1>2 DEF Alike, GoesOn, Amends
<1>4. FreshOK(h, m)
  BY <1>1 DEF FreshInv
<1>5. FreshOK(h, n)
  BY <1>1, <1>3, <1>4 DEF FreshOK, FreshAt
<1>6. UNCHANGED <<deployment, registry, edits, direct>> /\ tokens' = tokens
  BY DEF Reads
<1> QED BY <1>5, <1>6, FreshKeeps

----------------------------------------------------------------------------
(* The lists of tenants *)

LEMMA ListFresh ==
  ASSUME TokensInv, FreshInv, NEW h \in Handlers, NEW m, AtRead(h, m), NEW r, NEW more, NEW n,
         Head(m.todo).what = "ids", GoesOn(m, r, more, n), Move(h, n), Reads, UNCHANGED verdicts,
         Plan(h).kind = "exchange",
         FreshAt(h, m) => /\ FreshReady(h, m, r, more) /\ AllowedFresh(h, n)
                          /\ r.client = m.client /\ ResolvedFresh(h, n)
  PROVE  FreshInv'
<1>1. ASSUME FreshAt(h, m) PROVE FreshExchange(h, n)
  <2>1. FreshReady(h, m, r, more) /\ r.target = m.target /\ ~ClientRead(Head(m.todo))
    BY <1>1 DEF FreshReady, ClientRead
  <2>2. DiscoveredFresh(h, n)
    BY <1>1, <2>1, DiscoveredOn
  <2>3. ClientFresh(h, n)
    BY <1>1, <2>1, ClientOn
  <2> QED BY <1>1, <2>1, <2>2, <2>3, FreshAdvance
<1>2. Plan(h).kind # "validate"
  OBVIOUS
<1> QED BY <1>1, <1>2, FreshGoesOn

LEMMA AllowedSame ==
  ASSUME TokensInv, FreshInv, NEW h \in Handlers, NEW m, FreshAt(h, m), NEW r, NEW more, NEW n,
         GoesOn(m, r, more, n), RolesGrow(m, r), r.home = m.home, r.allowed = m.allowed,
         r.defined = m.defined, Head(m.todo).what \notin {"tenant", "definition"},
         \A x \in Queued(more) : x.what # "definition"
  PROVE  AllowedFresh(h, n)
<1>1. /\ Shape(m) /\ m.todo # <<>> /\ AllowedFresh(h, m)
  BY FreshReader DEF FreshExchange
<1>2. Alike(r, n)
  BY <1>1, GoingOn
<1>3. ASSUME NEW t \in m.allowed \cap Tenants, Discovers(h) PROVE AllowedAt(h, n, t)
  <2>1. AllowedAt(h, m, t) /\ t \in Tenants
    BY <1>1, <1>3 DEF AllowedFresh
  <2>2. Head(m.todo) # Read("tenant", t, {}, "must")
    BY ReadFields
  <2>3. SettlesAt(m, more, t) /\ \A q : ~Owes(more, t, q)
    BY DEF SettlesAt, Owes
  <2>4. Untouched(m, t) => Undefined(r, t)
    BY DEF Untouched, Undefined
  <2> QED BY <2>1, <2>2, <2>3, <2>4, AllowedOn
<1> QED BY <1>2, <1>3 DEF AllowedFresh, Alike

LEMMA OrderedUniform ==
  ASSUME NEW q, \A x \in Queued(q) : x.what \in {"roles", "tenant"} /\ x.rule \in {"must", "skip"}
  PROVE  Ordered(q)
<1>1. ASSUME NEW i \in 1..Len(q), NEW j \in 1..Len(q) PROVE Follows(q[i], q[j])
  <2>1. q[i] \in Queued(q) /\ q[j] \in Queued(q)
    BY DEF Queued
  <2> QED BY <2>1 DEF Follows, ClientRead, Selects
<1> QED BY <1>1 DEF Ordered

LEMMA ListTargetsFresh ==
  ASSUME TokensInv, FreshInv, NEW h \in Handlers, ListTargets(h)
  PROVE  FreshInv'
<1>1. PICK m, S, a, y : /\ m = handler[h] /\ S = Memberships(m.user) /\ a = ReadEach("roles", S, "must")
                        /\ y = Read("tenant", m.target, {}, "define")
  OBVIOUS
<1>2. PICK more : more = a \o <<y>>
  OBVIOUS
<1>3. PICK ok \in Outcomes :
        \/ Refuse(h, ok)
        \/ Advance(h, m, more) /\ m.target \in S /\ UNCHANGED verdicts
  BY <1>1, <1>2 DEF ListTargets
<1>4. Listing(h, "must") /\ Reads /\ ok \in BOOLEAN
  BY DEF ListTargets, Outcomes
<1>5. /\ AtRead(h, m) /\ Shape(m) /\ Plan(h).kind = "exchange" /\ m.pc = "reading"
      /\ Head(m.todo).what = "ids" /\ Head(m.todo).rule = "must"
  BY <1>1, <1>4, Lists DEF AtRead
<1>6. CASE Refuse(h, ok)
  BY <1>1, <1>4, <1>5, <1>6, FreshRefusal
<1>7. CASE Advance(h, m, more) /\ m.target \in S /\ UNCHANGED verdicts
  <2>1. IsSequence(a) /\ \A x \in Queued(a) : x.what = "roles" /\ x.rule = "must"
    BY <1>1, MembershipsOK, ListedReads
  <2>2. y.what = "tenant" /\ y.rule = "define" /\ y.tenant = m.target
    BY <1>1, ReadFields
  <2>3. PICK b : b = <<y>>
    OBVIOUS
  <2>4. IsSequence(b) /\ Queued(b) = {y} /\ Ordered(b)
    BY <2>3, OneRead, OrderedSmall
  <2>5. IsSequence(more) /\ Queued(more) = Queued(a) \cup {y}
    BY <1>2, <2>1, <2>3, <2>4, Concatenation
  <2>6. \A x \in Queued(a), z \in Queued(b) : Follows(x, z)
    BY <2>1, <2>2, <2>4 DEF Follows, ClientRead, Selects
  <2>7. Ordered(more)
    BY <1>2, <2>1, <2>3, <2>4, <2>6, OrderedUniform, OrderedConcat
  <2>8. PICK n : n = [m EXCEPT !.todo = more \o Tail(@)]
    OBVIOUS
  <2>9. GoesOn(m, m, more, n) /\ Move(h, n)
    BY <1>5, <1>7, <2>5, <2>8, AmendsItself DEF GoesOn, Advance
  <2>10. ASSUME FreshAt(h, m)
         PROVE  FreshReady(h, m, m, more) /\ AllowedFresh(h, n) /\ ResolvedFresh(h, n)
    <3>1. /\ FreshExchange(h, m) /\ ReadFresh(h, m, Head(m.todo)) /\ m.todo # <<>>
      BY <2>10, FreshReader
    <3>2. ~(PlatformFederated(h) /\ Discovers(h)) /\ Mode(h) # "v2"
      BY <1>5, <3>1 DEF ReadFresh
    <3>3. RolesGrow(m, m)
      BY DEF RolesGrow
    <3>4. \A x \in Queued(more) :
            ReadFresh(h, m, x) /\ ~ClientRead(x) /\ (Selects(x) => Selects(Head(m.todo)))
      BY <1>5, <2>1, <2>2, <2>5, <3>2 DEF ReadFresh, ClientRead, Selects
    <3>5. FreshReady(h, m, m, more)
      BY <2>7, <3>1, <3>3, <3>4 DEF FreshReady, FreshExchange
    <3>6. AllowedFresh(h, n)
      BY <1>5, <2>1, <2>2, <2>5, <2>9, <2>10, <3>3, AllowedSame
    <3>7. Queued(more) \subseteq Queued(n.todo) /\ n.target = m.target
      BY <1>5, <2>9, <3>1, GoingOn DEF Alike
    <3>8. Read("roles", m.target, {}, "must") \in Queued(a)
      BY <1>1, <1>7, MembershipsOK, AllListed
    <3>9. ResolvedFresh(h, n)
      BY <2>2, <2>5, <3>7, <3>8 DEF ResolvedFresh
    <3> QED BY <3>5, <3>6, <3>9
  <2> QED BY <1>4, <1>5, <1>7, <2>9, <2>10, ListFresh
<1> QED BY <1>3, <1>6, <1>7

LEMMA DeriveHomeFresh ==
  ASSUME TokensInv, FreshInv, NEW h \in Handlers, DeriveHome(h)
  PROVE  FreshInv'
<1>1. PICK m, first, y : /\ m = handler[h] /\ first = InOrder(Memberships(m.user))[1]
                         /\ y = Read("tenant", first, {}, "must")
  OBVIOUS
<1>2. PICK r, more : r = [m EXCEPT !.home = first, !.allowed = {first}] /\ more = <<y>>
  OBVIOUS
<1>3. PICK ok \in Outcomes : Refuse(h, ok) \/ (Advance(h, r, more) /\ UNCHANGED verdicts)
  BY <1>1, <1>2 DEF DeriveHome
<1>4. Listing(h, "home") /\ Reads /\ ok \in BOOLEAN
  BY DEF DeriveHome, Outcomes
<1>5. /\ AtRead(h, m) /\ Shape(m) /\ Plan(h).kind = "exchange" /\ m.pc = "reading"
      /\ Head(m.todo).what = "ids" /\ Head(m.todo).rule = "home"
      /\ ExchangeReadOK(h, m, Head(m.todo))
  BY <1>1, <1>4, Lists DEF AtRead
<1>6. CASE Refuse(h, ok)
  BY <1>1, <1>4, <1>5, <1>6, FreshRefusal
<1>7. CASE Advance(h, r, more) /\ UNCHANGED verdicts
  <2>1. /\ Amends(m, r) /\ r.roles = m.roles /\ r.defined = m.defined /\ r.target = m.target
        /\ r.client = m.client /\ r.logs = m.logs /\ r.direct = m.direct
        /\ r.home = first /\ r.allowed = {first}
    BY <1>2, <1>5 DEF Amends, Shape, IsState, Fields
  <2>2. y.what = "tenant" /\ y.rule = "must" /\ y.tenant = first
    BY <1>1, ReadFields
  <2>3. IsSequence(more) /\ Queued(more) = {y} /\ Ordered(more)
    BY <1>2, OneRead, OrderedSmall
  <2>4. PICK n : n = [r EXCEPT !.todo = more \o Tail(@)]
    OBVIOUS
  <2>5. GoesOn(m, r, more, n) /\ Move(h, n)
    BY <1>7, <2>1, <2>3, <2>4 DEF GoesOn, Advance
  <2>6. ASSUME FreshAt(h, m)
        PROVE  FreshReady(h, m, r, more) /\ AllowedFresh(h, n) /\ ResolvedFresh(h, n)
    <3>1. /\ FreshExchange(h, m) /\ ReadFresh(h, m, Head(m.todo)) /\ m.todo # <<>>
          /\ \A z \in Queued(Tail(m.todo)) : Follows(Head(m.todo), z)
      BY <2>6, FreshReader
    <3>2. r.user = m.user /\ RolesGrow(m, r)
      BY <2>1 DEF RolesGrow, Amends
    <3>3. RolesFresh(h, r) /\ PlatformFresh(h, r)
      BY <2>1, <3>1, <3>2 DEF FreshExchange, RolesFresh, PlatformFresh
    <3>4. ReadFresh(h, r, y) /\ ~ClientRead(y) /\ ~Selects(y)
      BY <2>2 DEF ReadFresh, ClientRead, Selects
    <3>5. FreshReady(h, m, r, more)
      BY <2>1, <2>3, <3>2, <3>3, <3>4 DEF FreshReady
    <3>6. /\ Alike(r, n) /\ Queued(n.todo) = Queued(more) \cup Queued(Tail(m.todo))
      BY <1>5, <2>5, <3>1, GoingOn
    <3>7. \A q : ~Owes(n.todo, first, q)
      BY <2>2, <2>3, <3>1, <3>6 DEF Owes, Follows
    <3>8. Untouched(n, first)
      BY <1>5, <2>1, <3>1, <3>2, <3>6, <3>7 DEF Untouched, Undefined, Alike, ReadFresh, ExchangeReadOK
    <3>9. AllowedAt(h, n, first)
      BY <1>1, <2>3, <3>6, <3>8 DEF AllowedAt
    <3>10. AllowedFresh(h, n)
      BY <2>1, <3>6, <3>9 DEF AllowedFresh, Alike
    <3>11. ~Selects(Head(m.todo)) /\ SettlesAt(m, more, m.target)
      BY <1>5 DEF Selects, SettlesAt
    <3>12. Head(m.todo) # Read("roles", m.target, {}, "must")
      BY <1>5, ReadFields
    <3>13. ResolvedFresh(h, n)
      BY <2>1, <2>5, <2>6, <3>2, <3>11, <3>12, ResolvedOn
    <3> QED BY <3>5, <3>10, <3>13
  <2> QED BY <1>4, <1>5, <1>7, <2>1, <2>5, <2>6, ListFresh
<1> QED BY <1>3, <1>6, <1>7

LEMMA DiscoverFresh ==
  ASSUME TokensInv, FreshInv, NEW h \in Handlers, Discover(h)
  PROVE  FreshInv'
<1>1. PICK m, ids : m = handler[h] /\ ids = IF PlatformFederated(h) THEN active ELSE Memberships(m.user)
  OBVIOUS
<1>2. PICK r, more : r = [m EXCEPT !.ids = ids] /\ more = LoopReads(h, ids)
  OBVIOUS
<1>3. PICK ok \in Outcomes : Refuse(h, ok) \/ (Advance(h, r, more) /\ UNCHANGED verdicts)
  BY <1>1, <1>2 DEF Discover
<1>4. Listing(h, "skip") /\ Reads /\ ok \in BOOLEAN
  BY DEF Discover, Outcomes
<1>5. /\ AtRead(h, m) /\ Shape(m) /\ Plan(h).kind = "exchange" /\ m.pc = "reading"
      /\ Head(m.todo).what = "ids" /\ Head(m.todo).rule = "skip"
  BY <1>1, <1>4, Lists DEF AtRead
<1>6. CASE Refuse(h, ok)
  BY <1>1, <1>4, <1>5, <1>6, FreshRefusal
<1>7. CASE Advance(h, r, more) /\ UNCHANGED verdicts
  <2>1. /\ Amends(m, r) /\ r.roles = m.roles /\ r.defined = m.defined /\ r.target = m.target
        /\ r.client = m.client /\ r.logs = m.logs /\ r.direct = m.direct
        /\ r.home = m.home /\ r.allowed = m.allowed
    BY <1>2, <1>5 DEF Amends, Shape, IsState, Fields
  <2>2. ids \subseteq Tenants
    BY <1>1, MembershipsOK DEF TokensInv, RegistryOK
  <2>3. PICK S, what : /\ S \subseteq Tenants /\ more = ReadEach(what, S, "skip")
                       /\ what = IF PlatformFederated(h) THEN "tenant" ELSE "roles"
    BY <1>2, <2>2 DEF LoopReads
  <2>4. IsSequence(more) /\ \A x \in Queued(more) : x.what = what /\ x.rule = "skip"
    BY <2>3, ListedReads
  <2>5. Ordered(more)
    BY <2>3, <2>4, OrderedUniform
  <2>6. PICK n : n = [r EXCEPT !.todo = more \o Tail(@)]
    OBVIOUS
  <2>7. GoesOn(m, r, more, n) /\ Move(h, n)
    BY <1>7, <2>1, <2>4, <2>6 DEF GoesOn, Advance
  <2>8. ASSUME FreshAt(h, m)
        PROVE  FreshReady(h, m, r, more) /\ AllowedFresh(h, n) /\ ResolvedFresh(h, n)
    <3>1. FreshExchange(h, m)
      BY <2>8, FreshReader
    <3>2. r.user = m.user /\ RolesGrow(m, r)
      BY <2>1 DEF RolesGrow, Amends
    <3>3. RolesFresh(h, r) /\ PlatformFresh(h, r)
      BY <2>1, <3>1, <3>2 DEF FreshExchange, RolesFresh, PlatformFresh
    <3>4. \A x \in Queued(more) : ReadFresh(h, r, x) /\ ~ClientRead(x) /\ ~Selects(x)
      BY <2>3, <2>4 DEF ReadFresh, ClientRead, Selects
    <3>5. FreshReady(h, m, r, more)
      BY <2>1, <2>5, <3>2, <3>3, <3>4 DEF FreshReady
    <3>6. AllowedFresh(h, n)
      BY <1>5, <2>1, <2>3, <2>4, <2>7, <2>8, <3>2, AllowedSame
    <3>7. ~Selects(Head(m.todo)) /\ SettlesAt(m, more, m.target)
      BY <1>5 DEF Selects, SettlesAt
    <3>8. Head(m.todo) # Read("roles", m.target, {}, "must")
      BY <1>5, ReadFields
    <3>9. ResolvedFresh(h, n)
      BY <2>1, <2>7, <2>8, <3>2, <3>7, <3>8, ResolvedOn
    <3> QED BY <3>5, <3>6, <3>9
  <2> QED BY <1>4, <1>5, <1>7, <2>1, <2>7, <2>8, ListFresh
<1> QED BY <1>3, <1>6, <1>7

LEMMA ListLenientlyFresh ==
  ASSUME TokensInv, FreshInv, NEW h \in Handlers, ListLeniently(h)
  PROVE  FreshInv'
<1>1. PICK m : m = handler[h]
  OBVIOUS
<1>2. Listing(h, "lenient") /\ Reads
  BY DEF ListLeniently
<1>3. PICK ok \in Outcomes : Refuse(h, ok) \/ (UNCHANGED verdicts /\ \E n : Move(h, n))
  BY <1>1 DEF ListLeniently, Advance
<1>4. /\ Plan(h).kind = "exchange" /\ m.pc = "reading" /\ Legacy(h) /\ ok \in BOOLEAN
  <2>1. /\ Plan(h).kind = "exchange" /\ AtRead(h, m) /\ ExchangeReadOK(h, m, Head(m.todo))
        /\ Head(m.todo).what = "ids" /\ Head(m.todo).rule = "lenient"
    BY <1>1, <1>2, Lists
  <2> QED BY <2>1 DEF AtRead, ExchangeReadOK, Outcomes
<1>5. CASE Refuse(h, ok)
  BY <1>1, <1>2, <1>4, <1>5, FreshRefusal
<1>6. CASE UNCHANGED verdicts /\ \E n : Move(h, n)
  <2>1. PICK n : Move(h, n)
    BY <1>6
  <2>2. FreshOK(h, n)
    BY <1>4 DEF FreshOK
  <2>3. UNCHANGED <<deployment, registry, edits, direct>> /\ tokens' = tokens
    BY <1>2 DEF Reads
  <2> QED BY <1>6, <2>1, <2>2, <2>3, FreshKeeps
<1> QED BY <1>3, <1>5, <1>6

----------------------------------------------------------------------------
(* The other reads *)

(* A validation goes on: what it reads next, and what the first read gave. *)
LEMMA ValidationOn ==
  ASSUME NEW m, Shape(m), m.todo # <<>>, NEW r, NEW more, NEW n, GoesOn(m, r, more, n),
         FreshValidation(m), \A x \in Queued(more) : BearerRead(m.token, x),
         r.client = IF Head(m.todo).what = "client" THEN audience[m.token.tenant] ELSE m.client,
         m.defined \subseteq r.defined,
         Head(m.todo) # RolesOwed(m.token) \/ \A q \in m.token.roles : Owes(more, m.token.tenant, q),
         Head(m.todo).what = "definition" => \A q \in Head(m.todo).roles :
           \/ <<m.token.tenant, q, definition[<<m.token.tenant, q>>]>> \in r.defined
           \/ Owes(more, m.token.tenant, q)
  PROVE  FreshValidation(n)
<1>1. /\ Alike(r, n) /\ Queued(n.todo) = Queued(more) \cup Queued(Tail(m.todo))
      /\ Queued(m.todo) = {Head(m.todo)} \cup Queued(Tail(m.todo))
  BY SMTT(60), GoingOn
<1>2. n.token = m.token /\ n.client = r.client /\ n.defined = r.defined
  BY <1>1 DEF Alike, GoesOn, Amends
<1>3. PICK t : t = m.token
  OBVIOUS
<1>4. \A x \in Queued(n.todo) : BearerRead(t, x)
  BY <1>1, <1>3 DEF FreshValidation
<1>5. n.client = audience[t.tenant] \/ \E x \in Queued(n.todo) : x.what = "client"
  BY <1>1, <1>2, <1>3 DEF FreshValidation
<1>6. \A q : Owes(more, t.tenant, q) => Owes(n.todo, t.tenant, q)
  BY <1>1 DEF Owes
<1>7. ASSUME Named(t)
      PROVE  \/ RolesOwed(t) \in Queued(n.todo)
             \/ \A q \in t.roles : \/ <<t.tenant, q, definition[<<t.tenant, q>>]>> \in n.defined
                                   \/ Owes(n.todo, t.tenant, q)
  <2>1. CASE RolesOwed(t) \in Queued(m.todo)
    BY <1>1, <1>3, <1>6, <2>1
  <2>2. CASE RolesOwed(t) \notin Queued(m.todo)
    <3>1. ASSUME NEW q \in t.roles
          PROVE  \/ <<t.tenant, q, definition[<<t.tenant, q>>]>> \in n.defined
                 \/ Owes(n.todo, t.tenant, q)
      <4>1. \/ <<t.tenant, q, definition[<<t.tenant, q>>]>> \in m.defined
            \/ Owes(m.todo, t.tenant, q)
        BY <1>3, <1>7, <2>2 DEF FreshValidation
      <4>2. CASE <<t.tenant, q, definition[<<t.tenant, q>>]>> \in m.defined
        BY <1>2, <4>2
      <4>3. CASE Owes(m.todo, t.tenant, q)
        <5>1. PICK x \in Queued(m.todo) : x.what = "definition" /\ x.tenant = t.tenant /\ q \in x.roles
          BY <4>3 DEF Owes
        <5>2. CASE x = Head(m.todo)
          BY <1>2, <1>3, <1>6, <5>1, <5>2
        <5>3. CASE x # Head(m.todo)
          BY <1>1, <5>1, <5>3 DEF Owes
        <5> QED BY <5>2, <5>3
      <4> QED BY <4>1, <4>2, <4>3
    <3> QED BY <3>1
  <2> QED BY <2>1, <2>2
<1> QED BY <1>2, <1>3, <1>4, <1>5, <1>7 DEF FreshValidation

(* The bearer of a quiet token, at a read of its validation *)
LEMMA FreshBearer ==
  ASSUME TokensInv, FreshInv, NEW h \in Handlers, NEW m, AtRead(h, m), Plan(h).kind = "validate",
         Quiet(m.token)
  PROVE  /\ Shape(m) /\ m.todo # <<>> /\ m.user = m.token.user
         /\ m.token.tenant \in Tenants /\ m.token.user \in Users
         /\ FreshValidation(m) /\ Acceptable(m.token) /\ BearerRead(m.token, Head(m.todo))
<1>1. Shape(m) /\ m.todo # <<>> /\ ValidationOK(h, m) /\ m.pc = "reading" /\ m = handler[h]
  BY Reader DEF AtRead
<1>2. m.token \in tokens /\ m.user = m.token.user
  BY <1>1 DEF ValidationOK
<1>3. m.token.tenant \in Tenants /\ m.token.user \in Users
  BY <1>2 DEF TokensInv, TokenOK
<1>4. FreshValidation(m)
  BY <1>1 DEF FreshInv, FreshOK
<1>5. Acceptable(m.token)
  BY <1>2 DEF FreshInv, FreshToken, Quiet, Comparable
<1>6. Head(m.todo) \in Queued(m.todo)
  BY <1>1, TailOf DEF Shape
<1> QED BY <1>1, <1>2, <1>3, <1>4, <1>5, <1>6 DEF FreshValidation

LEMMA DefinitionsOwed ==
  ASSUME NEW t, NEW roles, NEW rule, NEW q \in roles
  PROVE  Owes(Definitions(t, roles, rule), t, q)
<1>1. PICK x : x = Read("definition", t, roles, rule)
  OBVIOUS
<1>2. Definitions(t, roles, rule) = <<x>>
  BY <1>1 DEF Definitions
<1>3. Queued(<<x>>) = {x}
  BY OneRead
<1>4. x.what = "definition" /\ x.tenant = t /\ x.roles = roles
  BY <1>1, ReadFields
<1> QED BY <1>2, <1>3, <1>4 DEF Owes

LEMMA DefinitionsOrdered ==
  ASSUME NEW t, NEW roles, NEW rule
  PROVE  Ordered(Definitions(t, roles, rule))
BY OrderedSmall DEF Definitions

LEMMA ReadRolesFresh ==
  ASSUME TokensInv, FreshInv, NEW h \in Handlers, ReadRoles(h)
  PROVE  FreshInv'
<1>1. PICK m, x : m = handler[h] /\ x = Head(m.todo)
  OBVIOUS
<1>2. Reading(h, "roles") /\ Reads
  BY DEF ReadRoles
<1>3. PICK ok \in Outcomes :
        LET own == IF x.rule = "lenient" THEN {Principal(m.user).role} ELSE {}
            roles == (IF ok THEN held[<<m.user, x.tenant>>] ELSE {}) \cup own
        IN IF /\ ok \/ x.rule = "lenient"
              /\ roles # {}
              /\ Plan(h).kind = "validate" => roles = m.token.roles
           THEN /\ Advance(h, [m EXCEPT !.roles[x.tenant] = roles],
                     IF x.rule \in {"resolve", "lenient"} \/ Plan(h).kind = "validate"
                     THEN Definitions(x.tenant, roles, x.rule)
                     ELSE IF x.rule = "skip" THEN <<Read("tenant", x.tenant, {}, "skip")>> ELSE <<>>)
                /\ UNCHANGED verdicts
           ELSE Refuse(h, ok)
  BY ZenonT(60), <1>1 DEF ReadRoles, Head1
<1>4. PICK own, roles, r, more :
        /\ own = IF x.rule = "lenient" THEN {Principal(m.user).role} ELSE {}
        /\ roles = (IF ok THEN held[<<m.user, x.tenant>>] ELSE {}) \cup own
        /\ r = [m EXCEPT !.roles[x.tenant] = roles]
        /\ more = IF x.rule \in {"resolve", "lenient"} \/ Plan(h).kind = "validate"
                  THEN Definitions(x.tenant, roles, x.rule)
                  ELSE IF x.rule = "skip" THEN <<Read("tenant", x.tenant, {}, "skip")>> ELSE <<>>
  OBVIOUS
<1>5. IF /\ ok \/ x.rule = "lenient"
         /\ roles # {}
         /\ Plan(h).kind = "validate" => roles = m.token.roles
      THEN Advance(h, r, more) /\ UNCHANGED verdicts
      ELSE Refuse(h, ok)
  BY Zenon, <1>3, <1>4
<1>6. /\ AtRead(h, m) /\ Shape(m) /\ x.what = "roles" /\ m.pc = "reading" /\ m.todo # <<>>
      /\ Plan(h).kind = "validate" => x.rule = "must"
      /\ ok \in BOOLEAN
  <2>1. /\ AtRead(h, m) /\ Shape(m) /\ x.what = "roles"
        /\ Plan(h).kind = "validate" => x.rule = "must"
    BY <1>1, <1>2, AtHead
  <2> QED BY <2>1 DEF AtRead, Outcomes
<1>7. ASSUME Plan(h).kind = "validate", Quiet(m.token)
      PROVE  /\ x.tenant = m.token.tenant /\ Named(m.token) /\ FreshValidation(m)
             /\ m.token.roles # {} /\ m.token.roles = held[<<m.user, x.tenant>>]
  <2>1. /\ FreshValidation(m) /\ m.user = m.token.user
        /\ BearerRead(m.token, x) /\ Acceptable(m.token)
    BY <1>1, <1>6, <1>7, FreshBearer
  <2> QED BY <1>6, <2>1 DEF BearerRead, Acceptable, Resolved
<1>8. CASE /\ Refuse(h, ok)
           /\ ok /\ Plan(h).kind = "validate" => roles = {} \/ roles # m.token.roles
  <2>1. ASSUME Plan(h).kind = "validate", ok PROVE ~Quiet(m.token)
    BY <1>4, <1>6, <1>7, <1>8, <2>1
  <2> QED BY <1>1, <1>2, <1>6, <1>8, <2>1, FreshRefusal
<1>9. CASE /\ ok \/ x.rule = "lenient"
           /\ roles # {}
           /\ Plan(h).kind = "validate" => roles = m.token.roles
           /\ Advance(h, r, more) /\ UNCHANGED verdicts
  <2>1. /\ Amends(m, r) /\ r.defined = m.defined /\ r.target = m.target
        /\ r.client = m.client /\ r.logs = m.logs /\ r.direct = m.direct
        /\ r.home = m.home /\ r.allowed = m.allowed
        /\ r.roles = [m.roles EXCEPT ![x.tenant] = roles]
    BY <1>4, <1>6 DEF Amends, Shape, IsState, Fields
  <2>2. IsSequence(more)
    BY <1>4, DefinitionReads, OneRead, EmptyQueue
  <2>3. PICK n : n = [r EXCEPT !.todo = more \o Tail(@)]
    OBVIOUS
  <2>4. GoesOn(m, r, more, n) /\ Move(h, n)
    BY <1>9, <2>1, <2>2, <2>3 DEF GoesOn, Advance
  <2>5. ASSUME FreshAt(h, m) PROVE FreshExchange(h, n)
    <3>1. /\ FreshExchange(h, m) /\ ReadFresh(h, m, x) /\ m.target \in Tenants
          /\ Plan(h).kind = "exchange"
      BY <1>1, <2>5, FreshReader DEF FreshAt
    <3>2. x.rule \in {"must", "skip"} /\ ~(PlatformFederated(h) /\ Discovers(h))
      BY <1>6, <3>1 DEF ReadFresh
    <3>3. roles # {} /\ roles = held[<<m.user, x.tenant>>]
      BY <1>4, <1>9, <3>2
    <3>4. \A t \in Tenants : r.roles[t] = IF t = x.tenant THEN roles ELSE m.roles[t]
      BY <1>6, <2>1 DEF Shape
    <3>5. RolesGrow(m, r) /\ r.user = m.user
      BY <2>1, <3>3, <3>4 DEF RolesGrow, Amends
    <3>6. x.tenant \in Tenants => RolesRead(r, x.tenant)
      BY <3>3, <3>4, <3>5 DEF RolesRead
    <3>7. RolesFresh(h, r)
      <4>1. \A t \in Tenants : r.roles[t] \in {{}, held[<<m.user, t>>]}
        BY <3>1, <3>3, <3>4 DEF FreshExchange, RolesFresh
      <4>2. \A t \in Tenants : m.roles[t] \subseteq r.roles[t]
        BY <3>1, <3>5, GrownRoles DEF FreshExchange
      <4> QED BY <2>1, <3>1, <3>2, <3>5, <4>1, <4>2 DEF FreshExchange, RolesFresh
    <3>8. PlatformFresh(h, r)
      BY <2>1, <3>1, <3>5 DEF FreshExchange, PlatformFresh
    <3>9. /\ Ordered(more) /\ \A y \in Queued(more) :
               y.what = "tenant" /\ y.rule = "skip" /\ y.tenant = x.tenant
      <4>1. more = IF x.rule = "skip" THEN <<Read("tenant", x.tenant, {}, "skip")>> ELSE <<>>
        BY <1>4, <3>1, <3>2
      <4> QED BY <4>1, OneRead, EmptyQueue, OrderedSmall, ReadFields
    <3>10. \A y \in Queued(more) : ReadFresh(h, r, y) /\ ~ClientRead(y) /\ ~Selects(y)
      BY <3>6, <3>9 DEF ReadFresh, ClientRead, Selects
    <3>11. FreshReady(h, m, r, more)
      BY <2>1, <3>5, <3>7, <3>8, <3>9, <3>10 DEF FreshReady
    <3>12. AllowedFresh(h, n)
      BY <1>1, <1>6, <2>1, <2>4, <2>5, <3>5, <3>9, AllowedSame
    <3>13. ~ClientRead(Head(m.todo)) /\ ~Selects(Head(m.todo)) /\ SettlesAt(m, more, m.target)
      BY <1>1, <1>6, <3>2 DEF ClientRead, Selects, SettlesAt
    <3>14. x = Read("roles", m.target, {}, "must") => RolesRead(r, m.target)
      BY <3>1, <3>6, ReadFields
    <3>15. DiscoveredFresh(h, n) /\ ClientFresh(h, n)
      BY <2>1, <2>4, <2>5, <3>13, DiscoveredOn, ClientOn
    <3>16. ResolvedFresh(h, n)
      BY <1>1, <2>1, <2>4, <2>5, <3>5, <3>13, <3>14, ResolvedOn
    <3> QED BY <2>4, <2>5, <3>11, <3>12, <3>15, <3>16, FreshAdvance
  <2>6. ASSUME Plan(h).kind = "validate", Quiet(m.token) PROVE FreshValidation(n)
    <3>1. more = Definitions(x.tenant, roles, "must") /\ roles = m.token.roles
      BY <1>4, <1>6, <1>9, <2>6
    <3>2. x.tenant = m.token.tenant /\ Named(m.token) /\ FreshValidation(m)
      BY <1>7, <2>6
    <3>3. \A y \in Queued(more) : BearerRead(m.token, y)
      BY <3>1, <3>2, DefinitionReads DEF BearerRead
    <3>4. \A q \in m.token.roles : Owes(more, m.token.tenant, q)
      BY <3>1, <3>2, DefinitionsOwed
    <3> QED BY <1>1, <1>6, <2>1, <2>4, <3>2, <3>3, <3>4, ValidationOn
  <2> QED BY <1>2, <1>6, <1>9, <2>4, <2>5, <2>6, FreshGoesOn
<1> QED BY Zenon, <1>8, <1>9, <1>5

(* Discovery leaves a tenant out. *)
LEMMA SkipFresh ==
  ASSUME TokensInv, FreshInv, NEW h \in Handlers, NEW m, AtRead(h, m), NEW x, x = Head(m.todo),
         x.rule = "skip", x.what \in {"tenant", "client"}, Reads, UNCHANGED verdicts,
         Advance(h, m, <<>>)
  PROVE  FreshInv'
<1>1. Shape(m) /\ m.todo # <<>> /\ (Plan(h).kind = "validate" => ValidationOK(h, m))
  BY Reader DEF AtRead
<1>2. PICK more, n : more = <<>> /\ n = [m EXCEPT !.todo = more \o Tail(@)]
  OBVIOUS
<1>3. IsSequence(more) /\ Queued(more) = {} /\ Ordered(more)
  BY <1>2, EmptyQueue, OrderedSmall
<1>4. GoesOn(m, m, more, n) /\ Move(h, n)
  BY <1>1, <1>2, <1>3, AmendsItself DEF GoesOn, Advance
<1>5. ASSUME FreshAt(h, m) PROVE FreshExchange(h, n)
  <2>1. FreshExchange(h, m)
    BY <1>5, FreshReader
  <2>2. RolesGrow(m, m)
    BY DEF RolesGrow
  <2>3. FreshReady(h, m, m, more)
    BY <1>3, <2>1, <2>2 DEF FreshReady, FreshExchange
  <2>4. \A t : SettlesAt(m, more, t) /\ \A q : ~Owes(more, t, q)
    BY <1>3 DEF SettlesAt, Owes
  <2>5. \A t : x # Read("tenant", t, {}, "must") /\ x # Read("roles", t, {}, "must")
    BY ReadFields
  <2>6. \A t \in Tenants : AllowedAt(h, m, t) => AllowedAt(h, n, t)
    BY <1>4, <1>5, <2>2, <2>4, <2>5, AllowedOn DEF Untouched
  <2>7. Alike(m, n)
    BY <1>1, <1>4, GoingOn
  <2>8. AllowedFresh(h, n)
    BY <2>1, <2>6, <2>7 DEF FreshExchange, AllowedFresh, Alike
  <2>9. ~ClientRead(x) /\ ~Selects(x)
    BY DEF ClientRead, Selects
  <2>10. DiscoveredFresh(h, n) /\ ClientFresh(h, n) /\ ResolvedFresh(h, n)
    BY <1>4, <1>5, <2>2, <2>4, <2>5, <2>9, DiscoveredOn, ClientOn, ResolvedOn
  <2> QED BY <1>4, <1>5, <2>3, <2>8, <2>10, FreshAdvance
<1>6. Plan(h).kind # "validate"
  BY <1>1, TailOf DEF Shape, ValidationOK
<1> QED BY <1>4, <1>5, <1>6, FreshGoesOn

LEMMA ReadTenantFresh ==
  ASSUME TokensInv, FreshInv, NEW h \in Handlers, ReadTenant(h)
  PROVE  FreshInv'
<1>1. PICK m, x : m = handler[h] /\ x = Head(m.todo)
  OBVIOUS
<1>2. Reading(h, "tenant") /\ Reads
  BY DEF ReadTenant
<1>3. PICK partial, more :
        /\ partial = (x.rule = "skip" /\ (PlatformFederated(h) \/ Mode(h) = "v1" \/
                        (x.tenant = m.home /\ Principal(m.user).home # Absent)))
        /\ more = IF x.rule = "define" THEN Definitions(x.tenant, m.roles[x.tenant], "must")
                  ELSE IF x.rule = "skip" /\ Full(h, x.tenant)
                  THEN <<Read("client", x.tenant, {}, "skip")>> ELSE <<>>
  OBVIOUS
<1>4. PICK ok \in Outcomes :
        IF ok /\ x.tenant \in active
        THEN /\ Advance(h, [m EXCEPT !.allowed = IF partial THEN @ \cup {x.tenant} ELSE @], more)
             /\ UNCHANGED verdicts
        ELSE IF ok /\ x.rule = "skip" THEN Advance(h, m, <<>>) /\ UNCHANGED verdicts
        ELSE Refuse(h, ok)
  BY Zenon, <1>1, <1>3 DEF ReadTenant, Head1
<1>5. /\ AtRead(h, m) /\ Shape(m) /\ x.what = "tenant" /\ m.pc = "reading" /\ m.todo # <<>>
      /\ Plan(h).kind = "validate" => x.rule = "must"
      /\ ok \in BOOLEAN
  <2>1. /\ AtRead(h, m) /\ Shape(m) /\ x.what = "tenant"
        /\ Plan(h).kind = "validate" => x.rule = "must"
    BY <1>1, <1>2, AtHead
  <2> QED BY <2>1 DEF AtRead, Outcomes
<1>6. ASSUME Plan(h).kind = "validate", Quiet(m.token)
      PROVE  x.tenant \in active /\ FreshValidation(m)
  <2>1. FreshValidation(m) /\ BearerRead(m.token, x) /\ Acceptable(m.token)
    BY <1>1, <1>5, <1>6, FreshBearer
  <2> QED BY <1>5, <2>1 DEF BearerRead, Acceptable
<1>7. CASE Refuse(h, ok) /\ ~(ok /\ x.tenant \in active)
  <2>1. ASSUME Plan(h).kind = "validate", ok PROVE ~Quiet(m.token)
    BY <1>6, <1>7, <2>1
  <2> QED BY <1>1, <1>2, <1>5, <1>7, <2>1, FreshRefusal
<1>8. CASE /\ x.tenant \in active /\ UNCHANGED verdicts
           /\ Advance(h, [m EXCEPT !.allowed = IF partial THEN @ \cup {x.tenant} ELSE @], more)
  <2>1. PICK A : A = IF partial THEN m.allowed \cup {x.tenant} ELSE m.allowed
    OBVIOUS
  <2>2. PICK r : r = [m EXCEPT !.allowed = A]
    OBVIOUS
  <2>3. Advance(h, r, more)
    BY Zenon, <1>8, <2>1, <2>2
  <2>4. /\ Amends(m, r) /\ r.defined = m.defined /\ r.target = m.target
        /\ r.client = m.client /\ r.logs = m.logs /\ r.direct = m.direct
        /\ r.home = m.home /\ r.allowed = A /\ r.roles = m.roles /\ r.user = m.user
    BY <1>5, <2>2, AllowedChange
  <2>5. IsSequence(more)
    BY <1>3, DefinitionReads, OneRead, EmptyQueue
  <2>6. PICK n : n = [r EXCEPT !.todo = more \o Tail(@)]
    OBVIOUS
  <2>7. GoesOn(m, r, more, n) /\ Move(h, n)
    BY <2>3, <2>4, <2>5, <2>6 DEF GoesOn, Advance
  <2>8. ASSUME FreshAt(h, m) PROVE FreshExchange(h, n)
    <3>1. /\ FreshExchange(h, m) /\ ReadFresh(h, m, x) /\ m.target \in Tenants
          /\ \A y \in Queued(Tail(m.todo)) : Follows(x, y)
      BY <1>1, <2>8, FreshReader
    <3>2. x.tenant \in Tenants
      BY <1>8 DEF TokensInv, RegistryOK
    <3>3. RolesGrow(m, r) /\ (\A t : RolesRead(m, t) => RolesRead(r, t))
      BY <2>4 DEF RolesGrow, RolesRead
    <3>4. RolesFresh(h, r) /\ PlatformFresh(h, r)
      BY <2>4, <3>1 DEF FreshExchange, RolesFresh, PlatformFresh
    <3>5. /\ Alike(r, n) /\ Queued(n.todo) = Queued(more) \cup Queued(Tail(m.todo))
          /\ Queued(m.todo) = {x} \cup Queued(Tail(m.todo))
      BY <1>1, <1>5, <2>7, GoingOn
    <3>6. Full(h, x.tenant) => Mode(h) = "v2" /\ ~PlatformFederated(h)
      BY DEF Full
    <3>7. Ordered(more) /\ \A y \in Queued(more) :
            /\ y.tenant = x.tenant
            /\ \/ /\ y.what = "definition" /\ y.rule = "must" /\ y.roles = m.roles[x.tenant]
                  /\ x.rule = "define"
               \/ /\ y.what = "client" /\ y.rule = "skip" /\ x.rule = "skip" /\ Mode(h) = "v2"
                  /\ ~PlatformFederated(h)
      <4>1. CASE x.rule = "define"
        BY <1>3, <4>1, DefinitionReads, DefinitionsOrdered
      <4>2. CASE x.rule # "define" /\ x.rule = "skip" /\ Full(h, x.tenant)
        <5>1. PICK y : y = Read("client", x.tenant, {}, "skip")
          OBVIOUS
        <5>2. more = <<y>> /\ Queued(<<y>>) = {y} /\ Ordered(<<y>>)
          BY <1>3, <4>2, <5>1, OneRead, OrderedSmall
        <5>3. y.what = "client" /\ y.rule = "skip" /\ y.tenant = x.tenant
          BY <5>1, ReadFields
        <5> QED BY <3>6, <4>2, <5>2, <5>3
      <4>3. CASE x.rule # "define" /\ ~(x.rule = "skip" /\ Full(h, x.tenant))
        BY <1>3, <4>3, EmptyQueue, OrderedSmall
      <4> QED BY <4>1, <4>2, <4>3
    <3>8. \A y \in Queued(more) : ReadFresh(h, r, y) /\ ~ClientRead(y) /\ ~Selects(y)
      BY <1>5, <1>8, <2>4, <3>1, <3>2, <3>3, <3>7 DEF ReadFresh, ClientRead, Selects
    <3>9. FreshReady(h, m, r, more)
      BY <2>4, <3>3, <3>4, <3>7, <3>8 DEF FreshReady
    <3>10. \A t : SettlesAt(m, more, t)
      BY <1>1, <1>5 DEF SettlesAt
    <3>11. ASSUME NEW t \in A, t \in Tenants, Discovers(h) PROVE AllowedAt(h, n, t)
      <4>1. CASE t \in m.allowed
        <5>1. AllowedAt(h, m, t)
          BY <3>1, <3>11, <4>1 DEF FreshExchange, AllowedFresh
        <5>2. Head(m.todo) = Read("tenant", t, {}, "must") => t \in active
          BY <1>1, <1>8, ReadFields
        <5>3. Vets(h, m, t) /\ Untouched(m, t) => Undefined(r, t) /\ \A q : ~Owes(more, t, q)
          BY <2>4, <3>1, <3>7 DEF Vets, Untouched, Undefined, Owes, ReadFresh
        <5> QED BY <2>4, <2>7, <2>8, <3>3, <3>10, <3>11, <5>1, <5>2, <5>3, AllowedOn
      <4>2. CASE t \notin m.allowed
        <5>1. partial /\ t = x.tenant
          BY Zenon, <2>1, <3>11, <4>2
        <5>2. PlatformFederated(h) \/ Mode(h) = "v1" \/ (t = m.home /\ Principal(m.user).home # Absent)
          BY Zenon, <1>3, <5>1
        <5>3. ~Vets(h, n, t)
          BY <2>4, <3>5, <5>2 DEF Vets, Alike
        <5> QED BY <1>8, <5>1, <5>3 DEF AllowedAt
      <4> QED BY <4>1, <4>2
    <3>12. AllowedFresh(h, n)
      BY <2>4, <3>5, <3>11 DEF AllowedFresh, Alike
    <3>13. ~ClientRead(Head(m.todo)) /\ DiscoveredFresh(h, n) /\ ClientFresh(h, n)
      BY <1>1, <1>5, <2>4, <2>7, <2>8, DiscoveredOn, ClientOn DEF ClientRead
    <3>14. ResolvedFresh(h, n)
      <4>1. CASE x.rule # "define"
        <5>1. ~Selects(x) /\ x # Read("roles", m.target, {}, "must")
          BY <1>5, <4>1, ReadFields DEF Selects
        <5> QED BY <1>1, <2>4, <2>7, <2>8, <3>3, <3>10, <5>1, ResolvedOn
      <4>2. CASE x.rule = "define"
        <5>1. SUFFICES ASSUME Targeted(h, n) PROVE n.target \in active /\ Resolving(n, n.target)
          BY DEF ResolvedFresh
        <5>2. n.target = m.target /\ x.tenant = m.target /\ n.user = m.user /\ n.roles = m.roles
          BY <2>4, <3>1, <3>5, <4>2 DEF ReadFresh, Alike
        <5>3. Targeted(h, m)
          BY <5>1, <5>2 DEF Targeted
        <5>4. \A y \in Queued(m.todo) : y.what \in {"tenant", "client"}
          BY <1>5, <3>1, <3>5, <4>2 DEF Follows, Selects, ClientRead
        <5>5. RolesRead(m, m.target)
          BY <3>1, <5>3, <5>4, ReadFields DEF FreshExchange, ResolvedFresh, Resolving
        <5>6. \A q \in m.roles[m.target] : Owes(more, m.target, q)
          BY <1>3, <4>2, <5>2, DefinitionsOwed
        <5>7. \A q \in m.roles[m.target] : Owes(n.todo, m.target, q)
          BY <3>5, <5>6 DEF Owes
        <5> QED BY <1>8, <5>2, <5>5, <5>7 DEF Resolving, RolesRead
      <4> QED BY <4>1, <4>2
    <3> QED BY <2>7, <2>8, <3>9, <3>12, <3>13, <3>14, FreshAdvance
  <2>9. ASSUME Plan(h).kind = "validate", Quiet(m.token) PROVE FreshValidation(n)
    <3>1. more = <<>> /\ FreshValidation(m)
      BY <1>3, <1>5, <1>6, <2>9
    <3>2. x # RolesOwed(m.token)
      BY <1>5, ReadFields DEF RolesOwed
    <3>3. \A y \in Queued(more) : BearerRead(m.token, y)
      BY <3>1, EmptyQueue
    <3> QED BY <1>1, <1>5, <2>4, <2>7, <3>1, <3>2, <3>3, ValidationOn
  <2> QED BY <1>2, <1>5, <1>8, <2>7, <2>8, <2>9, FreshGoesOn
<1>9. CASE x.rule = "skip" /\ Advance(h, m, <<>>) /\ UNCHANGED verdicts
  BY <1>1, <1>2, <1>5, <1>9, SkipFresh
<1> QED BY Zenon, <1>4, <1>7, <1>8, <1>9

LEMMA EmptyQueued ==
  ASSUME NEW q, IsSequence(q), Queued(q) = {}
  PROVE  q = <<>>
<1>1. ~(1 \in 1..Len(q))
  BY DEF Queued
<1>2. Len(q) = 0
  BY <1>1 DEF IsSequence
<1> QED BY <1>2, EmptySeq DEF IsSequence

LEMMA ReadClientFresh ==
  ASSUME TokensInv, FreshInv, NEW h \in Handlers, ReadClient(h)
  PROVE  FreshInv'
<1>1. PICK m, x, scopes : m = handler[h] /\ x = Head(m.todo) /\ scopes = audience[x.tenant]
  OBVIOUS
<1>2. Reading(h, "client") /\ Reads
  BY DEF ReadClient
<1>3. PICK more : more = Definitions(x.tenant, m.roles[x.tenant], "skip")
  OBVIOUS
<1>4. PICK ok \in Outcomes :
        LET usable == ok /\ scopes # Absent /\ (Plan(h).kind = "exchange" /\ Discovers(h) => scopes # {}) IN
        IF x.rule = "skip"
        THEN /\ IF usable THEN Advance(h, [m EXCEPT !.allowed = @ \cup {x.tenant}], more)
                ELSE Advance(h, m, <<>>)
             /\ UNCHANGED verdicts
        ELSE IF usable /\ (Plan(h).kind = "exchange" /\ Discovers(h) => x.tenant \in m.allowed)
        THEN Advance(h, [m EXCEPT !.client = scopes], <<>>) /\ UNCHANGED verdicts
        ELSE Refuse(h, ok)
  BY Zenon, <1>1, <1>3 DEF ReadClient, Head1
<1>5. /\ AtRead(h, m) /\ Shape(m) /\ x.what = "client" /\ m.pc = "reading" /\ m.todo # <<>>
      /\ Plan(h).kind = "validate" => x.rule = "must"
      /\ ok \in BOOLEAN
  <2>1. /\ AtRead(h, m) /\ Shape(m) /\ x.what = "client"
        /\ Plan(h).kind = "validate" => x.rule = "must"
    BY <1>1, <1>2, AtHead
  <2> QED BY <2>1 DEF AtRead, Outcomes
<1>6. ASSUME Plan(h).kind = "validate", Quiet(m.token)
      PROVE  x.tenant = m.token.tenant /\ scopes # Absent /\ FreshValidation(m)
  <2>1. FreshValidation(m) /\ BearerRead(m.token, x) /\ Acceptable(m.token)
    BY <1>1, <1>5, <1>6, FreshBearer
  <2> QED BY <1>1, <1>5, <2>1 DEF BearerRead, Acceptable
<1>7. CASE Refuse(h, ok) /\ (Plan(h).kind = "validate" => ~(ok /\ scopes # Absent))
  <2>1. ASSUME Plan(h).kind = "validate", ok PROVE ~Quiet(m.token)
    BY <1>6, <1>7, <2>1
  <2> QED BY <1>1, <1>2, <1>5, <1>7, <2>1, FreshRefusal
<1>8. CASE /\ x.rule = "skip" /\ UNCHANGED verdicts
           /\ Advance(h, [m EXCEPT !.allowed = @ \cup {x.tenant}], more)
  <2>1. PICK A, r : A = m.allowed \cup {x.tenant} /\ r = [m EXCEPT !.allowed = A]
    OBVIOUS
  <2>2. Advance(h, r, more)
    BY Zenon, <1>8, <2>1
  <2>3. /\ Amends(m, r) /\ r.defined = m.defined /\ r.target = m.target
        /\ r.client = m.client /\ r.logs = m.logs /\ r.direct = m.direct
        /\ r.home = m.home /\ r.allowed = A /\ r.roles = m.roles /\ r.user = m.user
    BY SMTT(60), <1>5, <2>1, AllowedChange
  <2>4. IsSequence(more) /\ Ordered(more) /\ \A y \in Queued(more) :
          /\ y.what = "definition" /\ y.tenant = x.tenant /\ y.roles = m.roles[x.tenant]
          /\ y.rule = "skip"
    BY <1>3, DefinitionReads, DefinitionsOrdered
  <2>5. PICK n : n = [r EXCEPT !.todo = more \o Tail(@)]
    OBVIOUS
  <2>6. GoesOn(m, r, more, n) /\ Move(h, n)
    BY <2>2, <2>3, <2>4, <2>5 DEF GoesOn, Advance
  <2>7. ASSUME FreshAt(h, m) PROVE FreshExchange(h, n)
    <3>1. FreshExchange(h, m) /\ ReadFresh(h, m, x) /\ m.target \in Tenants
      BY <1>1, <2>7, FreshReader
    <3>2. Mode(h) = "v2" /\ x.tenant \in active /\ RolesRead(m, x.tenant)
      BY <1>5, <1>8, <3>1 DEF ReadFresh
    <3>3. x.tenant \in Tenants
      BY <3>2 DEF TokensInv, RegistryOK
    <3>4. RolesGrow(m, r)
      BY <2>3 DEF RolesGrow
    <3>5. RolesFresh(h, r) /\ PlatformFresh(h, r)
      BY <2>3, <3>1 DEF FreshExchange, RolesFresh, PlatformFresh
    <3>6. \A y \in Queued(more) : ReadFresh(h, r, y) /\ ~ClientRead(y) /\ ~Selects(y)
      BY <2>3, <2>4, <3>2 DEF ReadFresh, ClientRead, Selects
    <3>7. FreshReady(h, m, r, more)
      BY <2>3, <2>4, <3>4, <3>5, <3>6 DEF FreshReady
    <3>8. /\ Alike(r, n) /\ Queued(n.todo) = Queued(more) \cup Queued(Tail(m.todo))
      BY <1>5, <2>6, GoingOn
    <3>9. \A t : SettlesAt(m, more, t)
      BY <1>1, <1>5 DEF SettlesAt
    <3>10. AllowedAt(h, n, x.tenant)
      <4>1. \A q \in m.roles[x.tenant] : Owes(more, x.tenant, q)
        BY <1>3, DefinitionsOwed
      <4>2. \A q \in m.roles[x.tenant] : Owes(n.todo, x.tenant, q)
        BY <3>8, <4>1 DEF Owes
      <4> QED BY <2>3, <3>2, <3>8, <4>2 DEF AllowedAt, Resolving, RolesRead, Alike
    <3>11. ASSUME NEW t \in m.allowed, t # x.tenant, t \in Tenants, Discovers(h) PROVE AllowedAt(h, n, t)
      <4>1. AllowedAt(h, m, t)
        BY <3>1, <3>11 DEF FreshExchange, AllowedFresh
      <4>2. Head(m.todo) # Read("tenant", t, {}, "must")
        BY <1>1, <1>5, ReadFields
      <4>3. Untouched(m, t) => Undefined(r, t) /\ \A q : ~Owes(more, t, q)
        BY <2>3, <2>4, <3>11 DEF Untouched, Undefined, Owes
      <4> QED BY <2>3, <2>6, <2>7, <3>4, <3>9, <3>11, <4>1, <4>2, <4>3, AllowedOn
    <3>12. AllowedFresh(h, n)
      BY <2>1, <2>3, <3>8, <3>10, <3>11 DEF AllowedFresh, Alike
    <3>13. ~ClientRead(x) /\ ~Selects(x) /\ x # Read("roles", m.target, {}, "must")
      BY <1>5, <1>8, ReadFields DEF ClientRead, Selects
    <3>14. DiscoveredFresh(h, n) /\ ClientFresh(h, n)
      BY <1>1, <2>3, <2>6, <2>7, <3>13, DiscoveredOn, ClientOn
    <3>15. ResolvedFresh(h, n)
      BY <1>1, <2>3, <2>6, <2>7, <3>4, <3>9, <3>13, ResolvedOn
    <3> QED BY <2>6, <2>7, <3>7, <3>12, <3>14, <3>15, FreshAdvance
  <2>8. Plan(h).kind # "validate"
    BY <1>5, <1>8
  <2> QED BY <1>2, <1>5, <1>8, <2>6, <2>7, <2>8, FreshGoesOn
<1>9. CASE x.rule = "skip" /\ Advance(h, m, <<>>) /\ UNCHANGED verdicts
  BY <1>1, <1>2, <1>5, <1>9, SkipFresh
<1>10. CASE /\ x.rule # "skip" /\ scopes # Absent
            /\ Plan(h).kind = "exchange" /\ Discovers(h) => scopes # {} /\ x.tenant \in m.allowed
            /\ Advance(h, [m EXCEPT !.client = scopes], <<>>) /\ UNCHANGED verdicts
  <2>1. PICK r, none : r = [m EXCEPT !.client = scopes] /\ none = <<>>
    OBVIOUS
  <2>2. /\ Amends(m, r) /\ r.defined = m.defined /\ r.target = m.target
        /\ r.client = scopes /\ r.logs = m.logs /\ r.direct = m.direct
        /\ r.home = m.home /\ r.allowed = m.allowed /\ r.roles = m.roles /\ r.user = m.user
    BY <1>5, <2>1 DEF Amends, Shape, IsState, Fields
  <2>3. IsSequence(none) /\ Queued(none) = {} /\ Ordered(none)
    BY <2>1, EmptyQueue, OrderedSmall
  <2>4. PICK n : n = [r EXCEPT !.todo = none \o Tail(@)]
    OBVIOUS
  <2>5. GoesOn(m, r, none, n) /\ Move(h, n)
    BY <1>10, <2>1, <2>2, <2>3, <2>4 DEF GoesOn, Advance
  <2>6. ASSUME FreshAt(h, m) PROVE FreshExchange(h, n)
    <3>1. /\ FreshExchange(h, m) /\ ReadFresh(h, m, x) /\ m.target \in Tenants
          /\ Plan(h).kind = "exchange" /\ \A y \in Queued(Tail(m.todo)) : Follows(x, y)
      BY <1>1, <2>6, FreshReader DEF FreshAt
    <3>2. ClientRead(x) /\ x.tenant = m.target /\ x.rule # "define"
      BY <1>5, <1>10, <3>1 DEF ReadFresh, ClientRead
    <3>3. RolesGrow(m, r)
      BY <2>2 DEF RolesGrow
    <3>4. RolesFresh(h, r) /\ PlatformFresh(h, r)
      BY <2>2, <3>1 DEF FreshExchange, RolesFresh, PlatformFresh
    <3>5. FreshReady(h, m, r, none)
      BY <2>2, <2>3, <3>3, <3>4 DEF FreshReady
    <3>6. /\ Alike(r, n) /\ Shape(n) /\ Queued(n.todo) = Queued(none) \cup Queued(Tail(m.todo))
          /\ Queued(m.todo) = {x} \cup Queued(Tail(m.todo))
      <4>1. Shape(m) /\ m.todo # <<>> /\ GoesOn(m, r, none, n) /\ x = Head(m.todo)
        BY <1>1, <1>5, <2>5
      <4> QED BY ONLY <4>1, GoingOn
    <3>7. \A t : SettlesAt(m, none, t) /\ \A q : ~Owes(none, t, q)
      BY <1>1, <1>5, <2>3 DEF SettlesAt, Owes
    <3>8. \A t : x # Read("tenant", t, {}, "must") /\ x # Read("roles", t, {}, "must")
      BY <1>5, ReadFields
    <3>9. \A t : Untouched(m, t) => Undefined(r, t)
      BY <2>2 DEF Untouched, Undefined
    <3>10. \A t \in Tenants : AllowedAt(h, m, t) => AllowedAt(h, n, t)
      BY <1>1, <2>2, <2>5, <2>6, <3>3, <3>7, <3>8, <3>9, AllowedOn
    <3>11. AllowedFresh(h, n)
      BY <2>2, <3>1, <3>6, <3>10 DEF FreshExchange, AllowedFresh, Alike
    <3>12. DiscoveredFresh(h, n)
      <4>1. SUFFICES ASSUME Discovers(h) PROVE Settled(h, n)
        BY DEF DiscoveredFresh
      <4>2. AllowedAt(h, n, m.target)
        BY <1>10, <3>1, <3>2, <3>10, <4>1 DEF FreshExchange, AllowedFresh
      <4>3. n.target = m.target
        BY <2>2, <3>6 DEF Alike
      <4>4. \A y \in Queued(n.todo) : y.what = "ids" /\ y.rule = "must"
        BY <2>3, <3>1, <3>2, <3>6 DEF Follows
      <4>5. m.target \in active
        BY <4>2, <4>4, ReadFields DEF AllowedAt
      <4>6. Mode(h) = "v2" => Queued(n.todo) = {}
        BY <2>3, <3>1, <3>6, <4>4 DEF FreshExchange, ReadFresh
      <4>7. Mode(h) = "v2" => n.todo = <<>>
        BY SMTT(60), <3>6, <4>6, EmptyQueued DEF Shape
      <4> QED BY <4>2, <4>3, <4>5, <4>7 DEF Settled, AllowedAt, Untouched
    <3>13. ClientFresh(h, n)
      BY <1>1, <1>10, <2>2, <3>1, <3>2, <3>6 DEF ClientFresh, Alike
    <3>14. ~Selects(x)
      BY <1>5, <3>2 DEF Selects
    <3>15. ResolvedFresh(h, n)
      BY SMTT(60), <1>1, <2>2, <2>5, <2>6, <3>3, <3>7, <3>8, <3>14, ResolvedOn
    <3> QED BY <2>5, <2>6, <3>5, <3>11, <3>12, <3>13, <3>15, FreshAdvance
  <2>7. ASSUME Plan(h).kind = "validate", Quiet(m.token) PROVE FreshValidation(n)
    <3>1. FreshValidation(m) /\ scopes = audience[m.token.tenant]
      BY <1>1, <1>6, <2>7
    <3>2. x # RolesOwed(m.token)
      BY <1>5, ReadFields DEF RolesOwed
    <3> QED BY <1>1, <1>5, <2>2, <2>3, <2>5, <3>1, <3>2, ValidationOn
  <2> QED BY <1>2, <1>5, <1>10, <2>5, <2>6, <2>7, FreshGoesOn
<1> QED BY Zenon, <1>4, <1>7, <1>8, <1>9, <1>10

LEMMA ReadDefinitionFresh ==
  ASSUME TokensInv, FreshInv, NEW h \in Handlers, ReadDefinition(h)
  PROVE  FreshInv'
<1>1. PICK m, x : m = handler[h] /\ x = Head(m.todo)
  OBVIOUS
<1>2. Reading(h, "definition") /\ Reads
  BY DEF ReadDefinition
<1>3. PICK role : role = CHOOSE r \in x.roles : TRUE
  OBVIOUS
<1>4. PICK rest, scopes, grown, left :
        /\ rest = Definitions(x.tenant, x.roles \ {role}, x.rule)
        /\ scopes = definition[<<x.tenant, role>>]
        /\ grown = [m EXCEPT !.defined = @ \cup {<<x.tenant, role, scopes>>}]
        /\ left = [m EXCEPT !.allowed = @ \ {x.tenant}]
  OBVIOUS
<1>5. PICK ok \in Outcomes :
        IF ok /\ scopes # Absent /\ ValidPermissions(scopes)
        THEN Advance(h, grown, rest) /\ UNCHANGED verdicts
        ELSE IF \/ x.rule = "lenient"
                \/ x.rule = "resolve" /\ (ok /\ (scopes = Absent \/ scopes = {}))
        THEN Advance(h, m, rest) /\ UNCHANGED verdicts
        ELSE IF x.rule = "skip"
        THEN Advance(h, left, <<>>) /\ UNCHANGED verdicts
        ELSE Refuse(h, ok)
  BY Zenon, <1>1, <1>3, <1>4 DEF ReadDefinition, Head1
<1>6. /\ AtRead(h, m) /\ Shape(m) /\ x.what = "definition" /\ m.pc = "reading" /\ m.todo # <<>>
      /\ Plan(h).kind = "validate" => x.rule = "must"
      /\ ok \in BOOLEAN /\ role \in x.roles /\ x \in Queued(m.todo)
  <2>1. /\ AtRead(h, m) /\ Shape(m) /\ x.what = "definition" /\ DefinitionReadOK(h, m, x)
        /\ Plan(h).kind = "validate" => x.rule = "must"
        /\ x \in Queued(m.todo)
    BY <1>1, <1>2, AtHead
  <2>2. role \in x.roles
    BY <1>3, <2>1 DEF DefinitionReadOK
  <2> QED BY <2>1, <2>2 DEF AtRead, Outcomes
<1>7. /\ IsSequence(rest) /\ Ordered(rest)
      /\ \A y \in Queued(rest) : /\ y.what = "definition" /\ y.tenant = x.tenant
                                 /\ y.roles = x.roles \ {role} /\ y.rule = x.rule
      /\ \A q \in x.roles \ {role} : Owes(rest, x.tenant, q)
  BY <1>4, DefinitionReads, DefinitionsOrdered, DefinitionsOwed
<1>8. ASSUME Plan(h).kind = "validate", Quiet(m.token)
      PROVE  /\ x.tenant = m.token.tenant /\ FreshValidation(m) /\ BearerRead(m.token, x)
             /\ Canonical(x.tenant, role)
  <2>1. FreshValidation(m) /\ BearerRead(m.token, x) /\ Acceptable(m.token)
    BY <1>1, <1>6, <1>8, FreshBearer
  <2> QED BY <1>6, <2>1 DEF BearerRead, Acceptable, Resolved
<1>9. CASE Refuse(h, ok) /\ ~(ok /\ scopes # Absent /\ ValidPermissions(scopes))
  <2>1. ASSUME Plan(h).kind = "validate", ok PROVE ~Quiet(m.token)
    BY <1>4, <1>8, <1>9, <2>1 DEF Canonical
  <2> QED BY <1>1, <1>2, <1>6, <1>9, <2>1, FreshRefusal
<1>10. ASSUME FreshAt(h, m)
       PROVE  /\ FreshExchange(h, m) /\ ReadFresh(h, m, x) /\ m.target \in Tenants
              /\ x.rule \in {"must", "skip"} /\ ~ClientRead(x) /\ ~Selects(x)
              /\ \A t : x # Read("tenant", t, {}, "must") /\ x # Read("roles", t, {}, "must")
              /\ ~Untouched(m, x.tenant)
  <2>1. FreshExchange(h, m) /\ ReadFresh(h, m, x) /\ m.target \in Tenants
    BY <1>1, <1>10, FreshReader
  <2>2. x.rule \in {"must", "skip"}
    BY <1>6, <2>1 DEF ReadFresh
  <2>3. \A t : x # Read("tenant", t, {}, "must") /\ x # Read("roles", t, {}, "must")
    BY <1>6, ReadFields
  <2>4. Owes(m.todo, x.tenant, role)
    BY <1>6 DEF Owes
  <2> QED BY <1>6, <2>1, <2>2, <2>3, <2>4 DEF ClientRead, Selects, Untouched
<1>11. CASE Advance(h, grown, rest) /\ UNCHANGED verdicts /\ scopes # Absent /\ ValidPermissions(scopes)
  <2>1. PICK d, D : d = <<x.tenant, role, scopes>> /\ D = m.defined \cup {d}
    OBVIOUS
  <2>2. PICK r : r = grown
    OBVIOUS
  <2>3. /\ Amends(m, r) /\ r.defined = D /\ r.target = m.target
        /\ r.client = m.client /\ r.logs = m.logs /\ r.direct = m.direct
        /\ r.home = m.home /\ r.allowed = m.allowed /\ r.roles = m.roles /\ r.user = m.user
    BY <1>4, <1>6, <2>1, <2>2 DEF Amends, Shape, IsState, Fields
  <2>4. d[1] = x.tenant /\ d[2] = role /\ d[3] = scopes /\ Canonical(x.tenant, role)
    BY <1>4, <1>11, <2>1 DEF Canonical
  <2>5. PICK n : n = [r EXCEPT !.todo = rest \o Tail(@)]
    OBVIOUS
  <2>6. GoesOn(m, r, rest, n) /\ Move(h, n)
    BY <1>7, <1>11, <2>2, <2>3, <2>5 DEF GoesOn, Advance
  <2>7. ASSUME FreshAt(h, m) PROVE FreshExchange(h, n)
    <3>1. RolesGrow(m, r)
      BY <2>3 DEF RolesGrow
    <3>2. x.tenant \in Tenants => x.roles \subseteq m.roles[x.tenant]
      BY <1>6, <1>10, <2>7 DEF ReadFresh
    <3>3. \A e \in D : e[1] \in Tenants =>
            e[2] \in m.roles[e[1]] /\ e[3] = definition[<<e[1], e[2]>>] /\ Canonical(e[1], e[2])
      BY <1>4, <1>6, <1>10, <2>1, <2>4, <2>7, <3>2 DEF FreshExchange, RolesFresh
    <3>4. RolesFresh(h, r) /\ PlatformFresh(h, r)
      BY <1>10, <2>3, <2>7, <3>3 DEF FreshExchange, RolesFresh, PlatformFresh
    <3>5. \A y \in Queued(rest) : ReadFresh(h, r, y) /\ ~ClientRead(y) /\ ~Selects(y)
      BY <1>6, <1>7, <1>10, <2>3, <2>7 DEF ReadFresh, ClientRead, Selects
    <3>6. FreshReady(h, m, r, rest)
      BY <1>7, <2>3, <3>1, <3>4, <3>5 DEF FreshReady
    <3>7. \A t : SettlesAt(m, rest, t)
      BY <1>1, <1>7, <2>4 DEF SettlesAt
    <3>8. ASSUME NEW t \in m.allowed, t \in Tenants, Discovers(h) PROVE AllowedAt(h, n, t)
      <4>1. AllowedAt(h, m, t)
        BY <1>10, <2>7, <3>8 DEF FreshExchange, AllowedFresh
      <4>2. Untouched(m, t) => Undefined(r, t) /\ \A q : ~Owes(rest, t, q)
        <5>1. SUFFICES ASSUME Untouched(m, t) PROVE Undefined(r, t) /\ \A q : ~Owes(rest, t, q)
          OBVIOUS
        <5>2. t # x.tenant
          BY <1>10, <2>7, <5>1
        <5>3. Undefined(r, t)
          BY <2>1, <2>3, <2>4, <5>1, <5>2 DEF Untouched, Undefined
        <5> QED BY <1>7, <5>2, <5>3 DEF Owes
      <4> QED BY <1>1, <1>10, <2>3, <2>6, <2>7, <3>1, <3>7, <3>8, <4>1, <4>2, AllowedOn
    <3>9. Alike(r, n)
      BY <1>6, <2>6, GoingOn
    <3>10. AllowedFresh(h, n)
      BY <2>3, <3>8, <3>9 DEF AllowedFresh, Alike
    <3>11. DiscoveredFresh(h, n) /\ ClientFresh(h, n)
      BY <1>1, <1>10, <2>3, <2>6, <2>7, DiscoveredOn, ClientOn
    <3>12. ResolvedFresh(h, n)
      BY SMTT(60), <1>1, <1>10, <2>3, <2>6, <2>7, <3>1, <3>7, ResolvedOn
    <3> QED BY <2>6, <2>7, <3>6, <3>10, <3>11, <3>12, FreshAdvance
  <2>8. ASSUME Plan(h).kind = "validate", Quiet(m.token) PROVE FreshValidation(n)
    <3>1. x.tenant = m.token.tenant /\ FreshValidation(m) /\ BearerRead(m.token, x) /\ x.rule = "must"
      BY <1>6, <1>8, <2>8
    <3>2. \A y \in Queued(rest) : BearerRead(m.token, y)
      BY <1>6, <1>7, <3>1 DEF BearerRead
    <3>3. x # RolesOwed(m.token)
      BY <1>6, ReadFields DEF RolesOwed
    <3>4. \A q \in x.roles : \/ <<m.token.tenant, q, definition[<<m.token.tenant, q>>]>> \in r.defined
                             \/ Owes(rest, m.token.tenant, q)
      BY <1>4, <1>7, <2>1, <2>3, <3>1
    <3>5. r.client = m.client /\ m.defined \subseteq r.defined
      BY <2>1, <2>3
    <3> QED BY <1>1, <1>6, <2>6, <3>1, <3>2, <3>3, <3>4, <3>5, ValidationOn
  <2> QED BY <1>2, <1>6, <1>11, <2>6, <2>7, <2>8, FreshGoesOn
<1>12. CASE x.rule \in {"lenient", "resolve"} /\ Advance(h, m, rest) /\ UNCHANGED verdicts
  <2>1. PICK n : n = [m EXCEPT !.todo = rest \o Tail(@)]
    OBVIOUS
  <2>2. GoesOn(m, m, rest, n) /\ Move(h, n)
    BY <1>6, <1>7, <1>12, <2>1, AmendsItself DEF GoesOn, Advance
  <2>3. ~FreshAt(h, m) /\ Plan(h).kind # "validate"
    BY <1>6, <1>10, <1>12
  <2> QED BY <1>2, <1>6, <1>12, <2>2, <2>3, FreshGoesOn
<1>13. CASE x.rule = "skip" /\ Advance(h, left, <<>>) /\ UNCHANGED verdicts
  <2>1. PICK A, none : A = m.allowed \ {x.tenant} /\ none = <<>>
    OBVIOUS
  <2>2. PICK r : r = [m EXCEPT !.allowed = A]
    OBVIOUS
  <2>3. Advance(h, r, none)
    BY Zenon, <1>4, <1>13, <2>1, <2>2
  <2>4. /\ Amends(m, r) /\ r.defined = m.defined /\ r.target = m.target
        /\ r.client = m.client /\ r.logs = m.logs /\ r.direct = m.direct
        /\ r.home = m.home /\ r.allowed = A /\ r.roles = m.roles /\ r.user = m.user
    BY <1>6, <2>2, AllowedChange
  <2>5. IsSequence(none) /\ Queued(none) = {} /\ Ordered(none)
    BY <2>1, EmptyQueue, OrderedSmall
  <2>6. PICK n : n = [r EXCEPT !.todo = none \o Tail(@)]
    OBVIOUS
  <2>7. GoesOn(m, r, none, n) /\ Move(h, n)
    BY <2>3, <2>4, <2>5, <2>6 DEF GoesOn, Advance
  <2>8. ASSUME FreshAt(h, m) PROVE FreshExchange(h, n)
    <3>1. RolesGrow(m, r)
      BY <2>4 DEF RolesGrow
    <3>2. RolesFresh(h, r) /\ PlatformFresh(h, r)
      BY <1>10, <2>4, <2>8 DEF FreshExchange, RolesFresh, PlatformFresh
    <3>3. FreshReady(h, m, r, none)
      BY <2>4, <2>5, <3>1, <3>2 DEF FreshReady
    <3>4. ASSUME NEW t \in A, t \in Tenants, Discovers(h) PROVE AllowedAt(h, n, t)
      <4>1. AllowedAt(h, m, t) /\ t # x.tenant
        BY <1>10, <2>1, <2>8, <3>4 DEF FreshExchange, AllowedFresh
      <4>2. SettlesAt(m, none, t) /\ (Untouched(m, t) => Undefined(r, t)) /\ \A q : ~Owes(none, t, q)
        BY <1>1, <2>4, <2>5, <4>1 DEF SettlesAt, Untouched, Undefined, Owes
      <4> QED BY <1>1, <1>10, <2>4, <2>7, <2>8, <3>1, <3>4, <4>1, <4>2, AllowedOn
    <3>5. Alike(r, n)
      BY <1>6, <2>7, GoingOn
    <3>6. AllowedFresh(h, n)
      BY <2>4, <3>4, <3>5 DEF AllowedFresh, Alike
    <3>7. DiscoveredFresh(h, n) /\ ClientFresh(h, n)
      BY <1>1, <1>10, <2>4, <2>7, <2>8, DiscoveredOn, ClientOn
    <3>8. Mode(h) = "v2"
      BY <1>6, <1>10, <1>13, <2>8 DEF ReadFresh
    <3>9. ResolvedFresh(h, n)
      BY <3>8 DEF ResolvedFresh, Targeted
    <3> QED BY <2>7, <2>8, <3>3, <3>6, <3>7, <3>9, FreshAdvance
  <2>9. Plan(h).kind # "validate"
    BY <1>6, <1>13
  <2> QED BY <1>2, <1>6, <1>13, <2>7, <2>8, <2>9, FreshGoesOn
<1> QED BY Zenon, <1>5, <1>9, <1>11, <1>12, <1>13

LEMMA ReadDirectFresh ==
  ASSUME TokensInv, FreshInv, NEW h \in Handlers, ReadDirect(h)
  PROVE  FreshInv'
<1>1. PICK m, x : m = handler[h] /\ x = Head(m.todo)
  OBVIOUS
<1>2. Reading(h, "direct") /\ Reads
  BY DEF ReadDirect
<1>3. PICK ok \in Outcomes :
        \/ Refuse(h, ok) /\ ~(ok /\ m.user \in direct)
        \/ /\ UNCHANGED verdicts
           /\ \E own : (own => m.user \in direct) /\ Advance(h, [m EXCEPT !.direct = own], <<>>)
  BY <1>1 DEF ReadDirect, Head1
<1>4. /\ AtRead(h, m) /\ Shape(m) /\ x.what = "direct" /\ m.pc = "reading" /\ m.todo # <<>>
      /\ Plan(h).kind = "validate" => x.rule = "must"
      /\ ok \in BOOLEAN
  <2>1. /\ AtRead(h, m) /\ Shape(m) /\ x.what = "direct"
        /\ Plan(h).kind = "validate" => x.rule = "must"
    BY <1>1, <1>2, AtHead
  <2> QED BY <2>1 DEF AtRead, Outcomes
<1>5. ASSUME Plan(h).kind = "validate", Quiet(m.token)
      PROVE  m.user \in direct /\ FreshValidation(m)
  <2>1. FreshValidation(m) /\ BearerRead(m.token, x) /\ m.user = m.token.user
    BY <1>1, <1>4, <1>5, FreshBearer
  <2> QED BY <1>4, <2>1 DEF BearerRead
<1>6. CASE Refuse(h, ok) /\ ~(ok /\ m.user \in direct)
  <2>1. ASSUME Plan(h).kind = "validate", ok PROVE ~Quiet(m.token)
    BY <1>5, <1>6, <2>1
  <2> QED BY <1>1, <1>2, <1>4, <1>6, <2>1, FreshRefusal
<1>7. CASE /\ UNCHANGED verdicts
           /\ \E own : (own => m.user \in direct) /\ Advance(h, [m EXCEPT !.direct = own], <<>>)
  <2>1. PICK own : (own => m.user \in direct) /\ Advance(h, [m EXCEPT !.direct = own], <<>>)
    BY <1>7
  <2>2. PICK r, none : r = [m EXCEPT !.direct = own] /\ none = <<>>
    OBVIOUS
  <2>3. /\ Amends(m, r) /\ r.defined = m.defined /\ r.target = m.target
        /\ r.client = m.client /\ r.logs = m.logs /\ r.direct = own
        /\ r.home = m.home /\ r.allowed = m.allowed /\ r.roles = m.roles /\ r.user = m.user
    BY <1>4, <2>2 DEF Amends, Shape, IsState, Fields
  <2>4. IsSequence(none) /\ Queued(none) = {} /\ Ordered(none)
    BY <2>2, EmptyQueue, OrderedSmall
  <2>5. PICK n : n = [r EXCEPT !.todo = none \o Tail(@)]
    OBVIOUS
  <2>6. GoesOn(m, r, none, n) /\ Move(h, n)
    BY <2>1, <2>2, <2>3, <2>4, <2>5 DEF GoesOn, Advance
  <2>7. ASSUME FreshAt(h, m) PROVE FreshExchange(h, n)
    <3>1. FreshExchange(h, m) /\ ReadFresh(h, m, x)
      BY <1>1, <2>7, FreshReader
    <3>2. RolesGrow(m, r)
      BY <2>3 DEF RolesGrow
    <3>3. RolesFresh(h, r) /\ PlatformFresh(h, r)
      BY <2>1, <2>3, <3>1 DEF FreshExchange, RolesFresh, PlatformFresh
    <3>4. FreshReady(h, m, r, none)
      BY <2>3, <2>4, <3>2, <3>3 DEF FreshReady
    <3>5. AllowedFresh(h, n)
      BY SMTT(60), <1>1, <1>4, <2>3, <2>4, <2>6, <2>7, <3>2, AllowedSame
    <3>6. /\ ~ClientRead(x) /\ ~Selects(x) /\ SettlesAt(m, none, m.target)
          /\ x # Read("roles", m.target, {}, "must")
      BY <1>1, <1>4, <3>1, ReadFields DEF ClientRead, Selects, SettlesAt, ReadFresh
    <3>7. DiscoveredFresh(h, n) /\ ClientFresh(h, n) /\ ResolvedFresh(h, n)
      BY <1>1, <2>3, <2>6, <2>7, <3>2, <3>6, DiscoveredOn, ClientOn, ResolvedOn
    <3> QED BY <2>6, <2>7, <3>4, <3>5, <3>7, FreshAdvance
  <2>8. ASSUME Plan(h).kind = "validate", Quiet(m.token) PROVE FreshValidation(n)
    <3>1. FreshValidation(m)
      BY <1>5, <2>8
    <3>2. x # RolesOwed(m.token)
      BY <1>4, ReadFields DEF RolesOwed
    <3> QED BY <1>1, <1>4, <2>3, <2>4, <2>6, <3>1, <3>2, ValidationOn
  <2> QED BY <1>2, <1>4, <1>7, <2>6, <2>7, <2>8, FreshGoesOn
<1> QED BY <1>3, <1>6, <1>7

----------------------------------------------------------------------------
(* The end of an exchange *)

(* All reads are made: the target is active, its client is known, and the      *)
(* roles that the token will name are the subject's, each with its definition. *)
LEMMA FreshEnding ==
  ASSUME TokensInv, FreshInv, NEW h \in Handlers, Signing(h), NEW m, m = handler[h],
         ~Legacy(h), m.asOf = edits
  PROVE  /\ FreshExchange(h, m) /\ Mode(h) \in {"strict", "v1", "v2"}
         /\ m.user = Session(h).user /\ m.user \in Users /\ m.target \in Tenants
         /\ m.target \in active
         /\ m.client # Absent /\ m.client = audience[m.target] /\ (Discovers(h) => m.client # {})
         /\ Principal(m.user).home # Absent => m.home = Principal(m.user).home
         /\ m.direct => MayRecover(m.user)
         /\ Targeted(h, m) => RolesRead(m, m.target) /\ Resolved(m.user, m.target)
         /\ Vets(h, m, m.target) =>
              \/ RolesRead(m, m.target) /\ Resolved(m.user, m.target)
              \/ Principal(m.user).home = Absent /\ Undefined(m, m.target)
<1>1. /\ m.pc = "reading" /\ Plan(h).kind = "exchange" /\ ExchangeOK(h, m) /\ Queued(m.todo) = {}
      /\ m.user \in Users
  BY AtTheEnd DEF Signing
<1>2. FreshExchange(h, m)
  BY <1>1 DEF FreshInv, FreshOK
<1>3. Mode(h) \in {"strict", "v1", "v2"}
  BY <1>1, Kinds DEF Legacy
<1>4. m.user = Session(h).user /\ m.target \in Tenants
  BY <1>1, <1>3, Kinds DEF ExchangeOK, TargetOK
<1>5. \A t : Resolving(m, t) => RolesRead(m, t) /\ Resolved(m.user, t)
  BY <1>1 DEF Resolving, RolesRead, Resolved, Owes
<1>6. m.client # Absent /\ m.client = audience[m.target] /\ (Discovers(h) => m.client # {})
  BY <1>1, <1>2 DEF FreshExchange, ClientFresh
<1>7. Targeted(h, m) => m.target \in active /\ Resolving(m, m.target)
  BY <1>1, <1>2 DEF FreshExchange, ResolvedFresh
<1>8. Discovers(h) => Settled(h, m)
  BY <1>1, <1>2 DEF FreshExchange, DiscoveredFresh
<1>9. m.target \in active
  BY <1>3, <1>7, <1>8 DEF Targeted, Settled, Discovers
<1>10. Vets(h, m, m.target) =>
         \/ RolesRead(m, m.target) /\ Resolved(m.user, m.target)
         \/ Principal(m.user).home = Absent /\ Undefined(m, m.target)
  BY <1>5, <1>8 DEF Settled, Vets, Discovers
<1>11. /\ Principal(m.user).home # Absent => m.home = Principal(m.user).home
       /\ m.direct => MayRecover(m.user)
  BY <1>1 DEF ExchangeOK, AllowedOK, PlatformOK
<1> QED BY <1>1, <1>2, <1>3, <1>4, <1>5, <1>6, <1>7, <1>9, <1>10, <1>11

LEMMA LogsFresh ==
  ASSUME TokensInv, FreshInv, NEW h \in Handlers, Signing(h), NEW m, m = handler[h], NEW logs,
         Move(h, [m EXCEPT !.logs = logs]), Reads, UNCHANGED verdicts,
         PlatformFresh(h, m) /\ logs \in {"assigned", "granted"} =>
           IF Principal(m.user).federated THEN PlatformFederated(h) ELSE m.user \in direct
  PROVE  FreshInv'
<1>1. PICK n : n = [m EXCEPT !.logs = logs]
  OBVIOUS
<1>2. m.pc = "reading" /\ Shape(m) /\ Plan(h).kind = "exchange" /\ FreshOK(h, m)
  BY AtTheEnd DEF Signing, FreshInv
<1>3. n.todo = m.todo /\ n.logs = logs /\ n.asOf = m.asOf
  BY <1>1, <1>2 DEF Shape, IsState, Fields
<1>4. /\ n.pc = m.pc /\ n.user = m.user /\ n.target = m.target /\ n.home = m.home
      /\ n.roles = m.roles /\ n.defined = m.defined /\ n.allowed = m.allowed /\ n.client = m.client
      /\ n.direct = m.direct
  BY <1>1, <1>2 DEF Shape, IsState, Fields
<1>5. ASSUME FreshExchange(h, m) PROVE FreshExchange(h, n)
  <2>1. SubjectFresh(h, n) /\ RolesFresh(h, n) /\ ClientFresh(h, n)
    BY ZenonT(60), <1>3, <1>4, <1>5 DEF FreshExchange, SubjectFresh, RolesFresh, ClientFresh
  <2>2. \A t : /\ RolesRead(m, t) <=> RolesRead(n, t)
               /\ Resolving(m, t) <=> Resolving(n, t)
               /\ Undefined(m, t) <=> Undefined(n, t)
               /\ Vets(h, m, t) <=> Vets(h, n, t)
               /\ Untouched(m, t) <=> Untouched(n, t)
    BY <1>3, <1>4 DEF RolesRead, Resolving, Undefined, Vets, Untouched
  <2>3. Ordered(n.todo) /\ \A x \in Queued(n.todo) : ReadFresh(h, n, x)
    BY <1>3, <1>4, <1>5, <2>2 DEF FreshExchange, ReadFresh
  <2>4. AllowedFresh(h, n)
    BY <1>3, <1>4, <1>5, <2>2 DEF FreshExchange, AllowedFresh, AllowedAt
  <2>5. DiscoveredFresh(h, n)
    BY <1>3, <1>4, <1>5, <2>2 DEF FreshExchange, DiscoveredFresh, Settled
  <2>6. ResolvedFresh(h, n)
    BY <1>3, <1>4, <1>5, <2>2 DEF FreshExchange, ResolvedFresh, Targeted
  <2>7. PlatformFresh(h, n)
    BY <1>3, <1>4, <1>5 DEF FreshExchange, PlatformFresh
  <2> QED BY SMTT(60), <2>1, <2>3, <2>4, <2>5, <2>6, <2>7 DEF FreshExchange
<1>6. FreshOK(h, n)
  BY <1>2, <1>3, <1>4, <1>5 DEF FreshOK
<1>7. UNCHANGED <<deployment, registry, edits, direct>> /\ tokens' = tokens /\ Move(h, n)
  BY <1>1 DEF Reads
<1> QED BY <1>6, <1>7, FreshKeeps

LEMMA ReadLogsAuthorityFresh ==
  ASSUME TokensInv, FreshInv, NEW h \in Handlers, ReadLogsAuthority(h)
  PROVE  FreshInv'
<1>1. PICK m : m = handler[h]
  OBVIOUS
<1>2. Signing(h) /\ Reads /\ UNCHANGED verdicts
  BY DEF ReadLogsAuthority, LogsOpen
<1>3. PICK mine, logs :
        /\ mine => IF Principal(m.user).federated THEN PlatformFederated(h) ELSE m.user \in direct
        /\ logs = IF LogsAsked(h) /\ mine THEN "assigned" ELSE "denied"
        /\ Move(h, [m EXCEPT !.logs = logs])
  BY <1>1 DEF ReadLogsAuthority
<1>4. logs \in {"assigned", "granted"} =>
        IF Principal(m.user).federated THEN PlatformFederated(h) ELSE m.user \in direct
  BY <1>3
<1> QED BY <1>1, <1>2, <1>3, <1>4, LogsFresh

LEMMA ReadLogsClientFresh ==
  ASSUME TokensInv, FreshInv, NEW h \in Handlers, ReadLogsClient(h)
  PROVE  FreshInv'
<1>1. PICK m : m = handler[h]
  OBVIOUS
<1>2. Signing(h) /\ Reads /\ UNCHANGED verdicts /\ m.logs = "assigned"
  BY <1>1 DEF ReadLogsClient, LogsOpen
<1>3. PICK logs : Move(h, [m EXCEPT !.logs = logs])
  BY <1>1 DEF ReadLogsClient
<1> QED BY <1>1, <1>2, <1>3, LogsFresh DEF PlatformFresh

(* What the definitions grant is still held and defined. *)
LEMMA PermissionsHeld ==
  ASSUME NEW h, NEW m, RolesFresh(h, m), m.user \in Users, NEW t \in Tenants
  PROVE  /\ \A s \in Permissions(m, t) :
              s \notin Global /\ \E r \in held[<<m.user, t>>] : s \in definition[<<t, r>>]
         /\ CreatorAdministrator(m, t) =>
              /\ CreatorRole[t] \in held[<<m.user, t>>]
              /\ IdentityWrite \in definition[<<t, CreatorRole[t]>>]
<1>1. ASSUME NEW d \in m.defined, d[1] = t
      PROVE  /\ d[2] \in held[<<m.user, t>>] /\ d[3] = definition[<<t, d[2]>>]
             /\ d[3] \cap Global = {}
  <2>1. d[2] \in m.roles[t] /\ d[3] = definition[<<t, d[2]>>] /\ Canonical(t, d[2])
    BY <1>1 DEF RolesFresh
  <2>2. m.roles[t] \in {{}, held[<<m.user, t>>]}
    BY DEF RolesFresh
  <2> QED BY <2>1, <2>2 DEF Canonical, ValidPermissions
<1>2. ASSUME NEW s \in Permissions(m, t)
      PROVE  s \notin Global /\ \E r \in held[<<m.user, t>>] : s \in definition[<<t, r>>]
  <2>1. PICK d \in m.defined : d[1] = t /\ s \in d[3]
    BY DEF Permissions
  <2> QED BY <1>1, <2>1
<1>3. CreatorAdministrator(m, t) =>
        /\ CreatorRole[t] \in held[<<m.user, t>>]
        /\ IdentityWrite \in definition[<<t, CreatorRole[t]>>]
  BY <1>1 DEF CreatorAdministrator
<1> QED BY <1>2, <1>3

LEMMA HomeGlobalWithin ==
  ASSUME NEW role, NEW C, NEW S, NEW s \in S, s \in HomeGlobalAuthority(role, C)
  PROVE  s \in HomeGlobalAuthority(role, S)
<1>1. s \in HomeAuthority(role, C) /\ (RequiresHomeAuthority(s) \/ s = FeatureWrite)
  BY DEF HomeGlobalAuthority
<1>2. s \in HomeAuthority(role, S)
  BY <1>1 DEF HomeAuthority
<1> QED BY <1>1, <1>2 DEF HomeGlobalAuthority

(* The scopes of a token are those of the client, and of the subject's roles. *)
LEMMA EffectiveSplit ==
  ASSUME NEW h, NEW m, m = handler[h], NEW s, s \in EffectiveScopes(h), Mode(h) \in {"strict", "v1", "v2"}
  PROVE  /\ m.client = {} \/ s \in m.client
         /\ Discovers(h) => s \in TargetAuthority(h)
         /\ Mode(h) = "strict" => s \in Permissions(m, m.target)
<1>1. CASE Discovers(h)
  BY <1>1 DEF EffectiveScopes, Discovers
<1>2. CASE ~Discovers(h)
  <2>1. Mode(h) = "strict" /\ Scoped(h)
    BY <1>2 DEF Discovers, Scoped
  <2>2. PICK asked : s \in asked /\ (m.client = {} \/ asked \subseteq m.client)
                     /\ asked \subseteq Permissions(m, m.target)
    BY <1>2, <2>1 DEF EffectiveScopes
  <2> QED BY <1>2, <2>2
<1> QED BY <1>1, <1>2

LEMMA ClaimFields ==
  ASSUME NEW h, NEW m, m = handler[h], NEW S, NEW c, c = Claims(h, S)
  PROVE  /\ c.user = m.user /\ c.email = Session(h).email /\ c.version = Session(h).version
         /\ c.tenant = m.target /\ c.scopes = S /\ c.mode = Mode(h) /\ c.asOf = m.asOf
         /\ c.origin = Privileged(h)
         /\ c.principal = IF Recovered(h) THEN Master ELSE Principal(m.user).home
         /\ c.roles = IF Scoped(h) THEN m.roles[m.target] ELSE Absent
         /\ c.privilege <=> \/ Recovered(h) /\ PlatformScope \in S
                            \/ /\ ~Scoped(h) /\ PlatformScope \in S
                               /\ EffectiveRole(m.user, Privileged(h)) = "ADMIN"
         /\ ~Recovered(h) /\ ~Scoped(h) => c.role = EffectiveRole(m.user, Privileged(h))
<1>1. PICK role, lifted : /\ role = EffectiveRole(m.user, Privileged(h))
                          /\ lifted = (Recovered(h) /\ PlatformScope \in S)
  OBVIOUS
<1>2. c = [id |-> h, mode |-> Mode(h), user |-> m.user, email |-> Session(h).email,
           version |-> Session(h).version, tenant |-> m.target, scopes |-> S,
           principal |-> IF Recovered(h) THEN Master ELSE Principal(m.user).home,
           role |-> IF lifted THEN "ADMIN" ELSE IF Scoped(h) THEN Absent ELSE role,
           roles |-> IF Scoped(h) THEN m.roles[m.target] ELSE Absent,
           privilege |-> lifted \/ (~Scoped(h) /\ role = "ADMIN" /\ PlatformScope \in S),
           origin |-> Privileged(h), asOf |-> m.asOf, known |-> m.known]
  BY Zenon, <1>1 DEF Claims
<1>3. /\ c.user = m.user /\ c.email = Session(h).email /\ c.version = Session(h).version
      /\ c.tenant = m.target /\ c.scopes = S /\ c.mode = Mode(h) /\ c.asOf = m.asOf
      /\ c.origin = Privileged(h)
      /\ c.principal = IF Recovered(h) THEN Master ELSE Principal(m.user).home
  BY <1>2
<1>4. c.roles = IF Scoped(h) THEN m.roles[m.target] ELSE Absent
  BY <1>2
<1>5. c.privilege = (lifted \/ (~Scoped(h) /\ role = "ADMIN" /\ PlatformScope \in S))
  BY <1>2
<1>6. c.role = IF lifted THEN "ADMIN" ELSE IF Scoped(h) THEN Absent ELSE role
  BY <1>2
<1> QED BY Zenon, <1>1, <1>3, <1>4, <1>5, <1>6

(* The session of the token is current, *)
LEMMA SignedSession ==
  ASSUME TokensInv, FreshInv, NEW h \in Handlers, Signing(h), NEW m, m = handler[h], ~Legacy(h),
         m.asOf = edits, NEW S, S \subseteq EffectiveScopes(h), LogsScope \in S => m.logs = "granted",
         NEW c, c = Claims(h, S), Comparable(c, AllFacts)
  PROVE  /\ SessionCurrent(c)
         /\ RecoveredClaims(c) \/ (LogsScope \in S /\ ~Principal(c.user).federated) => c.user \in direct
<1>1. /\ FreshExchange(h, m) /\ Mode(h) \in {"strict", "v1", "v2"}
      /\ m.user = Session(h).user /\ m.user \in Users /\ m.target \in Tenants
      /\ Principal(m.user).home # Absent => m.home = Principal(m.user).home
      /\ m.direct => MayRecover(m.user)
  BY FreshEnding
<1>2. /\ c.user = m.user /\ c.email = Session(h).email /\ c.version = Session(h).version
      /\ c.tenant = m.target /\ c.scopes = S /\ c.mode = Mode(h) /\ c.asOf = m.asOf
      /\ c.origin = Privileged(h)
      /\ c.principal = IF Recovered(h) THEN Master ELSE Principal(m.user).home
      /\ c.roles = IF Scoped(h) THEN m.roles[m.target] ELSE Absent
      /\ c.privilege <=> \/ Recovered(h) /\ PlatformScope \in S
                         \/ /\ ~Scoped(h) /\ PlatformScope \in S
                            /\ EffectiveRole(m.user, Privileged(h)) = "ADMIN"
      /\ ~Recovered(h) /\ ~Scoped(h) => c.role = EffectiveRole(m.user, Privileged(h))
  BY ClaimFields
<1>3. TokenOK(c)
  BY ClaimsOK
<1>4. PICK p : p = Principal(m.user)
  OBVIOUS
<1>5. Recovered(h) => m.direct /\ ~p.federated /\ p.role = "ADMIN"
  BY <1>1, <1>4 DEF Recovered, MayRecover
<1>6. Privileged(h) <=> Session(h).privilege /\ p.federated /\ p.role = "ADMIN" /\ p.home # Absent
  BY <1>1, <1>4 DEF Privileged
<1>7. SubjectFresh(h, m) /\ RolesFresh(h, m) /\ PlatformFresh(h, m)
  BY <1>1 DEF FreshExchange
<1>8. PlatformAuthorityValid(c.user, c.privilege, c.origin)
  <2>1. CASE p.federated
    <3>1. p.role = "ADMIN" => p.home # Absent /\ p.listed
      BY <1>4, <1>7, <2>1 DEF SubjectFresh, PlatformAuthorityValid
    <3>2. c.privilege \/ c.origin => p.role = "ADMIN"
      BY <1>2, <1>3, <1>4, <1>6, <2>1 DEF TokenOK
    <3> QED BY <1>2, <1>4, <2>1, <3>1, <3>2 DEF PlatformAuthorityValid
  <2>2. CASE ~p.federated
    <3>1. EffectiveRole(m.user, Privileged(h)) = p.role
      BY <1>4, <2>2 DEF EffectiveRole
    <3>2. ~c.origin /\ (c.privilege => p.role = "ADMIN")
      BY <1>2, <1>5, <1>6, <2>2, <3>1
    <3> QED BY <1>2, <1>4, <2>2, <3>2 DEF PlatformAuthorityValid
  <2> QED BY <2>1, <2>2
<1>9. ASSUME LogsScope \in S PROVE FederatedLogsClaims(c)
  <2>1. SUFFICES ASSUME p.federated
                 PROVE  /\ p.home = Master /\ p.role = "ADMIN" /\ c.privilege
                        /\ c.role = "ADMIN" /\ c.tenant = p.home
    BY <1>2, <1>4 DEF FederatedLogsClaims
  <2>2. PlatformFederated(h)
    BY <1>4, <1>7, <1>9, <2>1 DEF PlatformFresh
  <2>3. p.home = Master /\ p.home # Absent /\ Privileged(h) /\ p.role = "ADMIN"
    BY <1>1, <1>4, <1>6, <2>2 DEF PlatformFederated, LocalFederated
  <2>4. PlatformScope \in S /\ m.target = p.home
    BY <1>2, <1>4, <1>9, <2>1 DEF Comparable
  <2>5. Mode(h) # "strict"
    <3>1. Mode(h) = "strict" => LogsScope \in Permissions(m, m.target)
      BY <1>1, <1>9, EffectiveSplit
    <3>2. LogsScope \in Global
      BY ScopeClasses
    <3> QED BY <1>1, <1>7, <3>1, <3>2, PermissionsHeld
  <2>6. ~Scoped(h)
    BY <1>1, <1>4, <2>3, <2>4, <2>5 DEF Scoped, Discovers
  <2>7. EffectiveRole(m.user, Privileged(h)) = "ADMIN"
    BY <1>4, <2>3 DEF EffectiveRole
  <2> QED BY <1>2, <1>5, <2>1, <2>3, <2>4, <2>6, <2>7
<1>10. SessionCurrent(c)
  <2>1. p.federated => p.home # Absent
    BY <1>1, <1>4, TokenDeployments DEF TokensInv, RegistryOK, Principal
  <2>2. FederatedHome(c)
    BY <1>2, <1>4, <1>5, <2>1 DEF FederatedHome
  <2> QED BY <1>1, <1>2, <1>7, <1>8, <1>9, <2>2 DEF SessionCurrent, SubjectFresh
<1>11. RecoveredClaims(c) => c.user \in direct
  <2>1. RecoveredClaims(c) => c.privilege /\ c.roles # Absent
    BY DEF RecoveredClaims
  <2>2. c.privilege /\ c.roles # Absent => m.direct
    BY Zenon, <1>2, <1>5
  <2> QED BY <1>2, <1>7, <2>1, <2>2 DEF PlatformFresh
<1>12. LogsScope \in S /\ ~Principal(c.user).federated => c.user \in direct
  BY <1>2, <1>7 DEF PlatformFresh
<1> QED BY <1>10, <1>11, <1>12

(* and so is the authority it names. *)
LEMMA SignedAuthority ==
  ASSUME TokensInv, FreshInv, NEW h \in Handlers, Signing(h), NEW m, m = handler[h], ~Legacy(h),
         m.asOf = edits, NEW S, S \subseteq EffectiveScopes(h), S # {}, NEW c, c = Claims(h, S)
  PROVE  /\ Named(c) => c.roles = held[<<c.user, c.tenant>>] /\ Resolved(c.user, c.tenant)
         /\ c.roles # Absent => \A s \in S : Standing(c, s)
<1>1. /\ FreshExchange(h, m) /\ Mode(h) \in {"strict", "v1", "v2"}
      /\ m.user = Session(h).user /\ m.user \in Users /\ m.target \in Tenants
      /\ Principal(m.user).home # Absent => m.home = Principal(m.user).home
      /\ Targeted(h, m) => RolesRead(m, m.target) /\ Resolved(m.user, m.target)
      /\ Vets(h, m, m.target) =>
           \/ RolesRead(m, m.target) /\ Resolved(m.user, m.target)
           \/ Principal(m.user).home = Absent /\ Undefined(m, m.target)
  BY FreshEnding
<1>2. /\ c.user = m.user /\ c.tenant = m.target /\ c.scopes = S /\ c.origin = Privileged(h)
      /\ c.roles = IF Scoped(h) THEN m.roles[m.target] ELSE Absent
  BY ClaimFields
<1>3. TokenOK(c)
  BY ClaimsOK
<1>4. PICK p : p = Principal(m.user)
  OBVIOUS
<1>5. RolesFresh(h, m)
  BY <1>1 DEF FreshExchange
<1>6. /\ \A s \in Permissions(m, m.target) :
           \E r \in held[<<m.user, m.target>>] : s \in definition[<<m.target, r>>]
      /\ CreatorAdministrator(m, m.target) =>
           /\ CreatorRole[m.target] \in held[<<m.user, m.target>>]
           /\ IdentityWrite \in definition[<<m.target, CreatorRole[m.target]>>]
  BY <1>1, <1>5, PermissionsHeld
<1>7. c.roles # Absent => Scoped(h) /\ c.roles = m.roles[m.target]
  BY Zenon, <1>2
<1>8. \A s \in S : /\ Discovers(h) => s \in TargetAuthority(h)
                   /\ Mode(h) = "strict" => s \in Permissions(m, m.target)
  BY <1>1, EffectiveSplit
<1>9. PlatformFederated(h) => Privileged(h) /\ p.home # Absent
  BY <1>1, <1>4 DEF PlatformFederated, LocalFederated
<1>10. ASSUME Discovers(h), Scoped(h) PROVE m.target # m.home \/ p.home = Absent
  BY <1>4, <1>10 DEF Scoped, Discovers
<1>11. ASSUME NEW s \in S, Discovers(h), Scoped(h), ~PlatformFederated(h)
       PROVE  \/ s \in Permissions(m, m.target)
              \/ CreatorAdministrator(m, m.target) /\ s \in SecretScopes
              \/ p.home # Absent /\ s \in HomeGlobalAuthority(EffectiveRole(m.user, Privileged(h)), m.client)
  <2>1. s \in TargetAuthority(h)
    BY <1>8, <1>11
  <2> QED BY <1>4, <1>10, <1>11, <2>1 DEF TargetAuthority
<1>12. ASSUME Named(c) PROVE RolesRead(m, m.target) /\ Resolved(m.user, m.target)
  <2>1. c.roles # Absent /\ ~(c.origin /\ c.roles = {})
    BY <1>12 DEF Named
  <2>2. Scoped(h) /\ c.roles = m.roles[m.target]
    BY <1>7, <2>1
  <2>3. CASE Mode(h) = "strict"
    BY <1>1, <2>3 DEF Targeted
  <2>4. ASSUME Discovers(h) PROVE ~PlatformFederated(h)
    <3>1. PlatformFederated(h) => m.roles[m.target] = {} /\ c.origin
      BY <1>1, <1>2, <1>5, <1>9, <2>4 DEF RolesFresh
    <3> QED BY <2>1, <2>2, <3>1
  <2>5. CASE Mode(h) = "v1"
    <3>1. Discovers(h)
      BY SMTT(60), <2>5 DEF Discovers
    <3>2. m.target # p.home
      BY <1>1, <1>4, <1>10, <2>2, <3>1, TokenDeployments
    <3> QED BY <1>1, <1>4, <2>4, <2>5, <3>1, <3>2 DEF Targeted
  <2>6. CASE Mode(h) = "v2"
    <3>1. Discovers(h)
      BY <2>6 DEF Discovers
    <3>2. Vets(h, m, m.target)
      BY <1>4, <1>10, <2>2, <2>4, <2>6, <3>1 DEF Vets
    <3>3. ~(p.home = Absent /\ Undefined(m, m.target))
      <4>1. SUFFICES ASSUME p.home = Absent, Undefined(m, m.target) PROVE FALSE
        OBVIOUS
      <4>2. Permissions(m, m.target) = {} /\ ~CreatorAdministrator(m, m.target)
        BY <4>1 DEF Undefined, Permissions, CreatorAdministrator
      <4>3. PICK s \in S : TRUE
        OBVIOUS
      <4> QED BY <1>11, <2>2, <2>4, <3>1, <4>1, <4>2
    <3> QED BY <1>1, <1>4, <3>2, <3>3
  <2> QED BY <1>1, <2>3, <2>5, <2>6
<1>13. Named(c) => c.roles = held[<<c.user, c.tenant>>] /\ Resolved(c.user, c.tenant)
  BY <1>2, <1>7, <1>12 DEF Named, RolesRead
<1>14. ASSUME c.roles # Absent, NEW s \in S PROVE Standing(c, s)
  <2>1. CASE s \in Permissions(m, m.target)
    BY <1>2, <1>6, <2>1 DEF Standing
  <2>2. CASE Mode(h) = "strict"
    BY <1>8, <2>1, <2>2
  <2>3. CASE PlatformFederated(h)
    BY <1>2, <1>9, <2>3 DEF Standing
  <2>4. CASE CreatorAdministrator(m, m.target) /\ s \in SecretScopes
    BY <1>2, <1>6, <2>4 DEF Standing
  <2>5. CASE p.home # Absent /\ s \in HomeGlobalAuthority(EffectiveRole(m.user, Privileged(h)), m.client)
    <3>1. s \in HomeGlobalAuthority(EffectiveRole(m.user, Privileged(h)), S)
      BY <2>5, HomeGlobalWithin
    <3>2. ASSUME ~c.origin
          PROVE  EffectiveRole(m.user, Privileged(h)) = EffectiveRole(m.user, c.privilege /\ p.federated)
      BY <1>2, <1>3, <1>4, <3>2 DEF EffectiveRole, TokenOK
    <3>3. c.origin \/ s \in HomeGlobalAuthority(
                              EffectiveRole(c.user, c.privilege /\ Principal(c.user).federated), c.scopes)
      BY <1>2, <1>4, <3>1, <3>2
    <3> QED BY <1>2, <1>4, <2>5, <3>3 DEF Standing
  <2>6. Mode(h) # "strict" => Discovers(h)
    BY <1>1 DEF Discovers
  <2>7. Scoped(h)
    BY <1>7, <1>14
  <2> QED BY <1>11, <2>1, <2>2, <2>3, <2>4, <2>5, <2>6, <2>7
<1> QED BY <1>13, <1>14

LEMMA SignFresh ==
  ASSUME TokensInv, FreshInv, NEW h \in Handlers, Sign(h)
  PROVE  FreshInv'
<1>1. PICK m, kept :
        /\ m = handler[h] /\ kept \subseteq EffectiveScopes(h)
        /\ LogsScope \in kept => m.logs = "granted"
        /\ \/ tokens' = tokens
           \/ /\ tokens' = tokens \cup {Claims(h, kept)}
              /\ kept # {} \/ (~Discovers(h) /\ m.client = {})
  BY DEF Sign
<1>2. Signing(h) /\ End(h) /\ UNCHANGED <<deployment, registry, edits, direct>> /\ verdicts' = verdicts
  BY DEF Sign
<1>3. PICK c : c = Claims(h, kept)
  OBVIOUS
<1>4. /\ c.user = m.user /\ c.tenant = m.target /\ c.scopes = kept /\ c.mode = Mode(h)
      /\ c.asOf = m.asOf
  BY <1>1, <1>3, ClaimFields
<1>5. m.pc = "reading" /\ Plan(h).kind = "exchange"
  BY <1>1, <1>2 DEF Signing, AtEnd
<1>6. ASSUME kept # {} \/ (~Discovers(h) /\ m.client = {}) PROVE FreshToken(c)
  <2>1. SUFFICES ASSUME ~Legacy(h) PROVE edits \subseteq m.asOf /\ (Quiet(c) => Acceptable(c))
    BY <1>4, <1>5 DEF FreshToken, Legacy
  <2>2. edits \subseteq m.asOf
    BY <1>1, <1>5, <2>1 DEF FreshInv, FreshOK
  <2>3. ASSUME Quiet(c) PROVE Acceptable(c)
    <3>1. m.asOf = edits /\ Comparable(c, AllFacts)
      BY <1>4, <2>3 DEF Quiet
    <3>2. /\ Mode(h) \in {"strict", "v1", "v2"} /\ m.target \in Tenants /\ m.target \in active
          /\ m.client # Absent /\ m.client = audience[m.target] /\ (Discovers(h) => m.client # {})
      BY <1>1, <1>2, <2>1, <3>1, FreshEnding
    <3>3. m.client # {}
      <4>1. <<"audience", m.target, audience[m.target]>> \in AllFacts
        BY <3>2 DEF AllFacts, Facts
      <4>2. Mode(h) = "strict" => <<"audience", m.target, {}>> \notin AllFacts
        BY <1>4, <3>1 DEF Comparable
      <4>3. Mode(h) = "strict" \/ Discovers(h)
        BY <3>2 DEF Discovers
      <4> QED BY <3>2, <4>1, <4>2, <4>3
    <3>4. kept # {}
      BY <1>6, <3>3
    <3>5. kept \subseteq m.client
      BY <1>1, <3>2, <3>3, EffectiveSplit
    <3>6. /\ SessionCurrent(c)
          /\ RecoveredClaims(c) \/ (LogsScope \in kept /\ ~Principal(c.user).federated) =>
               c.user \in direct
      BY <1>1, <1>2, <1>3, <2>1, <3>1, SignedSession
    <3>7. /\ Named(c) => c.roles = held[<<c.user, c.tenant>>] /\ Resolved(c.user, c.tenant)
          /\ c.roles # Absent => \A s \in kept : Standing(c, s)
      BY <1>1, <1>2, <1>3, <2>1, <3>1, <3>4, SignedAuthority
    <3> QED BY <1>4, <3>2, <3>3, <3>5, <3>6, <3>7 DEF Acceptable
  <2> QED BY <2>2, <2>3
<1>7. \A t \in tokens' : t \in tokens \/ FreshToken(t)
  BY <1>1, <1>3, <1>6
<1> QED BY <1>2, <1>7, FreshEnd

----------------------------------------------------------------------------
(* The reads an exchange begins with *)

OpensFresh(h, x) ==
  /\ x.what \in {"ids", "tenant", "client", "direct"} /\ x.rule # "define"
  /\ x.rule = "skip" => x.what = "ids"
  /\ x.what = "ids" /\ x.rule = "must" => Mode(h) # "v2" /\ ~(PlatformFederated(h) /\ Discovers(h))
  /\ x.what = "client" => x.tenant = Plan(h).target

OpensPart(h, q) == IsSequence(q) /\ Ordered(q) /\ \A x \in Queued(q) : OpensFresh(h, x)
Plain(x) == ~ClientRead(x) /\ ~Selects(x)
Later(x) == x.what # "definition" /\ x.rule # "home"
Before(a, b) == \A x \in Queued(a), y \in Queued(b) : Follows(x, y)

LEMMA OpensParts ==
  ASSUME NEW h, NEW a, NEW b, NEW c, c = a \o b, OpensPart(h, a), OpensPart(h, b), Before(a, b)
  PROVE  OpensPart(h, c) /\ \A x : x \in Queued(c) <=> x \in Queued(a) \/ x \in Queued(b)
<1>1. IsSequence(a \o b) /\ Queued(a \o b) = Queued(a) \cup Queued(b)
  BY Concatenation DEF OpensPart
<1>2. Ordered(a \o b)
  BY OrderedConcat DEF OpensPart, Before
<1> QED BY <1>1, <1>2 DEF OpensPart

LEMMA OpensOne ==
  ASSUME NEW h, NEW x, OpensFresh(h, x)
  PROVE  OpensPart(h, <<x>>) /\ Queued(<<x>>) = {x}
BY OneRead, OrderedSmall DEF OpensPart

LEMMA OpensEmpty ==
  ASSUME NEW h
  PROVE  OpensPart(h, <<>>) /\ Queued(<<>>) = {}
BY EmptyQueue, OrderedSmall DEF OpensPart

LEMMA OpensTwo ==
  ASSUME NEW h, NEW x, NEW y, OpensFresh(h, x), OpensFresh(h, y), Follows(x, y)
  PROVE  OpensPart(h, <<x, y>>) /\ Queued(<<x, y>>) = {x, y}
<1>1. IsSequence(<<x, y>>) /\ Queued(<<x, y>>) = {x, y}
  BY TwoReads
<1>2. Ordered(<<x, y>>)
  BY DEF Ordered
<1> QED BY <1>1, <1>2 DEF OpensPart

LEMMA OpeningFresh ==
  ASSUME TokensInv, NEW h \in Handlers, Plan(h).kind = "exchange", ~Legacy(h), NEW u, NEW q,
         q = OpeningReads(h, u)
  PROVE  /\ OpensPart(h, q)
         /\ \E x \in Queued(q) : ClientRead(x)
         /\ Principal(u).home # Absent => Read("tenant", Principal(u).home, {}, "must") \in Queued(q)
         /\ \/ Mode(h) = "strict"
            \/ Mode(h) = "v1" /\ Plan(h).target # Principal(u).home /\ ~PlatformFederated(h)
            => \E x \in Queued(q) : x.what = "ids" /\ x.rule = "must"
<1>1. PICK home, client, first, skip, list, own, session :
        /\ home = Principal(u).home
        /\ client = Read("client", Plan(h).target, {}, "must")
        /\ first = IF home = Absent THEN Read("ids", Absent, {}, "home")
                   ELSE Read("tenant", home, {}, "must")
        /\ skip = Read("ids", Absent, {}, "skip")
        /\ list = Read("ids", Absent, {}, "must")
        /\ own = Read("direct", Master, {}, "lenient")
        /\ session = Read("tenant", home, {}, "must")
  OBVIOUS
<1>2. PICK homeReads, listing, again, sessionTenant :
        /\ homeReads = <<first>>
        /\ listing = IF LocalFederated(h) /\ ~PlatformFederated(h) THEN <<>> ELSE <<skip>>
        /\ again = IF Plan(h).target # home /\ ~PlatformFederated(h) THEN <<list>> ELSE <<>>
        /\ sessionTenant = IF home = Absent THEN <<>> ELSE <<session>>
  OBVIOUS
<1>3. PICK body :
        /\ q = sessionTenant \o body
        /\ body = CASE Mode(h) = "legacy" -> <<Read("ids", Absent, {}, "lenient")>>
                    [] Mode(h) = "strict" -> <<list, client>>
                    [] Mode(h) = "v1"     -> homeReads \o listing \o <<client>> \o again
                    [] Mode(h) = "v2"     -> homeReads \o listing \o <<own, client>>
  <2>1. homeReads = IF home = Absent THEN <<Read("ids", Absent, {}, "home")>> ELSE <<session>>
    BY Zenon, <1>1, <1>2
  <2> QED BY Zenon, <1>1, <1>2, <2>1 DEF OpeningReads
<1>4. Mode(h) \in {"strict", "v1", "v2"}
  BY Kinds DEF Legacy
<1>5. /\ OpensFresh(h, client) /\ OpensFresh(h, skip) /\ OpensFresh(h, own) /\ OpensFresh(h, session)
      /\ Plain(skip) /\ Plain(own) /\ Plain(session)
      /\ Later(client) /\ Later(skip) /\ Later(own) /\ Later(session) /\ Later(list)
      /\ Follows(list, client) /\ Follows(client, list) /\ ClientRead(client)
      /\ list.what = "ids" /\ list.rule = "must"
  BY <1>1, ReadFields DEF OpensFresh, Plain, Later, Follows, ClientRead, Selects
<1>6. \A x, y : Plain(x) /\ Later(y) => Follows(x, y)
  BY DEF Plain, Later, Follows
<1>7. OpensFresh(h, first) /\ Plain(first) /\ (home # Absent => first = session)
  <2>1. CASE home = Absent
    BY <1>1, <2>1, ReadFields DEF OpensFresh, Plain, ClientRead, Selects
  <2>2. CASE home # Absent
    BY <1>1, <1>5, <2>2
  <2> QED BY <2>1, <2>2
<1>8. OpensPart(h, homeReads) /\ Queued(homeReads) = {first}
  BY <1>2, <1>7, OpensOne
<1>9. OpensPart(h, listing) /\ \A x \in Queued(listing) : x = skip
  BY <1>2, <1>5, OpensOne, OpensEmpty
<1>10. PICK b : b = homeReads \o listing
  OBVIOUS
<1>11. OpensPart(h, b) /\ \A x : x \in Queued(b) <=> x = first \/ x \in Queued(listing)
  <2>1. Before(homeReads, listing)
    BY <1>5, <1>6, <1>7, <1>8, <1>9 DEF Before
  <2>2. OpensPart(h, b) /\ \A x : x \in Queued(b) <=> x \in Queued(homeReads) \/ x \in Queued(listing)
    BY <1>8, <1>9, <1>10, <2>1, OpensParts
  <2> QED BY <1>8, <2>2
<1>12. \A x \in Queued(b) : Plain(x) /\ (home # Absent => Later(x))
  BY <1>5, <1>7, <1>9, <1>11
<1>13. /\ OpensPart(h, body) /\ client \in Queued(body)
       /\ home # Absent => \A x \in Queued(body) : Later(x)
       /\ Discovers(h) => first \in Queued(body)
       /\ \/ Mode(h) = "strict"
          \/ Mode(h) = "v1" /\ Plan(h).target # home /\ ~PlatformFederated(h)
          => list \in Queued(body)
  <2>1. CASE Mode(h) = "strict"
    <3>1. OpensFresh(h, list)
      BY <1>1, <2>1, ReadFields DEF OpensFresh, Discovers
    <3>2. OpensPart(h, <<list, client>>) /\ Queued(<<list, client>>) = {list, client}
      BY <1>5, <3>1, OpensTwo
    <3>3. body = <<list, client>>
      BY <1>3, <2>1
    <3> QED BY <1>5, <2>1, <3>2, <3>3 DEF Discovers
  <2>2. CASE Mode(h) = "v1"
    <3>1. PICK a, c, d : a = <<client>> /\ c = b \o a /\ d = c \o again
      OBVIOUS
    <3>2. OpensPart(h, a) /\ Queued(a) = {client}
      BY <1>5, <3>1, OpensOne
    <3>3. Before(b, a)
      BY <1>5, <1>6, <1>12, <3>2 DEF Before
    <3>4. OpensPart(h, c) /\ \A x : x \in Queued(c) <=> x \in Queued(b) \/ x = client
      <4>1. OpensPart(h, c) /\ \A x : x \in Queued(c) <=> x \in Queued(b) \/ x \in Queued(a)
        <5>1. c = b \o a /\ OpensPart(h, b) /\ OpensPart(h, a)
          BY <1>11, <3>1, <3>2
        <5> QED BY ONLY <3>3, <5>1, OpensParts
      <4> QED BY <3>2, <4>1
    <3>5. ~PlatformFederated(h) => OpensFresh(h, list)
      BY <1>1, <2>2, ReadFields DEF OpensFresh
    <3>6. /\ OpensPart(h, again) /\ (\A x \in Queued(again) : x = list)
          /\ Plan(h).target # home /\ ~PlatformFederated(h) => list \in Queued(again)
      <4>1. CASE Plan(h).target # home /\ ~PlatformFederated(h)
        BY <1>2, <3>5, <4>1, OpensOne
      <4>2. CASE ~(Plan(h).target # home /\ ~PlatformFederated(h))
        BY <1>2, <4>2, OpensEmpty
      <4> QED BY <4>1, <4>2
    <3>7. Before(c, again)
      BY <1>5, <1>6, <1>12, <3>4, <3>6 DEF Before
    <3>8. OpensPart(h, d) /\ \A x : x \in Queued(d) <=> x \in Queued(c) \/ x \in Queued(again)
      <4>1. d = c \o again /\ OpensPart(h, c) /\ OpensPart(h, again)
        BY <3>1, <3>4, <3>6
      <4> QED BY ONLY <3>7, <4>1, OpensParts
    <3>9. body = d
      BY <1>3, <1>10, <2>2, <3>1
    <3> QED BY <1>5, <1>11, <1>12, <2>2, <3>4, <3>6, <3>8, <3>9
  <2>3. CASE Mode(h) = "v2"
    <3>1. PICK a, c : a = <<own, client>> /\ c = b \o a
      OBVIOUS
    <3>2. OpensPart(h, a) /\ Queued(a) = {own, client}
      BY <1>5, <1>6, <3>1, OpensTwo
    <3>3. Before(b, a)
      BY <1>5, <1>6, <1>12, <3>2 DEF Before
    <3>4. OpensPart(h, c) /\ \A x : x \in Queued(c) <=> x \in Queued(b) \/ x \in {own, client}
      <4>1. OpensPart(h, c) /\ \A x : x \in Queued(c) <=> x \in Queued(b) \/ x \in Queued(a)
        <5>1. c = b \o a /\ OpensPart(h, b) /\ OpensPart(h, a)
          BY <1>11, <3>1, <3>2
        <5> QED BY ONLY <3>3, <5>1, OpensParts
      <4> QED BY <3>2, <4>1
    <3>5. body = c
      BY <1>3, <1>10, <2>3, <3>1
    <3> QED BY <1>5, <1>11, <1>12, <2>3, <3>4, <3>5
  <2> QED BY <1>4, <2>1, <2>2, <2>3
<1>14. /\ OpensPart(h, q) /\ (\A x \in Queued(body) : x \in Queued(q))
       /\ home # Absent => session \in Queued(q)
  <2>1. CASE home = Absent
    <3>1. OpensPart(h, sessionTenant) /\ Queued(sessionTenant) = {}
      BY <1>2, <2>1, OpensEmpty
    <3>2. Before(sessionTenant, body)
      BY SMTT(60), <3>1 DEF Before
    <3>3. OpensPart(h, q) /\ \A x : x \in Queued(q) <=> x \in Queued(sessionTenant) \/ x \in Queued(body)
      <4>1. q = sessionTenant \o body /\ OpensPart(h, sessionTenant) /\ OpensPart(h, body)
        BY <1>3, <1>13, <3>1
      <4> QED BY ONLY <3>2, <4>1, OpensParts
    <3> QED BY <2>1, <3>3
  <2>2. CASE home # Absent
    <3>1. OpensPart(h, sessionTenant) /\ Queued(sessionTenant) = {session}
      BY <1>2, <1>5, <2>2, OpensOne
    <3>2. Before(sessionTenant, body)
      BY SMTT(60), <1>5, <1>6, <1>13, <2>2, <3>1 DEF Before
    <3>3. OpensPart(h, q) /\ \A x : x \in Queued(q) <=> x \in Queued(sessionTenant) \/ x \in Queued(body)
      <4>1. q = sessionTenant \o body /\ OpensPart(h, sessionTenant) /\ OpensPart(h, body)
        BY <1>3, <1>13, <3>1
      <4> QED BY ONLY <3>2, <4>1, OpensParts
    <3> QED BY <3>1, <3>3
  <2> QED BY <2>1, <2>2
<1> QED BY <1>1, <1>5, <1>13, <1>14

LEMMA ExchangeFresh ==
  ASSUME TokensInv, FreshInv, NEW h \in Handlers, Exchange(h)
  PROVE  FreshInv'
<1>1. PICK s, u, q, home :
        s = Session(h) /\ u = s.user /\ q = OpeningReads(h, u) /\ home = Principal(u).home
  OBVIOUS
<1>2. PICK A : A = IF Discovers(h) THEN {home} ELSE {}
  OBVIOUS
<1>3. PICK n : n = [Idle EXCEPT !.pc = "reading", !.user = u, !.todo = q,
                      !.target = Plan(h).target, !.home = home, !.allowed = A,
                      !.asOf = edits, !.known = AllFacts]
  OBVIOUS
<1>4. \/ End(h)
      \/ /\ Move(h, n)
         /\ account[u].active /\ account[u].email = s.email /\ account[u].version = s.version
         /\ PlatformAuthorityValid(u, s.privilege, FALSE)
  BY <1>1, <1>2, <1>3 DEF Exchange
<1>5. /\ UNCHANGED <<deployment, registry, edits, direct>> /\ tokens' = tokens /\ verdicts' = verdicts
      /\ Plan(h).kind = "exchange"
  BY DEF Exchange, Reads
<1>6. CASE End(h)
  BY <1>5, <1>6, FreshEnd
<1>7. CASE ~End(h)
  <2>1. /\ n.pc = "reading" /\ n.user = u /\ n.todo = q /\ n.target = Plan(h).target
        /\ n.home = home /\ n.allowed = A /\ n.asOf = edits /\ n.client = Absent
        /\ n.roles = [t \in Tenants |-> {}] /\ n.defined = {} /\ n.direct = FALSE /\ n.logs = "open"
    BY ZenonT(60), <1>3 DEF Idle
  <2>2. ASSUME ~Legacy(h) PROVE FreshExchange(h, n)
    <3>1. /\ OpensPart(h, q) /\ (\E x \in Queued(q) : ClientRead(x))
          /\ home # Absent => Read("tenant", home, {}, "must") \in Queued(q)
          /\ \/ Mode(h) = "strict"
             \/ Mode(h) = "v1" /\ Plan(h).target # home /\ ~PlatformFederated(h)
             => \E x \in Queued(q) : x.what = "ids" /\ x.rule = "must"
      BY <1>1, <1>5, <2>2, OpeningFresh
    <3>2. SubjectFresh(h, n)
      BY <1>1, <1>4, <1>7, <2>1 DEF SubjectFresh
    <3>3. RolesFresh(h, n)
      BY <2>1 DEF RolesFresh
    <3>4. Ordered(n.todo) /\ \A x \in Queued(n.todo) : ReadFresh(h, n, x)
      BY <2>1, <3>1 DEF OpensPart, OpensFresh, ReadFresh, ClientRead
    <3>5. AllowedFresh(h, n)
      <4>1. SUFFICES ASSUME Discovers(h), NEW t \in n.allowed \cap Tenants PROVE AllowedAt(h, n, t)
        BY DEF AllowedFresh
      <4>2. t = home /\ home # Absent
        BY <1>2, <2>1, <4>1, TokenDeployments
      <4>3. ~Vets(h, n, t)
        BY <1>1, <2>1, <4>2 DEF Vets
      <4> QED BY <2>1, <3>1, <4>2, <4>3 DEF AllowedAt
    <3>6. DiscoveredFresh(h, n) /\ ClientFresh(h, n) /\ PlatformFresh(h, n)
      BY <2>1, <3>1 DEF DiscoveredFresh, ClientFresh, PlatformFresh
    <3>7. ResolvedFresh(h, n)
      BY <1>1, <2>1, <3>1 DEF ResolvedFresh, Targeted
    <3> QED BY <3>2, <3>3, <3>4, <3>5, <3>6, <3>7 DEF FreshExchange
  <2>3. FreshOK(h, n)
    BY <1>5, <2>1, <2>2 DEF FreshOK
  <2> QED BY <1>4, <1>5, <1>7, <2>3, FreshKeeps
<1> QED BY <1>6, <1>7

----------------------------------------------------------------------------
(* A validation *)

LEMMA ValidationReadsFresh ==
  ASSUME NEW t, Acceptable(t), NEW q, q = ValidationReads(t)
  PROVE  /\ \A x \in Queued(q) : BearerRead(t, x)
         /\ \E x \in Queued(q) : x.what = "client"
<1>1. PICK own, tenant, client, roles :
        /\ own = DirectOwed /\ tenant = TenantOwed(t)
        /\ client = Read("client", t.tenant, {}, "must") /\ roles = RolesOwed(t)
  OBVIOUS
<1>2. PICK a, b, c, d :
        /\ a = IF LogsScope \in t.scopes /\ ~Principal(t.user).federated THEN <<own>> ELSE <<>>
        /\ b = <<tenant, client>>
        /\ c = IF t.roles = Absent \/ (t.origin /\ t.roles = {}) THEN <<>> ELSE <<roles>>
        /\ d = IF RecoveredClaims(t) THEN <<own>> ELSE <<>>
  OBVIOUS
<1>3. q = ((a \o b) \o c) \o d
  BY <1>1, <1>2 DEF ValidationReads, TenantOwed, RolesOwed, DirectOwed
<1>4. /\ BearerRead(t, tenant) /\ BearerRead(t, client)
      /\ Named(t) => BearerRead(t, roles)
      /\ t.user \in direct => BearerRead(t, own)
  BY <1>1, ReadFields DEF TenantOwed, RolesOwed, DirectOwed, BearerRead
<1>5. RecoveredClaims(t) \/ (LogsScope \in t.scopes /\ ~Principal(t.user).federated) => t.user \in direct
  BY DEF Acceptable
<1>6. IsSequence(a) /\ \A x \in Queued(a) : BearerRead(t, x)
  BY <1>2, <1>4, <1>5, OneRead, EmptyQueue
<1>7. IsSequence(b) /\ client \in Queued(b) /\ \A x \in Queued(b) : BearerRead(t, x)
  BY <1>2, <1>4, TwoReads
<1>8. IsSequence(c) /\ \A x \in Queued(c) : BearerRead(t, x)
  <2>1. CASE Named(t)
    <3>1. c = <<roles>>
      BY <1>2, <2>1 DEF Named
    <3> QED BY <1>4, <2>1, <3>1, OneRead
  <2>2. CASE ~Named(t)
    <3>1. c = <<>>
      BY <1>2, <2>2 DEF Named
    <3> QED BY <3>1, EmptyQueue
  <2> QED BY <2>1, <2>2
<1>9. IsSequence(d) /\ \A x \in Queued(d) : BearerRead(t, x)
  BY <1>2, <1>4, <1>5, OneRead, EmptyQueue
<1>10. PICK e, f : e = a \o b /\ f = e \o c
  OBVIOUS
<1>11. IsSequence(e) /\ Queued(e) = Queued(a) \cup Queued(b)
  BY <1>6, <1>7, <1>10, Concatenation
<1>12. IsSequence(f) /\ Queued(f) = Queued(e) \cup Queued(c)
  BY <1>8, <1>10, <1>11, Concatenation
<1>13. Queued(q) = Queued(f) \cup Queued(d)
  BY <1>3, <1>9, <1>10, <1>12, Concatenation
<1>14. client.what = "client"
  BY <1>1, ReadFields
<1> QED BY <1>6, <1>7, <1>8, <1>9, <1>11, <1>12, <1>13, <1>14

LEMMA ValidateFresh ==
  ASSUME TokensInv, FreshInv, NEW h \in Handlers, Validate(h)
  PROVE  FreshInv'
<1>1. PICK t \in tokens :
        \/ /\ SessionCurrent(t) /\ verdicts' = verdicts
           /\ Move(h, [Idle EXCEPT !.pc = "reading", !.user = t.user, !.token = t,
                         !.target = t.tenant, !.todo = ValidationReads(t), !.known = AllFacts])
        \/ /\ ~SessionCurrent(t) /\ End(h)
           /\ verdicts' = verdicts \cup {[token |-> t, accept |-> FALSE, faulty |-> FALSE,
                                          quiet |-> t.asOf = edits, known |-> AllFacts]}
  BY Zenon DEF Validate, SessionCurrent
<1>2. /\ UNCHANGED <<deployment, registry, edits, direct>> /\ tokens' = tokens
      /\ Plan(h).kind = "validate"
  BY DEF Validate, Reads
<1>3. Quiet(t) => Acceptable(t)
  BY DEF FreshInv, FreshToken, Quiet, Comparable
<1>4. CASE ~SessionCurrent(t)
  <2>1. PICK v : v = [token |-> t, accept |-> FALSE, faulty |-> FALSE,
                      quiet |-> t.asOf = edits, known |-> AllFacts]
    OBVIOUS
  <2>2. v.token = t /\ v.known = AllFacts /\ (v.quiet <=> t.asOf = edits)
    BY <2>1
  <2>3. ~Quiet(t)
    BY <1>3, <1>4 DEF Acceptable
  <2>4. FreshVerdict(v)
    BY <2>2, <2>3 DEF FreshVerdict, Quiet
  <2>5. End(h) /\ verdicts' = verdicts \cup {v}
    BY <1>1, <1>4, <2>1
  <2> QED BY <1>2, <2>4, <2>5, FreshEnd
<1>5. CASE SessionCurrent(t)
  <2>1. PICK q : q = ValidationReads(t)
    OBVIOUS
  <2>2. PICK n : n = [Idle EXCEPT !.pc = "reading", !.user = t.user, !.token = t,
                        !.target = t.tenant, !.todo = q, !.known = AllFacts]
    OBVIOUS
  <2>3. Move(h, n) /\ verdicts' = verdicts
    BY <1>1, <1>5, <2>1, <2>2
  <2>4. n.pc = "reading" /\ n.todo = q /\ n.token = t
    BY <2>2 DEF Idle
  <2>5. ASSUME Quiet(t) PROVE FreshValidation(n)
    <3>1. /\ \A x \in Queued(q) : BearerRead(t, x)
          /\ \E x \in Queued(q) : x.what = "client"
      BY <1>3, <2>1, <2>5, ValidationReadsFresh
    <3>2. Named(t) => RolesOwed(t) \in Queued(q)
      BY <2>1, ValidationReadsOK DEF Named
    <3> QED BY <2>4, <3>1, <3>2 DEF FreshValidation
  <2>6. FreshOK(h, n)
    BY SMTT(60), <1>2, <2>4, <2>5 DEF FreshOK
  <2> QED BY <1>2, <2>3, <2>6, FreshKeeps
<1> QED BY <1>4, <1>5

LEMMA StandingCounts ==
  ASSUME NEW h, NEW m, m = handler[h], NEW t, t = m.token, m.user = t.user, NEW s \in t.scopes,
         Standing(t, s),
         ~t.origin => \A r \in held[<<t.user, t.tenant>>] :
                        <<t.tenant, r, definition[<<t.tenant, r>>]>> \in m.defined
  PROVE  s \in CurrentAuthority(h)
<1>1. PICK role : role = EffectiveRole(m.user, t.privilege /\ Principal(m.user).federated)
  OBVIOUS
<1>2. CASE t.origin
  <2>1. s \in HomeAuthority("ADMIN", t.scopes)
    BY DEF HomeAuthority
  <2> QED BY <1>2, <2>1 DEF CurrentAuthority
<1>3. ASSUME ~t.origin, NEW r \in held[<<t.user, t.tenant>>], s \in definition[<<t.tenant, r>>]
      PROVE  s \in CurrentAuthority(h)
  <2>1. PICK d \in m.defined : d = <<t.tenant, r, definition[<<t.tenant, r>>]>>
    BY <1>3
  <2>2. d[1] = t.tenant /\ s \in d[3]
    BY <1>3, <2>1
  <2>3. s \in Permissions(m, t.tenant)
    BY <2>2 DEF Permissions
  <2> QED BY <2>3 DEF CurrentAuthority
<1>4. ASSUME ~t.origin, s \in SecretScopes, CreatorRole[t.tenant] \in held[<<t.user, t.tenant>>],
             IdentityWrite \in definition[<<t.tenant, CreatorRole[t.tenant]>>]
      PROVE  s \in CurrentAuthority(h)
  <2>1. PICK d \in m.defined :
          d = <<t.tenant, CreatorRole[t.tenant], definition[<<t.tenant, CreatorRole[t.tenant]>>]>>
    BY <1>4
  <2>2. d[1] = t.tenant /\ d[2] = CreatorRole[t.tenant] /\ IdentityWrite \in d[3]
    BY <1>4, <2>1
  <2>3. CreatorAdministrator(m, t.tenant)
    BY <2>2 DEF CreatorAdministrator
  <2> QED BY <1>4, <2>3 DEF CurrentAuthority
<1>5. ASSUME Principal(m.user).home # Absent, s \in HomeGlobalAuthority(role, t.scopes)
      PROVE  s \in CurrentAuthority(h)
  BY <1>1, <1>5 DEF CurrentAuthority
<1> QED BY <1>1, <1>2, <1>3, <1>4, <1>5 DEF Standing

LEMMA ConcludeFresh ==
  ASSUME TokensInv, FreshInv, NEW h \in Handlers, Conclude(h)
  PROVE  FreshInv'
<1>1. PICK m, t : m = handler[h] /\ t = m.token
  OBVIOUS
<1>2. PICK accept :
        /\ accept = \/ t.scopes = {}
                    \/ /\ m.client # {} /\ t.scopes \subseteq m.client
                       /\ t.roles # Absent => t.scopes \subseteq CurrentAuthority(h)
        /\ verdicts' = verdicts \cup {[token |-> t, accept |-> accept, faulty |-> FALSE,
                                       quiet |-> t.asOf = edits, known |-> m.known]}
  BY Zenon, <1>1 DEF Conclude
<1>3. PICK v : v = [token |-> t, accept |-> accept, faulty |-> FALSE,
                    quiet |-> t.asOf = edits, known |-> m.known]
  OBVIOUS
<1>4. /\ v.token = t /\ v.known = m.known /\ v.accept = accept /\ (v.quiet <=> t.asOf = edits)
      /\ verdicts' = verdicts \cup {v}
  BY <1>2, <1>3
<1>5. /\ AtEnd(h) /\ Plan(h).kind = "validate" /\ End(h) /\ tokens' = tokens
      /\ UNCHANGED <<deployment, registry, edits, direct>>
  BY DEF Conclude, Reads
<1>6. /\ m.pc = "reading" /\ Queued(m.todo) = {} /\ AllFacts \subseteq m.known
      /\ ValidationOK(h, m)
  BY <1>1, <1>5, AtTheEnd
<1>7. t \in tokens /\ m.user = t.user
  BY <1>1, <1>6 DEF ValidationOK
<1>8. ASSUME Quiet(t) PROVE v.accept
  <2>1. FreshValidation(m)
    BY <1>1, <1>5, <1>6, <1>8 DEF FreshInv, FreshOK
  <2>2. Acceptable(t)
    BY <1>7, <1>8 DEF FreshInv, FreshToken, Quiet, Comparable
  <2>3. m.client = audience[t.tenant]
    BY <1>1, <1>6, <2>1 DEF FreshValidation
  <2>4. Named(t) => \A r \in t.roles : <<t.tenant, r, definition[<<t.tenant, r>>]>> \in m.defined
    BY <1>1, <1>6, <2>1 DEF FreshValidation, Owes
  <2>5. m.client # {} /\ t.scopes \subseteq m.client
    BY <2>2, <2>3 DEF Acceptable
  <2>6. ASSUME t.roles # Absent, NEW s \in t.scopes PROVE s \in CurrentAuthority(h)
    <3>1. Standing(t, s)
      BY <2>2, <2>6 DEF Acceptable
    <3>2. ~t.origin => \A r \in held[<<t.user, t.tenant>>] :
                         <<t.tenant, r, definition[<<t.tenant, r>>]>> \in m.defined
      BY <2>2, <2>4, <2>6 DEF Acceptable, Named
    <3> QED BY <1>1, <1>7, <3>1, <3>2, StandingCounts
  <2> QED BY <1>2, <1>4, <2>5, <2>6
<1>9. FreshVerdict(v)
  <2>1. SUFFICES ASSUME v.quiet, Comparable(v.token, v.known) PROVE v.accept
    BY DEF FreshVerdict
  <2>2. Comparable(t, AllFacts)
    BY <1>4, <1>6, <2>1, LessComparable
  <2> QED BY <1>4, <1>8, <2>1, <2>2 DEF Quiet
<1> QED BY <1>4, <1>5, <1>9, FreshEnd

----------------------------------------------------------------------------
(* Edits, and every step *)

(* An edit takes its place among the edits that happened, so no exchange that  *)
(* began before it is quiet any more.                                          *)
LEMMA EditHappens ==
  ASSUME TokensInv, RegistryEdit, NEW A, edits \subseteq A
  PROVE  edits' \subseteq A /\ A # edits'
<1>1. PICK e \in edits :
        \/ EndSessions(e) \/ ChangeEmail(e) \/ SetStatus(e) \/ RetireTenant(e) \/ Assign(e)
        \/ Define(e) \/ SetAudience(e) \/ WithdrawDirect(e)
  BY DEF RegistryEdit, Edit
<1>2. edits' = edits \ {e}
  BY <1>1 DEF EndSessions, ChangeEmail, SetStatus, RetireTenant, Assign, Define, SetAudience,
     WithdrawDirect, Pending
<1> QED BY <1>2

LEMMA RegistryEditFresh ==
  ASSUME TokensInv, FreshInv, RegistryEdit
  PROVE  FreshInv'
<1>1. UNCHANGED deployment /\ tokens' = tokens /\ verdicts' = verdicts
  BY EditsOK DEF RegistryEdit
<1>2. PICK F : F = AllFacts'
  OBVIOUS
<1>3. handler' = [h \in Handlers |-> IF handler[h].known = {} THEN handler[h]
                                     ELSE [handler[h] EXCEPT !.known = @ \cup F]]
  BY <1>2 DEF RegistryEdit
<1>4. ASSUME NEW t \in tokens, t.mode # "legacy" PROVE edits' \subseteq t.asOf /\ t.asOf # edits'
  BY <1>4, EditHappens DEF FreshInv, FreshToken
<1>5. ASSUME NEW t \in tokens' PROVE FreshToken(t)'
  BY <1>1, <1>4 DEF FreshToken, Quiet
<1>6. ASSUME NEW h \in Handlers PROVE FreshOK(h, handler[h])'
  <2>1. PICK m, n : m = handler[h] /\ n = handler'[h]
    OBVIOUS
  <2>2. IsState(m)
    BY <2>1 DEF TokensInv, RegistryOK, Shape
  <2>3. n.pc = m.pc /\ n.asOf = m.asOf /\ n.token = m.token
    <3>1. CASE m.known = {}
      BY <1>3, <2>1, <3>1
    <3>2. CASE m.known # {}
      <4>1. n = [m EXCEPT !.known = @ \cup F]
        BY <1>3, <2>1, <3>2
      <4> QED BY <2>2, <4>1 DEF IsState, Fields
    <3> QED BY <3>1, <3>2
  <2>4. Plan(h)' = Plan(h) /\ (Legacy(h)' <=> Legacy(h))
    BY <1>1, SameDeployment
  <2>5. ASSUME n.pc = "reading", Plan(h).kind = "exchange", ~Legacy(h)
        PROVE  edits' \subseteq n.asOf /\ n.asOf # edits'
    <3>1. edits \subseteq m.asOf
      BY <2>1, <2>3, <2>5 DEF FreshInv, FreshOK
    <3> QED BY <2>3, <3>1, EditHappens
  <2>6. ASSUME n.pc = "reading", Plan(h).kind = "validate" PROVE ~Quiet(n.token)'
    <3>1. m.token \in tokens
      BY <2>1, <2>3, <2>6 DEF TokensInv, HandlerOK, ValidationOK
    <3>2. m.token.mode = "legacy" \/ m.token.asOf # edits'
      BY <1>4, <3>1
    <3> QED BY <2>3, <3>2 DEF Quiet, Comparable
  <2>7. FreshOK(h, n)'
    BY <2>4, <2>5, <2>6 DEF FreshOK
  <2> QED BY <2>1, <2>7
<1>7. FreshTokensAccepted'
  <2>1. ASSUME NEW v \in verdicts' PROVE FreshVerdict(v)'
    BY <1>1, FreshVerdictFrame DEF FreshInv, FreshTokensAccepted, FreshVerdict
  <2> QED BY <2>1 DEF FreshTokensAccepted, FreshVerdict
<1> QED BY <1>5, <1>6, <1>7 DEF FreshInv

LEMMA StutterFresh ==
  ASSUME FreshInv, UNCHANGED vars
  PROVE  FreshInv'
<1>1. UNCHANGED <<deployment, registry, edits, direct, tokens, verdicts, handler>>
  BY DEF vars, tokenState
<1>2. ASSUME NEW h \in Handlers PROVE FreshOK(h, handler[h])'
  <2>1. PICK m : m = handler[h] /\ FreshOK(h, m)
    BY DEF FreshInv
  <2>2. FreshOK(h, m)'
    BY <1>1, <2>1, FreshFrame
  <2> QED BY <1>1, <2>1, <2>2
<1>3. ASSUME NEW t \in tokens' PROVE FreshToken(t)'
  BY <1>1, FreshTokenFrame DEF FreshInv
<1>4. ASSUME NEW v \in verdicts' PROVE FreshVerdict(v)'
  BY <1>1, FreshVerdictFrame DEF FreshInv, FreshTokensAccepted, FreshVerdict
<1> QED BY <1>2, <1>3, <1>4 DEF FreshInv, FreshTokensAccepted, FreshVerdict

LEMMA NextFresh ==
  ASSUME TokensInv, FreshInv, [Next]_vars
  PROVE  FreshInv'
<1>1. CASE \E h \in Handlers : ReadStep(h)
  BY <1>1, ListTargetsFresh, DeriveHomeFresh, DiscoverFresh, ListLenientlyFresh, ReadRolesFresh,
     ReadTenantFresh, ReadClientFresh, ReadDefinitionFresh, ReadDirectFresh DEF ReadStep
<1>2. CASE \E h \in Handlers : Exchange(h) \/ Validate(h) \/ Sign(h) \/ Conclude(h)
  BY <1>2, ExchangeFresh, ValidateFresh, SignFresh, ConcludeFresh
<1>3. CASE \E h \in Handlers : ReadLogsAuthority(h) \/ ReadLogsClient(h)
  BY <1>3, ReadLogsAuthorityFresh, ReadLogsClientFresh
<1>4. CASE RegistryEdit
  BY <1>4, RegistryEditFresh
<1>5. CASE UNCHANGED vars
  BY <1>5, StutterFresh
<1> QED BY <1>1, <1>2, <1>3, <1>4, <1>5 DEF Next, ReadStep

LEMMA InitFresh ==
  ASSUME TokensInit
  PROVE  FreshInv
<1>1. Idle.pc = "idle"
  BY DEF Idle
<1>2. handler = [h \in Handlers |-> Idle] /\ tokens = {} /\ verdicts = {}
  BY DEF TokensInit
<1> QED BY <1>1, <1>2 DEF FreshInv, FreshOK, FreshTokensAccepted

(* What TokenExchange signs, ValidateAccessToken accepts, as long as nothing   *)
(* changed since the exchange began and no read failed: the two compute the     *)
(* subject's authority separately, and agree.                                   *)
THEOREM FreshTokensPass == Spec => []FreshTokensAccepted
<1>1. TokensInit => FreshInv
  BY InitFresh
<1>2. TokensInv /\ FreshInv /\ [Next]_vars => FreshInv'
  BY NextFresh
<1>3. FreshInv => FreshTokensAccepted
  BY DEF FreshInv
<1> QED BY <1>1, <1>2, <1>3, TokensInvariant, PTL DEF Spec
=============================================================================
