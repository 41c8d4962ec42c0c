----------------------------- MODULE SamlProofs -----------------------------
(***************************************************************************)
(* What is proved of the SAML modules for every set of tenants, replicas,   *)
(* browsers and handlers and for every deployment.                          *)
(***************************************************************************)
EXTENDS SamlSessions, TLAPS

(* A record a refresher holds is one that the administrator had stored, with *)
(* metadata that the provider had published.                                 *)
Plausible(x) ==
  /\ x.record.generation <= changes[x.tenant]
  /\ x.record.metadata <= published[x.tenant]

(* The inductive invariant of the trust store.  The third conjunct is why a  *)
(* swap never regresses: what was fetched is at least as new as the record   *)
(* that it replaces.                                                         *)
TrustInv ==
  /\ TrustTypeOK
  /\ AdministratorWins
  /\ \A t \in Tenants : idp[t] # Absent => Plausible([tenant |-> t, record |-> idp[t]])
  /\ \A r \in Replicas :
       /\ \A x \in refresh[r].queue : Plausible(x)
       /\ refresh[r].existing # Absent =>
            /\ Plausible(refresh[r].existing)
            /\ refresh[r].existing.record.metadata <= refresh[r].fetched
            /\ refresh[r].fetched <= published[refresh[r].existing.tenant]

(* No handler of a sign-in or of a logout writes the trust store. *)
LEMMA SessionsKeepTrust ==
  ASSUME [Next]_vars
  PROVE  TrustStep \/ UNCHANGED trust
<1>1. CASE TrustStep
  BY <1>1
<1>2. CASE \E r \in Requests : StartLogin(r) \/ RequestExpires(r)
  BY <1>2 DEF StartLogin, RequestExpires
<1>3. CASE \E a \in Assertions : ReplayMarkExpires(a)
  BY <1>3 DEF ReplayMarkExpires
<1>4. CASE \/ \E t \in Tenants : TenantChanges(t)
           \/ \E t \in Tenants, u \in UserIds : IndexesExpire(t, u)
  BY <1>4 DEF TenantChanges, IndexesExpire
<1>5. ASSUME NEW c \in Callbacks,
             \/ PostResponse(c) \/ RepostResponse(c) \/ ConsumeRequest(c) \/ CheckTenant(c)
             \/ ValidateResponse(c) \/ MarkSeen(c) \/ AuditIntent(c)
             \/ FindSubject(c) \/ UpdateSubject(c) \/ CreateSubject(c) \/ LoadSubject(c)
             \/ Elevate(c) \/ ValidateSession(c) \/ PutSessionIndexes(c)
             \/ AuditAccept(c) \/ AuditUnavailable(c) \/ RollBack(c) \/ AbortCallback(c)
      PROVE  UNCHANGED trust
  BY <1>5 DEF PostResponse, RepostResponse, ConsumeRequest, CheckTenant, ValidateResponse,
              MarkSeen, AuditIntent, FindSubject, UpdateSubject, CreateSubject, LoadSubject,
              Elevate, ValidateSession, PutSessionIndexes, AuditAccept, AuditUnavailable,
              RollBack, AbortCallback
<1>6. CASE \E b \in Browsers : StartLogout(b)
  BY <1>6 DEF StartLogout
<1>7. ASSUME NEW l \in Logouts,
             \/ \E b \in Browsers : SloGet(l, b) \/ SloPost(l, b)
             \/ RevokeRead(l) \/ RevokeWrite(l) \/ DeleteIndexes(l) \/ AbortLogout(l)
      PROVE  UNCHANGED trust
  BY <1>7 DEF SloGet, SloPost, RevokeRead, RevokeWrite, DeleteIndexes, AbortLogout
<1>8. CASE UNCHANGED vars
  BY <1>8 DEF vars
<1> QED
  BY <1>1, <1>2, <1>3, <1>4, <1>5, <1>6, <1>7, <1>8 DEF Next

LEMMA TrustInvInitially == SessionsInit => TrustInv
BY AbsentAssumption
   DEF SessionsInit, TrustInit, TrustInv, TrustTypeOK, AdministratorWins, Plausible, IdPRecord,
       Idle, RefresherState, Listed

(* Each step of the administrator, the provider and a refresher keeps the    *)
(* invariant, and a step that is no administrator's change does not take the *)
(* stored metadata back.                                                     *)
LEMMA TrustInvKept ==
  ASSUME TrustInv, TrustStep
  PROVE  /\ TrustInv'
         /\ \A t \in Tenants :
              (idp[t] # Absent /\ idp'[t] # Absent /\ changes'[t] = changes[t])
                => idp'[t].metadata >= idp[t].metadata
<1> USE AbsentAssumption DEF TrustInv, TrustTypeOK, AdministratorWins, Plausible, IdPRecord,
                             Listed, RefresherState, Idle
<1>1. ASSUME NEW t \in Tenants, AdminPut(t)
      PROVE  TrustInv' /\ \A u \in Tenants : changes'[u] = changes[u] => idp'[u] = idp[u]
  <2>1. PICK m \in 0 .. published[t], linked \in BOOLEAN :
          idp' = [idp EXCEPT ![t] = [generation |-> changes[t] + 1,
                                     metadata |-> m, linked |-> linked]]
    BY <1>1 DEF AdminPut
  <2> QED BY <1>1, <2>1 DEF AdminPut
<1>2. ASSUME NEW t \in Tenants, AdminDelete(t)
      PROVE  TrustInv' /\ \A u \in Tenants : changes'[u] = changes[u] => idp'[u] = idp[u]
  BY <1>2 DEF AdminDelete
<1>3. ASSUME NEW t \in Tenants, ProviderRotates(t)
      PROVE  TrustInv' /\ idp' = idp
  BY <1>3 DEF ProviderRotates
<1>4. ASSUME NEW r \in Replicas, RefreshTick(r)
      PROVE  TrustInv' /\ idp' = idp
  BY <1>4 DEF RefreshTick
<1>5. ASSUME NEW r \in Replicas, RefreshFetch(r)
      PROVE  TrustInv' /\ idp' = idp
  <2>1. PICK x \in refresh[r].queue :
          \/ refresh' = [refresh EXCEPT ![r].queue = @ \ {x}]
          \/ refresh' = [refresh EXCEPT ![r] =
                [queue |-> @.queue \ {x}, existing |-> x, fetched |-> published[x.tenant]]]
    BY <1>5 DEF RefreshFetch
  <2>2. x \in Listed /\ Plausible(x) /\ refresh[r] \in RefresherState
    BY <2>1
  <2>3. UNCHANGED <<idp, published, changes, decided>>
    BY <1>5 DEF RefreshFetch
  <2>4. CASE refresh' = [refresh EXCEPT ![r].queue = @ \ {x}]
    BY <2>2, <2>3, <2>4
  <2>5. CASE refresh' = [refresh EXCEPT ![r] =
               [queue |-> @.queue \ {x}, existing |-> x, fetched |-> published[x.tenant]]]
    <3>1. published[x.tenant] \in Nat /\ x.record.metadata <= published[x.tenant]
      BY <2>2
    <3>2. refresh' \in [Replicas -> RefresherState]
      BY <2>2, <2>5, <3>1
    <3>3. \A q \in Replicas :
            /\ \A y \in refresh'[q].queue : Plausible(y)
            /\ refresh'[q].existing # Absent =>
                 /\ Plausible(refresh'[q].existing)
                 /\ refresh'[q].existing.record.metadata <= refresh'[q].fetched
                 /\ refresh'[q].fetched <= published[refresh'[q].existing.tenant]
      BY <2>2, <2>5, <3>1
    <3> QED BY <2>3, <3>2, <3>3
  <2> QED BY <2>1, <2>4, <2>5
<1>6. ASSUME NEW r \in Replicas, RefreshSwap(r)
      PROVE  /\ TrustInv'
             /\ \A t \in Tenants : idp[t] # Absent => idp'[t].metadata >= idp[t].metadata
  <2> DEFINE x == refresh[r].existing
  <2>1. x \in Listed /\ x # Absent
    BY <1>6 DEF RefreshSwap
  <2>2. CASE StillListed(x)
    BY <1>6, <2>1, <2>2 DEF RefreshSwap, StillListed
  <2>3. CASE ~StillListed(x)
    BY <1>6, <2>1, <2>3 DEF RefreshSwap
  <2> QED BY <2>2, <2>3
<1>7. ASSUME NEW r \in Replicas, RefreshLost(r)
      PROVE  TrustInv' /\ idp' = idp
  BY <1>7 DEF RefreshLost
<1> QED
  BY <1>1, <1>2, <1>3, <1>4, <1>5, <1>6, <1>7 DEF TrustStep

(* AdministratorWins, and the invariant it rests on, hold in every state. *)
THEOREM TrustInvariant == Spec => []TrustInv
<1>1. TrustInv /\ [Next]_vars => TrustInv'
  <2>1. TrustInv /\ UNCHANGED trust => TrustInv'
    BY DEF TrustInv, TrustTypeOK, AdministratorWins, Plausible, trust
  <2> QED BY <2>1, SessionsKeepTrust, TrustInvKept
<1> QED BY <1>1, TrustInvInitially, PTL DEF Spec

(* A refresh never undoes an administrator's change, for any number of       *)
(* replicas, rotations and changes (luaCompareAndSwapIdP).                   *)
THEOREM AdministratorAlwaysWins == Spec => []AdministratorWins
<1>1. TrustInv => AdministratorWins
  BY DEF TrustInv
<1> QED BY <1>1, TrustInvariant, PTL

(* Between two administrator changes the stored metadata only gets newer.    *)
THEOREM MetadataNeverRegresses == Spec => RefreshNeverRegresses
<1> DEFINE Newer == \A t \in Tenants :
       (idp[t] # Absent /\ idp'[t] # Absent /\ changes'[t] = changes[t])
         => idp'[t].metadata >= idp[t].metadata
<1>1. TrustInv /\ [Next]_vars => [Newer]_<<idp, changes>>
  BY SessionsKeepTrust, TrustInvKept DEF trust
<1> QED BY <1>1, TrustInvariant, PTL DEF Spec, RefreshNeverRegresses

----------------------------------------------------------------------------
(* Callbacks: the consumed request, the replay mark and the audit pair *)

AcsFields == {"pc", "message", "browser", "copy", "tries", "token"}
IsAcs(m) == m = [f \in AcsFields |-> m[f]]

(* The labels behind a command of the callback. *)
Signed == {"check", "index", "accept", "rollback"}
Intended == {"find", "update", "create", "load", "elevate"} \cup Signed
Marked == {"intent"} \cup Intended
Consuming == {"tenant", "trust", "seen"} \cup Marked
Open == {"repost", "consume"} \cup Consuming

(* A callback beyond each of its commands finds the command's effect.        *)
CallbackOK(c, m) ==
  /\ IsAcs(m)
  /\ m.pc \in {"idle", "done"} \cup Open
  /\ m.pc \in Open => /\ m.message \in ProviderMessage /\ m.browser \in Browsers
                      /\ m.message.request \in sent
  /\ m.pc \in Consuming => m.message.request \notin pending
  /\ m.pc \in Marked => m.message.assertion \in seen \cup lapsed
  /\ m.pc \in Intended => <<c, "intent">> \in audit
  /\ m.pc \in Signed => /\ m.token.callback = c /\ m.token.request = m.message.request
                        /\ m.token.assertion = m.message.assertion
  /\ m.pc = "rollback" => deployment.faults
  /\ <<c, "reject">> \in audit => m.pc = "done"
  /\ <<c, "accept">> \in audit => m.pc \in {"done", "rollback"}
  /\ ~({<<c, "accept">>, <<c, "reject">>} \subseteq audit)
  /\ ~deployment.faults /\ m.pc = "done" => {<<c, "accept">>, <<c, "reject">>} \cap audit # {}

(* No two callbacks hold one request, or one assertion under a living mark. *)
Apart(m, n) ==
  /\ m.pc \in Consuming /\ n.pc \in Consuming => m.message.request # n.message.request
  /\ m.pc \in Marked /\ n.pc \in Marked =>
       m.message.assertion # n.message.assertion \/ m.message.assertion \in lapsed

(* A session holds its request and its assertion for good. *)
Closed(s, m) ==
  /\ m.pc \in Consuming => m.message.request # s.request
  /\ m.pc \in Marked => m.message.assertion # s.assertion \/ s.assertion \in lapsed

SessionOK(s) ==
  /\ s.request \in sent /\ s.request \notin pending
  /\ s.assertion \in seen \cup lapsed
  /\ {<<s.callback, "intent">>, <<s.callback, "accept">>} \subseteq audit
  /\ \A c \in Callbacks : Closed(s, acs[c])

CallbackInv ==
  /\ deployment \in Deployments
  /\ acs = [c \in Callbacks |-> acs[c]]
  /\ pending \subseteq sent
  /\ \A r \in sent : r \in DOMAIN deployment.login
  /\ \A c \in Callbacks : CallbackOK(c, acs[c])
  /\ \A c, d \in Callbacks : c # d => Apart(acs[c], acs[d])
  /\ \A s \in sessions : SessionOK(s)
  /\ UsedOnce

----------------------------------------------------------------------------
(* The directory: what a copy, a token and a session say of their principal *)

(* A stored record, and the one principal that its subject key leads to. *)
DirectoryOK ==
  /\ principal \in [Tenants \X Names -> UserIds \cup {Absent}]
  /\ users \in [UserIds -> User \cup {Absent}]
  /\ \A k \in Tenants \X Names :
       principal[k] # Absent =>
         /\ users[principal[k]] # Absent
         /\ users[principal[k]].tenant = k[1] /\ users[principal[k]].name = k[2]
  /\ \A u \in UserIds :
       users[u] # Absent =>
         users[u].id = u /\ principal[<<users[u].tenant, users[u].name>>] = u
  /\ \A c \in Callbacks :
       users[c] # Absent => acs[c].pc \in {"elevate", "done"} \cup Signed

(* The version a token carries is no newer than its principal's, and the     *)
(* present version means the present role.                                  *)
Minted(id, version, role) ==
  /\ id \in UserIds /\ users[id] # Absent
  /\ version <= users[id].version
  /\ version = users[id].version => role = users[id].role

(* A copy that was read: if its revision is still the stored one, it is the  *)
(* stored record, with its version raised when anything else was changed.    *)
Rewrite(copy) ==
  LET u == users[copy.id] IN
  /\ copy \in User /\ u # Absent
  /\ copy.tenant = u.tenant /\ copy.name = u.name
  /\ copy.revision <= u.revision
  /\ copy.revision = u.revision =>
       \/ copy.version = u.version /\ copy.role = u.role
       \/ copy.version = u.version + 1

Subject(m) == <<Login(m.message.request).tenant, m.message.name>>

HeldOK(c, m) ==
  /\ m.copy \in User \cup {Absent} /\ m.token \in TokenSet \cup {Absent}
  /\ m.pc = "load" => principal[Subject(m)] # Absent
  /\ m.pc = "update" => Rewrite(m.copy) /\ principal[Subject(m)] = m.copy.id
  /\ m.pc = "elevate" =>
       /\ m.copy \in User /\ principal[Subject(m)] = m.copy.id
       /\ Minted(m.copy.id, m.copy.version, m.copy.role)
       /\ m.copy.tenant = users[m.copy.id].tenant /\ m.copy.name = users[m.copy.id].name
       /\ m.copy.revision <= users[m.copy.id].revision
       /\ m.copy.revision = users[m.copy.id].revision => m.copy = users[m.copy.id]
  /\ m.pc \in Signed =>
       /\ m.token \in TokenSet /\ Minted(m.token.user, m.token.version, m.token.role)
       /\ principal[Subject(m)] = m.token.user

DirectoryInv ==
  /\ DirectoryOK
  /\ \A c \in Callbacks : HeldOK(c, acs[c])
  /\ \A s \in sessions : s \in TokenSet /\ Minted(s.user, s.version, s.role)
  /\ slo = [l \in Logouts |-> slo[l]]
  /\ \A l \in Logouts : slo[l].pc = "write" => Rewrite(slo[l].copy)

----------------------------------------------------------------------------
(* The indexes and the logouts *)

IndexOK(i) ==
  /\ i \in IndexRecord
  /\ users[i.user] # Absent /\ users[i.user].tenant = i.tenant /\ users[i.user].name = i.name

SloFields == {"pc", "browser", "state", "idx", "copy", "tries", "before"}
IsSlo(m) == m = [f \in SloFields |-> m[f]]

(* What the state cookie of a logout remembers. *)
LogoutState == [tenant : Tenants, user : UserIds]

LogoutOK(m) ==
  /\ IsSlo(m)
  /\ m.pc \in {"idle", "read", "write", "delete", "failed", "loggedOut"}
  /\ m.idx \in IndexRecord \cup {Absent} /\ m.copy \in User \cup {Absent}
  /\ m.state \in LogoutState \cup {Absent}
  /\ m.pc \in {"read", "write", "delete"} => IndexOK(m.idx) /\ m.browser \in Browsers
  /\ m.pc = "write" =>
       /\ m.copy.id = m.idx.user
       /\ m.copy.revision = users[m.copy.id].revision =>
            m.copy.version = users[m.copy.id].version + 1
  /\ m.before \subseteq sessions /\ \A s \in m.before : s.user = m.idx.user
  /\ m.pc \in {"delete", "loggedOut"} => \A s \in m.before : ~Current(s)

StoreTypes ==
  /\ seen \subseteq Assertions /\ lapsed \subseteq Assertions /\ active \subseteq Tenants
  /\ audit \subseteq Callbacks \X {"intent", "accept", "reject"}

(* The entry under a key is the key's own, and so is the principal in it. *)
IndexesOK ==
  /\ bySubject \in [Tenants \X UserIds -> IndexRecord \cup {Absent}]
  /\ byName \in [Tenants \X Names -> IndexRecord \cup {Absent}]
  /\ \A k \in Tenants \X UserIds :
       bySubject[k] # Absent =>
         IndexOK(bySubject[k]) /\ bySubject[k].tenant = k[1] /\ bySubject[k].user = k[2]
  /\ \A k \in Tenants \X Names :
       byName[k] # Absent =>
         IndexOK(byName[k]) /\ byName[k].tenant = k[1] /\ byName[k].name = k[2]
  /\ IndexesPaired

CookiesOK ==
  browser \in [Browsers -> [state : Requests \cup {Absent}, token : TokenSet \cup {Absent},
                            slo : LogoutState \cup {Absent}]]

LogoutsOK == \A l \in Logouts : LogoutOK(slo[l])

IndexInv == StoreTypes /\ IndexesOK /\ CookiesOK /\ LogoutsOK

----------------------------------------------------------------------------
(* Steps of one callback *)

Only(c) == acs' = [d \in Callbacks |-> IF d = c THEN acs'[c] ELSE acs[d]]

(* What a step may do to the rest while one callback moves. *)
CallbackFrame(c) ==
  /\ UNCHANGED <<deployment, sent, lapsed, sessions>>
  /\ pending' \subseteq pending /\ seen \subseteq seen' /\ audit \subseteq audit'
  /\ \A d \in Callbacks : \A x : d # c => (<<d, x>> \in audit' <=> <<d, x>> \in audit)

(* The callback holds no request and no assertion that it did not hold. *)
HoldsNoMore(m, n) ==
  /\ n.pc \in Consuming => m.pc \in Consuming /\ n.message = m.message
  /\ n.pc \in Marked => m.pc \in Marked /\ n.message = m.message

LEMMA OtherCallback ==
  ASSUME NEW c \in Callbacks, NEW d \in Callbacks, d # c, acs'[d] = acs[d],
         CallbackFrame(c), CallbackOK(d, acs[d])
  PROVE  CallbackOK(d, acs[d])'
BY DEF CallbackFrame, CallbackOK, IsAcs

LEMMA CallbackStep ==
  ASSUME CallbackInv, NEW c \in Callbacks, Only(c), CallbackFrame(c),
         CallbackOK(c, acs[c])', HoldsNoMore(acs[c], acs'[c])
  PROVE  CallbackInv'
<1> USE DEF CallbackInv
<1>1. \A d \in Callbacks : d # c => acs'[d] = acs[d]
  BY DEF Only
<1>2. \A d \in Callbacks : CallbackOK(d, acs[d])'
  BY <1>1, OtherCallback
<1>3. acs' = [d \in Callbacks |-> acs'[d]]
  BY DEF Only
<1>4. /\ deployment' \in Deployments /\ pending' \subseteq sent'
      /\ (\A r \in sent : r \in DOMAIN deployment.login)'
  BY DEF CallbackFrame
<1>5. \A d, e \in Callbacks : d # e => Apart(acs[d], acs[e])'
  BY <1>1 DEF CallbackFrame, Apart, HoldsNoMore
<1>6. \A s \in sessions' : SessionOK(s)'
  BY ZenonT(60), <1>1 DEF CallbackFrame, SessionOK, Closed, HoldsNoMore
<1>7. UsedOnce'
  BY DEF CallbackFrame, UsedOnce, RequestsUsedOnce, AssertionsUsedOnce
<1> QED BY <1>2, <1>3, <1>4, <1>5, <1>6, <1>7

(* The callback passes from one label to another. *)
Passes(m, n) ==
  /\ IsAcs(n) /\ n.message = m.message /\ n.browser = m.browser
  /\ m.pc \in Open \ {"rollback"} /\ n.pc \in Open \ {"rollback"}
  /\ n.pc \in Consuming => m.pc \in Consuming
  /\ n.pc \in Marked => m.pc \in Marked
  /\ n.pc \in Intended => m.pc \in Intended

LEMMA PassStep ==
  ASSUME CallbackInv, NEW c \in Callbacks, Only(c), Passes(acs[c], acs'[c]),
         UNCHANGED <<deployment, pending, sent, seen, lapsed, audit, sessions>>,
         acs'[c].pc \in Signed => /\ acs'[c].token.callback = c
                                  /\ acs'[c].token.request = acs'[c].message.request
                                  /\ acs'[c].token.assertion = acs'[c].message.assertion
  PROVE  CallbackInv'
<1>1. CallbackOK(c, acs[c])
  BY DEF CallbackInv
<1>2. CallbackFrame(c) /\ HoldsNoMore(acs[c], acs'[c])
  BY DEF CallbackFrame, HoldsNoMore, Passes
<1>3. CallbackOK(c, acs[c])'
  BY <1>1 DEF CallbackOK, Passes, Open, Consuming, Marked, Intended, Signed, IsAcs
<1> QED BY <1>2, <1>3, CallbackStep

(* The callback has answered. *)
LEMMA EndsHere ==
  ASSUME CallbackInv, NEW c \in Callbacks, End(c)
  PROVE  /\ Only(c) /\ IsAcs(acs'[c]) /\ acs'[c].pc = "done"
         /\ acs'[c].copy = Absent /\ acs'[c].token = Absent
<1>1. acs' = [acs EXCEPT ![c] = [NoAcs EXCEPT !.pc = "done"]]
  BY DEF End
<1>2. acs'[c] = [NoAcs EXCEPT !.pc = "done"] /\ Only(c)
  BY <1>1 DEF CallbackInv, Only
<1>3. IsAcs(acs'[c]) /\ acs'[c].pc = "done" /\ acs'[c].copy = Absent /\ acs'[c].token = Absent
  BY <1>2 DEF NoAcs, IsAcs, AcsFields
<1> QED BY <1>2, <1>3

LEMMA EndStep ==
  ASSUME CallbackInv, NEW c \in Callbacks, End(c), CallbackFrame(c),
         acs[c].pc \in Open,
         audit' \in {audit, audit \cup {<<c, "reject">>}, audit \cup {<<c, "accept">>}},
         audit' = audit => deployment.faults,
         audit' = audit \cup {<<c, "reject">>} /\ audit' # audit => acs[c].pc # "rollback"
  PROVE  CallbackInv'
<1>1. CallbackOK(c, acs[c])
  BY DEF CallbackInv
<1>2. Only(c) /\ IsAcs(acs'[c]) /\ acs'[c].pc = "done"
  BY EndsHere
<1>3. HoldsNoMore(acs[c], acs'[c])
  BY <1>2 DEF HoldsNoMore, Consuming, Marked, Intended, Signed
<1>4. /\ <<c, "reject">> \notin audit
      /\ acs[c].pc # "rollback" => <<c, "accept">> \notin audit
  BY <1>1 DEF CallbackOK, Open, Consuming, Marked, Intended, Signed
<1>5. /\ ~({<<c, "accept">>, <<c, "reject">>} \subseteq audit')
      /\ ~deployment.faults => {<<c, "accept">>, <<c, "reject">>} \cap audit' # {}
  BY <1>4 DEF CallbackFrame
<1>6. CallbackOK(c, acs[c])'
  BY <1>2, <1>5 DEF CallbackOK, CallbackFrame, Open, Consuming, Marked, Intended, Signed, IsAcs
<1> QED BY <1>2, <1>3, <1>6, CallbackStep

(* The refusal is put on record. *)
LEMMA RejectStep ==
  ASSUME CallbackInv, NEW c \in Callbacks, Reject(c), acs[c].pc \in Open \ {"rollback"},
         UNCHANGED <<deployment, sent, lapsed, sessions>>,
         pending' \subseteq pending, seen \subseteq seen'
  PROVE  CallbackInv'
<1>1. End(c) /\ audit' = audit \cup {<<c, "reject">>}
  BY DEF Reject, Refuse, Reply
<1>2. CallbackFrame(c)
  BY <1>1 DEF CallbackFrame
<1>3. <<c, "reject">> \notin audit
  BY DEF CallbackInv, CallbackOK, Open, Consuming, Marked, Intended, Signed
<1> QED BY <1>1, <1>2, <1>3, EndStep

(* Goto changes the label and nothing else. *)
LEMMA GotoMoves ==
  ASSUME CallbackInv, NEW c \in Callbacks, NEW label, Goto(c, label)
  PROVE  /\ Only(c) /\ IsAcs(acs'[c]) /\ acs'[c].pc = label
         /\ acs'[c].message = acs[c].message /\ acs'[c].browser = acs[c].browser
         /\ acs'[c].copy = acs[c].copy /\ acs'[c].token = acs[c].token
<1>1. acs'[c] = [acs[c] EXCEPT !.pc = label] /\ Only(c)
  BY DEF CallbackInv, Only, Goto
<1>2. IsAcs(acs[c])
  BY DEF CallbackInv, CallbackOK
<1> QED BY <1>1, <1>2 DEF IsAcs, AcsFields

LEMMA GotoStep ==
  ASSUME CallbackInv, NEW c \in Callbacks, NEW label, Goto(c, label),
         acs[c].pc \in Open \ {"rollback"}, label \in Open \ {"rollback"},
         label \in Consuming => acs[c].pc \in Consuming,
         label \in Marked => acs[c].pc \in Marked,
         label \in Intended => acs[c].pc \in Intended,
         label \in Signed => acs[c].pc \in Signed,
         UNCHANGED <<deployment, pending, sent, seen, lapsed, audit, sessions>>
  PROVE  CallbackInv'
<1>1. CallbackOK(c, acs[c])
  BY DEF CallbackInv
<1>2. Only(c) /\ Passes(acs[c], acs'[c])
  BY GotoMoves DEF Passes
<1>3. acs'[c].pc \in Signed => /\ acs'[c].token.callback = c
                               /\ acs'[c].token.request = acs'[c].message.request
                               /\ acs'[c].token.assertion = acs'[c].message.assertion
  BY <1>1, GotoMoves DEF CallbackOK
<1> QED BY <1>2, <1>3, PassStep

LEMMA CheckSteps ==
  ASSUME CallbackInv, NEW c \in Callbacks,
         \/ RepostResponse(c) \/ CheckTenant(c) \/ ValidateResponse(c) \/ ValidateSession(c)
         \/ PutSessionIndexes(c)
  PROVE  CallbackInv'
<1>1. UNCHANGED <<deployment, pending, sent, seen, lapsed, sessions>>
  BY DEF RepostResponse, CheckTenant, ValidateResponse, ValidateSession, PutSessionIndexes
<1> USE DEF Open, Consuming, Marked, Intended, Signed
<1>2. CASE RepostResponse(c)
  <2>1. acs[c].pc = "repost"
    BY <1>2 DEF RepostResponse
  <2>2. CASE Goto(c, "consume") /\ UNCHANGED audit
    BY <1>1, <2>1, <2>2, GotoStep
  <2>3. CASE End(c) /\ audit' = audit \cup {<<c, "reject">>}
    <3>1. <<c, "reject">> \notin audit
      BY <2>1 DEF CallbackInv, CallbackOK
    <3>2. CallbackFrame(c)
      BY <1>1, <2>3 DEF CallbackFrame
    <3> QED BY <2>1, <2>3, <3>1, <3>2, EndStep
  <2> QED BY <1>2, <2>2, <2>3 DEF RepostResponse
<1>3. CASE CheckTenant(c)
  <2>1. acs[c].pc = "tenant" /\ (Proceed(c, "trust") \/ Reject(c))
    BY <1>3 DEF CheckTenant
  <2> QED BY <1>1, <2>1, GotoStep, RejectStep DEF Proceed
<1>4. CASE ValidateResponse(c)
  <2>1. acs[c].pc = "trust" /\ (Proceed(c, "seen") \/ Reject(c))
    BY <1>4 DEF ValidateResponse
  <2> QED BY <1>1, <2>1, GotoStep, RejectStep DEF Proceed
<1>5. CASE ValidateSession(c)
  <2>1. acs[c].pc = "check" /\ (Proceed(c, "index") \/ Reject(c))
    BY <1>5 DEF ValidateSession
  <2> QED BY <1>1, <2>1, GotoStep, RejectStep DEF Proceed
<1>6. CASE PutSessionIndexes(c)
  <2>1. acs[c].pc = "index" /\ (Proceed(c, "accept") \/ Reject(c))
    BY <1>6 DEF PutSessionIndexes
  <2> QED BY <1>1, <2>1, GotoStep, RejectStep DEF Proceed
<1> QED BY <1>2, <1>3, <1>4, <1>5, <1>6

(* The principal is found, created, loaded or rewritten. *)
LEMMA PrincipalMoves ==
  ASSUME CallbackInv, NEW c \in Callbacks,
         \/ FindSubject(c) \/ UpdateSubject(c) \/ CreateSubject(c) \/ LoadSubject(c)
  PROVE  /\ Only(c) /\ IsAcs(acs'[c])
         /\ acs'[c].message = acs[c].message /\ acs'[c].browser = acs[c].browser
         /\ acs'[c].token = acs[c].token
         /\ acs[c].pc \in {"find", "update", "create", "load"}
         /\ acs'[c].pc \in {"find", "update", "create", "load", "elevate"}
         /\ UNCHANGED <<deployment, pending, sent, seen, lapsed, audit, sessions>>
<1> DEFINE m == acs[c]
<1>1. IsAcs(m) /\ acs = [d \in Callbacks |-> acs[d]]
  BY DEF CallbackInv, CallbackOK
<1>2. CASE FindSubject(c)
  <2>1. \/ acs' = [acs EXCEPT ![c].pc = "create"]
        \/ \E x : acs' = [acs EXCEPT ![c].pc = "update", ![c].copy = x]
    BY <1>2 DEF FindSubject
  <2>2. Only(c) /\ (acs'[c] = [m EXCEPT !.pc = "create"]
                      \/ \E x : acs'[c] = [m EXCEPT !.pc = "update", !.copy = x])
    BY <1>1, <2>1 DEF Only
  <2>3. m.pc = "find" /\ UNCHANGED <<deployment, pending, sent, seen, lapsed, audit, sessions>>
    BY <1>2 DEF FindSubject
  <2> QED BY <1>1, <2>2, <2>3 DEF IsAcs, AcsFields
<1>3. CASE UpdateSubject(c)
  <2>1. \/ \E x : acs' = [acs EXCEPT ![c].pc = "elevate", ![c].copy.revision = x]
        \/ \E x : \E next \in {"find", "create"} :
             acs' = [acs EXCEPT ![c].tries = x, ![c].pc = next]
    BY SMTT(60), <1>3 DEF UpdateSubject
  <2>2. Only(c) /\ \/ \E x : acs'[c] = [m EXCEPT !.pc = "elevate", !.copy.revision = x]
                   \/ \E x : \E next \in {"find", "create"} :
                        acs'[c] = [m EXCEPT !.tries = x, !.pc = next]
    BY <1>1, <2>1 DEF Only
  <2>3. m.pc = "update" /\ UNCHANGED <<deployment, pending, sent, seen, lapsed, audit, sessions>>
    BY <1>3 DEF UpdateSubject
  <2> QED BY <1>1, <2>2, <2>3 DEF IsAcs, AcsFields
<1>4. CASE CreateSubject(c)
  <2>1. \/ \E x : acs' = [acs EXCEPT ![c].pc = "elevate", ![c].copy = x]
        \/ acs' = [acs EXCEPT ![c].pc = "load"]
    BY <1>4 DEF CreateSubject, Goto
  <2>2. Only(c) /\ (acs'[c] = [m EXCEPT !.pc = "load"]
                      \/ \E x : acs'[c] = [m EXCEPT !.pc = "elevate", !.copy = x])
    BY <1>1, <2>1 DEF Only
  <2>3. m.pc = "create" /\ UNCHANGED <<deployment, pending, sent, seen, lapsed, audit, sessions>>
    BY <1>4 DEF CreateSubject
  <2> QED BY <1>1, <2>2, <2>3 DEF IsAcs, AcsFields
<1>5. CASE LoadSubject(c)
  <2>1. \E x : acs' = [acs EXCEPT ![c].pc = "elevate", ![c].copy = x]
    BY <1>5 DEF LoadSubject
  <2>2. Only(c) /\ \E x : acs'[c] = [m EXCEPT !.pc = "elevate", !.copy = x]
    BY <1>1, <2>1 DEF Only
  <2>3. m.pc = "load" /\ UNCHANGED <<deployment, pending, sent, seen, lapsed, audit, sessions>>
    BY <1>5 DEF LoadSubject
  <2> QED BY <1>1, <2>2, <2>3 DEF IsAcs, AcsFields
<1> QED BY <1>2, <1>3, <1>4, <1>5

LEMMA PrincipalSteps ==
  ASSUME CallbackInv, NEW c \in Callbacks,
         \/ FindSubject(c) \/ UpdateSubject(c) \/ CreateSubject(c) \/ LoadSubject(c)
  PROVE  CallbackInv'
<1>1. Passes(acs[c], acs'[c]) /\ acs'[c].pc \notin Signed
  BY PrincipalMoves DEF Passes, Open, Consuming, Marked, Intended, Signed
<1> QED BY <1>1, PrincipalMoves, PassStep

LEMMA ElevateMoves ==
  ASSUME CallbackInv, NEW c \in Callbacks, Elevate(c)
  PROVE  /\ acs[c].pc = "elevate" /\ UNCHANGED <<deployment, pending, sent, seen, lapsed, sessions>>
         /\ \/ Reject(c) /\ UNCHANGED users
            \/ /\ Only(c) /\ IsAcs(acs'[c]) /\ UNCHANGED audit
               /\ acs'[c].message = acs[c].message /\ acs'[c].browser = acs[c].browser
               /\ acs'[c].copy = acs[c].copy /\ acs'[c].pc = "check"
               /\ \E u : acs'[c].token = Token(c, u)
<1> DEFINE m == acs[c]
<1>1. IsAcs(m) /\ acs = [d \in Callbacks |-> acs[d]]
  BY DEF CallbackInv, CallbackOK
<1>2. m.pc = "elevate" /\ UNCHANGED <<deployment, pending, sent, seen, lapsed, sessions>>
  BY DEF Elevate
<1>3. \/ Reject(c) /\ UNCHANGED users
      \/ UNCHANGED audit /\ \E u : acs' = [acs EXCEPT ![c].pc = "check", ![c].token = Token(c, u)]
  BY DEF Elevate
<1>4. CASE Reject(c) /\ UNCHANGED users
  BY <1>2, <1>4
<1>5. ASSUME NEW u, UNCHANGED audit, acs' = [acs EXCEPT ![c].pc = "check", ![c].token = Token(c, u)]
      PROVE  /\ Only(c) /\ IsAcs(acs'[c])
             /\ acs'[c].message = m.message /\ acs'[c].browser = m.browser
             /\ acs'[c].copy = m.copy /\ acs'[c].pc = "check"
             /\ acs'[c].token = Token(c, u)
  <2>1. Only(c) /\ acs'[c] = [m EXCEPT !.pc = "check", !.token = Token(c, u)]
    BY <1>1, <1>5 DEF Only
  <2> QED BY <1>1, <2>1 DEF IsAcs, AcsFields
<1> QED BY <1>2, <1>3, <1>4, <1>5

LEMMA ElevateStep ==
  ASSUME CallbackInv, NEW c \in Callbacks, Elevate(c)
  PROVE  CallbackInv'
<1>1. acs[c].pc \in Open \ {"rollback"}
  BY ElevateMoves DEF Open, Consuming, Marked, Intended
<1>2. CASE Reject(c)
  BY <1>1, <1>2, ElevateMoves, RejectStep
<1>3. CASE ~Reject(c)
  <2>1. PICK u : acs'[c].token = Token(c, u)
    BY <1>3, ElevateMoves
  <2>2. Passes(acs[c], acs'[c]) /\ Only(c) /\ UNCHANGED audit
    BY <1>3, ElevateMoves DEF Passes, Open, Consuming, Marked, Intended, Signed
  <2>3. /\ acs'[c].token.callback = c
        /\ acs'[c].token.request = acs'[c].message.request
        /\ acs'[c].token.assertion = acs'[c].message.assertion
    BY <1>3, <2>1, ElevateMoves DEF Token, request, message
  <2> QED BY <2>2, <2>3, ElevateMoves, PassStep
<1> QED BY <1>2, <1>3

LEMMA PostMoves ==
  ASSUME CallbackInv, NEW c \in Callbacks, PostResponse(c)
  PROVE  /\ Only(c) /\ IsAcs(acs'[c]) /\ acs[c].pc = "idle" /\ acs'[c].pc \in {"consume", "repost"}
         /\ acs'[c].message \in ProviderMessage /\ acs'[c].message.request \in sent
         /\ acs'[c].browser \in Browsers /\ acs'[c].copy = Absent /\ acs'[c].token = Absent
         /\ UNCHANGED <<deployment, pending, sent, seen, lapsed, audit, sessions>>
<1>1. acs[c].pc = "idle" /\ UNCHANGED <<deployment, pending, sent, seen, lapsed, audit, sessions>>
  BY DEF PostResponse
<1>2. PICK m \in deployment.messages, b \in Browsers, carried \in BOOLEAN :
        /\ m.request \in sent
        /\ \E key \in 0 .. published[Login(m.request).tenant] :
             acs' = [acs EXCEPT ![c] = [NoAcs EXCEPT
               !.message = [m EXCEPT !.key = key],
               !.browser = b,
               !.pc = IF carried /\ browser[b].state = m.request THEN "consume" ELSE "repost"]]
  BY DEF PostResponse
<1>3. PICK key \in 0 .. published[Login(m.request).tenant] :
             acs' = [acs EXCEPT ![c] = [NoAcs EXCEPT
               !.message = [m EXCEPT !.key = key],
               !.browser = b,
               !.pc = IF carried /\ browser[b].state = m.request THEN "consume" ELSE "repost"]]
  BY <1>2
<1> DEFINE label == IF carried /\ browser[b].state = m.request THEN "consume" ELSE "repost"
           sealed == [m EXCEPT !.key = key]
<1>4. m \in ProviderMessage
  BY SamlDeployments DEF CallbackInv
<1>5. sealed \in ProviderMessage /\ sealed.request = m.request
  <2>1. key \in Nat
    OBVIOUS
  <2> QED BY <1>4, <2>1 DEF ProviderMessage
<1>6. Only(c) /\ acs'[c] = [NoAcs EXCEPT !.message = sealed, !.browser = b, !.pc = label]
  BY <1>3 DEF CallbackInv, Only
<1> HIDE DEF sealed, label
<1>7. /\ IsAcs(acs'[c]) /\ acs'[c].pc = label /\ acs'[c].message = sealed
      /\ acs'[c].browser = b /\ acs'[c].copy = Absent /\ acs'[c].token = Absent
  BY <1>6 DEF NoAcs, IsAcs, AcsFields
<1> QED BY <1>1, <1>2, <1>5, <1>6, <1>7 DEF label

LEMMA PostStep ==
  ASSUME CallbackInv, NEW c \in Callbacks, PostResponse(c)
  PROVE  CallbackInv'
<1>1. CallbackOK(c, acs[c])
  BY DEF CallbackInv
<1>2. CallbackFrame(c) /\ HoldsNoMore(acs[c], acs'[c])
  BY PostMoves DEF CallbackFrame, HoldsNoMore, Consuming, Marked, Intended, Signed
<1>3. CallbackOK(c, acs[c])'
  BY <1>1, PostMoves DEF CallbackOK, Open, Consuming, Marked, Intended, Signed, IsAcs
<1> QED BY <1>2, <1>3, PostMoves, CallbackStep

(* Exactly one callback takes the request: whoever held it before would have *)
(* found it out of pending.                                                  *)
LEMMA ConsumeStep ==
  ASSUME CallbackInv, NEW c \in Callbacks, ConsumeRequest(c)
  PROVE  CallbackInv'
<1> DEFINE m == acs[c]
           r == m.message.request
<1>1. m.pc = "consume" /\ UNCHANGED <<deployment, sent, seen, lapsed, sessions>>
  BY DEF ConsumeRequest
<1>2. CallbackOK(c, m) /\ m.pc \in Open \ {"rollback"}
  BY <1>1 DEF CallbackInv, Open
<1>3. CASE Reject(c)
  <2>1. pending' \subseteq pending
    BY DEF ConsumeRequest, TakeRequest
  <2> QED BY <1>1, <1>2, <1>3, <2>1, RejectStep
<1>4. CASE ~Reject(c)
  <2>1. r \in pending /\ pending' = pending \ {r} /\ Goto(c, "tenant") /\ UNCHANGED audit
    BY <1>4 DEF ConsumeRequest, TakeRequest, Proceed, request, message
  <2>2. /\ Only(c) /\ IsAcs(acs'[c]) /\ acs'[c].pc = "tenant"
        /\ acs'[c].message = m.message /\ acs'[c].browser = m.browser
    BY <2>1, GotoMoves
  <2>3. \A d \in Callbacks : d # c => acs'[d] = acs[d]
    BY <2>2 DEF Only
  <2>4. CallbackFrame(c)
    BY <1>1, <2>1 DEF CallbackFrame
  <2>5. CallbackOK(c, acs[c])'
    BY <1>1, <1>2, <2>1, <2>2 DEF CallbackOK, Open, Consuming, Marked, Intended, Signed, IsAcs
  <2>6. \A d \in Callbacks : CallbackOK(d, acs[d])'
    BY <2>3, <2>4, <2>5, OtherCallback DEF CallbackInv
  <2>7. \A d \in Callbacks : acs[d].pc \in Consuming => acs[d].message.request # r
    BY <2>1 DEF CallbackInv, CallbackOK
  <2>8. \A d, e \in Callbacks : d # e => Apart(acs[d], acs[e])'
    BY <1>1, <2>2, <2>3, <2>7 DEF CallbackInv, Apart, Marked, Intended, Signed
  <2>9. ASSUME NEW s \in sessions' PROVE SessionOK(s)'
    <3>1. SessionOK(s) /\ s.request # r
      BY <1>1, <2>1 DEF CallbackInv, SessionOK
    <3>2. \A d \in Callbacks : Closed(s, acs[d])'
      BY <1>1, <2>2, <2>3, <3>1 DEF SessionOK, Closed, Marked, Intended, Signed
    <3> QED BY <1>1, <2>1, <3>1, <3>2 DEF SessionOK
  <2>10. UsedOnce' /\ deployment' \in Deployments /\ pending' \subseteq sent'
          /\ acs' = [d \in Callbacks |-> acs'[d]]
    BY <1>1, <2>1, <2>2 DEF CallbackInv, Only, UsedOnce, RequestsUsedOnce, AssertionsUsedOnce
  <2>11. (\A x \in sent : x \in DOMAIN deployment.login)'
    BY <1>1 DEF CallbackInv
  <2> QED BY <2>6, <2>8, <2>9, <2>10, <2>11 DEF CallbackInv
<1> QED BY <1>3, <1>4

(* An assertion that carries a living mark is refused, so another holder of  *)
(* the one that is marked now had a mark that lapsed.                        *)
LEMMA MarkStep ==
  ASSUME CallbackInv, NEW c \in Callbacks, MarkSeen(c)
  PROVE  CallbackInv'
<1> DEFINE m == acs[c]
           a == m.message.assertion
<1>1. /\ m.pc = "seen" /\ UNCHANGED <<deployment, pending, sent, lapsed, sessions>>
      /\ seen' = seen \cup {a}
  BY DEF MarkSeen, message
<1>2. CallbackOK(c, m) /\ m.pc \in Open \ {"rollback"}
  BY <1>1 DEF CallbackInv, Open, Consuming
<1>3. CASE Reject(c)
  BY <1>1, <1>2, <1>3, RejectStep
<1>4. CASE ~Reject(c)
  <2>1. a \notin seen /\ Goto(c, "intent") /\ UNCHANGED audit
    BY <1>4 DEF MarkSeen, Fresh, Proceed, message
  <2>2. /\ Only(c) /\ IsAcs(acs'[c]) /\ acs'[c].pc = "intent"
        /\ acs'[c].message = m.message /\ acs'[c].browser = m.browser
    BY <2>1, GotoMoves
  <2>3. \A d \in Callbacks : d # c => acs'[d] = acs[d]
    BY <2>2 DEF Only
  <2>4. CallbackFrame(c)
    BY <1>1, <2>1 DEF CallbackFrame
  <2>5. CallbackOK(c, acs[c])'
    BY <1>1, <1>2, <2>1, <2>2 DEF CallbackOK, Open, Consuming, Marked, Intended, Signed, IsAcs
  <2>6. \A d \in Callbacks : CallbackOK(d, acs[d])'
    BY <2>3, <2>4, <2>5, OtherCallback DEF CallbackInv
  <2>7. \A d \in Callbacks :
          acs[d].pc \in Marked => acs[d].message.assertion # a \/ a \in lapsed
    BY <2>1 DEF CallbackInv, CallbackOK
  <2>8. m.pc \in Consuming /\ m.pc \notin Marked /\ acs'[c].pc \in Consuming
    BY <1>1, <2>2 DEF Consuming, Marked, Intended, Signed
  <2>9. \A d, e \in Callbacks : d # e => Apart(acs[d], acs[e])'
    BY <1>1, <2>2, <2>3, <2>7, <2>8 DEF CallbackInv, Apart
  <2>10. ASSUME NEW s \in sessions' PROVE SessionOK(s)'
    <3>1. SessionOK(s) /\ (s.assertion # a \/ a \in lapsed)
      BY <1>1, <2>1 DEF CallbackInv, SessionOK
    <3>2. \A d \in Callbacks : Closed(s, acs[d])'
      BY <1>1, <2>2, <2>3, <2>8, <3>1 DEF SessionOK, Closed
    <3> QED BY <1>1, <2>1, <3>1, <3>2 DEF SessionOK
  <2>11. UsedOnce' /\ deployment' \in Deployments /\ pending' \subseteq sent'
          /\ acs' = [d \in Callbacks |-> acs'[d]]
    BY <1>1, <2>1, <2>2 DEF CallbackInv, Only, UsedOnce, RequestsUsedOnce, AssertionsUsedOnce
  <2>12. (\A x \in sent : x \in DOMAIN deployment.login)'
    BY <1>1 DEF CallbackInv
  <2> QED BY <2>6, <2>9, <2>10, <2>11, <2>12 DEF CallbackInv
<1> QED BY <1>3, <1>4

LEMMA IntentStep ==
  ASSUME CallbackInv, NEW c \in Callbacks, AuditIntent(c)
  PROVE  CallbackInv'
<1>1. /\ acs[c].pc = "intent" /\ UNCHANGED <<deployment, pending, sent, seen, lapsed, sessions>>
      /\ audit' = audit \cup {<<c, "intent">>} /\ Goto(c, "find")
  BY DEF AuditIntent
<1>2. CallbackOK(c, acs[c])
  BY DEF CallbackInv
<1>3. CallbackFrame(c)
  BY <1>1 DEF CallbackFrame
<1>4. HoldsNoMore(acs[c], acs'[c])
  BY <1>1, GotoMoves DEF HoldsNoMore, Consuming, Marked
<1>5. CallbackOK(c, acs[c])'
  BY <1>1, <1>2, GotoMoves DEF CallbackOK, Open, Consuming, Marked, Intended, Signed, IsAcs
<1> QED BY <1>1, <1>3, <1>4, <1>5, GotoMoves, CallbackStep

(* The session takes over what its callback held. *)
LEMMA AcceptStep ==
  ASSUME CallbackInv, NEW c \in Callbacks, AuditAccept(c)
  PROVE  CallbackInv'
<1> DEFINE m == acs[c]
           t == m.token
<1>1. /\ m.pc = "accept" /\ UNCHANGED <<deployment, pending, sent, seen, lapsed>>
      /\ audit' = audit \cup {<<c, "accept">>} /\ sessions' = sessions \cup {t}
      /\ End(c)
  BY DEF AuditAccept, Reply
<1>2. CallbackOK(c, m) /\ m.pc \in Signed /\ m.pc \in Intended /\ m.pc \in Marked
      /\ m.pc \in Consuming /\ m.pc \in Open
  BY <1>1 DEF CallbackInv, Open, Consuming, Marked, Intended, Signed
<1>3. Only(c) /\ IsAcs(acs'[c]) /\ acs'[c].pc = "done"
  BY <1>1, EndsHere
<1>4. \A d \in Callbacks : d # c => acs'[d] = acs[d]
  BY <1>3 DEF Only
<1>5. acs'[c].pc \notin Open
  BY <1>3 DEF Open, Consuming, Marked, Intended, Signed
<1>6. acs'[c].pc \notin Consuming /\ acs'[c].pc \notin Marked
  BY <1>5 DEF Open, Consuming
<1>7. ASSUME NEW d \in Callbacks PROVE CallbackOK(d, acs[d])'
  <2>1. CASE d = c
    BY <1>1, <1>2, <1>3, <1>5, <2>1
       DEF CallbackOK, Open, Consuming, Marked, Intended, Signed, IsAcs
  <2>2. CASE d # c
    <3>1. CallbackOK(d, acs[d]) /\ acs'[d] = acs[d]
      BY <1>4, <2>2 DEF CallbackInv
    <3>2. \A x : <<d, x>> \in audit' <=> <<d, x>> \in audit
      BY <1>1, <2>2
    <3> QED BY <1>1, <3>1, <3>2 DEF CallbackOK, IsAcs
  <2> QED BY <2>1, <2>2
<1>8. \A d, e \in Callbacks : d # e => Apart(acs[d], acs[e])'
  BY <1>1, <1>4, <1>6 DEF CallbackInv, Apart
<1>9. t.callback = c /\ t.request = m.message.request /\ t.assertion = m.message.assertion
  BY <1>2 DEF CallbackOK
<1>10. ASSUME NEW s \in sessions' PROVE SessionOK(s)'
  <2>1. CASE s \in sessions
    <3>1. SessionOK(s)
      BY <2>1 DEF CallbackInv
    <3> QED BY <1>1, <1>4, <1>6, <3>1 DEF SessionOK, Closed
  <2>2. CASE s = t
    <3>1. \A d \in Callbacks : Closed(t, acs'[d])
      BY <1>2, <1>4, <1>6, <1>9 DEF CallbackInv, Apart, Closed
    <3>2. /\ t.request \in sent /\ t.request \notin pending /\ t.assertion \in seen \cup lapsed
          /\ <<c, "intent">> \in audit
      BY <1>2, <1>9 DEF CallbackOK
    <3> QED BY <1>1, <1>9, <2>2, <3>1, <3>2 DEF SessionOK, Closed
  <2> QED BY <1>1, <2>1, <2>2
<1>11. UsedOnce'
  <2>1. \A s \in sessions : s.request # t.request
    BY <1>2, <1>9 DEF CallbackInv, SessionOK, Closed
  <2>2. \A s \in sessions : s.assertion # t.assertion \/ s.assertion \in lapsed
    BY <1>2, <1>9 DEF CallbackInv, SessionOK, Closed
  <2> QED BY <1>1, <2>1, <2>2 DEF CallbackInv, UsedOnce, RequestsUsedOnce, AssertionsUsedOnce
<1>12. deployment' \in Deployments /\ pending' \subseteq sent'
       /\ acs' = [d \in Callbacks |-> acs'[d]] /\ (\A x \in sent : x \in DOMAIN deployment.login)'
  BY <1>1, <1>3 DEF CallbackInv, Only
<1> QED BY <1>7, <1>8, <1>10, <1>11, <1>12 DEF CallbackInv

LEMMA FaultSteps ==
  ASSUME CallbackInv, NEW c \in Callbacks, AuditUnavailable(c) \/ RollBack(c) \/ AbortCallback(c)
  PROVE  CallbackInv'
<1> DEFINE m == acs[c]
<1>1. UNCHANGED <<deployment, pending, sent, seen, lapsed, sessions>>
  BY DEF AuditUnavailable, RollBack, AbortCallback
<1>2. CallbackOK(c, m)
  BY DEF CallbackInv
<1>3. CASE AuditUnavailable(c)
  <2>1. /\ m.pc = "accept" /\ deployment.faults /\ Goto(c, "rollback")
        /\ audit' \in {audit, audit \cup {<<c, "accept">>}}
    BY <1>3 DEF AuditUnavailable
  <2>2. CallbackFrame(c)
    BY <1>1, <2>1 DEF CallbackFrame
  <2>3. HoldsNoMore(m, acs'[c])
    BY <2>1, GotoMoves DEF HoldsNoMore, Consuming, Marked, Intended, Signed
  <2>4. <<c, "accept">> \notin audit /\ <<c, "reject">> \notin audit
    BY <1>2, <2>1 DEF CallbackOK
  <2>5. /\ acs'[c].pc = "rollback" /\ IsAcs(acs'[c]) /\ acs'[c].message = m.message
        /\ acs'[c].browser = m.browser /\ acs'[c].token = m.token
    BY <2>1, GotoMoves
  <2>6. CallbackOK(c, acs[c])'
    BY <1>1, <1>2, <2>1, <2>4, <2>5
       DEF CallbackOK, Open, Consuming, Marked, Intended, Signed, IsAcs
  <2> QED BY <2>1, <2>2, <2>3, <2>6, GotoMoves, CallbackStep
<1>4. CASE RollBack(c)
  <2>1. m.pc = "rollback" /\ End(c) /\ audit' = audit /\ deployment.faults
    BY <1>2, <1>4 DEF RollBack, Reply, CallbackOK
  <2>2. CallbackFrame(c)
    BY <1>1, <2>1 DEF CallbackFrame
  <2>3. m.pc \in Open
    BY <2>1 DEF Open, Consuming, Marked, Intended, Signed
  <2> QED BY <2>1, <2>2, <2>3, EndStep
<1>5. CASE AbortCallback(c)
  <2>1. /\ deployment.faults /\ m.pc \notin {"idle", "repost", "done"}
        /\ \/ m.pc # "rollback" /\ Reject(c)
           \/ End(c) /\ UNCHANGED audit
    BY <1>5 DEF AbortCallback, Refuse, Reply
  <2>2. m.pc \in Open
    BY <1>2, <2>1 DEF CallbackOK
  <2>3. UNCHANGED audit => CallbackFrame(c)
    BY <1>1 DEF CallbackFrame
  <2> QED BY <1>1, <2>1, <2>2, <2>3, RejectStep, EndStep
<1> QED BY <1>3, <1>4, <1>5

(* What the other actors do: requests are stored and expire, marks expire. *)
LEMMA OtherSteps ==
  ASSUME CallbackInv, deployment' = deployment, UNCHANGED <<acs, audit, sessions>>,
         \/ UNCHANGED <<pending, sent, seen, lapsed>>
         \/ \E r \in Requests : StartLogin(r) \/ RequestExpires(r)
         \/ \E a \in Assertions : ReplayMarkExpires(a)
  PROVE  CallbackInv'
<1>1. /\ sent \subseteq sent' /\ seen \cup lapsed = seen' \cup lapsed' /\ lapsed \subseteq lapsed'
      /\ pending' \subseteq sent' /\ \A r \in sent' : r \in DOMAIN deployment.login
      /\ \A r \in sent : r \notin pending => r \notin pending'
  <2>1. CASE UNCHANGED <<pending, sent, seen, lapsed>>
    BY <2>1 DEF CallbackInv
  <2>2. ASSUME NEW r \in Requests, StartLogin(r)
        PROVE  /\ sent' = sent \cup {r} /\ pending' = pending \cup {r} /\ r \notin sent
               /\ r \in DOMAIN deployment.login /\ UNCHANGED <<seen, lapsed>>
    BY <2>2 DEF StartLogin
  <2>3. ASSUME NEW r \in Requests, RequestExpires(r)
        PROVE  pending' = pending \ {r} /\ UNCHANGED <<sent, seen, lapsed>>
    BY <2>3 DEF RequestExpires
  <2>4. ASSUME NEW a \in Assertions, ReplayMarkExpires(a)
        PROVE  /\ a \in seen /\ seen' = seen \ {a} /\ lapsed' = lapsed \cup {a}
               /\ UNCHANGED <<pending, sent>>
    BY <2>4 DEF ReplayMarkExpires
  <2> QED BY <2>1, <2>2, <2>3, <2>4 DEF CallbackInv
<1>2. ASSUME NEW c \in Callbacks PROVE CallbackOK(c, acs[c])'
  <2>1. CallbackOK(c, acs[c])
    BY DEF CallbackInv
  <2> QED BY <1>1, <2>1 DEF CallbackOK, IsAcs, Consuming, Open
<1>3. \A c, d \in Callbacks : c # d => Apart(acs[c], acs[d])'
  BY <1>1 DEF CallbackInv, Apart
<1>4. ASSUME NEW s \in sessions PROVE SessionOK(s)'
  <2>1. SessionOK(s)
    BY DEF CallbackInv
  <2> QED BY <1>1, <2>1 DEF SessionOK, Closed
<1>5. UsedOnce'
  BY <1>1 DEF CallbackInv, UsedOnce, RequestsUsedOnce, AssertionsUsedOnce
<1> QED BY <1>1, <1>2, <1>3, <1>4, <1>5 DEF CallbackInv

CallbackSteps(c) ==
  \/ PostResponse(c) \/ RepostResponse(c) \/ ConsumeRequest(c) \/ CheckTenant(c)
  \/ ValidateResponse(c) \/ MarkSeen(c) \/ AuditIntent(c)
  \/ FindSubject(c) \/ UpdateSubject(c) \/ CreateSubject(c) \/ LoadSubject(c)
  \/ Elevate(c) \/ ValidateSession(c) \/ PutSessionIndexes(c)
  \/ AuditAccept(c) \/ AuditUnavailable(c) \/ RollBack(c) \/ AbortCallback(c)

LogoutSteps(l) ==
  \/ \E b \in Browsers : SloGet(l, b) \/ SloPost(l, b)
  \/ RevokeRead(l) \/ RevokeWrite(l) \/ DeleteIndexes(l) \/ AbortLogout(l)

(* Every step that is not a callback's leaves the callbacks, the audit trail *)
(* and the sessions alone.                                                   *)
LEMMA Actors ==
  ASSUME [Next]_vars
  PROVE  \/ \E c \in Callbacks : CallbackSteps(c)
         \/ /\ UNCHANGED <<deployment, acs, audit, sessions>>
            /\ \/ UNCHANGED <<pending, sent, seen, lapsed>>
               \/ \E r \in Requests : StartLogin(r) \/ RequestExpires(r)
               \/ \E a \in Assertions : ReplayMarkExpires(a)
<1>1. CASE TrustStep /\ UNCHANGED <<deployment, pending, sent, seen, lapsed, active, directory,
                                     index, audit, browser, acs, slo, sessions>>
  BY <1>1
<1>2. ASSUME NEW r \in Requests, StartLogin(r) \/ RequestExpires(r)
      PROVE  UNCHANGED <<deployment, acs, audit, sessions>>
  BY <1>2 DEF StartLogin, RequestExpires
<1>3. ASSUME NEW a \in Assertions, ReplayMarkExpires(a)
      PROVE  UNCHANGED <<deployment, acs, audit, sessions>>
  BY <1>3 DEF ReplayMarkExpires
<1>4. CASE \/ \E t \in Tenants : TenantChanges(t)
           \/ \E t \in Tenants, u \in UserIds : IndexesExpire(t, u)
  BY <1>4 DEF TenantChanges, IndexesExpire
<1>5. CASE \E b \in Browsers : StartLogout(b)
  BY <1>5 DEF StartLogout
<1>6. ASSUME NEW l \in Logouts, LogoutSteps(l)
      PROVE  UNCHANGED <<deployment, acs, audit, sessions, pending, sent, seen, lapsed>>
  BY <1>6 DEF LogoutSteps, SloGet, SloPost, RevokeRead, RevokeWrite, DeleteIndexes, AbortLogout
<1>7. CASE UNCHANGED vars
  BY <1>7 DEF vars
<1> QED
  BY <1>1, <1>2, <1>3, <1>4, <1>5, <1>6, <1>7 DEF Next, CallbackSteps, LogoutSteps

LEMMA CallbackInvKept == CallbackInv /\ [Next]_vars => CallbackInv'
<1> SUFFICES ASSUME CallbackInv, [Next]_vars PROVE CallbackInv'
  OBVIOUS
<1>1. ASSUME NEW c \in Callbacks, CallbackSteps(c) PROVE CallbackInv'
  BY <1>1, PostStep, CheckSteps, ConsumeStep, MarkStep, IntentStep, PrincipalSteps, ElevateStep,
     AcceptStep, FaultSteps DEF CallbackSteps
<1> QED BY <1>1, Actors, OtherSteps

LEMMA CallbackInvInitially == SessionsInit => CallbackInv
<1> SUFFICES ASSUME SessionsInit PROVE CallbackInv
  OBVIOUS
<1>1. /\ deployment \in Deployments /\ acs = [c \in Callbacks |-> NoAcs] /\ pending = {}
      /\ sent = {} /\ audit = {} /\ sessions = {}
  BY DEF SessionsInit, TrustInit
<1>2. \A c \in Callbacks : acs[c].pc = "idle" /\ IsAcs(acs[c])
  BY <1>1 DEF NoAcs, IsAcs, AcsFields
<1>3. \A c \in Callbacks : CallbackOK(c, acs[c])
  BY <1>1, <1>2 DEF CallbackOK, Open, Consuming, Marked, Intended, Signed
<1>4. \A c, d \in Callbacks : Apart(acs[c], acs[d])
  BY <1>2 DEF Apart, Consuming, Marked, Intended, Signed
<1> QED
  BY <1>1, <1>3, <1>4 DEF CallbackInv, UsedOnce, RequestsUsedOnce, AssertionsUsedOnce

(* Beyond each of its commands a callback finds the command's effect, and no *)
(* other callback holds its request or its assertion.                        *)
THEOREM CallbackInvariant == Spec => []CallbackInv
BY CallbackInvInitially, CallbackInvKept, PTL DEF Spec

(* One login request opens at most one session, and while its replay mark    *)
(* lives so does one assertion, for any number of callbacks, replays and     *)
(* replicas (ConsumeRequest, MarkSeen).                                      *)
THEOREM RequestsAndAssertionsUsedOnce == Spec => []UsedOnce
<1>1. CallbackInv => UsedOnce
  BY DEF CallbackInv
<1> QED BY <1>1, CallbackInvariant, PTL

(* No session without its two audit records, no callback with both outcomes, *)
(* and without failures no answer without an outcome (rejectAfterIntent).    *)
THEOREM AuditIsComplete == Spec => []AuditComplete
<1>1. CallbackInv => AuditComplete
  <2> SUFFICES ASSUME CallbackInv PROVE AuditComplete
    OBVIOUS
  <2>1. SessionsAudited
    BY DEF CallbackInv, SessionOK, SessionsAudited
  <2>2. OutcomesAudited
    BY DEF CallbackInv, CallbackOK, OutcomesAudited
  <2> QED BY <2>1, <2>2 DEF AuditComplete
<1> QED BY <1>1, CallbackInvariant, PTL

----------------------------------------------------------------------------
(* How the stored principals change *)

(* A stored principal stays, its subject stays, and each write moves its     *)
(* revision on; a write that changes its role moves its version on.          *)
Evolves ==
  /\ users' \in [UserIds -> User \cup {Absent}]
  /\ \A u \in UserIds :
       users[u] # Absent =>
         /\ users'[u] # Absent
         /\ users'[u].tenant = users[u].tenant /\ users'[u].name = users[u].name
         /\ users'[u].revision >= users[u].revision
         /\ users'[u].revision = users[u].revision => users'[u] = users[u]
         /\ \/ users'[u].version = users[u].version /\ users'[u].role = users[u].role
            \/ users'[u].version > users[u].version

PrincipalsStay ==
  \A k \in Tenants \X Names : principal[k] # Absent => principal'[k] = principal[k]

LEMMA NoChangeEvolves ==
  ASSUME DirectoryOK, UNCHANGED directory
  PROVE  Evolves /\ PrincipalsStay
<1>1. UNCHANGED <<principal, users>>
  BY DEF directory
<1>2. \A u \in UserIds : users[u] # Absent => users[u].revision \in Nat
  BY DEF DirectoryOK, User
<1> QED BY <1>1, <1>2 DEF DirectoryOK, Evolves, PrincipalsStay

LEMMA MintedKept ==
  ASSUME DirectoryOK, Evolves, NEW id, NEW version \in Nat, NEW role, Minted(id, version, role)
  PROVE  /\ users'[id] # Absent /\ version <= users'[id].version
         /\ version = users'[id].version => role = users'[id].role
<1>1. users[id] \in User /\ users'[id] \in User
  BY DEF DirectoryOK, Evolves, Minted
<1>2. users[id].version \in Nat /\ users'[id].version \in Nat
  BY <1>1 DEF User
<1> QED BY <1>2 DEF Minted, Evolves

LEMMA RewriteKept ==
  ASSUME DirectoryOK, Evolves, NEW copy, Rewrite(copy)
  PROVE  /\ users'[copy.id] # Absent
         /\ copy.tenant = users'[copy.id].tenant /\ copy.name = users'[copy.id].name
         /\ copy.revision <= users'[copy.id].revision
         /\ copy.revision = users'[copy.id].revision => users'[copy.id] = users[copy.id]
         /\ copy.revision = users'[copy.id].revision =>
              \/ copy.version = users'[copy.id].version /\ copy.role = users'[copy.id].role
              \/ copy.version = users'[copy.id].version + 1
<1>1. copy \in User /\ copy.id \in UserIds /\ users[copy.id] # Absent
  BY DEF Rewrite, User
<1>2. users[copy.id] \in User /\ users'[copy.id] \in User
  BY <1>1 DEF DirectoryOK, Evolves
<1>3. copy.revision \in Nat /\ users[copy.id].revision \in Nat /\ users'[copy.id].revision \in Nat
  BY <1>1, <1>2 DEF User
<1>4. /\ users'[copy.id].tenant = users[copy.id].tenant
      /\ users'[copy.id].name = users[copy.id].name
      /\ users'[copy.id].revision >= users[copy.id].revision
      /\ users'[copy.id].revision = users[copy.id].revision => users'[copy.id] = users[copy.id]
      /\ users'[copy.id] # Absent
  BY <1>1 DEF Evolves
<1>5. /\ copy.tenant = users[copy.id].tenant /\ copy.name = users[copy.id].name
      /\ copy.revision <= users[copy.id].revision
      /\ copy.revision = users[copy.id].revision =>
           \/ copy.version = users[copy.id].version /\ copy.role = users[copy.id].role
           \/ copy.version = users[copy.id].version + 1
  BY DEF Rewrite
<1>6. copy.revision = users'[copy.id].revision => copy.revision = users[copy.id].revision
  BY <1>3, <1>4, <1>5
<1> QED BY <1>4, <1>5, <1>6, <1>3

(* updateFederatedUser: the copy replaces the record that it was read from. *)
LEMMA StoreEvolves ==
  ASSUME DirectoryOK, NEW copy, Rewrite(copy), Overwritable(copy), Store(copy)
  PROVE  /\ Evolves
         /\ users'[copy.id] = [copy EXCEPT !.revision = copy.revision + 1]
         /\ users'[copy.id] \in User /\ copy.id \in UserIds
         /\ users'[copy.id].id = copy.id /\ users'[copy.id].tenant = copy.tenant
         /\ users'[copy.id].name = copy.name /\ users'[copy.id].role = copy.role
         /\ users'[copy.id].version = copy.version
         /\ users'[copy.id].revision = copy.revision + 1
         /\ \A u \in UserIds : u # copy.id => users'[u] = users[u]
<1>1. copy \in User /\ copy.id \in UserIds /\ users[copy.id] # Absent
  BY DEF Rewrite, User
<1> DEFINE w == [copy EXCEPT !.revision = copy.revision + 1]
<1>2. users' = [users EXCEPT ![copy.id] = w]
  BY DEF Store
<1>3. /\ w \in User /\ w.id = copy.id /\ w.tenant = copy.tenant /\ w.name = copy.name
      /\ w.role = copy.role /\ w.version = copy.version /\ w.revision = copy.revision + 1
  BY <1>1 DEF User
<1> HIDE DEF w
<1>4. users'[copy.id] = w /\ \A u \in UserIds : u # copy.id => users'[u] = users[u]
  BY <1>1, <1>2 DEF DirectoryOK
<1>5. users' \in [UserIds -> User \cup {Absent}]
  BY <1>2, <1>3 DEF DirectoryOK
<1>6. users[copy.id] \in User /\ users[copy.id].version \in Nat /\ users[copy.id].revision \in Nat
  BY <1>1 DEF DirectoryOK, User
<1>7. /\ w # Absent /\ w.tenant = users[copy.id].tenant /\ w.name = users[copy.id].name
      /\ w.revision = users[copy.id].revision + 1
      /\ \/ w.version = users[copy.id].version /\ w.role = users[copy.id].role
         \/ w.version = users[copy.id].version + 1
  BY <1>3, SamlIdentifiers DEF Rewrite, Overwritable
<1>8. ASSUME NEW u \in UserIds, users[u] # Absent
      PROVE  /\ users'[u] # Absent
             /\ users'[u].tenant = users[u].tenant /\ users'[u].name = users[u].name
             /\ users'[u].revision >= users[u].revision
             /\ users'[u].revision = users[u].revision => users'[u] = users[u]
             /\ \/ users'[u].version = users[u].version /\ users'[u].role = users[u].role
                \/ users'[u].version > users[u].version
  <2>1. CASE u = copy.id
    BY <1>4, <1>6, <1>7, <2>1
  <2>2. CASE u # copy.id
    <3>1. users'[u] = users[u] /\ users[u].revision \in Nat
      BY <1>4, <1>8, <2>2 DEF DirectoryOK, User
    <3> QED BY <1>8, <3>1
  <2> QED BY <2>1, <2>2
<1>9. Evolves
  BY <1>5, <1>8 DEF Evolves
<1> QED BY <1>1, <1>3, <1>4, <1>9 DEF w

(* The subject key of a callback. *)
LEMMA SubjectOf ==
  ASSUME CallbackInv, NEW c \in Callbacks, acs[c].pc \in Open
  PROVE  /\ Subject(acs[c]) = SubjectKey(c) /\ SubjectKey(c) \in Tenants \X Names
         /\ tenant(c) \in Tenants /\ message(c).name \in Names
         /\ SubjectKey(c)[1] = tenant(c) /\ SubjectKey(c)[2] = message(c).name
<1>1. acs[c].message \in ProviderMessage /\ acs[c].message.request \in sent
  BY DEF CallbackInv, CallbackOK
<1>2. acs[c].message.name \in Names
  BY <1>1 DEF ProviderMessage
<1>3. acs[c].message.request \in DOMAIN deployment.login /\ deployment \in Deployments
  BY <1>1 DEF CallbackInv
<1>4. deployment.login[acs[c].message.request].tenant \in Tenants
  BY <1>3, SamlDeployments
<1>5. tenant(c) \in Tenants /\ message(c).name \in Names
  BY <1>2, <1>4 DEF tenant, Login, request, message
<1> QED BY <1>5 DEF Subject, SubjectKey, tenant, Login, request, message

LEMMA HeldKept ==
  ASSUME CallbackInv, DirectoryOK, Evolves, PrincipalsStay, deployment' = deployment,
         NEW c \in Callbacks, acs'[c] = acs[c], HeldOK(c, acs[c])
  PROVE  HeldOK(c, acs[c])'
<1> DEFINE m == acs[c]
           k == Subject(m)
<1>1. k' = k
  BY DEF Subject, Login
<1>2. m.pc \in Open => k \in Tenants \X Names
  BY SubjectOf
<1>3. /\ m.pc \in {"load", "update", "elevate"} => m.pc \in Open
      /\ m.pc \in Signed => m.pc \in Open
  BY DEF Open, Consuming, Marked, Intended
<1>4. m.pc = "load" => principal'[k] # Absent
  BY <1>2, <1>3 DEF HeldOK, PrincipalsStay
<1>5. m.pc = "update" => Rewrite(m.copy)' /\ principal'[k] = m.copy.id
  <2> SUFFICES ASSUME m.pc = "update" PROVE Rewrite(m.copy)' /\ principal'[k] = m.copy.id
    OBVIOUS
  <2>1. Rewrite(m.copy) /\ principal[k] = m.copy.id
    BY DEF HeldOK
  <2>2. m.copy \in User /\ m.copy.id # Absent
    BY <2>1, SamlIdentifiers DEF Rewrite, User
  <2>3. principal'[k] = m.copy.id
    BY <1>2, <1>3, <2>1, <2>2 DEF PrincipalsStay
  <2>4. Rewrite(m.copy)'
    BY <2>1, <2>2, RewriteKept DEF Rewrite
  <2> QED BY <2>3, <2>4
<1>6. ASSUME m.pc = "elevate"
      PROVE  /\ m.copy \in User /\ principal'[k] = m.copy.id
             /\ Minted(m.copy.id, m.copy.version, m.copy.role)'
             /\ m.copy.tenant = users'[m.copy.id].tenant /\ m.copy.name = users'[m.copy.id].name
             /\ m.copy.revision <= users'[m.copy.id].revision
             /\ m.copy.revision = users'[m.copy.id].revision => m.copy = users'[m.copy.id]
  <2>1. /\ m.copy \in User /\ principal[k] = m.copy.id
        /\ Minted(m.copy.id, m.copy.version, m.copy.role)
        /\ m.copy.tenant = users[m.copy.id].tenant /\ m.copy.name = users[m.copy.id].name
        /\ m.copy.revision <= users[m.copy.id].revision
        /\ m.copy.revision = users[m.copy.id].revision => m.copy = users[m.copy.id]
    BY <1>6 DEF HeldOK
  <2>2. /\ m.copy.id \in UserIds /\ m.copy.id # Absent /\ m.copy.version \in Nat
        /\ m.copy.revision \in Nat
    BY <2>1, SamlIdentifiers DEF User
  <2>3. principal'[k] = m.copy.id
    BY <1>2, <1>3, <1>6, <2>1, <2>2 DEF PrincipalsStay
  <2>4. Minted(m.copy.id, m.copy.version, m.copy.role)'
    BY <2>1, <2>2, MintedKept DEF Minted
  <2>5. /\ users[m.copy.id] # Absent
        /\ users[m.copy.id].revision \in Nat /\ users'[m.copy.id].revision \in Nat
    BY <2>1, <2>2 DEF Minted, DirectoryOK, Evolves, User
  <2>6. /\ users'[m.copy.id].tenant = users[m.copy.id].tenant
        /\ users'[m.copy.id].name = users[m.copy.id].name
        /\ users'[m.copy.id].revision >= users[m.copy.id].revision
        /\ users'[m.copy.id].revision = users[m.copy.id].revision
             => users'[m.copy.id] = users[m.copy.id]
    BY <2>2, <2>5 DEF Evolves
  <2> QED BY <2>1, <2>2, <2>3, <2>4, <2>5, <2>6
<1>7. ASSUME m.pc \in Signed
      PROVE  /\ m.token \in TokenSet /\ Minted(m.token.user, m.token.version, m.token.role)'
             /\ principal'[k] = m.token.user
  <2>1. /\ m.token \in TokenSet /\ Minted(m.token.user, m.token.version, m.token.role)
        /\ principal[k] = m.token.user
    BY <1>7 DEF HeldOK
  <2>2. m.token.user \in UserIds /\ m.token.user # Absent /\ m.token.version \in Nat
    BY <2>1, SamlIdentifiers DEF TokenSet
  <2>3. principal'[k] = m.token.user
    BY <1>2, <1>3, <1>7, <2>1, <2>2 DEF PrincipalsStay
  <2>4. Minted(m.token.user, m.token.version, m.token.role)'
    BY SMTT(60), <2>1, <2>2, MintedKept DEF Minted
  <2> QED BY <2>1, <2>3, <2>4
<1> QED BY <1>1, <1>4, <1>5, <1>6, <1>7 DEF HeldOK

LEMMA DirectoryStep ==
  ASSUME CallbackInv, DirectoryInv, Evolves, PrincipalsStay, DirectoryOK', deployment' = deployment,
         \A c \in Callbacks : acs'[c] = acs[c] \/ HeldOK(c, acs[c])',
         \A s \in sessions' : \/ s \in sessions
                              \/ s \in TokenSet /\ Minted(s.user, s.version, s.role)',
         slo' = [l \in Logouts |-> slo'[l]],
         \A l \in Logouts : slo'[l].pc = "write" => slo'[l] = slo[l] \/ Rewrite(slo[l].copy)'
  PROVE  DirectoryInv'
<1>1. DirectoryOK
  BY DEF DirectoryInv
<1>2. \A c \in Callbacks : HeldOK(c, acs[c])'
  BY <1>1, HeldKept DEF DirectoryInv
<1>3. ASSUME NEW s \in sessions' PROVE s \in TokenSet /\ Minted(s.user, s.version, s.role)'
  <2>1. CASE s \in sessions
    <3>1. s \in TokenSet /\ Minted(s.user, s.version, s.role) /\ s.version \in Nat
      BY <2>1 DEF DirectoryInv, TokenSet
    <3>2. s.user \in UserIds
      BY <3>1 DEF Minted
    <3> QED BY <1>1, <3>1, <3>2, MintedKept DEF Minted
  <2> QED BY <2>1
<1>4. ASSUME NEW l \in Logouts, slo'[l].pc = "write" PROVE Rewrite(slo[l].copy)'
  <2>1. CASE slo'[l] = slo[l]
    <3>1. Rewrite(slo[l].copy) /\ slo'[l].copy = slo[l].copy
      BY <1>4, <2>1 DEF DirectoryInv
    <3>2. slo[l].copy \in User
      BY <3>1 DEF Rewrite
    <3> QED BY <1>1, <3>1, <3>2, RewriteKept DEF Rewrite
  <2> QED BY <1>4, <2>1
<1> QED BY <1>2, <1>3, <1>4 DEF DirectoryInv

(* The labels of a callback whose own principal may be stored. *)
Created == {"elevate", "done"} \cup Signed

LEMMA SameDirectory ==
  ASSUME DirectoryOK, UNCHANGED directory,
         \A c \in Callbacks : acs'[c] = acs[c] \/ acs'[c].pc \in Created \/ acs[c].pc \notin Created
  PROVE  DirectoryOK' /\ Evolves /\ PrincipalsStay
<1>1. UNCHANGED <<principal, users>>
  BY DEF directory
<1>2. \A c \in Callbacks : users'[c] # Absent => acs'[c].pc \in Created
  BY <1>1 DEF DirectoryOK, Created
<1>3. DirectoryOK'
  BY <1>1, <1>2 DEF DirectoryOK, Created
<1> QED BY <1>3, NoChangeEvolves

(* A step of one callback that does not write the directory. *)
LEMMA LightStep ==
  ASSUME CallbackInv, DirectoryInv, UNCHANGED <<directory, slo, deployment>>,
         NEW c \in Callbacks, Only(c), HeldOK(c, acs'[c]),
         acs'[c].pc \in Created \/ acs[c].pc \notin Created,
         sessions' = sessions \/ (sessions' = sessions \cup {acs[c].token} /\ acs[c].pc \in Signed)
  PROVE  DirectoryInv'
<1>1. UNCHANGED <<principal, users>> /\ DirectoryOK
  BY DEF directory, DirectoryInv
<1>2. \A d \in Callbacks : d # c => acs'[d] = acs[d]
  BY DEF Only
<1>3. DirectoryOK' /\ Evolves /\ PrincipalsStay
  BY SMTT(60), <1>1, <1>2, SameDirectory
<1>4. HeldOK(c, acs[c])'
  BY <1>1 DEF HeldOK, Rewrite, Minted, Subject, Login
<1>5. ASSUME NEW s \in sessions', s \notin sessions
      PROVE  s \in TokenSet /\ Minted(s.user, s.version, s.role)'
  <2>1. s \in TokenSet /\ Minted(s.user, s.version, s.role)
    BY <1>5 DEF DirectoryInv, HeldOK
  <2> QED BY <1>1, <2>1 DEF Minted
<1>6. slo' = [l \in Logouts |-> slo'[l]]
  BY DEF DirectoryInv
<1> QED BY <1>2, <1>3, <1>4, <1>5, <1>6, DirectoryStep

LEMMA LightMoves ==
  ASSUME CallbackInv, DirectoryInv, NEW c \in Callbacks, UNCHANGED <<directory, slo, deployment>>,
         \/ End(c) /\ (sessions' = sessions \/ (sessions' = sessions \cup {acs[c].token} /\ acs[c].pc \in Signed))
         \/ /\ sessions' = sessions
            /\ \E label \in {"consume", "tenant", "trust", "seen", "intent", "find"} :
                 Goto(c, label) /\ acs[c].pc \notin Created
         \/ sessions' = sessions /\ \E label \in Signed : Goto(c, label) /\ acs[c].pc \in Signed
  PROVE  DirectoryInv'
<1>1. HeldOK(c, acs[c])
  BY DEF DirectoryInv
<1>2. CASE End(c)
  <2>1. Only(c) /\ acs'[c].pc = "done" /\ acs'[c].copy = Absent /\ acs'[c].token = Absent
    BY <1>2, EndsHere
  <2>2. HeldOK(c, acs'[c]) /\ acs'[c].pc \in Created
    BY <2>1 DEF HeldOK, Signed, Created
  <2> QED BY <2>1, <2>2, LightStep DEF Created
<1>3. ASSUME NEW label \in {"consume", "tenant", "trust", "seen", "intent", "find"} \cup Signed,
             Goto(c, label), sessions' = sessions,
             label \in Signed => acs[c].pc \in Signed, label \notin Signed => acs[c].pc \notin Created
      PROVE  DirectoryInv'
  <2>1. /\ Only(c) /\ acs'[c].pc = label /\ acs'[c].message = acs[c].message
        /\ acs'[c].copy = acs[c].copy /\ acs'[c].token = acs[c].token
    BY <1>3, GotoMoves
  <2>2. label \notin {"load", "update", "elevate"}
    BY <1>3 DEF Signed
  <2>3. HeldOK(c, acs'[c])
    BY <1>1, <1>3, <2>1, <2>2 DEF HeldOK, Subject
  <2>4. acs'[c].pc \in Created \/ acs[c].pc \notin Created
    BY <1>3, <2>1 DEF Created
  <2> QED BY <1>3, <2>1, <2>3, <2>4, LightStep
<1>4. {"consume", "tenant", "trust", "seen", "intent", "find"} \cap Signed = {}
  BY DEF Signed
<1> QED BY <1>2, <1>3, <1>4


LEMMA LightSteps ==
  ASSUME CallbackInv, DirectoryInv, NEW c \in Callbacks,
         \/ RepostResponse(c) \/ ConsumeRequest(c) \/ CheckTenant(c) \/ ValidateResponse(c)
         \/ MarkSeen(c) \/ AuditIntent(c) \/ ValidateSession(c) \/ PutSessionIndexes(c)
         \/ AuditAccept(c) \/ AuditUnavailable(c) \/ RollBack(c) \/ AbortCallback(c)
  PROVE  DirectoryInv' /\ UNCHANGED directory
<1>1. UNCHANGED <<directory, slo, deployment>>
  BY DEF RepostResponse, ConsumeRequest, CheckTenant, ValidateResponse, MarkSeen, AuditIntent,
     ValidateSession, PutSessionIndexes, AuditAccept, AuditUnavailable, RollBack, AbortCallback
<1>2. /\ {"repost", "consume", "tenant", "trust", "seen", "intent"} \cap Created = {}
      /\ {"check", "index", "accept", "rollback"} \subseteq Signed
  BY DEF Created, Signed
<1>3. CASE \/ RepostResponse(c) \/ ConsumeRequest(c) \/ CheckTenant(c) \/ ValidateResponse(c)
           \/ MarkSeen(c) \/ AuditIntent(c)
  <2>1. sessions' = sessions
    BY <1>3 DEF RepostResponse, ConsumeRequest, CheckTenant, ValidateResponse, MarkSeen, AuditIntent
  <2>2. \/ End(c)
        \/ /\ \E label \in {"consume", "tenant", "trust", "seen", "intent", "find"} : Goto(c, label)
           /\ acs[c].pc \in {"repost", "consume", "tenant", "trust", "seen", "intent"}
    BY <1>3 DEF RepostResponse, ConsumeRequest, CheckTenant, ValidateResponse, MarkSeen,
       AuditIntent, Proceed, Reject, Refuse, Reply
  <2> QED BY <1>1, <1>2, <2>1, <2>2, LightMoves
<1>4. CASE \/ ValidateSession(c) \/ PutSessionIndexes(c) \/ AuditUnavailable(c) \/ RollBack(c)
           \/ AbortCallback(c)
  <2>1. sessions' = sessions
    BY <1>4 DEF ValidateSession, PutSessionIndexes, AuditUnavailable, RollBack, AbortCallback
  <2>2. \/ End(c)
        \/ /\ \E label \in {"check", "index", "accept", "rollback"} : Goto(c, label)
           /\ acs[c].pc \in {"check", "index", "accept", "rollback"}
    BY <1>4 DEF ValidateSession, PutSessionIndexes, AuditUnavailable, RollBack, AbortCallback,
       Proceed, Reject, Refuse, Reply
  <2> QED BY <1>1, <1>2, <2>1, <2>2, LightMoves
<1>5. CASE AuditAccept(c)
  <2>1. End(c) /\ sessions' = sessions \cup {acs[c].token} /\ acs[c].pc = "accept"
    BY <1>5 DEF AuditAccept, Reply
  <2> QED BY <1>1, <1>2, <2>1, LightMoves
<1> QED BY <1>1, <1>3, <1>4, <1>5

LEMMA PostKeepsDirectory ==
  ASSUME CallbackInv, DirectoryInv, NEW c \in Callbacks, PostResponse(c)
  PROVE  DirectoryInv' /\ UNCHANGED directory
<1>1. UNCHANGED <<directory, slo, deployment, sessions>>
  BY DEF PostResponse
<1>2. HeldOK(c, acs'[c]) /\ acs[c].pc \notin Created /\ Only(c)
  BY PostMoves DEF HeldOK, Created, Signed
<1> QED BY <1>1, <1>2, LightStep

LEMMA RolesAreRoles ==
  ASSUME NEW u, NEW asserted
  PROVE  ScopedRole(asserted) \in Roles /\ ExistingRole(u, asserted) \in Roles
BY DEF ScopedRole, ExistingRole, Roles

(* The record with another role, and a newer version if it differs. *)
Raised(u, r) == [u EXCEPT !.role = r, !.version = NextVersion(u, r)]

LEMMA RaisedCopy ==
  ASSUME DirectoryOK, NEW id \in UserIds, users[id] # Absent, NEW r \in Roles
  PROVE  /\ Rewrite(Raised(users[id], r)) /\ Raised(users[id], r).id = id
         /\ Raised(users[id], r).tenant = users[id].tenant
         /\ Raised(users[id], r).name = users[id].name
         /\ Raised(users[id], r).role = r
<1> DEFINE u == users[id]
           v == Raised(u, r)
<1>1. u \in User /\ u.id = id
  BY DEF DirectoryOK
<1>2. NextVersion(u, r) \in Nat
  BY <1>1 DEF User, NextVersion
<1>3. /\ v \in User /\ v.id = id /\ v.tenant = u.tenant /\ v.name = u.name /\ v.role = r
      /\ v.version = NextVersion(u, r) /\ v.revision = u.revision /\ u.revision \in Nat
  BY <1>1, <1>2 DEF User, Raised
<1>4. (v.version = u.version /\ v.role = u.role) \/ v.version = u.version + 1
  BY <1>3 DEF NextVersion
<1> HIDE DEF v
<1>5. Rewrite(v)
  BY <1>3, <1>4 DEF Rewrite
<1> QED BY <1>3, <1>5 DEF v

LEMMA FindKeepsDirectory ==
  ASSUME CallbackInv, DirectoryInv, NEW c \in Callbacks, FindSubject(c)
  PROVE  DirectoryInv' /\ UNCHANGED directory
<1> DEFINE m == acs[c]
           k == SubjectKey(c)
           id == principal[k]
           u == users[id]
           r == ExistingRole(u, message(c).role)
           v == Raised(u, r)
<1>1. UNCHANGED <<directory, slo, deployment, sessions>> /\ m.pc = "find"
  BY DEF FindSubject
<1>2. IsAcs(m) /\ acs = [d \in Callbacks |-> acs[d]] /\ HeldOK(c, m) /\ DirectoryOK
  BY DEF CallbackInv, CallbackOK, DirectoryInv
<1>3. m.pc \in Open /\ m.pc \notin Created
  BY <1>1 DEF Open, Consuming, Marked, Intended, Created, Signed
<1>4. k \in Tenants \X Names /\ Subject(m) = k
  BY <1>3, SubjectOf
<1>5. Only(c) /\ acs'[c].message = m.message /\ acs'[c].token = m.token
  BY PrincipalMoves
<1>6. CASE id = Absent
  <2>1. Goto(c, "create")
    BY <1>6 DEF FindSubject, Goto
  <2>2. acs'[c].pc = "create" /\ acs'[c].copy = m.copy
    BY <2>1, GotoMoves
  <2>3. HeldOK(c, acs'[c])
    BY <1>2, <1>5, <2>2 DEF HeldOK, Signed
  <2> QED BY <1>1, <1>3, <1>5, <2>3, LightStep
<1>7. CASE id # Absent
  <2>1. acs' = [acs EXCEPT ![c].pc = "update", ![c].copy = v]
    BY <1>7 DEF FindSubject, Raised
  <2> HIDE DEF v
  <2>2. acs'[c] = [m EXCEPT !.pc = "update", !.copy = v]
    BY <1>2, <2>1
  <2>3. acs'[c].pc = "update" /\ acs'[c].copy = v
    BY <1>2, <2>2 DEF IsAcs, AcsFields
  <2>4. id \in UserIds /\ u # Absent /\ r \in Roles
    BY <1>2, <1>4, <1>7, RolesAreRoles DEF DirectoryOK
  <2>5. Rewrite(v) /\ v.id = id
    BY <1>2, <2>4, RaisedCopy DEF v
  <2>6. v \in User
    BY <2>5 DEF Rewrite
  <2>7. Subject(acs'[c]) = k
    BY <1>4, <1>5 DEF Subject
  <2> HIDE DEF k
  <2>8. HeldOK(c, acs'[c])
    BY <1>2, <1>5, <2>3, <2>5, <2>6, <2>7 DEF HeldOK, Signed
  <2> QED BY <1>1, <1>3, <1>5, <2>8, LightStep
<1> QED BY <1>6, <1>7

(* The stored record itself as the copy of an upsert. *)
LEMMA LoadKeepsDirectory ==
  ASSUME CallbackInv, DirectoryInv, NEW c \in Callbacks, LoadSubject(c)
  PROVE  DirectoryInv' /\ UNCHANGED directory
<1> DEFINE m == acs[c]
           k == SubjectKey(c)
           id == principal[k]
           u == users[id]
<1>1. UNCHANGED <<directory, slo, deployment, sessions>> /\ m.pc = "load"
  BY DEF LoadSubject
<1>2. IsAcs(m) /\ acs = [d \in Callbacks |-> acs[d]] /\ HeldOK(c, m) /\ DirectoryOK
  BY DEF CallbackInv, CallbackOK, DirectoryInv
<1>3. m.pc \in Open
  BY <1>1 DEF Open, Consuming, Marked, Intended
<1>4. k \in Tenants \X Names /\ Subject(m) = k
  BY <1>3, SubjectOf
<1>5. Only(c) /\ acs'[c].message = m.message /\ acs'[c].token = m.token
  BY PrincipalMoves
<1>6. acs' = [acs EXCEPT ![c].pc = "elevate", ![c].copy = u]
  BY DEF LoadSubject
<1> HIDE DEF u
<1>7. acs'[c] = [m EXCEPT !.pc = "elevate", !.copy = u]
  BY <1>2, <1>6
<1>8. acs'[c].pc = "elevate" /\ acs'[c].copy = u
  BY <1>2, <1>7 DEF IsAcs, AcsFields
<1>9. id \in UserIds /\ u # Absent /\ id # Absent
  BY <1>1, <1>2, <1>4, SamlIdentifiers DEF DirectoryOK, HeldOK, u
<1>10. u \in User /\ u.id = id
  BY ZenonT(60), <1>2, <1>9 DEF DirectoryOK, u
<1>11. u.version \in Nat /\ u.revision \in Nat
  BY <1>10 DEF User
<1>12. Subject(acs'[c]) = k
  BY <1>4, <1>5 DEF Subject
<1> HIDE DEF k
<1>13. HeldOK(c, acs'[c])
  BY <1>2, <1>5, <1>8, <1>9, <1>10, <1>11, <1>12 DEF HeldOK, Signed, Minted, u
<1>14. acs'[c].pc \in Created
  BY <1>8 DEF Created
<1> QED BY <1>1, <1>5, <1>13, <1>14, LightStep

LEMMA StoreKeepsDirectory ==
  ASSUME DirectoryOK, NEW copy, Rewrite(copy), Overwritable(copy), Store(copy), principal' = principal,
         \A c \in Callbacks : acs'[c] = acs[c] \/ acs'[c].pc \in Created \/ acs[c].pc \notin Created
  PROVE  DirectoryOK' /\ Evolves /\ PrincipalsStay
<1>1. Evolves
  BY StoreEvolves
<1>2. PrincipalsStay
  BY DEF PrincipalsStay
<1>3. \A u \in UserIds : users'[u] # Absent => users[u] # Absent
  BY StoreEvolves DEF Rewrite
<1>4. ASSUME NEW u \in UserIds, users'[u] # Absent
      PROVE  users'[u].id = u /\ principal'[<<users'[u].tenant, users'[u].name>>] = u
  <2>1. users[u] # Absent
    BY <1>3, <1>4
  <2>2. users[u].id = u /\ principal[<<users[u].tenant, users[u].name>>] = u
    BY <2>1 DEF DirectoryOK
  <2>3. users'[u].tenant = users[u].tenant /\ users'[u].name = users[u].name
    BY <1>1, <2>1 DEF Evolves
  <2>4. users'[u].id = u
    BY <2>2, StoreEvolves
  <2> QED BY <2>2, <2>3, <2>4
<1>5. ASSUME NEW k \in Tenants \X Names, principal'[k] # Absent
      PROVE  /\ users'[principal'[k]] # Absent
             /\ users'[principal'[k]].tenant = k[1] /\ users'[principal'[k]].name = k[2]
  <2>1. /\ principal[k] \in UserIds /\ users[principal[k]] # Absent
        /\ users[principal[k]].tenant = k[1] /\ users[principal[k]].name = k[2]
    BY <1>5 DEF DirectoryOK
  <2> QED BY <1>1, <2>1 DEF Evolves
<1>6. UserIds = Callbacks \cup {Seed}
  BY DEF UserIds
<1>7. \A c \in Callbacks : users'[c] # Absent => acs'[c].pc \in Created
  BY <1>3, <1>6 DEF DirectoryOK, Created
<1>8. users' \in [UserIds -> User \cup {Absent}] /\ principal' \in [Tenants \X Names -> UserIds \cup {Absent}]
  BY <1>1 DEF Evolves, DirectoryOK
<1> QED BY <1>1, <1>2, <1>4, <1>5, <1>7, <1>8 DEF DirectoryOK, Created

(* A step of one callback that may write the directory. *)
LEMMA WriterStep ==
  ASSUME CallbackInv, DirectoryInv, NEW c \in Callbacks, Only(c), HeldOK(c, acs[c])',
         DirectoryOK', Evolves, PrincipalsStay, UNCHANGED <<slo, deployment, sessions>>
  PROVE  DirectoryInv'
<1>1. \A d \in Callbacks : d # c => acs'[d] = acs[d]
  BY DEF Only
<1>2. slo' = [l \in Logouts |-> slo'[l]]
  BY DEF DirectoryInv
<1> QED BY <1>1, <1>2, DirectoryStep

(* The copy of a callback is what it has just written. *)
LEMMA FreshCopy ==
  ASSUME NEW c \in Callbacks, acs'[c].pc = "elevate", acs'[c].token \in TokenSet \cup {Absent},
         NEW id \in UserIds, users'[id] \in User, users'[id].id = id, acs'[c].copy = users'[id],
         principal'[Subject(acs[c])'] = id
  PROVE  HeldOK(c, acs[c])'
<1> DEFINE w == users'[id]
<1>1. w.version \in Nat /\ w.revision \in Nat /\ w # Absent /\ w \in User
  BY SamlIdentifiers DEF User
<1>2. acs'[c].copy.id = id /\ acs'[c].copy = w /\ acs'[c].pc \notin Signed
  BY DEF Signed
<1>3. Minted(acs[c].copy.id, acs[c].copy.version, acs[c].copy.role)'
  BY <1>1, <1>2 DEF Minted
<1> QED BY <1>1, <1>2, <1>3 DEF HeldOK

LEMMA UpdateKeepsDirectory ==
  ASSUME CallbackInv, DirectoryInv, NEW c \in Callbacks, UpdateSubject(c)
  PROVE  DirectoryInv' /\ Evolves
<1> DEFINE m == acs[c]
           v == m.copy
           k == Subject(m)
<1>1. UNCHANGED <<principal, slo, deployment, sessions>> /\ m.pc = "update"
  BY DEF UpdateSubject
<1>2. IsAcs(m) /\ acs = [d \in Callbacks |-> acs[d]] /\ HeldOK(c, m) /\ DirectoryOK
  BY DEF CallbackInv, CallbackOK, DirectoryInv
<1>3. Only(c) /\ acs'[c].message = m.message /\ acs'[c].token = m.token
  BY PrincipalMoves
<1>4. m.pc \notin Created /\ \A d \in Callbacks : d # c => acs'[d] = acs[d]
  BY <1>1, <1>3 DEF Created, Signed, Only
<1>5. Rewrite(v) /\ principal[k] = v.id /\ v \in User
  BY <1>1, <1>2 DEF HeldOK, Rewrite
<1>6. CASE Overwritable(v)
  <2>1. Store(v) /\ acs' = [acs EXCEPT ![c].pc = "elevate", ![c].copy.revision = @ + 1]
    BY <1>6 DEF UpdateSubject
  <2>2. acs'[c] = [m EXCEPT !.pc = "elevate", !.copy.revision = v.revision + 1]
    BY <1>2, <2>1
  <2>3. acs'[c].pc = "elevate" /\ acs'[c].copy = [v EXCEPT !.revision = v.revision + 1]
    BY <1>2, <2>2 DEF IsAcs, AcsFields
  <2>4. DirectoryOK' /\ Evolves /\ PrincipalsStay
    BY <1>1, <1>2, <1>4, <1>5, <1>6, <2>1, StoreKeepsDirectory
  <2>5. /\ acs'[c].copy = users'[v.id] /\ users'[v.id] \in User /\ users'[v.id].id = v.id
        /\ v.id \in UserIds
    BY <1>2, <1>5, <1>6, <2>1, <2>3, StoreEvolves
  <2>6. Subject(acs[c])' = k
    BY <1>1, <1>3 DEF Subject, Login
  <2>7. principal'[Subject(acs[c])'] = v.id /\ acs'[c].token \in TokenSet \cup {Absent}
    BY <1>1, <1>2, <1>3, <1>5, <2>6 DEF HeldOK
  <2> HIDE DEF v, k
  <2>8. HeldOK(c, acs[c])'
    BY <2>3, <2>5, <2>7, FreshCopy
  <2> QED BY <1>1, <1>3, <2>4, <2>8, WriterStep
<1>7. CASE ~Overwritable(v)
  <2>1. PICK label \in {"find", "create"} :
          acs' = [acs EXCEPT ![c].tries = @ + 1, ![c].pc = label] /\ UNCHANGED users
    BY <1>7 DEF UpdateSubject
  <2>2. acs'[c] = [m EXCEPT !.tries = @ + 1, !.pc = label]
    BY <1>2, <2>1
  <2>3. acs'[c].pc = label /\ acs'[c].copy = m.copy
    BY <1>2, <2>2 DEF IsAcs, AcsFields
  <2>4. UNCHANGED directory
    BY <1>1, <2>1 DEF directory
  <2>5. HeldOK(c, acs'[c])
    BY <1>2, <1>3, <2>3 DEF HeldOK, Signed
  <2>6. Evolves
    BY <1>2, <2>4, NoChangeEvolves
  <2> QED BY <1>1, <1>3, <1>4, <2>4, <2>5, <2>6, LightStep
<1> QED BY <1>6, <1>7

(* createFederatedUserScript: a new record under a free subject key. *)
Creates(c, k, u) ==
  /\ k \in Tenants \X Names /\ principal[k] = Absent
  /\ u \in User /\ u.id = c /\ u.tenant = k[1] /\ u.name = k[2]
  /\ users' = [users EXCEPT ![c] = u] /\ principal' = [principal EXCEPT ![k] = c]
  /\ acs[c].pc \notin Created /\ acs'[c].pc \in Created

LEMMA NewPrincipal ==
  ASSUME DirectoryOK, NEW c \in Callbacks, NEW k, NEW u, Creates(c, k, u),
         \A d \in Callbacks : d # c => acs'[d] = acs[d]
  PROVE  DirectoryOK' /\ Evolves /\ PrincipalsStay /\ users'[c] = u /\ principal'[k] = c
<1> USE DEF Creates
<1>1. c \in UserIds /\ users[c] = Absent /\ c # Absent /\ u # Absent
  BY SamlIdentifiers DEF DirectoryOK, UserIds, Created
<1>2. /\ users'[c] = u /\ (\A x \in UserIds : x # c => users'[x] = users[x])
      /\ users' \in [UserIds -> User \cup {Absent}]
  BY <1>1 DEF DirectoryOK
<1>3. /\ principal'[k] = c /\ (\A j \in Tenants \X Names : j # k => principal'[j] = principal[j])
      /\ principal' \in [Tenants \X Names -> UserIds \cup {Absent}]
  BY <1>1 DEF DirectoryOK
<1>4. PrincipalsStay
  BY <1>3 DEF PrincipalsStay
<1>5. Evolves
  <2>1. \A x \in UserIds : users[x] # Absent => users'[x] = users[x] /\ users[x].revision \in Nat
    BY <1>1, <1>2 DEF DirectoryOK, User
  <2> QED BY <1>2, <2>1 DEF Evolves
<1>6. ASSUME NEW j \in Tenants \X Names, principal'[j] # Absent
      PROVE  /\ users'[principal'[j]] # Absent
             /\ users'[principal'[j]].tenant = j[1] /\ users'[principal'[j]].name = j[2]
  <2>1. CASE j = k
    BY <1>1, <1>2, <1>3, <2>1
  <2>2. CASE j # k
    <3>1. principal'[j] = principal[j] /\ principal[j] \in UserIds /\ principal[j] # Absent
      BY <1>3, <1>6, <2>2 DEF DirectoryOK
    <3>2. /\ users[principal[j]] # Absent
          /\ users[principal[j]].tenant = j[1] /\ users[principal[j]].name = j[2]
      BY <3>1 DEF DirectoryOK
    <3> QED BY <1>1, <1>2, <3>1, <3>2
  <2> QED BY <2>1, <2>2
<1>7. ASSUME NEW x \in UserIds, users'[x] # Absent
      PROVE  users'[x].id = x /\ principal'[<<users'[x].tenant, users'[x].name>>] = x
  <2>1. CASE x = c
    <3>1. k = <<u.tenant, u.name>>
      OBVIOUS
    <3> QED BY <1>2, <1>3, <2>1, <3>1
  <2>2. CASE x # c
    <3>1. /\ users'[x] = users[x] /\ users[x] \in User /\ users[x].id = x
          /\ principal[<<users[x].tenant, users[x].name>>] = x /\ x # Absent
      BY <1>2, <1>7, <2>2, SamlIdentifiers DEF DirectoryOK
    <3>2. <<users[x].tenant, users[x].name>> \in Tenants \X Names
      BY <3>1 DEF User
    <3> QED BY <1>3, <3>1, <3>2
  <2> QED BY <2>1, <2>2
<1>8. \A d \in Callbacks : users'[d] # Absent => acs'[d].pc \in Created
  BY <1>1, <1>2 DEF DirectoryOK, Created, UserIds
<1> QED BY <1>2, <1>3, <1>4, <1>5, <1>6, <1>7, <1>8 DEF DirectoryOK, Created

LEMMA CreateKeepsDirectory ==
  ASSUME CallbackInv, DirectoryInv, NEW c \in Callbacks, CreateSubject(c)
  PROVE  DirectoryInv' /\ Evolves
<1> DEFINE m == acs[c]
           k == SubjectKey(c)
           u == [id |-> c, tenant |-> tenant(c), name |-> message(c).name,
                 role |-> ScopedRole(message(c).role), version |-> 0, revision |-> 0]
<1>1. UNCHANGED <<slo, deployment, sessions>> /\ m.pc = "create"
  BY DEF CreateSubject
<1>2. IsAcs(m) /\ acs = [d \in Callbacks |-> acs[d]] /\ HeldOK(c, m) /\ DirectoryOK
  BY DEF CallbackInv, CallbackOK, DirectoryInv
<1>3. m.pc \in Open /\ m.pc \notin Created
  BY <1>1 DEF Open, Consuming, Marked, Intended, Created, Signed
<1>4. /\ k \in Tenants \X Names /\ Subject(m) = k /\ tenant(c) \in Tenants
      /\ message(c).name \in Names /\ k[1] = tenant(c) /\ k[2] = message(c).name
  BY <1>3, SubjectOf
<1>5. Only(c) /\ acs'[c].message = m.message /\ acs'[c].token = m.token
  BY PrincipalMoves
<1>6. CASE SubjectFree(c)
  <2>1. /\ users' = [users EXCEPT ![c] = u] /\ principal' = [principal EXCEPT ![k] = c]
        /\ acs' = [acs EXCEPT ![c].pc = "elevate", ![c].copy = u]
    BY <1>6 DEF CreateSubject
  <2>2. u \in User /\ u.id = c /\ u.tenant = k[1] /\ u.name = k[2]
    BY <1>4, RolesAreRoles DEF User, UserIds
  <2> HIDE DEF u
  <2>3. acs'[c] = [m EXCEPT !.pc = "elevate", !.copy = u]
    BY <1>2, <2>1
  <2>4. acs'[c].pc = "elevate" /\ acs'[c].copy = u
    BY <1>2, <2>3 DEF IsAcs, AcsFields
  <2>5. principal[k] = Absent
    BY <1>6 DEF SubjectFree
  <2>6. \A d \in Callbacks : d # c => acs'[d] = acs[d]
    BY <1>5 DEF Only
  <2>7. acs'[c].pc \in Created
    BY <2>4 DEF Created
  <2> HIDE DEF k, m
  <2>8. DirectoryOK' /\ Evolves /\ PrincipalsStay /\ users'[c] = u /\ principal'[k] = c
    <3>1. Creates(c, k, u)
      BY <1>3, <1>4, <2>1, <2>2, <2>5, <2>7 DEF Creates, m
    <3> QED BY <1>2, <2>6, <3>1, NewPrincipal
  <2>9. Subject(acs[c])' = k
    BY <1>1, <1>4, <1>5 DEF Subject, Login, m
  <2>10. acs'[c].token \in TokenSet \cup {Absent} /\ c \in UserIds
    BY <1>2, <1>5 DEF HeldOK, UserIds
  <2>11. HeldOK(c, acs[c])'
    BY <2>2, <2>4, <2>8, <2>9, <2>10, FreshCopy
  <2> QED BY <1>1, <1>5, <2>8, <2>11, WriterStep
<1>7. CASE ~SubjectFree(c)
  <2>1. Goto(c, "load") /\ UNCHANGED directory
    BY <1>7 DEF CreateSubject
  <2>2. acs'[c].pc = "load" /\ acs'[c].copy = m.copy
    BY <2>1, GotoMoves
  <2>3. Subject(acs'[c]) = k /\ principal[k] # Absent
    BY <1>4, <1>5, <1>7 DEF Subject, SubjectFree
  <2>4. HeldOK(c, acs'[c])
    BY <1>2, <1>5, <2>2, <2>3 DEF HeldOK, Signed
  <2>5. Evolves
    BY <1>2, <2>1, NoChangeEvolves
  <2> QED BY <1>1, <1>3, <1>5, <2>1, <2>4, <2>5, LightStep
<1> QED BY <1>6, <1>7

LEMMA TokenFields ==
  ASSUME CallbackInv, NEW c \in Callbacks, acs[c].pc \in Open, NEW u \in User
  PROVE  /\ Token(c, u) \in TokenSet /\ Token(c, u).user = u.id
         /\ Token(c, u).version = u.version /\ Token(c, u).role = u.role
         /\ Token(c, u).tenant = u.tenant
<1>1. acs[c].message \in ProviderMessage
  BY DEF CallbackInv, CallbackOK
<1>2. request(c) \in Requests /\ message(c).assertion \in Assertions
  BY <1>1 DEF ProviderMessage, request, message
<1>3. /\ u.id \in UserIds /\ u.tenant \in Tenants /\ u.role \in Roles /\ u.version \in Nat
  BY DEF User
<1> QED BY <1>2, <1>3 DEF Token, TokenSet

(* The token is signed: the principal it names is the stored one. *)
LEMMA ElevateKeepsDirectory ==
  ASSUME CallbackInv, DirectoryInv, NEW c \in Callbacks, Elevate(c)
  PROVE  DirectoryInv' /\ Evolves
<1> DEFINE m == acs[c]
           u == m.copy
           k == Subject(m)
           r == IF PlatformAdministrator(u) THEN "ADMIN" ELSE ScopedRole(u.role)
           v == Raised(u, r)
<1>1. UNCHANGED <<principal, slo, deployment, sessions>> /\ m.pc = "elevate"
  BY DEF Elevate
<1>2. IsAcs(m) /\ acs = [d \in Callbacks |-> acs[d]] /\ HeldOK(c, m) /\ DirectoryOK
  BY DEF CallbackInv, CallbackOK, DirectoryInv
<1>3. m.pc \in Open /\ m.pc \in Created
  BY <1>1 DEF Open, Consuming, Marked, Intended, Created
<1>4. /\ u \in User /\ principal[k] = u.id /\ Minted(u.id, u.version, u.role)
      /\ u.revision = users[u.id].revision => u = users[u.id]
  BY <1>1, <1>2 DEF HeldOK
<1>5. r \in Roles
  BY RolesAreRoles DEF Roles
<1>6. \/ acs' = [acs EXCEPT ![c].pc = "check", ![c].token = Token(c, u)] /\ UNCHANGED users
      \/ /\ Overwritable(v) /\ Store(v)
         /\ acs' = [acs EXCEPT ![c].pc = "check", ![c].token = Token(c, v)]
      \/ Reject(c) /\ UNCHANGED users
  BY DEF Elevate, Raised
<1> HIDE DEF r, v
<1>7. ASSUME NEW x, acs' = [acs EXCEPT ![c].pc = "check", ![c].token = Token(c, x)]
      PROVE  /\ Only(c) /\ acs'[c].message = m.message /\ acs'[c].copy = m.copy
             /\ acs'[c].pc = "check" /\ acs'[c].token = Token(c, x)
             /\ \A d \in Callbacks : d # c => acs'[d] = acs[d]
  <2>1. Only(c) /\ acs'[c] = [m EXCEPT !.pc = "check", !.token = Token(c, x)]
    BY <1>2, <1>7 DEF Only
  <2> QED BY <1>2, <2>1 DEF IsAcs, AcsFields, Only
<1>8. CASE Reject(c) /\ UNCHANGED users
  <2>1. UNCHANGED directory /\ End(c)
    BY <1>1, <1>8 DEF directory, Reject, Refuse, Reply
  <2> QED BY <1>1, <1>2, <2>1, LightMoves, NoChangeEvolves
<1>9. CASE acs' = [acs EXCEPT ![c].pc = "check", ![c].token = Token(c, u)] /\ UNCHANGED users
  <2>1. UNCHANGED directory
    BY <1>1, <1>9 DEF directory
  <2>2. /\ Only(c) /\ acs'[c].message = m.message /\ acs'[c].copy = u
        /\ acs'[c].pc = "check" /\ acs'[c].token = Token(c, u)
    BY <1>7, <1>9
  <2>3. /\ Token(c, u) \in TokenSet /\ Token(c, u).user = u.id
        /\ Token(c, u).version = u.version /\ Token(c, u).role = u.role
    BY <1>3, <1>4, TokenFields
  <2>4. Subject(acs'[c]) = k
    BY <2>2 DEF Subject
  <2> HIDE DEF k, u
  <2>5. HeldOK(c, acs'[c])
    BY <1>4, <2>2, <2>3, <2>4 DEF HeldOK, Signed
  <2>6. acs'[c].pc \in Created
    BY <2>2 DEF Created, Signed
  <2> QED BY <1>1, <1>2, <2>1, <2>2, <2>5, <2>6, LightStep, NoChangeEvolves
<1>10. CASE /\ Overwritable(v) /\ Store(v)
            /\ acs' = [acs EXCEPT ![c].pc = "check", ![c].token = Token(c, v)]
  <2>1. /\ Only(c) /\ acs'[c].message = m.message /\ acs'[c].copy = m.copy
        /\ acs'[c].pc = "check" /\ acs'[c].token = Token(c, v)
        /\ \A d \in Callbacks : d # c => acs'[d] = acs[d]
    BY <1>7, <1>10
  <2>2. u = users[u.id] /\ u.id \in UserIds /\ users[u.id] # Absent
    <3>1. v.id = u.id /\ v.revision = u.revision
      BY <1>4 DEF v, Raised, User
    <3>2. users[u.id].revision = u.revision
      BY <1>10, <3>1 DEF Overwritable
    <3> QED BY <1>4, <3>2 DEF Minted
  <2>3. Rewrite(v) /\ v.id = u.id
    BY <1>2, <1>5, <2>2, RaisedCopy DEF v
  <2>4. v \in User
    BY <2>3 DEF Rewrite
  <2>5. acs'[c].pc \in Created
    BY <2>1 DEF Created, Signed
  <2>6. DirectoryOK' /\ Evolves /\ PrincipalsStay
    BY <1>1, <1>2, <1>10, <2>1, <2>3, <2>5, StoreKeepsDirectory
  <2>7. /\ v.id \in UserIds /\ users'[v.id] \in User
        /\ users'[v.id].version = v.version /\ users'[v.id].role = v.role
    BY <1>2, <1>10, <2>3, StoreEvolves
  <2>8. /\ Token(c, v) \in TokenSet /\ Token(c, v).user = v.id
        /\ Token(c, v).version = v.version /\ Token(c, v).role = v.role
    BY <1>3, <2>4, TokenFields
  <2>9. users'[v.id] # Absent /\ v.version \in Nat
    BY <2>4, <2>7, SamlIdentifiers DEF User
  <2>10. Minted(acs[c].token.user, acs[c].token.version, acs[c].token.role)'
    BY <2>1, <2>7, <2>8, <2>9 DEF Minted
  <2>11. Subject(acs[c])' = k /\ principal'[k] = v.id
    BY <1>1, <1>4, <2>1, <2>3 DEF Subject, Login
  <2> HIDE DEF k
  <2>12. HeldOK(c, acs[c])'
    BY <1>4, <2>1, <2>8, <2>10, <2>11 DEF HeldOK, Signed
  <2> QED BY <1>1, <2>1, <2>6, <2>12, WriterStep
<1> QED BY <1>6, <1>8, <1>9, <1>10

----------------------------------------------------------------------------
(* The logouts and what they do to the directory *)

(* What a step does that no callback, no logout and no index is part of. *)
Aside ==
  /\ UNCHANGED <<deployment, directory, index, audit, acs, slo, sessions>>
  /\ seen' \subseteq seen /\ lapsed' \subseteq lapsed \cup seen /\ active' \subseteq active \cup Tenants
  /\ \/ UNCHANGED browser
     \/ \E r \in Requests, b \in Browsers :
          r \in DOMAIN deployment.login /\ b = Login(r).browser
          /\ browser' = [browser EXCEPT ![b].state = r]

LEMMA AllActors ==
  ASSUME [Next]_vars
  PROVE  \/ \E c \in Callbacks : CallbackSteps(c)
         \/ \E l \in Logouts : LogoutSteps(l)
         \/ \E b \in Browsers : StartLogout(b)
         \/ \E t \in Tenants, u \in UserIds : IndexesExpire(t, u)
         \/ deployment \in Deployments => Aside
<1>1. CASE TrustStep /\ UNCHANGED <<deployment, pending, sent, seen, lapsed, active, directory,
                                     index, audit, browser, acs, slo, sessions>>
  BY <1>1 DEF Aside
<1>2. ASSUME NEW r \in Requests, StartLogin(r), deployment \in Deployments PROVE Aside
  <2>1. r \in DOMAIN deployment.login /\ browser' = [browser EXCEPT ![Login(r).browser].state = r]
    BY <1>2 DEF StartLogin
  <2>2. Login(r).browser \in Browsers
    BY <1>2, <2>1, SamlDeployments DEF Login
  <2>3. UNCHANGED <<deployment, trust, seen, lapsed, active, directory, index, audit,
                    acs, slo, sessions>>
    BY <1>2 DEF StartLogin
  <2> QED BY <2>1, <2>2, <2>3 DEF Aside
<1>3. ASSUME NEW r \in Requests, RequestExpires(r) PROVE Aside
  BY <1>3 DEF RequestExpires, Aside
<1>4. ASSUME NEW a \in Assertions, ReplayMarkExpires(a) PROVE Aside
  BY <1>4 DEF ReplayMarkExpires, Aside
<1>5. ASSUME NEW t \in Tenants, TenantChanges(t) PROVE Aside
  BY <1>5 DEF TenantChanges, Aside
<1>6. CASE UNCHANGED vars
  BY <1>6 DEF vars, Aside
<1> QED
  BY <1>1, <1>2, <1>3, <1>4, <1>5, <1>6 DEF Next, CallbackSteps, LogoutSteps

OnlyLogout(l) == slo' = [k \in Logouts |-> IF k = l THEN slo'[l] ELSE slo[k]]

LEMMA ForgetMoves ==
  ASSUME DirectoryInv, LogoutsOK, NEW l \in Logouts, NEW label, slo' = Forget(l, label)
  PROVE  /\ OnlyLogout(l) /\ IsSlo(slo'[l]) /\ slo'[l].pc = label /\ slo'[l].copy = Absent
         /\ slo'[l].browser = slo[l].browser /\ slo'[l].state = slo[l].state
         /\ slo'[l].idx = slo[l].idx /\ slo'[l].before = slo[l].before
<1>1. IsSlo(slo[l]) /\ slo = [k \in Logouts |-> slo[k]]
  BY DEF DirectoryInv, LogoutsOK, LogoutOK
<1>2. OnlyLogout(l) /\ slo'[l] = [slo[l] EXCEPT !.pc = label, !.copy = Absent]
  BY <1>1 DEF Forget, OnlyLogout
<1> QED BY <1>1, <1>2 DEF IsSlo, SloFields

LEMMA RetryMoves ==
  ASSUME DirectoryInv, LogoutsOK, NEW l \in Logouts,
         slo' = [Forget(l, "read") EXCEPT ![l].tries = @ + 1]
  PROVE  /\ OnlyLogout(l) /\ IsSlo(slo'[l]) /\ slo'[l].pc = "read" /\ slo'[l].copy = Absent
         /\ slo'[l].browser = slo[l].browser /\ slo'[l].state = slo[l].state
         /\ slo'[l].idx = slo[l].idx /\ slo'[l].before = slo[l].before
<1>1. IsSlo(slo[l]) /\ slo = [k \in Logouts |-> slo[k]]
  BY DEF DirectoryInv, LogoutsOK, LogoutOK
<1> DEFINE f == Forget(l, "read")
<1>2. /\ f = [k \in Logouts |-> IF k = l THEN f[l] ELSE slo[k]]
      /\ f[l] = [slo[l] EXCEPT !.pc = "read", !.copy = Absent]
  BY <1>1 DEF Forget
<1> HIDE DEF f
<1>3. OnlyLogout(l) /\ slo'[l] = [f[l] EXCEPT !.tries = f[l].tries + 1]
  BY <1>2 DEF OnlyLogout, f
<1>4. /\ IsSlo(f[l]) /\ f[l].pc = "read" /\ f[l].copy = Absent
      /\ f[l].browser = slo[l].browser /\ f[l].state = slo[l].state
      /\ f[l].idx = slo[l].idx /\ f[l].before = slo[l].before
  BY <1>1, <1>2 DEF IsSlo, SloFields
<1> QED BY <1>3, <1>4 DEF IsSlo, SloFields

LEMMA RevokeReads ==
  ASSUME DirectoryInv, LogoutsOK, NEW l \in Logouts, RevokeRead(l)
  PROVE  /\ OnlyLogout(l) /\ IsSlo(slo'[l]) /\ slo[l].pc = "read" /\ slo'[l].pc = "write"
         /\ slo'[l].copy = [users[slo[l].idx.user] EXCEPT !.version = @ + 1]
         /\ slo'[l].browser = slo[l].browser /\ slo'[l].state = slo[l].state
         /\ slo'[l].idx = slo[l].idx /\ slo'[l].before = slo[l].before
<1>1. IsSlo(slo[l]) /\ slo = [k \in Logouts |-> slo[k]]
  BY DEF DirectoryInv, LogoutsOK, LogoutOK
<1> DEFINE x == [users[slo[l].idx.user] EXCEPT !.version = @ + 1]
<1>2. slo' = [slo EXCEPT ![l].pc = "write", ![l].copy = x] /\ slo[l].pc = "read"
  BY DEF RevokeRead
<1> HIDE DEF x
<1>3. OnlyLogout(l) /\ slo'[l] = [slo[l] EXCEPT !.pc = "write", !.copy = x]
  BY <1>1, <1>2 DEF OnlyLogout
<1>4. /\ OnlyLogout(l) /\ IsSlo(slo'[l]) /\ slo[l].pc = "read" /\ slo'[l].pc = "write"
      /\ slo'[l].copy = x
      /\ slo'[l].browser = slo[l].browser /\ slo'[l].state = slo[l].state
      /\ slo'[l].idx = slo[l].idx /\ slo'[l].before = slo[l].before
  BY <1>1, <1>2, <1>3 DEF IsSlo, SloFields
<1> QED BY <1>4 DEF x

LEMMA RevokeCopy ==
  ASSUME DirectoryOK, NEW id \in UserIds, users[id] # Absent
  PROVE  LET x == [users[id] EXCEPT !.version = @ + 1]
         IN  /\ Rewrite(x) /\ x.id = id /\ x.revision = users[id].revision
             /\ x.version = users[id].version + 1 /\ x \in User
<1> DEFINE u == users[id]
           x == [u EXCEPT !.version = @ + 1]
<1>1. u \in User /\ u.id = id
  BY DEF DirectoryOK
<1>2. /\ x \in User /\ x.id = id /\ x.tenant = u.tenant /\ x.name = u.name
      /\ x.version = u.version + 1 /\ x.revision = u.revision /\ u.revision \in Nat
  BY <1>1 DEF User
<1> HIDE DEF x
<1>3. Rewrite(x)
  BY <1>2 DEF Rewrite
<1> QED BY <1>2, <1>3 DEF x

(* A step of one logout that does not write the directory. *)
LEMMA LightLogout ==
  ASSUME CallbackInv, DirectoryInv, UNCHANGED <<deployment, directory, acs, sessions>>,
         slo' = [l \in Logouts |-> slo'[l]],
         \A l \in Logouts : slo'[l].pc = "write" => slo'[l] = slo[l] \/ Rewrite(slo'[l].copy)
  PROVE  DirectoryInv' /\ Evolves
<1>1. UNCHANGED <<principal, users>> /\ DirectoryOK
  BY DEF directory, DirectoryInv
<1>2. DirectoryOK' /\ Evolves /\ PrincipalsStay
  BY <1>1, SameDirectory
<1>3. \A l \in Logouts : slo'[l].pc = "write" => slo'[l] = slo[l] \/ Rewrite(slo[l].copy)'
  BY <1>1 DEF Rewrite
<1> QED BY <1>2, <1>3, DirectoryStep

LEMMA LogoutKeepsDirectory ==
  ASSUME CallbackInv, DirectoryInv, LogoutsOK, NEW l \in Logouts, LogoutSteps(l)
  PROVE  DirectoryInv' /\ Evolves
<1>1. UNCHANGED <<deployment, principal, acs, sessions>>
  BY DEF LogoutSteps, SloGet, SloPost, RevokeRead, RevokeWrite, DeleteIndexes, AbortLogout, directory
<1>2. DirectoryOK /\ slo = [k \in Logouts |-> slo[k]] /\ LogoutOK(slo[l])
  BY DEF DirectoryInv, LogoutsOK
<1>3. CASE \E b \in Browsers : SloGet(l, b) \/ SloPost(l, b)
  <2>1. UNCHANGED directory /\ \E b, i, state : BeginRevoke(l, b, i, state)
    BY <1>3 DEF SloGet, SloPost
  <2>2. PICK x : slo' = [slo EXCEPT ![l] = [NoSlo EXCEPT !.pc = "read", !.browser = x[1], !.idx = x[2],
                             !.state = x[3], !.before = x[4]]]
    <3>1. PICK b, i, state : BeginRevoke(l, b, i, state)
      BY <2>1
    <3> WITNESS <<b, i, state, {s \in sessions : s.user = i.user}>>
    <3> QED BY <3>1 DEF BeginRevoke
  <2>3. slo'[l].pc = "read" /\ OnlyLogout(l)
    BY <1>2, <2>2 DEF OnlyLogout, NoSlo
  <2> QED BY <1>1, <2>1, <2>3, LightLogout DEF OnlyLogout
<1>4. CASE RevokeRead(l)
  <2>1. UNCHANGED directory
    BY <1>4 DEF RevokeRead
  <2>2. /\ OnlyLogout(l) /\ slo[l].pc = "read"
        /\ slo'[l].copy = [users[slo[l].idx.user] EXCEPT !.version = @ + 1]
    BY <1>4, RevokeReads
  <2>3. slo[l].idx.user \in UserIds /\ users[slo[l].idx.user] # Absent
    BY <1>2, <2>2 DEF LogoutOK, IndexOK, IndexRecord
  <2>4. Rewrite(slo'[l].copy)
    BY <1>2, <2>2, <2>3, RevokeCopy
  <2> QED BY <1>1, <2>1, <2>2, <2>4, LightLogout DEF OnlyLogout
<1>5. CASE RevokeWrite(l)
  <2>1. CASE Overwritable(slo[l].copy)
    <3>1. Store(slo[l].copy) /\ slo' = Forget(l, "delete") /\ slo[l].pc = "write"
      BY <1>5, <2>1 DEF RevokeWrite
    <3>2. Rewrite(slo[l].copy)
      BY <3>1 DEF DirectoryInv
    <3>3. DirectoryOK' /\ Evolves /\ PrincipalsStay
      BY <1>1, <1>2, <2>1, <3>1, <3>2, StoreKeepsDirectory
    <3>4. OnlyLogout(l) /\ slo'[l].pc = "delete"
      BY <3>1, ForgetMoves
    <3> QED BY <1>1, <3>3, <3>4, DirectoryStep DEF OnlyLogout
  <2>2. CASE ~Overwritable(slo[l].copy)
    <3>1. /\ UNCHANGED directory
          /\ \/ slo' = [Forget(l, "read") EXCEPT ![l].tries = @ + 1]
             \/ slo' = Forget(l, "failed")
      BY <1>1, <1>5, <2>2 DEF RevokeWrite, directory
    <3>2. OnlyLogout(l) /\ slo'[l].pc \in {"read", "failed"}
      BY <3>1, ForgetMoves, RetryMoves
    <3> QED BY <1>1, <3>1, <3>2, LightLogout DEF OnlyLogout
  <2> QED BY <2>1, <2>2
<1>6. CASE DeleteIndexes(l) \/ AbortLogout(l)
  <2>1. UNCHANGED directory /\ \E label \in {"loggedOut", "failed"} : slo' = Forget(l, label)
    BY <1>6 DEF DeleteIndexes, AbortLogout
  <2>2. OnlyLogout(l) /\ slo'[l].pc \in {"loggedOut", "failed"}
    BY <2>1, ForgetMoves
  <2> QED BY <1>1, <2>1, <2>2, LightLogout DEF OnlyLogout
<1> QED BY SMTT(60), <1>3, <1>4, <1>5, <1>6 DEF LogoutSteps

LEMMA DirectoryInvKept ==
  ASSUME CallbackInv, DirectoryInv, LogoutsOK, [Next]_vars
  PROVE  DirectoryInv' /\ Evolves
<1>1. DirectoryOK /\ slo = [l \in Logouts |-> slo[l]] /\ deployment \in Deployments
  BY DEF DirectoryInv, CallbackInv
<1>2. ASSUME NEW c \in Callbacks, CallbackSteps(c) PROVE DirectoryInv' /\ Evolves
  BY <1>1, <1>2, LightSteps, PostKeepsDirectory, FindKeepsDirectory, LoadKeepsDirectory,
     UpdateKeepsDirectory, CreateKeepsDirectory, ElevateKeepsDirectory, NoChangeEvolves
     DEF CallbackSteps
<1>3. CASE \/ \E b \in Browsers : StartLogout(b)
           \/ \E t \in Tenants, u \in UserIds : IndexesExpire(t, u)
           \/ Aside
  <2>1. UNCHANGED <<deployment, directory, acs, sessions, slo>>
    BY <1>3 DEF StartLogout, IndexesExpire, Aside
  <2> QED BY <1>1, <2>1, LightLogout
<1> QED BY <1>1, <1>2, <1>3, AllActors, LogoutKeepsDirectory

----------------------------------------------------------------------------
(* The indexes *)

LEMMA IndexKept ==
  ASSUME DirectoryOK, Evolves, NEW i, IndexOK(i)
  PROVE  /\ i \in IndexRecord /\ i.user \in UserIds /\ users'[i.user] # Absent
         /\ users'[i.user].tenant = i.tenant /\ users'[i.user].name = i.name
<1>1. i.user \in UserIds
  BY DEF IndexOK, IndexRecord
<1> QED BY <1>1 DEF IndexOK, Evolves

(* u is the principal of the subject n in the tenant t. *)
Owns(t, u, n) ==
  /\ t \in Tenants /\ u \in UserIds /\ n \in Names
  /\ users[u] # Absent /\ users[u].tenant = t /\ users[u].name = n

LEMMA EntryOwns ==
  ASSUME NEW i, IndexOK(i)
  PROVE  Owns(i.tenant, i.user, i.name)
BY DEF IndexOK, IndexRecord, Owns

(* There is one principal for a tenant and a NameID. *)
LEMMA OnePrincipal ==
  ASSUME DirectoryOK, NEW t, NEW n, NEW u, NEW v, Owns(t, u, n), Owns(t, v, n)
  PROVE  u = v
<1>1. /\ principal[<<users[u].tenant, users[u].name>>] = u
      /\ principal[<<users[v].tenant, users[v].name>>] = v
  BY DEF DirectoryOK, Owns
<1> QED BY <1>1 DEF Owns

LEMMA SameIndexes ==
  ASSUME DirectoryOK, Evolves, IndexesOK, UNCHANGED index
  PROVE  IndexesOK'
<1>1. UNCHANGED <<bySubject, byName>>
  BY DEF index
<1>2. \A i : IndexOK(i) => IndexOK(i)'
  BY IndexKept DEF IndexOK
<1> QED BY <1>1, <1>2 DEF IndexesOK, IndexesPaired

(* The two keys of an entry are its own keys, and no other entry's. *)
LEMMA WrittenIndexes ==
  ASSUME DirectoryOK, Evolves, IndexesOK, NEW t, NEW u, NEW n, Owns(t, u, n), NEW x,
         x = Absent \/ (IndexOK(x) /\ x.tenant = t /\ x.user = u /\ x.name = n),
         bySubject' = [bySubject EXCEPT ![<<t, u>>] = x],
         byName' = [byName EXCEPT ![<<t, n>>] = x]
  PROVE  IndexesOK'
<1> DEFINE p == <<t, u>>
           q == <<t, n>>
<1>1. x \in IndexRecord \cup {Absent} /\ p \in Tenants \X UserIds /\ q \in Tenants \X Names
  BY DEF IndexOK, Owns
<1>2. \A j : IndexOK(j) => IndexOK(j)'
  BY IndexKept DEF IndexOK
<1>3. /\ bySubject' \in [Tenants \X UserIds -> IndexRecord \cup {Absent}]
      /\ byName' \in [Tenants \X Names -> IndexRecord \cup {Absent}]
  BY <1>1 DEF IndexesOK
<1>4. /\ bySubject'[p] = x /\ \A k \in Tenants \X UserIds : k # p => bySubject'[k] = bySubject[k]
      /\ byName'[q] = x /\ \A k \in Tenants \X Names : k # q => byName'[k] = byName[k]
  BY <1>1 DEF IndexesOK
<1>5. ASSUME NEW k \in Tenants \X UserIds, bySubject'[k] # Absent
      PROVE  /\ IndexOK(bySubject[k])' /\ bySubject'[k].tenant = k[1] /\ bySubject'[k].user = k[2]
             /\ byName'[<<k[1], bySubject'[k].name>>] = bySubject'[k]
  <2>1. CASE k = p
    BY <1>1, <1>2, <1>4, <1>5, <2>1
  <2>2. CASE k # p
    <3> DEFINE j == bySubject[k]
    <3>1. /\ bySubject'[k] = j /\ IndexOK(j) /\ j.tenant = k[1] /\ j.user = k[2]
          /\ byName[<<k[1], j.name>>] = j
      BY <1>4, <1>5, <2>2 DEF IndexesOK, IndexesPaired
    <3>2. <<k[1], j.name>> \in Tenants \X Names
      BY <3>1 DEF IndexOK, IndexRecord
    <3>3. <<k[1], j.name>> # q
      <4> SUFFICES ASSUME <<k[1], j.name>> = q PROVE FALSE
        OBVIOUS
      <4>1. j.tenant = t /\ j.name = n
        BY <3>1
      <4>2. j.user = u
        BY <3>1, <4>1, OnePrincipal, EntryOwns
      <4>3. k = <<k[1], k[2]>>
        OBVIOUS
      <4> QED BY <2>2, <3>1, <4>1, <4>2, <4>3
    <3>4. byName'[<<k[1], j.name>>] = j
      BY <1>4, <3>1, <3>2, <3>3
    <3>5. IndexOK(bySubject[k])'
      BY <1>2, <3>1
    <3> QED BY <3>1, <3>4, <3>5
  <2> QED BY <2>1, <2>2
<1>6. ASSUME NEW k \in Tenants \X Names, byName'[k] # Absent
      PROVE  /\ IndexOK(byName[k])' /\ byName'[k].tenant = k[1] /\ byName'[k].name = k[2]
             /\ bySubject'[<<k[1], byName'[k].user>>] = byName'[k]
  <2>1. CASE k = q
    BY <1>1, <1>2, <1>4, <1>6, <2>1
  <2>2. CASE k # q
    <3> DEFINE j == byName[k]
    <3>1. /\ byName'[k] = j /\ IndexOK(j) /\ j.tenant = k[1] /\ j.name = k[2]
          /\ bySubject[<<k[1], j.user>>] = j
      BY <1>4, <1>6, <2>2 DEF IndexesOK, IndexesPaired
    <3>2. <<k[1], j.user>> \in Tenants \X UserIds
      BY <3>1 DEF IndexOK, IndexRecord
    <3>3. <<k[1], j.user>> # p
      <4> SUFFICES ASSUME <<k[1], j.user>> = p PROVE FALSE
        OBVIOUS
      <4>1. j.tenant = t /\ j.user = u
        BY <3>1
      <4>2. j.name = n
        BY <3>1, <4>1 DEF IndexOK, Owns
      <4>3. k = <<k[1], k[2]>>
        OBVIOUS
      <4> QED BY <2>2, <3>1, <4>1, <4>2, <4>3
    <3>4. bySubject'[<<k[1], j.user>>] = j
      BY <1>4, <3>1, <3>2, <3>3
    <3>5. IndexOK(byName[k])'
      BY <1>2, <3>1
    <3> QED BY <3>1, <3>4, <3>5
  <2> QED BY <2>1, <2>2
<1> QED BY <1>3, <1>5, <1>6 DEF IndexesOK, IndexesPaired

LEMMA IndexesKept ==
  ASSUME CallbackInv, DirectoryInv, IndexInv, Evolves, [Next]_vars
  PROVE  IndexesOK'
<1>1. DirectoryOK /\ IndexesOK /\ deployment \in Deployments
  BY DEF DirectoryInv, IndexInv, CallbackInv
<1>2. ASSUME NEW t, NEW u, NEW n, Owns(t, u, n), RemoveIndexes(t, u, n) PROVE IndexesOK'
  BY <1>1, <1>2, WrittenIndexes DEF RemoveIndexes
<1>3. ASSUME NEW c \in Callbacks, acs[c].pc \in Signed
      PROVE  Owns(tenant(c), acs[c].token.user, message(c).name)
  <2>1. HeldOK(c, acs[c]) /\ acs[c].pc \in Open
    BY <1>3 DEF DirectoryInv, Open, Consuming, Marked, Intended
  <2>2. /\ principal[Subject(acs[c])] = acs[c].token.user /\ acs[c].token \in TokenSet
    BY <1>3, <2>1 DEF HeldOK
  <2>3. acs[c].token.user \in UserIds /\ acs[c].token.user # Absent
    BY <2>2, SamlIdentifiers DEF TokenSet
  <2> QED BY <1>1, <2>1, <2>2, <2>3, SubjectOf DEF DirectoryOK, Owns
<1>4. ASSUME NEW c \in Callbacks, CallbackSteps(c) PROVE IndexesOK'
  <2>1. CASE PutSessionIndexes(c) /\ message(c).session # Absent
    <3> DEFINE i == [tenant |-> tenant(c), user |-> acs[c].token.user,
                     name |-> message(c).name, session |-> message(c).session]
    <3>1. WriteIndexes(i) /\ acs[c].pc = "index"
      BY <2>1 DEF PutSessionIndexes
    <3>2. Owns(tenant(c), acs[c].token.user, message(c).name)
      BY <1>3, <3>1 DEF Signed
    <3>3. acs[c].message \in ProviderMessage
      BY <3>1 DEF CallbackInv, CallbackOK, Open, Consuming, Marked, Intended, Signed
    <3>4. message(c).session \in Indexes
      BY <2>1, <3>3 DEF ProviderMessage, message
    <3>5. IndexOK(i) /\ i.tenant = tenant(c) /\ i.user = acs[c].token.user /\ i.name = message(c).name
      BY <3>2, <3>4 DEF IndexOK, IndexRecord, Owns
    <3> HIDE DEF i
    <3> QED BY <1>1, <3>1, <3>2, <3>5, WrittenIndexes DEF WriteIndexes
  <2>2. CASE RollBack(c) /\ ~UNCHANGED index
    <3>1. acs[c].pc = "rollback" /\ RemoveIndexes(tenant(c), acs[c].token.user, message(c).name)
      BY <2>2 DEF RollBack
    <3> QED BY <1>2, <1>3, <3>1 DEF Signed
  <2>3. CASE UNCHANGED index
    BY <1>1, <2>3, SameIndexes
  <2>4. PutSessionIndexes(c) /\ message(c).session = Absent => UNCHANGED index
    BY SMTT(60) DEF PutSessionIndexes
  <2>5. \/ PostResponse(c) \/ RepostResponse(c) \/ ConsumeRequest(c) \/ CheckTenant(c)
        \/ ValidateResponse(c) \/ MarkSeen(c) \/ AuditIntent(c)
        \/ FindSubject(c) \/ UpdateSubject(c) \/ CreateSubject(c) \/ LoadSubject(c)
        \/ Elevate(c) \/ ValidateSession(c) \/ AuditAccept(c) \/ AuditUnavailable(c)
        \/ AbortCallback(c)
        => UNCHANGED index
    BY DEF PostResponse, RepostResponse, ConsumeRequest, CheckTenant, ValidateResponse, MarkSeen,
       AuditIntent, FindSubject, UpdateSubject, CreateSubject, LoadSubject, Elevate,
       ValidateSession, AuditAccept, AuditUnavailable, AbortCallback
  <2> QED BY <1>4, <2>1, <2>2, <2>3, <2>4, <2>5 DEF CallbackSteps
<1>5. ASSUME NEW l \in Logouts, LogoutSteps(l) PROVE IndexesOK'
  <2>1. CASE DeleteIndexes(l)
    <3>1. slo[l].pc = "delete" /\ RemoveIndexes(slo[l].idx.tenant, slo[l].idx.user, slo[l].idx.name)
      BY <2>1 DEF DeleteIndexes
    <3>2. IndexOK(slo[l].idx)
      BY <3>1 DEF IndexInv, LogoutsOK, LogoutOK
    <3> QED BY <1>2, <3>1, <3>2, EntryOwns
  <2>2. CASE ~DeleteIndexes(l)
    <3>1. UNCHANGED index
      BY <1>5, <2>2 DEF LogoutSteps, SloGet, SloPost, RevokeRead, RevokeWrite, AbortLogout
    <3> QED BY <1>1, <3>1, SameIndexes
  <2> QED BY <2>1, <2>2
<1>6. ASSUME NEW t \in Tenants, NEW u \in UserIds, IndexesExpire(t, u) PROVE IndexesOK'
  <2>1. bySubject[<<t, u>>] # Absent /\ RemoveIndexes(t, u, bySubject[<<t, u>>].name)
    BY <1>6 DEF IndexesExpire
  <2>2. /\ IndexOK(bySubject[<<t, u>>])
        /\ bySubject[<<t, u>>].tenant = t /\ bySubject[<<t, u>>].user = u
    BY <1>1, <2>1 DEF IndexesOK
  <2>3. Owns(t, u, bySubject[<<t, u>>].name)
    BY <2>2, EntryOwns
  <2> QED BY <1>2, <2>1, <2>3
<1>7. CASE (\E b \in Browsers : StartLogout(b)) \/ Aside
  <2>1. UNCHANGED index
    BY <1>7 DEF StartLogout, Aside
  <2> QED BY <1>1, <2>1, SameIndexes
<1> QED BY <1>1, <1>4, <1>5, <1>6, <1>7, AllActors

----------------------------------------------------------------------------
(* The replay marks, the audit trail and the cookies *)

LEMMA StoreTypesKept ==
  ASSUME CallbackInv, StoreTypes, [Next]_vars
  PROVE  StoreTypes'
<1>1. deployment \in Deployments
  BY DEF CallbackInv
<1>2. ASSUME NEW c \in Callbacks, CallbackSteps(c) PROVE StoreTypes'
  <2>1. UNCHANGED <<lapsed, active>>
    BY <1>2 DEF CallbackSteps, PostResponse, RepostResponse, ConsumeRequest, CheckTenant,
       ValidateResponse, MarkSeen, AuditIntent, FindSubject, UpdateSubject, CreateSubject,
       LoadSubject, Elevate, ValidateSession, PutSessionIndexes, AuditAccept, AuditUnavailable,
       RollBack, AbortCallback
  <2>2. audit' = audit \/ \E x \in {"intent", "accept", "reject"} : audit' = audit \cup {<<c, x>>}
    BY ZenonT(60), <1>2 DEF CallbackSteps, PostResponse, RepostResponse, ConsumeRequest, CheckTenant,
       ValidateResponse, MarkSeen, AuditIntent, FindSubject, UpdateSubject, CreateSubject,
       LoadSubject, Elevate, ValidateSession, PutSessionIndexes, AuditAccept, AuditUnavailable,
       RollBack, AbortCallback, Proceed, Reject
  <2>3. seen' = seen \/ (acs[c].pc = "seen" /\ seen' = seen \cup {acs[c].message.assertion})
    BY <1>2 DEF CallbackSteps, PostResponse, RepostResponse, ConsumeRequest, CheckTenant,
       ValidateResponse, MarkSeen, AuditIntent, FindSubject, UpdateSubject, CreateSubject,
       LoadSubject, Elevate, ValidateSession, PutSessionIndexes, AuditAccept, AuditUnavailable,
       RollBack, AbortCallback, message
  <2>4. acs[c].pc = "seen" => acs[c].message \in ProviderMessage
    BY DEF CallbackInv, CallbackOK, Open, Consuming
  <2>5. acs[c].pc = "seen" => acs[c].message.assertion \in Assertions
    BY <2>4 DEF ProviderMessage
  <2> QED BY <2>1, <2>2, <2>3, <2>5 DEF StoreTypes
<1>3. CASE \/ \E l \in Logouts : LogoutSteps(l)
           \/ \E b \in Browsers : StartLogout(b)
           \/ \E t \in Tenants, u \in UserIds : IndexesExpire(t, u)
  <2>1. UNCHANGED <<seen, lapsed, active, audit>>
    BY ZenonT(60), <1>3 DEF LogoutSteps, SloGet, SloPost, RevokeRead, RevokeWrite, DeleteIndexes, AbortLogout,
       StartLogout, IndexesExpire
  <2> QED BY <2>1 DEF StoreTypes
<1>4. CASE Aside
  BY <1>4 DEF Aside, StoreTypes
<1> QED BY <1>1, <1>2, <1>3, <1>4, AllActors

LEMMA CookiesKept ==
  ASSUME CallbackInv, DirectoryInv, IndexInv, [Next]_vars
  PROVE  CookiesOK'
<1>1. deployment \in Deployments /\ CookiesOK
  BY DEF CallbackInv, IndexInv
<1>2. CASE UNCHANGED browser
  BY <1>1, <1>2 DEF CookiesOK
<1>3. ASSUME NEW b \in Browsers, NEW x \in Requests \cup {Absent}, NEW y \in TokenSet \cup {Absent},
             NEW z \in LogoutState \cup {Absent},
             \/ browser' = [browser EXCEPT ![b].state = x]
             \/ browser' = [browser EXCEPT ![b].token = y]
             \/ browser' = [browser EXCEPT ![b].slo = z]
             \/ browser' = [browser EXCEPT ![b].state = x, ![b].token = y]
             \/ browser' = [browser EXCEPT ![b].token = y, ![b].slo = z]
      PROVE  CookiesOK'
  BY <1>1, <1>3 DEF CookiesOK
<1>4. ASSUME NEW c \in Callbacks, CallbackSteps(c) PROVE CookiesOK'
  <2>1. \/ UNCHANGED browser
        \/ /\ acs[c].pc \in Open \/ acs[c].pc \notin {"idle", "done"}
           /\ \/ Reply(c, browser[acs[c].browser].token)
              \/ Reply(c, Absent)
              \/ Reply(c, acs[c].token)
    BY <1>4 DEF CallbackSteps, PostResponse, RepostResponse, ConsumeRequest, CheckTenant,
       ValidateResponse, MarkSeen, AuditIntent, FindSubject, UpdateSubject, CreateSubject,
       LoadSubject, Elevate, ValidateSession, PutSessionIndexes, AuditAccept, AuditUnavailable,
       RollBack, AbortCallback, Proceed, Reject, Refuse
  <2>2. acs[c].pc \notin {"idle", "done"} => acs[c].pc \in Open
    BY DEF CallbackInv, CallbackOK
  <2>3. acs[c].pc \in Open => acs[c].browser \in Browsers
    BY DEF CallbackInv, CallbackOK
  <2>4. acs[c].token \in TokenSet \cup {Absent}
    BY DEF DirectoryInv, HeldOK
  <2>5. acs[c].browser \in Browsers => browser[acs[c].browser].token \in TokenSet \cup {Absent}
    BY <1>1 DEF CookiesOK
  <2>6. CASE UNCHANGED browser
    BY <1>2, <2>6
  <2>7. ASSUME NEW y \in TokenSet \cup {Absent}, acs[c].browser \in Browsers, Reply(c, y)
        PROVE  CookiesOK'
    <3>1. browser' = [browser EXCEPT ![acs[c].browser].state = Absent, ![acs[c].browser].token = y]
      BY <2>7 DEF Reply
    <3> QED BY <1>3, <2>7, <3>1
  <2> QED BY <2>1, <2>2, <2>3, <2>4, <2>5, <2>6, <2>7
<1>5. ASSUME NEW l \in Logouts, LogoutSteps(l) PROVE CookiesOK'
  <2>1. LogoutOK(slo[l])
    BY DEF IndexInv, LogoutsOK
  <2>2. slo[l].pc \in {"read", "write", "delete"} => slo[l].browser \in Browsers
    BY <2>1 DEF LogoutOK
  <2>3. slo[l].state \in LogoutState \cup {Absent}
    BY <2>1 DEF LogoutOK
  <2>4. \/ UNCHANGED browser
        \/ /\ slo[l].pc \in {"read", "write", "delete"}
           /\ \/ browser' = [browser EXCEPT ![slo[l].browser].token = Absent]
              \/ browser' = [browser EXCEPT ![slo[l].browser].token = Absent,
                                            ![slo[l].browser].slo = slo[l].state]
    BY <1>5 DEF LogoutSteps, SloGet, SloPost, RevokeRead, RevokeWrite, DeleteIndexes, AbortLogout
  <2>5. CASE UNCHANGED browser
    BY <1>2, <2>5
  <2> QED BY <1>3, <2>2, <2>3, <2>4, <2>5
<1>6. ASSUME NEW b \in Browsers, StartLogout(b) PROVE CookiesOK'
  <2> DEFINE token == browser[b].token
             z == [tenant |-> token.tenant, user |-> token.user]
  <2>1. token # Absent /\ browser' = [browser EXCEPT ![b].slo = z]
    BY <1>6 DEF StartLogout
  <2>2. token \in TokenSet
    BY <1>1, <2>1 DEF CookiesOK
  <2>3. z \in LogoutState
    BY <2>2 DEF TokenSet, LogoutState
  <2> HIDE DEF z
  <2> QED BY <1>3, <2>1, <2>3
<1>7. ASSUME NEW t \in Tenants, NEW u \in UserIds, IndexesExpire(t, u) PROVE CookiesOK'
  BY <1>2, <1>7 DEF IndexesExpire
<1>8. CASE Aside
  <2>1. \/ UNCHANGED browser
        \/ \E r \in Requests, b \in Browsers : browser' = [browser EXCEPT ![b].state = r]
    BY <1>8 DEF Aside
  <2>2. CASE UNCHANGED browser
    BY <1>2, <2>2
  <2> QED BY <1>3, <2>1, <2>2
<1> QED BY <1>1, <1>4, <1>5, <1>6, <1>7, <1>8, AllActors

----------------------------------------------------------------------------
(* The logouts *)

LEMMA DeadStaysDead ==
  ASSUME DirectoryInv, Evolves, NEW s \in sessions, ~Current(s)
  PROVE  users'[s.user].version # s.version
<1>1. s \in TokenSet /\ Minted(s.user, s.version, s.role) /\ DirectoryOK
  BY DEF DirectoryInv
<1>2. s.version \in Nat /\ s.user \in UserIds /\ users[s.user] # Absent
  BY <1>1 DEF TokenSet, Minted
<1>3. users[s.user] \in User /\ users'[s.user] \in User
  BY <1>1, <1>2 DEF DirectoryOK, Evolves
<1>4. users[s.user].version \in Nat /\ users'[s.user].version \in Nat
  BY <1>3 DEF User
<1>5. users'[s.user].version >= users[s.user].version
  BY <1>2, <1>4 DEF Evolves
<1>6. s.version < users[s.user].version
  BY <1>1, <1>2, <1>4 DEF Minted, Current
<1> QED BY <1>2, <1>4, <1>5, <1>6

LEMMA LogoutKept ==
  ASSUME DirectoryInv, Evolves, NEW l \in Logouts, LogoutOK(slo[l]), slo'[l] = slo[l],
         sessions \subseteq sessions'
  PROVE  LogoutOK(slo[l])'
<1> DEFINE m == slo[l]
<1>1. DirectoryOK
  BY DEF DirectoryInv
<1>2. IndexOK(m.idx) => IndexOK(m.idx)'
  BY <1>1, IndexKept DEF IndexOK
<1>3. m.pc = "write" =>
        /\ m.copy.id = m.idx.user
        /\ m.copy.revision = users'[m.copy.id].revision =>
             m.copy.version = users'[m.copy.id].version + 1
  <2> SUFFICES ASSUME m.pc = "write"
               PROVE  /\ m.copy.id = m.idx.user
                      /\ m.copy.revision = users'[m.copy.id].revision =>
                           m.copy.version = users'[m.copy.id].version + 1
    OBVIOUS
  <2>1. Rewrite(m.copy)
    BY DEF DirectoryInv
  <2>2. m.copy.revision = users'[m.copy.id].revision => users'[m.copy.id] = users[m.copy.id]
    BY <1>1, <2>1, RewriteKept
  <2> QED BY <2>2 DEF LogoutOK
<1>4. ASSUME NEW s \in m.before, ~Current(s) PROVE ~Current(s)'
  <2>1. s \in sessions
    BY DEF LogoutOK
  <2> QED BY <1>4, <2>1, DeadStaysDead DEF Current
<1> QED BY <1>2, <1>3, <1>4 DEF LogoutOK, IsSlo

(* The revocation is behind every session that the index led to. *)
LEMMA RevokeStep ==
  ASSUME CallbackInv, DirectoryInv, IndexInv, Evolves, NEW l \in Logouts, RevokeWrite(l)
  PROVE  OnlyLogout(l) /\ LogoutOK(slo[l])'
<1> DEFINE m == slo[l]
<1>1. /\ LogoutOK(m) /\ m.pc = "write" /\ DirectoryOK /\ Rewrite(m.copy) /\ LogoutsOK
      /\ sessions' = sessions
  BY DEF IndexInv, LogoutsOK, DirectoryInv, RevokeWrite
<1>2. /\ IndexOK(m.idx) /\ m.browser \in Browsers /\ m.copy.id = m.idx.user
      /\ m.copy \in User
      /\ m.copy.revision = users[m.copy.id].revision => m.copy.version = users[m.copy.id].version + 1
      /\ m.before \subseteq sessions /\ \A s \in m.before : s.user = m.idx.user
      /\ m.state \in LogoutState \cup {Absent} /\ m.idx \in IndexRecord \cup {Absent}
  BY <1>1 DEF LogoutOK, Rewrite
<1>3. \A i : i = m.idx => IndexOK(i)'
  BY <1>1, <1>2, IndexKept DEF IndexOK
<1>4. CASE Overwritable(m.copy)
  <2>1. Store(m.copy) /\ slo' = Forget(l, "delete")
    BY <1>4 DEF RevokeWrite
  <2>2. /\ OnlyLogout(l) /\ IsSlo(slo'[l]) /\ slo'[l].pc = "delete" /\ slo'[l].copy = Absent
        /\ slo'[l].browser = m.browser /\ slo'[l].state = m.state
        /\ slo'[l].idx = m.idx /\ slo'[l].before = m.before
    BY <1>1, <2>1, ForgetMoves
  <2>3. users'[m.copy.id].version = m.copy.version
    BY <1>1, <1>4, <2>1, StoreEvolves
  <2>4. m.copy.version = users[m.copy.id].version + 1
    BY <1>2, <1>4 DEF Overwritable
  <2>5. ASSUME NEW s \in m.before PROVE ~Current(s)'
    <3>1. s \in TokenSet /\ Minted(s.user, s.version, s.role) /\ s.user = m.copy.id
      BY <1>2 DEF DirectoryInv
    <3>2. s.version \in Nat /\ users[s.user] \in User
      BY <1>1, <3>1 DEF TokenSet, Minted, DirectoryOK
    <3>3. users[s.user].version \in Nat
      BY <3>2 DEF User
    <3> QED BY <2>3, <2>4, <3>1, <3>2, <3>3 DEF Minted, Current
  <2> QED BY <1>1, <1>2, <1>3, <2>2, <2>5 DEF LogoutOK, IsSlo
<1>5. CASE ~Overwritable(m.copy)
  <2>1. \/ slo' = [Forget(l, "read") EXCEPT ![l].tries = @ + 1]
        \/ slo' = Forget(l, "failed")
    BY <1>5 DEF RevokeWrite
  <2>2. /\ OnlyLogout(l) /\ IsSlo(slo'[l]) /\ slo'[l].pc \in {"read", "failed"}
        /\ slo'[l].copy = Absent
        /\ slo'[l].browser = m.browser /\ slo'[l].state = m.state
        /\ slo'[l].idx = m.idx /\ slo'[l].before = m.before
    BY <1>1, <2>1, ForgetMoves, RetryMoves
  <2> QED BY <1>1, <1>2, <1>3, <2>2 DEF LogoutOK, IsSlo
<1> QED BY <1>4, <1>5

LEMMA BeginStep ==
  ASSUME CallbackInv, DirectoryInv, IndexInv, Evolves, NEW l \in Logouts, NEW b \in Browsers,
         SloGet(l, b) \/ SloPost(l, b)
  PROVE  OnlyLogout(l) /\ LogoutOK(slo[l])'
<1>1. slo = [k \in Logouts |-> slo[k]] /\ DirectoryOK /\ IndexesOK /\ CookiesOK
  BY DEF DirectoryInv, IndexInv
<1>2. PICK i, state : /\ BeginRevoke(l, b, i, state) /\ IndexOK(i)
                      /\ state \in LogoutState \cup {Absent}
  <2>1. CASE SloGet(l, b)
    <3> DEFINE k == browser[b].slo
               i == bySubject[<<k.tenant, k.user>>]
    <3>1. k # Absent /\ i # Absent /\ BeginRevoke(l, b, i, Absent)
      BY <2>1 DEF SloGet
    <3>2. k \in LogoutState
      BY <1>1, <3>1 DEF CookiesOK
    <3>3. <<k.tenant, k.user>> \in Tenants \X UserIds
      BY <3>2 DEF LogoutState
    <3>4. IndexOK(i)
      BY <1>1, <3>1, <3>3 DEF IndexesOK
    <3> QED BY <3>1, <3>4
  <2>2. CASE SloPost(l, b)
    <3>1. PICK m \in deployment.messages :
            /\ m.request \in sent
            /\ byName[<<Login(m.request).tenant, m.name>>] # Absent
            /\ BeginRevoke(l, b, byName[<<Login(m.request).tenant, m.name>>], browser[b].slo)
      BY <2>2 DEF SloPost
    <3>2. m \in ProviderMessage /\ deployment \in Deployments
      BY SamlDeployments DEF CallbackInv
    <3>3. m.request \in DOMAIN deployment.login
      BY <3>1 DEF CallbackInv
    <3>4. Login(m.request).tenant \in Tenants /\ m.name \in Names
      BY <3>2, <3>3, SamlDeployments DEF Login, ProviderMessage
    <3>5. IndexOK(byName[<<Login(m.request).tenant, m.name>>])
      BY <1>1, <3>1, <3>4 DEF IndexesOK
    <3>6. browser[b].slo \in LogoutState \cup {Absent}
      BY <1>1 DEF CookiesOK
    <3> QED BY <3>1, <3>5, <3>6
  <2> QED BY <2>1, <2>2
<1>3. sessions' = sessions
  BY DEF SloGet, SloPost
<1> DEFINE before == {s \in sessions : s.user = i.user}
<1>4. /\ OnlyLogout(l)
      /\ slo'[l] = [NoSlo EXCEPT !.pc = "read", !.browser = b, !.idx = i, !.state = state,
                                 !.before = before]
  BY <1>1, <1>2 DEF BeginRevoke, OnlyLogout
<1>5. before \subseteq sessions /\ \A s \in before : s.user = i.user
  OBVIOUS
<1> HIDE DEF before
<1>6. /\ IsSlo(slo'[l]) /\ slo'[l].pc = "read" /\ slo'[l].copy = Absent /\ slo'[l].browser = b
      /\ slo'[l].idx = i /\ slo'[l].state = state /\ slo'[l].before = before
  BY <1>4 DEF NoSlo, IsSlo, SloFields
<1>7. IndexOK(i)' /\ i \in IndexRecord
  BY <1>1, <1>2, IndexKept DEF IndexOK
<1> QED BY <1>2, <1>3, <1>4, <1>5, <1>6, <1>7 DEF LogoutOK, IsSlo

LEMMA ReadStep ==
  ASSUME CallbackInv, DirectoryInv, IndexInv, Evolves, NEW l \in Logouts, RevokeRead(l)
  PROVE  OnlyLogout(l) /\ LogoutOK(slo[l])'
<1> DEFINE m == slo[l]
<1>1. LogoutOK(m) /\ DirectoryOK /\ LogoutsOK /\ UNCHANGED <<sessions, directory>>
  BY DEF IndexInv, LogoutsOK, DirectoryInv, RevokeRead
<1>2. /\ OnlyLogout(l) /\ IsSlo(slo'[l]) /\ m.pc = "read" /\ slo'[l].pc = "write"
      /\ slo'[l].copy = [users[m.idx.user] EXCEPT !.version = @ + 1]
      /\ slo'[l].browser = m.browser /\ slo'[l].state = m.state
      /\ slo'[l].idx = m.idx /\ slo'[l].before = m.before
  BY <1>1, RevokeReads
<1>3. /\ IndexOK(m.idx) /\ m.browser \in Browsers
      /\ m.before \subseteq sessions /\ \A s \in m.before : s.user = m.idx.user
      /\ m.state \in LogoutState \cup {Absent} /\ m.idx \in IndexRecord \cup {Absent}
  BY <1>1, <1>2 DEF LogoutOK
<1>4. m.idx.user \in UserIds /\ users[m.idx.user] # Absent
  BY <1>3 DEF IndexOK, IndexRecord
<1>5. /\ slo'[l].copy.id = m.idx.user /\ slo'[l].copy \in User
      /\ slo'[l].copy.version = users[m.idx.user].version + 1
  BY <1>1, <1>2, <1>4, RevokeCopy
<1>6. users' = users
  BY <1>1 DEF directory
<1>7. \A i : i = m.idx => IndexOK(i)'
  BY <1>3, <1>6 DEF IndexOK
<1> QED BY <1>1, <1>2, <1>3, <1>5, <1>6, <1>7 DEF LogoutOK, IsSlo

LEMMA ReplyStep ==
  ASSUME CallbackInv, DirectoryInv, IndexInv, Evolves, NEW l \in Logouts,
         DeleteIndexes(l) \/ AbortLogout(l)
  PROVE  OnlyLogout(l) /\ LogoutOK(slo[l])'
<1> DEFINE m == slo[l]
<1>1. /\ LogoutOK(m) /\ LogoutsOK /\ UNCHANGED <<sessions, directory>>
      /\ \/ m.pc = "delete" /\ slo' = Forget(l, "loggedOut")
         \/ slo' = Forget(l, "failed")
  BY DEF IndexInv, LogoutsOK, DeleteIndexes, AbortLogout
<1>2. /\ OnlyLogout(l) /\ IsSlo(slo'[l]) /\ slo'[l].copy = Absent
      /\ slo'[l].pc = "failed" \/ (m.pc = "delete" /\ slo'[l].pc = "loggedOut")
      /\ slo'[l].state = m.state
      /\ slo'[l].idx = m.idx /\ slo'[l].before = m.before
  BY <1>1, ForgetMoves
<1>3. users' = users
  BY <1>1 DEF directory
<1> QED BY <1>1, <1>2, <1>3 DEF LogoutOK, IsSlo, Current

LEMMA LogoutsKept ==
  ASSUME CallbackInv, DirectoryInv, IndexInv, Evolves, [Next]_vars
  PROVE  LogoutsOK'
<1>1. deployment \in Deployments /\ LogoutsOK
  BY DEF CallbackInv, IndexInv
<1>2. ASSUME NEW l \in Logouts, LogoutSteps(l) PROVE LogoutsOK'
  <2>1. OnlyLogout(l) /\ LogoutOK(slo[l])'
    BY <1>2, BeginStep, ReadStep, RevokeStep, ReplyStep DEF LogoutSteps
  <2>2. sessions' = sessions
    BY <1>2 DEF LogoutSteps, SloGet, SloPost, RevokeRead, RevokeWrite, DeleteIndexes, AbortLogout
  <2>3. \A k \in Logouts : k # l => slo'[k] = slo[k]
    BY <2>1 DEF OnlyLogout
  <2> QED BY <1>1, <2>1, <2>2, <2>3, LogoutKept DEF LogoutsOK
<1>3. CASE slo' = slo /\ sessions \subseteq sessions'
  BY <1>1, <1>3, LogoutKept DEF LogoutsOK
<1>4. ASSUME NEW c \in Callbacks, CallbackSteps(c) PROVE slo' = slo /\ sessions \subseteq sessions'
  BY <1>4 DEF CallbackSteps, PostResponse, RepostResponse, ConsumeRequest, CheckTenant,
     ValidateResponse, MarkSeen, AuditIntent, FindSubject, UpdateSubject, CreateSubject,
     LoadSubject, Elevate, ValidateSession, PutSessionIndexes, AuditAccept, AuditUnavailable,
     RollBack, AbortCallback
<1>5. \/ \E b \in Browsers : StartLogout(b)
      \/ \E t \in Tenants, u \in UserIds : IndexesExpire(t, u)
      \/ Aside
      => slo' = slo /\ sessions \subseteq sessions'
  BY DEF StartLogout, IndexesExpire, Aside
<1> QED BY <1>1, <1>2, <1>3, <1>4, <1>5, AllActors

----------------------------------------------------------------------------
(* The sessions of a principal *)

SessionsInv == CallbackInv /\ DirectoryInv /\ IndexInv

LEMMA SessionsInvInitially == SessionsInit => SessionsInv
<1> SUFFICES ASSUME SessionsInit, CallbackInv PROVE DirectoryInv /\ IndexInv
  BY CallbackInvInitially DEF SessionsInv
<1> DEFINE s == deployment.seed
           record == [id |-> Seed, tenant |-> SeedTenant, name |-> s.name, role |-> s.role,
                      version |-> 0, revision |-> 0]
<1>1. /\ deployment \in Deployments /\ seen = {} /\ lapsed = {} /\ audit = {} /\ sessions = {}
      /\ active = Tenants
      /\ bySubject = [k \in Tenants \X UserIds |-> Absent]
      /\ byName = [k \in Tenants \X Names |-> Absent]
      /\ browser = [b \in Browsers |-> NoCookies]
      /\ acs = [c \in Callbacks |-> NoAcs] /\ slo = [l \in Logouts |-> NoSlo]
  BY DEF SessionsInit, TrustInit
<1>2. /\ principal = [k \in Tenants \X Names |->
           IF s # Absent /\ k = <<SeedTenant, s.name>> THEN Seed ELSE Absent]
      /\ users = [u \in UserIds |-> IF s # Absent /\ u = Seed THEN record ELSE Absent]
  BY DEF SessionsInit
<1>3. SeedTenant \in Tenants /\ Seed \in UserIds /\ Seed \notin Callbacks /\ Seed # Absent
  BY SamlIdentifiers DEF SeedTenant, UserIds
<1>4. s # Absent => s.name \in Names /\ s.role \in Roles
  BY <1>1, SamlDeployments
<1>5. s # Absent => /\ record \in User /\ record.id = Seed /\ record.tenant = SeedTenant
                    /\ record.name = s.name /\ record # Absent
  BY <1>3, <1>4, SamlIdentifiers DEF User
<1> HIDE DEF record
<1>6. \A c \in Callbacks : acs[c].pc = "idle" /\ acs[c].copy = Absent /\ acs[c].token = Absent
  BY <1>1 DEF NoAcs
<1>7. DirectoryOK
  <2>1. /\ principal \in [Tenants \X Names -> UserIds \cup {Absent}]
        /\ users \in [UserIds -> User \cup {Absent}]
    BY <1>2, <1>3, <1>5
  <2>2. ASSUME NEW k \in Tenants \X Names, principal[k] # Absent
        PROVE  /\ users[principal[k]] # Absent
               /\ users[principal[k]].tenant = k[1] /\ users[principal[k]].name = k[2]
    <3>1. s # Absent /\ k = <<SeedTenant, s.name>> /\ principal[k] = Seed
      BY <1>2, <2>2
    <3>2. users[Seed] = record
      BY <1>2, <1>3, <3>1
    <3> QED BY <1>5, <3>1, <3>2
  <2>3. ASSUME NEW u \in UserIds, users[u] # Absent
        PROVE  users[u].id = u /\ principal[<<users[u].tenant, users[u].name>>] = u
    <3>1. s # Absent /\ u = Seed /\ users[u] = record
      BY <1>2, <2>3
    <3>2. principal[<<SeedTenant, s.name>>] = Seed
      BY <1>2, <1>3, <1>4, <3>1
    <3> QED BY <1>5, <3>1, <3>2
  <2>4. \A c \in Callbacks : users[c] = Absent
    BY <1>2, <1>3 DEF UserIds
  <2> QED BY <2>1, <2>2, <2>3, <2>4 DEF DirectoryOK
<1>8. \A c \in Callbacks : HeldOK(c, acs[c])
  BY <1>6 DEF HeldOK, Signed
<1>9. \A l \in Logouts : /\ slo[l].pc = "idle" /\ IsSlo(slo[l]) /\ slo[l].idx = Absent
                         /\ slo[l].copy = Absent /\ slo[l].state = Absent /\ slo[l].before = {}
  BY <1>1 DEF NoSlo, IsSlo, SloFields
<1>10. DirectoryInv
  BY <1>1, <1>7, <1>8, <1>9 DEF DirectoryInv
<1>11. LogoutsOK
  BY <1>9 DEF LogoutsOK, LogoutOK
<1>12. CookiesOK
  BY <1>1 DEF CookiesOK, NoCookies
<1>13. IndexesOK
  BY <1>1 DEF IndexesOK, IndexesPaired
<1>14. StoreTypes
  BY <1>1 DEF StoreTypes
<1> QED BY <1>10, <1>11, <1>12, <1>13, <1>14 DEF IndexInv

LEMMA SessionsInvKept ==
  ASSUME SessionsInv, [Next]_vars
  PROVE  SessionsInv' /\ Evolves
<1>1. CallbackInv /\ DirectoryInv /\ IndexInv /\ LogoutsOK /\ StoreTypes
  BY DEF SessionsInv, IndexInv
<1>2. CallbackInv'
  BY <1>1, CallbackInvKept
<1>3. DirectoryInv' /\ Evolves
  BY <1>1, DirectoryInvKept
<1>4. IndexInv'
  BY <1>1, <1>3, IndexesKept, StoreTypesKept, CookiesKept, LogoutsKept DEF IndexInv
<1> QED BY <1>2, <1>3, <1>4 DEF SessionsInv

(* The callbacks, the directory and the indexes keep their joint invariant:  *)
(* what a handler read earlier is never newer than what is stored, and what  *)
(* it may still write is what it read or a later version of it.              *)
THEOREM SessionsInvariant == Spec => []SessionsInv
<1>1. SessionsInv /\ [Next]_vars => SessionsInv'
  BY SessionsInvKept
<1> QED BY <1>1, SessionsInvInitially, PTL DEF Spec

(* A session that is still current carries the principal's present role,     *)
(* whatever sign-ins, elevations and logouts race for the record             *)
(* (updateFederatedUser, UpsertFromSAML, Issue).                             *)
THEOREM RolesChangeWithVersions == Spec => []RoleChangesRevoke
<1>1. SessionsInv => RoleChangesRevoke
  BY DEF SessionsInv, DirectoryInv, Minted, RoleChangesRevoke, Current
<1> QED BY <1>1, SessionsInvariant, PTL

(* No step of any handler gives a dead session's version back                *)
(* (updateFederatedUser, IncrementTokenVersionByID).                         *)
THEOREM RevocationIsFinal == Spec => RevokedStaysRevoked
<1>1. SessionsInv /\ [Next]_vars =>
        [\A s \in sessions : ~Current(s) => users'[s.user].version # s.version]_vars
  BY SessionsInvKept, DeadStaysDead DEF SessionsInv
<1> QED BY <1>1, SessionsInvariant, PTL DEF Spec, RevokedStaysRevoked

(* The two keys of a session index are never torn, and a logout that reports *)
(* success has ended every session its index led to (PutSessionIndexes,      *)
(* deleteSessionIndex, Revoke).                                              *)
THEOREM LogoutReachesSessions == Spec => []SessionsReachable
<1>1. SessionsInv /\ TrustInv => SessionsReachable
  <2> SUFFICES ASSUME SessionsInv, TrustInv PROVE SessionsReachable
    OBVIOUS
  <2>1. CallbackInv /\ DirectoryInv /\ StoreTypes /\ IndexesOK /\ CookiesOK /\ LogoutsOK
    BY DEF SessionsInv, IndexInv
  <2>2. TrustTypeOK
    BY DEF TrustInv
  <2>3. pending \subseteq sent /\ sent \subseteq Requests
    BY <2>1, SamlDeployments DEF CallbackInv
  <2>4. /\ principal \in [Tenants \X Names -> UserIds \cup {Absent}]
        /\ users \in [UserIds -> User \cup {Absent}]
        /\ sessions \subseteq TokenSet
    BY <2>1 DEF DirectoryInv, DirectoryOK
  <2>5. /\ bySubject \in [Tenants \X UserIds -> IndexRecord \cup {Absent}]
        /\ byName \in [Tenants \X Names -> IndexRecord \cup {Absent}]
        /\ IndexesPaired
    BY <2>1 DEF IndexesOK
  <2>6. \A b \in Browsers :
          /\ browser[b].state \in Requests \cup {Absent}
          /\ browser[b].token \in TokenSet \cup {Absent}
          /\ browser[b].slo \in [tenant : Tenants, user : UserIds] \cup {Absent}
    BY <2>1 DEF CookiesOK, LogoutState
  <2>7. \A c \in Callbacks :
          acs[c].copy \in User \cup {Absent} /\ acs[c].token \in TokenSet \cup {Absent}
    BY <2>1 DEF DirectoryInv, HeldOK
  <2>8. \A l \in Logouts :
          slo[l].copy \in User \cup {Absent} /\ slo[l].idx \in IndexRecord \cup {Absent}
    BY <2>1 DEF LogoutsOK, LogoutOK
  <2>9. LogoutEndsSessions
    BY <2>1 DEF LogoutsOK, LogoutOK, LogoutEndsSessions
  <2>10. TypeOK
    BY <2>1, <2>2, <2>3, <2>4, <2>5, <2>6, <2>7, <2>8 DEF TypeOK, StoreTypes
  <2> QED BY <2>5, <2>9, <2>10 DEF SessionsReachable
<1> QED BY <1>1, SessionsInvariant, TrustInvariant, PTL
=============================================================================
