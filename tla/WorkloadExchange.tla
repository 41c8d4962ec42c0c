-------------------------- MODULE WorkloadExchange --------------------------
(***************************************************************************)
(* The exchanges of a projected token for an access token                    *)
(* (internal/services): the CodeQ binding grant, the managed-logs grant, the *)
(* AI gateway grants with their validation, the topic controller's grant and *)
(* the legacy grant from a stored workload binding.                          *)
(*                                                                         *)
(* An exchange reads its tenant, passes a per-identity rate limit, takes one *)
(* of the slots of its service and asks an authority outside Tikti, which    *)
(* may answer anything at any time.  A tenant's epoch is its creation time,  *)
(* which never changes (module Registry), so a tenant is read as active or   *)
(* not.                                                                      *)
(***************************************************************************)
EXTENDS ProjectedTokens

CONSTANTS
  Pods,             \* identities of the rate limit
  Capacity,         \* slots of every service
  Limit, Window,    \* PerIdentityPerMinute and its window
  MaxEntries,       \* identities a limiter tracks
  TokenTTL,         \* configured lifetime of an access token
  MinTTL,           \* codeqBindingMinimumTTL
  MachineTTL        \* the minute of a runtime machine's or topic token

ASSUME LimitsPositive ==
  /\ Capacity \in Nat \ {0} /\ Limit \in Nat \ {0} /\ Window \in Nat \ {0} /\ MaxEntries \in Nat \ {0}
  /\ TokenTTL \in Nat /\ MinTTL \in Nat /\ MachineTTL \in Nat

VARIABLES
  tenant,      \* is the tenant active
  person,      \* the delegating user: token version, and whether its roles permit the scopes
  attempts,    \* service -> identity -> the attempts that were admitted: time and request
  binding      \* "scoped" and "unscoped" record of the subject, or Nothing

stores == <<tenant, person, attempts, binding>>

(* Everything that has slots, and the limiters among it. *)
Services == {"codeq", "logs", "ai", "users", "sts", "admin"}

Lesser(a, b) == IF a < b THEN a ELSE b

----------------------------------------------------------------------------
(* Programs *)

Do(op) == <<op, "none">>
Via(op, s) == <<op, s>>

(* Mutant: the tenant is not read again after the callback. *)
TrustCallback(s) ==
  <<Do("tenant"), Via("slot", s), Via("ask", s), Via("release", s)>>

(* aiGatewayExchange.authorize *)
Authorize(s) ==
  <<Do("tenant"), Via("slot", s), Via("ask", s), Do("confirm"), Via("release", s)>>

(* codeqBindingProcedure *)
BindingExchange ==
  <<Do("verify"), Do("tenant"), Via("limit", "codeq")>>
    \o <<Via("slot", "codeq"), Via("ask", "codeq"), Via("release", "codeq"), Do("signBounded")>>

(* exchangeManagedLogs and issueLogsToken; only Publish and Subscribe name a tenant. *)
LogsExchange(named) ==
  (IF named THEN <<Do("verify"), Do("tenant"), Via("limit", "logs")>>
            ELSE <<Do("verify"), Via("limit", "logs")>>)
    \o <<Via("slot", "logs"), Via("ask", "logs"), Do("signLogs"), Via("release", "logs")>>

(* exchangeAIWorkload without a user token *)
AIWorkload ==
  <<Do("verify"), Via("limit", "ai"), Do("lease")>> \o Authorize("ai") \o <<Do("sign")>>

(* ValidateAIAccessToken, for a user's token *)
ValidateAIAccessToken == <<Do("find"), Do("permit")>> \o Authorize("users")

(* ValidateAIAccessToken, for a workload's token: the authority decides alone. *)
ValidateAIWorkloadToken == <<Do("parse")>> \o Authorize("users")

(* exchangeAIWorkload on behalf of a user *)
AIDelegated ==
  <<Do("verify"), Via("limit", "ai")>> \o ValidateAIAccessToken \o <<Do("lease")>>
    \o Authorize("ai") \o <<Do("sign")>>

(* exchangeAIMachine *)
AIMachine == <<Do("verify"), Via("limit", "ai"), Do("tenant"), Do("signMachine")>>

(* exchangeAIUser, once TokenExchange has read the user (AccessTokens). *)
AIUser == <<Do("permit"), Do("userLease")>> \o Authorize("users") \o <<Do("sign")>>

(* exchangeCodeQTopic *)
TopicExchange == <<Do("verify"), Do("tenant"), Do("signTopic")>>

(* ValidateCodeQTopicToken: the token names the tenant's epoch. *)
ValidateCodeQTopicToken == <<Do("tenant")>>

(* Exchange, for a stored binding *)
LegacyExchange == <<Do("verify"), Do("scoped"), Do("unscoped"), Do("signLegacy")>>

(* RevokeBinding reads the record and writes it back; UpsertBinding writes.  *)
RevokeBinding == <<Do("load"), Do("revoke")>>
UpsertBinding == <<Do("upsert")>>

(* workloadIdentityService.Exchange dispatches on the request. *)
ExchangeProgram(p) ==
  CASE p.kind = "binding"       -> BindingExchange
    [] p.kind = "logs"          -> LogsExchange(TRUE)
    [] p.kind \in {"collect", "resolve"} -> LogsExchange(FALSE)
    [] p.kind = "ai"            -> AIWorkload
    [] p.kind = "delegated"     -> AIDelegated
    [] p.kind \in {"machine", "store"}   -> AIMachine
    [] p.kind = "aiUser"        -> AIUser
    [] p.kind = "aiValidate"    -> ValidateAIAccessToken
    [] p.kind = "aiWorkload"    -> ValidateAIWorkloadToken
    [] p.kind = "topic"         -> TopicExchange
    [] p.kind = "topicValidate" -> ValidateCodeQTopicToken
    [] p.kind = "legacy"        -> LegacyExchange
    [] p.kind = "revoke"        -> RevokeBinding
    [] p.kind = "upsert"        -> UpsertBinding

ExchangeKinds ==
  {"binding", "logs", "collect", "resolve", "ai", "delegated", "machine", "store", "aiUser",
   "aiValidate", "aiWorkload", "topic", "topicValidate", "legacy", "revoke", "upsert"}

----------------------------------------------------------------------------
(* Admission *)

(* Mutant: a full table forgets everybody. *)
EvictAll(table) == [pod \in Pods |-> {}]

(* pruneAttempts: an attempt counts while it is after the cutoff. *)
Recent(times) == {a \in times : a[1] + Window > clock}

(* evictExpired *)
EvictExpired(table) == [pod \in Pods |-> Recent(table[pod])]

Tracked(table) == Cardinality({pod \in Pods : table[pod] # {}})

(* IdentityRateLimiter.Allow: the table the call leaves behind, and whether   *)
(* it admitted the identity.  A table full of live identities admits nobody new. *)
Allow(table, pod, c) ==
  LET recent == Recent(table[pod])
      pruned == [table EXCEPT ![pod] = recent]
      swept == IF recent = {} /\ Tracked(pruned) >= MaxEntries
               THEN EvictExpired(pruned) ELSE pruned
  IN IF recent = {} /\ Tracked(swept) >= MaxEntries THEN [table |-> swept, ok |-> FALSE]
     ELSE IF Cardinality(recent) >= Limit THEN [table |-> swept, ok |-> FALSE]
     ELSE [table |-> [swept EXCEPT ![pod] = recent \cup {<<clock, c>>}], ok |-> TRUE]

RateLimit(c) ==
  /\ At(c, "limit")
  /\ LET answer == Allow(attempts[Service(c)], Plan(c).pod, c) IN
     /\ attempts' = [attempts EXCEPT ![Service(c)] = answer.table]
     /\ IF answer.ok
        THEN Continue(c, call[c]) /\ hist' = [hist EXCEPT ![c].admitted = <<Service(c), clock>>]
        ELSE Refuse(c, "limited") /\ UNCHANGED hist
  /\ UNCHANGED <<keys, tenant, person, binding>>

Holders(s) == {c \in Callers : s \in call[c].held}

(* A slot is taken or the request is refused: nobody waits for one. *)
TakeSlot(c) ==
  /\ At(c, "slot")
  /\ IF Cardinality(Holders(Service(c))) < Capacity
     THEN Continue(c, [call[c] EXCEPT !.held = @ \cup {Service(c)}])
     ELSE Refuse(c, "busy")
  /\ UNCHANGED <<hist, keys, stores>>

ReleaseSlot(c) ==
  /\ At(c, "release")
  /\ Continue(c, [call[c] EXCEPT !.held = @ \ {Service(c)}])
  /\ UNCHANGED <<hist, keys, stores>>

----------------------------------------------------------------------------
(* Tenant, authority and user *)

(* GetRetained and activeTenant; a read that fails refuses too. *)
ReadTenant(c) ==
  /\ At(c, "tenant")
  /\ \/ tenant /\ Continue(c, call[c])
     \/ ~tenant /\ Refuse(c, "inactive")
     \/ Refuse(c, "unavailable")
  /\ UNCHANGED <<hist, keys, stores>>

(* aiGatewayExchange.tenant, read again after the callback *)
ConfirmTenant(c) ==
  /\ At(c, "confirm")
  /\ \/ tenant /\ Continue(c, call[c])
     \/ Refuse(c, "inactive")
  /\ UNCHANGED <<hist, keys, stores>>

(* The authority outside Tikti allows the request, or the call ends in one of *)
(* the client's failures.  An answer that allows is checked to be about this  *)
(* request; nothing is retried.                                              *)
Answered(c, s, failures) ==
  /\ At(c, "ask") /\ Service(c) = s
  /\ \/ Continue(c, call[c]) /\ hist' = [hist EXCEPT ![c].alive = tenant]
     \/ \E code \in failures : Refuse(c, code) /\ UNCHANGED hist
  /\ UNCHANGED <<keys, stores>>

(* codeqbinding.Client.Authorize: only a busy authority is worth a retry. *)
AskBinding(c) == Answered(c, "codeq", {"denied", "throttled", "unavailable"})

(* managedlogs.Client.Authorize *)
AskLogs(c) == Answered(c, "logs", {"denied", "unavailable"})

(* aigateway.Client.Authorize *)
AskAI(c) == \E s \in {"ai", "users"} : Answered(c, s, {"denied", "unavailable"})

(* FindByID: the account must be active under the token's version, and the    *)
(* token not expired.                                                        *)
FindUser(c) ==
  /\ At(c, "find")
  /\ IF person.version = Plan(c).version /\ clock < Plan(c).userExp
     THEN Continue(c, call[c])
     ELSE Refuse(c, "invalid")
  /\ UNCHANGED <<hist, keys, stores>>

(* A workload's access token has only its signature and its expiry to pass.  *)
ParseToken(c) ==
  /\ At(c, "parse")
  /\ IF clock < Plan(c).exp THEN Continue(c, call[c]) ELSE Refuse(c, "invalid")
  /\ UNCHANGED <<hist, keys, stores>>

(* aiUserPermissions: roles and the tenant's AI audience still cover the scopes. *)
Permit(c) ==
  /\ At(c, "permit")
  /\ IF person.permitted THEN Continue(c, call[c]) ELSE Refuse(c, "denied")
  /\ UNCHANGED <<hist, keys, stores>>

----------------------------------------------------------------------------
(* Lifetimes *)

(* exchangeAIWorkload: the lease is counted from the time after verification, *)
(* and also ends with the user's token when there is one.                    *)
Lease(c) ==
  /\ At(c, "lease")
  /\ LET subject == Lesser(TokenTTL, Plan(c).exp - call[c].at)
         lease == IF Plan(c).kind = "delegated" THEN Lesser(subject, Plan(c).userExp - call[c].at)
                  ELSE subject
     IN IF lease >= 1 THEN Continue(c, [call[c] EXCEPT !.lease = lease])
        ELSE Refuse(c, "invalid")
  /\ UNCHANGED <<hist, keys, stores>>

(* exchangeAIUser: bounded by the user's own token. *)
UserLease(c) ==
  /\ At(c, "userLease")
  /\ LET lease == Lesser(TokenTTL, Plan(c).userExp - clock)
     IN IF lease >= 1 THEN Continue(c, [call[c] EXCEPT !.at = clock, !.lease = lease])
        ELSE Refuse(c, "invalid")
  /\ UNCHANGED <<hist, keys, stores>>

(* Mutant: the token is dated when it is signed, the lease when it was asked for. *)
DateAtSigning(c) == clock + call[c].lease

(* aiPrincipalClaims: the token expires one lease after it was asked for. *)
Expiry(c) == call[c].at + call[c].lease

Grant(c, exp) ==
  /\ Continue(c, [call[c] EXCEPT !.exp = exp])
  /\ UNCHANGED <<hist, keys, stores>>

(* The other exchanges compute the lifetime when they sign. *)
BoundedTTL(c) == Lesser(TokenTTL, Plan(c).exp - clock)
MachineLease(c) ==
  Lesser(IF Plan(c).kind = "store" THEN TokenTTL ELSE MachineTTL, Plan(c).exp - call[c].at)

TooLate(c) == Refuse(c, "expiring") /\ UNCHANGED <<hist, keys, stores>>

(* signAIClaims *)
SignAI(c) == At(c, "sign") /\ Grant(c, Expiry(c))

(* signCodeQBindingToken *)
SignBinding(c) ==
  /\ At(c, "signBounded")
  /\ IF BoundedTTL(c) >= MinTTL THEN Grant(c, clock + BoundedTTL(c)) ELSE TooLate(c)

(* issueLogsToken: a Resolve token, which names no tenant, lives a minute. *)
SignLogs(c) ==
  /\ At(c, "signLogs")
  /\ LET ttl == IF Plan(c).kind = "resolve" THEN Lesser(BoundedTTL(c), MachineTTL) ELSE BoundedTTL(c)
     IN IF ttl >= MinTTL THEN Grant(c, clock + ttl) ELSE TooLate(c)

(* exchangeAIMachine *)
SignMachine(c) == At(c, "signMachine") /\ Grant(c, call[c].at + MachineLease(c))

(* exchangeCodeQTopic *)
SignTopic(c) == At(c, "signTopic") /\ Grant(c, clock + Lesser(MachineTTL, TokenTTL))

(* Exchange *)
SignLegacy(c) == At(c, "signLegacy") /\ Grant(c, clock + TokenTTL)

Sign(c) ==
  \/ SignAI(c) \/ SignBinding(c) \/ SignLogs(c) \/ SignMachine(c) \/ SignTopic(c) \/ SignLegacy(c)

----------------------------------------------------------------------------
(* Stored bindings *)

Grants(record) == record = "open"

Denied(c) == Refuse(c, "denied") /\ UNCHANGED <<hist, keys, stores>>

(* A record that decides the request (workloadBindingGrant). *)
Decide(c, record, steps) ==
  IF Grants(record)
  THEN /\ call' = [call EXCEPT ![c].todo = SubSeq(@, steps + 1, Len(@)), ![c].seen = record]
       /\ UNCHANGED <<hist, keys, stores>>
  ELSE Denied(c)

(* Mutant: a scoped record that is revoked falls back to the unscoped one. *)
ScopedIfGranting(c) ==
  /\ At(c, "scoped")
  /\ IF Grants(binding["scoped"]) THEN Decide(c, binding["scoped"], 2)
     ELSE Continue(c, call[c]) /\ UNCHANGED <<hist, keys, stores>>

Unread(c) == Refuse(c, "unavailable") /\ UNCHANGED <<hist, keys, stores>>

(* legacyBinding: a record scoped to the verified cluster decides alone; one  *)
(* that cannot be read is no absent one.  For a subject without a cluster,    *)
(* which has no such record, the code does not ask for it.                   *)
ReadScoped(c) ==
  /\ At(c, "scoped")
  /\ \/ IF binding["scoped"] # Nothing THEN Decide(c, binding["scoped"], 2)
        ELSE IF world.scopedRequired THEN Denied(c)
        ELSE Continue(c, call[c]) /\ UNCHANGED <<hist, keys, stores>>
     \/ Unread(c)

ReadUnscoped(c) == At(c, "unscoped") /\ (Decide(c, binding["unscoped"], 1) \/ Unread(c))

(* Every change of a record is seen by the calls that are under way. *)
Write(c, record) ==
  /\ binding' = [binding EXCEPT ![Plan(c).record] = record]
  /\ hist' = [d \in Callers |->
       IF Grants(record) THEN [hist[d] EXCEPT !.opened = @ \cup {Plan(c).record}] ELSE hist[d]]
  /\ Continue(c, call[c])
  /\ UNCHANGED <<keys, tenant, person, attempts>>

(* workloadBindingRepo.Revoke: Get, then Upsert of what was read. *)
LoadBinding(c) ==
  /\ At(c, "load")
  /\ IF binding[Plan(c).record] = Nothing THEN Refuse(c, "missing") ELSE Continue(c, call[c])
  /\ UNCHANGED <<hist, keys, stores>>

StoreBinding(c) ==
  \/ At(c, "revoke") /\ Write(c, "revoked")
  \/ /\ At(c, "upsert")
     /\ IF world.scopedRequired /\ Plan(c).record = "unscoped" THEN Denied(c)
        ELSE Write(c, Plan(c).value)

----------------------------------------------------------------------------
(* The environment, and all steps *)

(* The tenant is retired; nothing enables it again (module Registry). *)
RetireTenant ==
  /\ Happens(<<"tenant">>)
  /\ tenant' = FALSE
  /\ UNCHANGED <<world, clock, keys, requests, person, attempts, binding>>

(* The user's token version advances, or a role is taken away (Accounts, AccessGraph). *)
ChangeUser ==
  /\ \/ Happens(<<"version">>) /\ person' = [person EXCEPT !.version = @ + 1]
     \/ Happens(<<"roles">>) /\ person' = [person EXCEPT !.permitted = FALSE]
  /\ UNCHANGED <<world, clock, keys, requests, tenant, attempts, binding>>

Exchanging(c) ==
  \/ RateLimit(c) \/ TakeSlot(c) \/ ReleaseSlot(c) \/ ReadTenant(c) \/ ConfirmTenant(c)
  \/ AskBinding(c) \/ AskLogs(c) \/ AskAI(c)
  \/ FindUser(c) \/ ParseToken(c) \/ Permit(c) \/ Lease(c) \/ UserLease(c) \/ Sign(c)
  \/ ReadScoped(c) \/ ReadUnscoped(c) \/ LoadBinding(c) \/ StoreBinding(c)

ExchangeInit ==
  /\ tenant = world.tenant /\ person = [version |-> 0, permitted |-> TRUE]
  /\ attempts = [s \in Services |-> [pod \in Pods |-> {}]]
  /\ binding = world.binding

----------------------------------------------------------------------------
(* Properties *)

Granted(c) == call[c].out = "granted"
AIKinds == {"ai", "delegated", "aiUser", "aiValidate", "aiWorkload"}

(* Withdrawing a tenant wins over an earlier callback answer: an AI token is  *)
(* issued or accepted only if the tenant was active at a moment at or after   *)
(* the authority's last answer (aiGatewayExchange.authorize).                 *)
WithdrawalWins == \A c \in Callers : Granted(c) /\ Plan(c).kind \in AIKinds => hist[c].alive

(* A token that is exchanged for a Pod's or a user's token never outlives it, *)
(* however long verification, rate limit and callback take: the deadlines are *)
(* those of the token presented, and in a delegation of both                  *)
(* (codeqBindingProcedure step 9, issueLogsToken, exchangeAIWorkload,         *)
(* exchangeAIUser, exchangeAIMachine).                                        *)
TokensWithinLifetimes ==
  \A c \in Callers : Granted(c) =>
    /\ Plan(c).kind \in {"binding", "logs", "collect", "resolve", "ai", "machine", "store", "delegated"}
         => call[c].exp <= Plan(c).exp
    /\ Plan(c).kind \in {"aiUser", "delegated"} => call[c].exp <= Plan(c).userExp

(* A legacy token rests on a record that granted it during the call, and on   *)
(* the unscoped record only if no record of the verified cluster existed when *)
(* the call began: a revocation for one cluster is never answered from the    *)
(* unscoped record (legacyBinding, RevokeBinding).                            *)
LegacyGrantsCurrent ==
  \A c \in Callers : Granted(c) /\ Plan(c).kind = "legacy" =>
    \/ "scoped" \in hist[c].opened
    \/ "unscoped" \in hist[c].opened /\ ~hist[c].scoped /\ ~world.scopedRequired

(* The admissions of c's identity by c's limiter in the window that c ended. *)
SameWindow(c) ==
  {d \in Callers :
     /\ hist[d].admitted # Nothing /\ Plan(d).pod = Plan(c).pod
     /\ hist[d].admitted[1] = hist[c].admitted[1]
     /\ hist[d].admitted[2] <= hist[c].admitted[2]
     /\ hist[c].admitted[2] < hist[d].admitted[2] + Window}

(* A finished request, however it ended, holds no slot; a service never has   *)
(* more than its capacity of authority calls; and one identity is admitted at *)
(* most Limit times in any window, also when the limiter's table is full      *)
(* (IdentityRateLimiter, the inflight channels).                              *)
AdmissionControl ==
  /\ \A c \in Callers : call[c].out # "pending" => call[c].held = {}
  /\ \A s \in Services : Cardinality(Holders(s)) <= Capacity
  /\ \A c \in Callers : hist[c].admitted # Nothing => Cardinality(SameWindow(c)) <= Limit
=============================================================================
