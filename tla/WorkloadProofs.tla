--------------------------- MODULE WorkloadProofs ---------------------------
(***************************************************************************)
(* What the workload requests may rely on, for any number of requests, Pods, *)
(* keys and situations, and any order of their steps.                        *)
(*                                                                         *)
(* A request is what is left of its program, so what a call still owes is    *)
(* read off that program: a slot it holds is released later in it, an answer *)
(* of the AI authority is confirmed later in it, a lease that has not been   *)
(* counted is counted later in it (InOrder, FrameOK).  What a call has been  *)
(* told is kept beside the store it was read from (PastOK).               *)
(***************************************************************************)
EXTENDS Workload, FiniteSetTheorems, FunctionTheorems, SequenceTheorems, TLAPS

Has(s, op) == \E i \in 1..Len(s) : s[i][1] = op

(* Nothing of B comes after an a. *)
Never(s, a, B) == \A i, j \in 1..Len(s) : i < j /\ s[i][1] = a => s[j][1] \notin B

(* Every a is followed by a b. *)
Followed(s, a, b) ==
  \A i \in 1..Len(s) : s[i][1] = a => \E j \in 1..Len(s) : i < j /\ s[j][1] = b

(* Every slot that is taken is released. *)
Released(s) ==
  \A i \in 1..Len(s) : s[i][1] = "slot" =>
    \E j \in 1..Len(s) : i < j /\ s[j] = <<"release", s[i][2]>>

(* A slot of service x will be given back. *)
Later(s, x) == \E i \in 1..Len(s) : s[i] = <<"release", x>>

(* A step that skips operations leaves one to do. *)
Room(s) ==
  \A i \in 1..Len(s) :
    /\ s[i][1] \in {"scoped", "lookup"} => i + 2 <= Len(s)
    /\ s[i][1] \in {"unscoped", "create", "winner"} => i + 1 <= Len(s)

(* The operations a request may perform. *)
OpsOf(kind) ==
  IF kind = "legacy" THEN {"verify", "scoped", "unscoped", "signLegacy"}
  ELSE IF kind = "register" THEN {"verify", "lookup", "create", "winner", "assign", "current", "undo"}
  ELSE IF kind = "delete" THEN {"slot", "validate", "ask", "provider", "release", "remove", "head", "probe"}
  ELSE IF kind \in {"ai", "delegated"}
    THEN {"verify", "limit", "find", "permit", "tenant", "slot", "ask", "confirm", "release", "lease", "sign"}
  ELSE IF kind = "aiUser"
    THEN {"permit", "userLease", "tenant", "slot", "ask", "confirm", "release", "sign"}
  ELSE IF kind = "aiValidate" THEN {"find", "permit", "tenant", "slot", "ask", "confirm", "release"}
  ELSE IF kind = "aiWorkload" THEN {"parse", "tenant", "slot", "ask", "confirm", "release"}
  ELSE IF kind \in {"binding", "logs", "collect", "resolve", "machine", "store"}
    THEN {"verify", "tenant", "limit", "slot", "ask", "release", "signBounded", "signLogs", "signMachine"}
  ELSE {"verify", "tenant", "signTopic", "load", "revoke", "upsert", "slot", "ask", "provider", "release",
        "validate", "listing", "presign", "signIn", "effective", "exchange", "membership", "erase"}

InOrder(kind, s) ==
  /\ s \in Seq(OpsOf(kind) \X (Services \cup {"none"}))
  /\ \A i \in 1..Len(s) : s[i][1] = "limit" => s[i][2] \in Services
  /\ Released(s) /\ Room(s)
  /\ Never(s, "limit", {"limit"}) /\ Never(s, "create", {"create"})
  /\ Never(s, "remove", {"release"}) /\ Never(s, "sign", {"lease", "userLease"})
  /\ kind \in AIKinds => Followed(s, "ask", "confirm")
  /\ kind \in {"ai", "delegated"} => Followed(s, "verify", "lease")
  /\ kind = "legacy" => Followed(s, "scoped", "unscoped")

PodKinds == {"binding", "logs", "collect", "resolve", "ai", "machine", "store", "delegated"}
UserKinds == {"aiUser", "delegated"}

(* Whose token bounds what is issued, and the lease once it is counted. *)
Life(p, at, lease, exp, s) ==
  /\ at \in Int /\ lease \in Int /\ exp \in Int
  /\ p.kind \in PodKinds => exp <= p.exp
  /\ p.kind \in UserKinds => exp <= p.userExp
  /\ p.kind \in {"ai", "delegated"} => Has(s, "lease") \/ at + lease <= p.exp
  /\ p.kind = "delegated" => Has(s, "lease") \/ at + lease <= p.userExp
  /\ p.kind = "aiUser" => Has(s, "userLease") \/ at + lease <= p.userExp

FrameOK(p, f) ==
  /\ f = [todo |-> f.todo, at |-> f.at, lease |-> f.lease, seen |-> f.seen, held |-> f.held,
          exp |-> f.exp, out |-> f.out]
  /\ InOrder(p.kind, f.todo)
  /\ f.out = "pending" <=> f.todo # <<>>
  /\ \A x \in f.held : Later(f.todo, x)
  /\ Life(p, f.at, f.lease, f.exp, f.todo)

Frames == call = [c \in Callers |-> call[c]] /\ \A c \in Callers : FrameOK(Plan(c), call[c])

Live(f) == f.out \in {"pending", "granted"}

HistoryShape(h) ==
  h = [begun |-> h.begun, stale |-> h.stale, admitted |-> h.admitted, alive |-> h.alive,
       opened |-> h.opened, scoped |-> h.scoped, versions |-> h.versions, removed |-> h.removed]

(* The authority answered while the tenant was active, or the tenant is gone  *)
(* and will be found to be.                                                  *)
AliveOK(p, f, h) ==
  p.kind \in AIKinds /\ Live(f) =>
    /\ Has(f.todo, "ask") \/ h.alive \/ ~tenant
    /\ Has(f.todo, "confirm") \/ h.alive

(* The records a legacy grant may rest on are known to the call. *)
LegacyOK(p, f, h) ==
  /\ h.scoped => binding["scoped"] # Nothing
  /\ p.kind = "legacy" /\ h.begun =>
       \A k \in {"scoped", "unscoped"} : Grants(binding[k]) => k \in h.opened
  /\ p.kind = "legacy" /\ Live(f) =>
       \/ Has(f.todo, "scoped")
       \/ /\ h.begun
          /\ \/ "scoped" \in h.opened
             \/ /\ Has(f.todo, "unscoped") \/ "unscoped" \in h.opened
                /\ ~h.scoped /\ ~world.scopedRequired

(* The call has seen every version since it arrived. *)
DeleteOK(p, f, h) ==
  p.kind = "delete" =>
    /\ h.begun => object \in h.versions
    /\ Live(f) => Has(f.todo, "head") \/ (h.begun /\ Nothing \in h.versions)
    /\ f.out = "changed" => h.begun /\ h.versions \ {Nothing, p.etag} # {}
    /\ h.removed \subseteq {p.etag}

(* An id that a registration may still use is not in use. *)
UnusedOK(c, f) ==
  Has(f.todo, "create") => (account # Nothing => account.id # c) /\ \A g \in given : g[1] # c

(* An admission of this window is in its limiter's table. *)
AdmittedOK(c, p, f, h) ==
  h.admitted # Nothing =>
    /\ h.admitted \in Services \X Nat /\ h.admitted[2] <= clock
    /\ ~Has(f.todo, "limit")
    /\ clock < h.admitted[2] + Window => <<h.admitted[2], c>> \in attempts[h.admitted[1]][p.pod]

PastOK(c, p, f, h) ==
  /\ HistoryShape(h)
  /\ h.stale \in Int /\ h.stale < CacheTTL + FetchTimeout
  /\ AliveOK(p, f, h) /\ LegacyOK(p, f, h) /\ DeleteOK(p, f, h)
  /\ UnusedOK(c, f) /\ AdmittedOK(c, p, f, h)

Histories ==
  hist = [c \in Callers |-> hist[c]] /\ \A c \in Callers : PastOK(c, Plan(c), call[c], hist[c])

(* A key that is cached, or in a document on its way, was served recently. *)
KeysOK ==
  /\ clock \in Nat /\ issuer \subseteq Kids
  /\ withdrawn = [k \in Kids |-> withdrawn[k]]
  /\ \A k \in Kids : withdrawn[k] # Nothing => withdrawn[k] \in Nat /\ withdrawn[k] <= clock
  /\ \A k \in issuer : withdrawn[k] = Nothing
  /\ cache.expires \in Nat /\ cache.expires <= clock + CacheTTL
  /\ \A k \in Kids : k \in cache.keys /\ withdrawn[k] # Nothing =>
       cache.expires <= withdrawn[k] + CacheTTL + FetchTimeout
  /\ fetch = [by |-> fetch.by, due |-> fetch.due, doc |-> fetch.doc]
  /\ fetch # Free =>
       /\ fetch.due \in Nat /\ clock <= fetch.due /\ fetch.due <= clock + FetchTimeout
       /\ fetch.doc # Nothing => \A k \in Kids : k \in fetch.doc /\ withdrawn[k] # Nothing =>
            fetch.due <= withdrawn[k] + FetchTimeout

WorldOK ==
  /\ world.plan \in [Callers -> Request]
  /\ binding = [k \in {"scoped", "unscoped"} |-> binding[k]]
  /\ attempts = [s \in Services |-> [pod \in Pods |-> attempts[s][pod]]]
  /\ \A s \in Services, pod \in Pods : IsFiniteSet(attempts[s][pod])
  /\ account # Nothing => account.id \in Ids
  /\ roles = [id \in Ids |-> roles[id]]
  /\ \A id \in Ids : roles[id] # Nothing => roles[id] \subseteq {Base} \cup Additional

SlotsOK == \A s \in Services : Cardinality(Holders(s)) <= Capacity
WindowsOK == \A c \in Callers : hist[c].admitted # Nothing => Cardinality(SameWindow(c)) <= Limit

RequestsOK == Frames /\ Histories /\ SlotsOK /\ WindowsOK
WorkloadInv == WorldOK /\ KeysOK /\ RequestsOK /\ ReplayKeepsRoles

----------------------------------------------------------------------------
(* Programs *)

(* What is left of a program that is in order is in order. *)
LEMMA OrderOfSuffix ==
  ASSUME NEW kind, NEW s, NEW t, NEW n \in 0..Len(s), InOrder(kind, s),
         t \in Seq(OpsOf(kind) \X (Services \cup {"none"})), Len(t) = Len(s) - n,
         \A i \in 1..Len(t) : t[i] = s[i + n]
  PROVE  /\ InOrder(kind, t)
         /\ \A op : Has(t, op) => Has(s, op)
<1> DEFINE E == OpsOf(kind) \X (Services \cup {"none"})
<1>1. s \in Seq(E) /\ Len(s) \in Nat
  BY DEF InOrder
<1>2. Len(t) \in Nat /\ \A i \in 1..Len(t) : i + n \in 1..Len(s) /\ t[i] = s[i + n]
  BY <1>1
<1>3. \A j \in 1..Len(s) : j > n => j - n \in 1..Len(t) /\ t[j - n] = s[j]
  BY <1>1
<1>4. \A i \in 1..Len(t) : t[i][1] = "limit" => t[i][2] \in Services
  BY <1>2 DEF InOrder
<1>5. Released(t)
  <2>1. SUFFICES ASSUME NEW i \in 1..Len(t), t[i][1] = "slot"
                 PROVE  \E j \in 1..Len(t) : i < j /\ t[j] = <<"release", t[i][2]>>
    BY DEF Released
  <2>2. PICK j \in 1..Len(s) : i + n < j /\ s[j] = <<"release", s[i + n][2]>>
    BY <1>2, <2>1 DEF InOrder, Released
  <2>3. j - n \in 1..Len(t) /\ i < j - n /\ t[j - n] = s[j]
    BY <1>1, <1>3, <2>2
  <2> QED BY <1>2, <2>2, <2>3
<1>6. Room(t)
  <2>1. SUFFICES ASSUME NEW i \in 1..Len(t)
                 PROVE  /\ t[i][1] \in {"scoped", "lookup"} => i + 2 <= Len(t)
                        /\ t[i][1] \in {"unscoped", "create", "winner"} => i + 1 <= Len(t)
    BY DEF Room
  <2>2. /\ t[i][1] \in {"scoped", "lookup"} => (i + n) + 2 <= Len(s)
        /\ t[i][1] \in {"unscoped", "create", "winner"} => (i + n) + 1 <= Len(s)
    BY <1>2 DEF InOrder, Room
  <2> QED BY <1>1, <1>2, <2>2
<1>7. ASSUME NEW a, NEW B, Never(s, a, B) PROVE Never(t, a, B)
  <2>1. SUFFICES ASSUME NEW i \in 1..Len(t), NEW j \in 1..Len(t), i < j, t[i][1] = a
                 PROVE  t[j][1] \notin B
    BY DEF Never
  <2>2. i + n \in 1..Len(s) /\ j + n \in 1..Len(s) /\ i + n < j + n
    BY <1>1, <1>2, <2>1
  <2> QED BY <1>2, <1>7, <2>1, <2>2 DEF Never
<1>8. ASSUME NEW a, NEW b, Followed(s, a, b) PROVE Followed(t, a, b)
  <2>1. SUFFICES ASSUME NEW i \in 1..Len(t), t[i][1] = a
                 PROVE  \E j \in 1..Len(t) : i < j /\ t[j][1] = b
    BY DEF Followed
  <2>2. PICK j \in 1..Len(s) : i + n < j /\ s[j][1] = b
    BY <1>2, <1>8, <2>1 DEF Followed
  <2>3. j - n \in 1..Len(t) /\ i < j - n /\ t[j - n] = s[j]
    BY <1>1, <1>3, <2>2
  <2> QED BY <2>2, <2>3
<1>9. \A op : Has(t, op) => Has(s, op)
  BY <1>2 DEF Has
<1> QED BY <1>4, <1>5, <1>6, <1>7, <1>8, <1>9 DEF InOrder

(* The rest of a program after its first operation. *)
LEMMA OrderOfTail ==
  ASSUME NEW kind, NEW s, InOrder(kind, s), s # <<>>
  PROVE  /\ InOrder(kind, Tail(s))
         /\ Len(s) \in Nat \ {0} /\ Len(Tail(s)) = Len(s) - 1 /\ (Tail(s) = <<>> <=> Len(s) = 1)
         /\ Head(s) = s[1] /\ s[1] \in OpsOf(kind) \X (Services \cup {"none"})
         /\ \A i \in 1..Len(Tail(s)) : Tail(s)[i] = s[i + 1]
         /\ \A op : Has(Tail(s), op) => Has(s, op)
         /\ \A op : Has(s, op) => s[1][1] = op \/ Has(Tail(s), op)
<1> DEFINE E == OpsOf(kind) \X (Services \cup {"none"})
<1>1. s \in Seq(E)
  BY DEF InOrder
<1>2. Len(s) \in Nat \ {0} /\ Tail(s) \in Seq(E) /\ Len(Tail(s)) = Len(s) - 1 /\ Head(s) = s[1]
      /\ s[1] \in E /\ \A i \in 1..Len(Tail(s)) : Tail(s)[i] = s[i + 1]
  BY <1>1, EmptySeq, HeadTailProperties
<1>3. 1 \in 0..Len(s)
  BY <1>2
<1>4. InOrder(kind, Tail(s)) /\ \A op : Has(Tail(s), op) => Has(s, op)
  BY <1>2, <1>3, OrderOfSuffix
<1>5. ASSUME NEW op, Has(s, op), s[1][1] # op PROVE Has(Tail(s), op)
  <2>1. PICK i \in 1..Len(s) : s[i][1] = op
    BY <1>5 DEF Has
  <2>2. i - 1 \in 1..Len(Tail(s)) /\ Tail(s)[i - 1] = s[i]
    BY <1>2, <1>5, <2>1
  <2> QED BY <2>1, <2>2 DEF Has
<1>6. \A q \in Seq(E) : Len(q) \in Nat /\ (q = <<>> <=> Len(q) = 0)
  BY EmptySeq
<1>7. Tail(s) = <<>> <=> Len(Tail(s)) = 0
  BY <1>2, <1>6
<1> QED BY <1>2, <1>4, <1>5, <1>7

(* A program as a request begins it. *)
Starts(kind, s) ==
  /\ InOrder(kind, s) /\ s # <<>>
  /\ kind \in AIKinds => Has(s, "ask") /\ Has(s, "confirm")
  /\ kind \in {"ai", "delegated"} => Has(s, "lease")
  /\ kind = "aiUser" => Has(s, "userLease")
  /\ kind = "legacy" => Has(s, "scoped")
  /\ kind = "delete" => Has(s, "head")

(* Every program of the handlers is in order. *)
LEMMA ProgramsStart ==
  ASSUME NEW p, p.kind \in ExchangeKinds \cup StorageKinds \cup BrokerKinds
  PROVE  Starts(p.kind, Program(p))
<1>1. CASE p.kind = "binding"
  <2>1. Program(p) = BindingExchange
    BY <1>1 DEF Program, ExchangeProgram, ExchangeKinds, StorageKinds, BrokerKinds
  <2>2. Starts("binding", BindingExchange)
    BY DEF BindingExchange, Do, Via, Starts, InOrder, OpsOf, Services, Released, Room, Never, Followed, AIKinds, Has
  <2> QED BY <1>1, <2>1, <2>2
<1>2. CASE p.kind = "logs"
  <2>1. Program(p) = LogsExchange(TRUE)
    BY <1>2 DEF Program, ExchangeProgram, ExchangeKinds, StorageKinds, BrokerKinds
  <2>2. Starts("logs", LogsExchange(TRUE))
    BY DEF LogsExchange, Do, Via, Starts, InOrder, OpsOf, Services, Released, Room, Never, Followed, AIKinds, Has
  <2> QED BY <1>2, <2>1, <2>2
<1>3. CASE p.kind = "collect"
  <2>1. Program(p) = LogsExchange(FALSE)
    BY <1>3 DEF Program, ExchangeProgram, ExchangeKinds, StorageKinds, BrokerKinds
  <2>2. Starts("collect", LogsExchange(FALSE))
    BY DEF LogsExchange, Do, Via, Starts, InOrder, OpsOf, Services, Released, Room, Never, Followed, AIKinds, Has
  <2> QED BY <1>3, <2>1, <2>2
<1>4. CASE p.kind = "resolve"
  <2>1. Program(p) = LogsExchange(FALSE)
    BY <1>4 DEF Program, ExchangeProgram, ExchangeKinds, StorageKinds, BrokerKinds
  <2>2. Starts("resolve", LogsExchange(FALSE))
    BY DEF LogsExchange, Do, Via, Starts, InOrder, OpsOf, Services, Released, Room, Never, Followed, AIKinds, Has
  <2> QED BY <1>4, <2>1, <2>2
<1>5. CASE p.kind = "ai"
  <2>1. Program(p) = AIWorkload
    BY <1>5 DEF Program, ExchangeProgram, ExchangeKinds, StorageKinds, BrokerKinds
  <2>2. Starts("ai", AIWorkload)
    BY DEF AIWorkload, Authorize, Do, Via, Starts, InOrder, OpsOf, Services, Released, Room, Never, Followed, AIKinds, Has
  <2> QED BY <1>5, <2>1, <2>2
<1>6. CASE p.kind = "delegated"
  <2>1. Program(p) = AIDelegated
    BY <1>6 DEF Program, ExchangeProgram, ExchangeKinds, StorageKinds, BrokerKinds
  <2>2. Starts("delegated", AIDelegated)
    <3> USE DEF AIDelegated, ValidateAIAccessToken, Authorize, Do, Via
    <3>1. AIDelegated \in Seq(OpsOf("delegated") \X (Services \cup {"none"}))
      BY DEF OpsOf, Services
    <3>2. \A i \in 1..Len(AIDelegated) : AIDelegated[i][1] = "limit" => AIDelegated[i][2] \in Services
      BY DEF Services
    <3>3. Released(AIDelegated)
      BY DEF Released
    <3>4. Room(AIDelegated) /\ AIDelegated # <<>>
      BY DEF Room
    <3>5. Never(AIDelegated, "limit", {"limit"}) /\ Never(AIDelegated, "create", {"create"})
      BY DEF Never
    <3>6. Never(AIDelegated, "remove", {"release"}) /\ Never(AIDelegated, "sign", {"lease", "userLease"})
      BY DEF Never
    <3>7. Followed(AIDelegated, "ask", "confirm") /\ Followed(AIDelegated, "verify", "lease")
      BY DEF Followed
    <3>8. Has(AIDelegated, "ask") /\ Has(AIDelegated, "confirm") /\ Has(AIDelegated, "lease")
      BY DEF Has
    <3> HIDE DEF AIDelegated
    <3> QED BY <3>1, <3>2, <3>3, <3>4, <3>5, <3>6, <3>7, <3>8 DEF Starts, InOrder
  <2> QED BY <1>6, <2>1, <2>2
<1>7. CASE p.kind = "machine"
  <2>1. Program(p) = AIMachine
    BY <1>7 DEF Program, ExchangeProgram, ExchangeKinds, StorageKinds, BrokerKinds
  <2>2. Starts("machine", AIMachine)
    BY DEF AIMachine, Do, Via, Starts, InOrder, OpsOf, Services, Released, Room, Never, Followed, AIKinds, Has
  <2> QED BY <1>7, <2>1, <2>2
<1>8. CASE p.kind = "store"
  <2>1. Program(p) = AIMachine
    BY <1>8 DEF Program, ExchangeProgram, ExchangeKinds, StorageKinds, BrokerKinds
  <2>2. Starts("store", AIMachine)
    BY DEF AIMachine, Do, Via, Starts, InOrder, OpsOf, Services, Released, Room, Never, Followed, AIKinds, Has
  <2> QED BY <1>8, <2>1, <2>2
<1>9. CASE p.kind = "aiUser"
  <2>1. Program(p) = AIUser
    BY <1>9 DEF Program, ExchangeProgram, ExchangeKinds, StorageKinds, BrokerKinds
  <2>2. Starts("aiUser", AIUser)
    BY DEF AIUser, Authorize, Do, Via, Starts, InOrder, OpsOf, Services, Released, Room, Never, Followed, AIKinds, Has
  <2> QED BY <1>9, <2>1, <2>2
<1>10. CASE p.kind = "aiValidate"
  <2>1. Program(p) = ValidateAIAccessToken
    BY <1>10 DEF Program, ExchangeProgram, ExchangeKinds, StorageKinds, BrokerKinds
  <2>2. Starts("aiValidate", ValidateAIAccessToken)
    BY DEF ValidateAIAccessToken, Authorize, Do, Via, Starts, InOrder, OpsOf, Services, Released, Room, Never, Followed, AIKinds, Has
  <2> QED BY <1>10, <2>1, <2>2
<1>11. CASE p.kind = "topic"
  <2>1. Program(p) = TopicExchange
    BY <1>11 DEF Program, ExchangeProgram, ExchangeKinds, StorageKinds, BrokerKinds
  <2>2. Starts("topic", TopicExchange)
    BY DEF TopicExchange, Do, Via, Starts, InOrder, OpsOf, Services, Released, Room, Never, Followed, AIKinds, Has
  <2> QED BY <1>11, <2>1, <2>2
<1>12. CASE p.kind = "topicValidate"
  <2>1. Program(p) = ValidateCodeQTopicToken
    BY <1>12 DEF Program, ExchangeProgram, ExchangeKinds, StorageKinds, BrokerKinds
  <2>2. Starts("topicValidate", ValidateCodeQTopicToken)
    BY DEF ValidateCodeQTopicToken, Do, Via, Starts, InOrder, OpsOf, Services, Released, Room, Never, Followed, AIKinds, Has
  <2> QED BY <1>12, <2>1, <2>2
<1>13. CASE p.kind = "legacy"
  <2>1. Program(p) = LegacyExchange
    BY <1>13 DEF Program, ExchangeProgram, ExchangeKinds, StorageKinds, BrokerKinds
  <2>2. Starts("legacy", LegacyExchange)
    BY DEF LegacyExchange, Do, Via, Starts, InOrder, OpsOf, Services, Released, Room, Never, Followed, AIKinds, Has
  <2> QED BY <1>13, <2>1, <2>2
<1>14. CASE p.kind = "revoke"
  <2>1. Program(p) = RevokeBinding
    BY <1>14 DEF Program, ExchangeProgram, ExchangeKinds, StorageKinds, BrokerKinds
  <2>2. Starts("revoke", RevokeBinding)
    BY DEF RevokeBinding, Do, Via, Starts, InOrder, OpsOf, Services, Released, Room, Never, Followed, AIKinds, Has
  <2> QED BY <1>14, <2>1, <2>2
<1>15. CASE p.kind = "upsert"
  <2>1. Program(p) = UpsertBinding
    BY <1>15 DEF Program, ExchangeProgram, ExchangeKinds, StorageKinds, BrokerKinds
  <2>2. Starts("upsert", UpsertBinding)
    BY DEF UpsertBinding, Do, Via, Starts, InOrder, OpsOf, Services, Released, Room, Never, Followed, AIKinds, Has
  <2> QED BY <1>15, <2>1, <2>2
<1>16. CASE p.kind = "sts"
  <2>1. Program(p) = StsExchange
    BY <1>16 DEF Program, StorageProgram, ExchangeKinds, StorageKinds, BrokerKinds
  <2>2. Starts("sts", StsExchange)
    BY DEF StsExchange, Do, Via, Starts, InOrder, OpsOf, Services, Released, Room, Never, Followed, AIKinds, Has
  <2> QED BY <1>16, <2>1, <2>2
<1>17. CASE p.kind = "list"
  <2>1. Program(p) = AdminAuthorize \o <<Do("listing")>>
    BY <1>17 DEF Program, StorageProgram, ExchangeKinds, StorageKinds, BrokerKinds
  <2>2. Starts("list", AdminAuthorize \o <<Do("listing")>>)
    BY DEF AdminAuthorize, Do, Via, Starts, InOrder, OpsOf, Services, Released, Room, Never, Followed, AIKinds, Has
  <2> QED BY <1>17, <2>1, <2>2
<1>18. CASE p.kind = "upload"
  <2>1. Program(p) = AdminAuthorize \o <<Do("presign")>>
    BY <1>18 DEF Program, StorageProgram, ExchangeKinds, StorageKinds, BrokerKinds
  <2>2. Starts("upload", AdminAuthorize \o <<Do("presign")>>)
    BY DEF AdminAuthorize, Do, Via, Starts, InOrder, OpsOf, Services, Released, Room, Never, Followed, AIKinds, Has
  <2> QED BY <1>18, <2>1, <2>2
<1>19. CASE p.kind = "delete"
  <2>1. Program(p) = AdminAuthorize \o <<Do("remove"), Do("head"), Do("probe")>>
    BY <1>19 DEF Program, StorageProgram, ExchangeKinds, StorageKinds, BrokerKinds
  <2>2. Starts("delete", AdminAuthorize \o <<Do("remove"), Do("head"), Do("probe")>>)
    BY DEF AdminAuthorize, Do, Via, Starts, InOrder, OpsOf, Services, Released, Room, Never, Followed, AIKinds, Has
  <2> QED BY <1>19, <2>1, <2>2
<1>20. CASE p.kind = "register"
  <2>1. Program(p) = Registration
    BY <1>20 DEF Program, BrokerProgram, ExchangeKinds, StorageKinds, BrokerKinds
  <2>2. Starts("register", Registration)
    BY DEF Registration, Do, Via, Starts, InOrder, OpsOf, Services, Released, Room, Never, Followed, AIKinds, Has
  <2> QED BY <1>20, <2>1, <2>2
<1>21. CASE p.kind = "session"
  <2>1. Program(p) = Session
    BY <1>21 DEF Program, BrokerProgram, ExchangeKinds, StorageKinds, BrokerKinds
  <2>2. Starts("session", Session)
    BY DEF Session, Do, Via, Starts, InOrder, OpsOf, Services, Released, Room, Never, Followed, AIKinds, Has
  <2> QED BY <1>21, <2>1, <2>2
<1>22. CASE p.kind = "erase"
  <2>1. Program(p) = Erasure
    BY <1>22 DEF Program, BrokerProgram, ExchangeKinds, StorageKinds, BrokerKinds
  <2>2. Starts("erase", Erasure)
    BY DEF Erasure, Do, Via, Starts, InOrder, OpsOf, Services, Released, Room, Never, Followed, AIKinds, Has
  <2> QED BY <1>22, <2>1, <2>2
<1>23. CASE p.kind = "aiWorkload"
  <2>1. Program(p) = ValidateAIWorkloadToken
    BY <1>23 DEF Program, ExchangeProgram, ExchangeKinds, StorageKinds, BrokerKinds
  <2>2. Starts("aiWorkload", ValidateAIWorkloadToken)
    BY DEF ValidateAIWorkloadToken, Authorize, Do, Via, Starts, InOrder, OpsOf, Services, Released, Room, Never,
           Followed, AIKinds, Has
  <2> QED BY <1>23, <2>1, <2>2
<1> QED
  BY <1>1, <1>2, <1>3, <1>4, <1>5, <1>6, <1>7, <1>8, <1>9, <1>10, <1>11,
     <1>12, <1>13, <1>14, <1>15, <1>16, <1>17, <1>18, <1>19, <1>20, <1>21, <1>22, <1>23
  DEF ExchangeKinds, StorageKinds, BrokerKinds

----------------------------------------------------------------------------
(* Frames *)

After(f) == IF Len(f.todo) = 1 THEN Granting(f) ELSE [f EXCEPT !.todo = Tail(@)]
Refusal(code) == [Fresh(<<>>) EXCEPT !.out = code]

(* What a call has to do, one operation later. *)
LEMMA FrameAfter ==
  ASSUME NEW p \in Request, NEW f, NEW e, FrameOK(p, f), f.out = "pending",
         e = [todo |-> f.todo, at |-> e.at, lease |-> e.lease, seen |-> e.seen, held |-> e.held,
              exp |-> e.exp, out |-> "pending"],
         \A x \in e.held : Later(Tail(f.todo), x),
         Life(p, e.at, e.lease, e.exp, Tail(f.todo))
  PROVE  /\ FrameOK(p, After(e))
         /\ After(e).todo = Tail(f.todo) /\ After(e).held = e.held
         /\ After(e).out \in {"pending", "granted"}
<1>1. /\ InOrder(p.kind, f.todo) /\ f.todo # <<>> /\ InOrder(p.kind, Tail(f.todo))
      /\ Len(f.todo) \in Nat \ {0} /\ Len(Tail(f.todo)) = Len(f.todo) - 1
      /\ (Tail(f.todo) = <<>> <=> Len(f.todo) = 1)
  BY OrderOfTail DEF FrameOK
<1>2. e.todo = f.todo /\ e.out = "pending" /\ p.exp \in Nat /\ p.userExp \in Nat
  BY DEF Request
<1>3. CASE Len(f.todo) = 1
  <2>1. Tail(f.todo) = <<>>
    BY <1>1, <1>3
  <2>2. After(e) = [todo |-> <<>>, at |-> 0, lease |-> 0, seen |-> Nothing, held |-> e.held,
                    exp |-> e.exp, out |-> "granted"]
    BY <1>2, <1>3 DEF After, Granting, Fresh
  <2>3. PICK g : g = After(e)
    OBVIOUS
  <2>4. /\ g = [todo |-> g.todo, at |-> g.at, lease |-> g.lease, seen |-> g.seen, held |-> g.held,
                exp |-> g.exp, out |-> g.out]
        /\ g.todo = Tail(f.todo) /\ g.at = 0 /\ g.lease = 0 /\ g.held = e.held /\ g.exp = e.exp
        /\ g.out = "granted"
    BY <2>1, <2>2, <2>3
  <2>5. Life(p, g.at, g.lease, g.exp, g.todo)
    BY <1>2, <2>4 DEF Life
  <2>6. FrameOK(p, g)
    BY <1>1, <2>1, <2>4, <2>5 DEF FrameOK
  <2> QED BY <2>3, <2>4, <2>6
<1>4. CASE Len(f.todo) # 1
  <2>1. Tail(f.todo) # <<>>
    BY <1>1, <1>4
  <2>2. After(e) = [todo |-> Tail(f.todo), at |-> e.at, lease |-> e.lease, seen |-> e.seen,
                    held |-> e.held, exp |-> e.exp, out |-> "pending"]
    BY <1>2, <1>4 DEF After
  <2>3. PICK g : g = After(e)
    OBVIOUS
  <2>4. /\ g = [todo |-> g.todo, at |-> g.at, lease |-> g.lease, seen |-> g.seen, held |-> g.held,
                exp |-> g.exp, out |-> g.out]
        /\ g.todo = Tail(f.todo) /\ g.at = e.at /\ g.lease = e.lease /\ g.held = e.held
        /\ g.exp = e.exp /\ g.out = "pending"
    BY <2>2, <2>3
  <2>5. FrameOK(p, g)
    BY <1>1, <2>1, <2>4 DEF FrameOK
  <2> QED BY <2>3, <2>4, <2>5
<1> QED BY <1>3, <1>4

(* The releases that are left, after an operation. *)
LEMMA ReleasesLeft ==
  ASSUME NEW p, NEW f, FrameOK(p, f), f.out = "pending"
  PROVE  /\ \A x \in f.held : Head(f.todo) # <<"release", x>> => Later(Tail(f.todo), x)
         /\ Head(f.todo)[1] = "slot" => Later(Tail(f.todo), Head(f.todo)[2])
<1>1. /\ InOrder(p.kind, f.todo) /\ f.todo # <<>>
      /\ Len(f.todo) \in Nat \ {0} /\ Len(Tail(f.todo)) = Len(f.todo) - 1
      /\ Head(f.todo) = f.todo[1] /\ \A i \in 1..Len(Tail(f.todo)) : Tail(f.todo)[i] = f.todo[i + 1]
  BY OrderOfTail DEF FrameOK
<1>2. ASSUME NEW i \in 1..Len(f.todo), i # 1
      PROVE  i - 1 \in 1..Len(Tail(f.todo)) /\ Tail(f.todo)[i - 1] = f.todo[i]
  BY <1>1, <1>2
<1>3. ASSUME NEW x \in f.held, Head(f.todo) # <<"release", x>>
      PROVE  Later(Tail(f.todo), x)
  <2>1. PICK i \in 1..Len(f.todo) : f.todo[i] = <<"release", x>>
    BY <1>3 DEF FrameOK, Later
  <2> QED BY <1>1, <1>2, <1>3, <2>1 DEF Later
<1>4. ASSUME Head(f.todo)[1] = "slot"
      PROVE  Later(Tail(f.todo), Head(f.todo)[2])
  <2>1. PICK i \in 1..Len(f.todo) : 1 < i /\ f.todo[i] = <<"release", f.todo[1][2]>>
    BY <1>1, <1>4 DEF InOrder, Released
  <2>2. i - 1 \in 1..Len(Tail(f.todo)) /\ Tail(f.todo)[i - 1] = f.todo[i]
    BY <1>2, <2>1
  <2> QED BY <1>1, <2>1, <2>2 DEF Later
<1> QED BY <1>3, <1>4

(* An operation that counts no lease leaves the bounds as they are. *)
LEMMA LifeAfter ==
  ASSUME NEW p, NEW f, FrameOK(p, f), f.out = "pending", Head(f.todo)[1] \notin {"lease", "userLease"}
  PROVE  Life(p, f.at, f.lease, f.exp, Tail(f.todo))
<1>1. \A op : Has(f.todo, op) => f.todo[1][1] = op \/ Has(Tail(f.todo), op)
  BY OrderOfTail DEF FrameOK
<1>2. Head(f.todo) = f.todo[1]
  BY OrderOfTail DEF FrameOK
<1> QED BY <1>1, <1>2 DEF FrameOK, Life

(* A frame whose answer is replaced. *)
LEMMA OutOfFrame ==
  ASSUME NEW code, NEW r,
         r = [todo |-> r.todo, at |-> r.at, lease |-> r.lease, seen |-> r.seen, held |-> r.held,
              exp |-> r.exp, out |-> r.out]
  PROVE  [r EXCEPT !.out = code]
           = [todo |-> r.todo, at |-> r.at, lease |-> r.lease, seen |-> r.seen, held |-> r.held,
              exp |-> r.exp, out |-> code]
OBVIOUS

(* A refused request has nothing left to do and holds nothing. *)
LEMMA FrameRefused ==
  ASSUME NEW p \in Request, NEW code, code # "pending"
  PROVE  /\ FrameOK(p, Refusal(code)) /\ Refusal(code).todo = <<>>
         /\ Refusal(code).held = {} /\ Refusal(code).out = code
<1>1. Refusal(code) = [todo |-> <<>>, at |-> 0, lease |-> 0, seen |-> Nothing, held |-> {},
                       exp |-> 0, out |-> code]
  <2>1. PICK r : r = Fresh(<<>>)
    OBVIOUS
  <2>2. /\ r.todo = <<>> /\ r.at = 0 /\ r.lease = 0 /\ r.seen = Nothing /\ r.held = {} /\ r.exp = 0
        /\ r = [todo |-> r.todo, at |-> r.at, lease |-> r.lease, seen |-> r.seen, held |-> r.held,
                exp |-> r.exp, out |-> r.out]
    BY <2>1 DEF Fresh
  <2>3. [r EXCEPT !.out = code]
          = [todo |-> r.todo, at |-> r.at, lease |-> r.lease, seen |-> r.seen, held |-> r.held,
             exp |-> r.exp, out |-> code]
    BY <2>2, OutOfFrame
  <2> QED BY <2>1, <2>2, <2>3 DEF Refusal
<1>2. PICK g : g = Refusal(code)
  OBVIOUS
<1>3. /\ g = [todo |-> g.todo, at |-> g.at, lease |-> g.lease, seen |-> g.seen, held |-> g.held,
              exp |-> g.exp, out |-> g.out]
      /\ g.todo = <<>> /\ g.at = 0 /\ g.lease = 0 /\ g.held = {} /\ g.exp = 0 /\ g.out = code
  BY <1>1, <1>2
<1>4. InOrder(p.kind, <<>>)
  BY EmptySeq DEF InOrder, Released, Room, Never, Followed
<1>5. Life(p, 0, 0, 0, <<>>)
  BY DEF Life, Request
<1> QED BY <1>2, <1>3, <1>4, <1>5 DEF FrameOK

----------------------------------------------------------------------------
(* Histories *)

(* What an operation that is done has found. *)
Looks(op) ==
  /\ op = "confirm" => tenant
  /\ op = "scoped" => binding["scoped"] = Nothing /\ ~world.scopedRequired
  /\ op = "head" => object = Nothing
  /\ op # "unscoped"

(* History k differs from h in what verification and the authority's answer record. *)
Learns(op, h, k) ==
  /\ HistoryShape(k) /\ k.stale \in Int /\ k.stale < CacheTTL + FetchTimeout
  /\ k.begun = h.begun /\ k.opened = h.opened /\ k.scoped = h.scoped /\ k.versions = h.versions
  /\ k.removed = h.removed /\ k.admitted = h.admitted
  /\ op = "ask" => k.alive = tenant
  /\ op # "ask" => k.alive = h.alive

(* What a call knows, one operation later. *)
LEMMA PastAfter ==
  ASSUME NEW c, NEW p \in Request, NEW f, NEW g, NEW h, NEW k, NEW op,
         FrameOK(p, f), f.out = "pending", PastOK(c, p, f, h), h.begun,
         g.todo = Tail(f.todo), g.out \in {"pending", "granted"}, op = Head(f.todo)[1],
         Learns(op, h, k), Looks(op)
  PROVE  PastOK(c, p, g, k)
<1>1. /\ InOrder(p.kind, f.todo) /\ Head(f.todo) = f.todo[1] /\ InOrder(p.kind, g.todo)
      /\ Len(f.todo) \in Nat \ {0} /\ Len(g.todo) = Len(f.todo) - 1
      /\ \A i \in 1..Len(g.todo) : g.todo[i] = f.todo[i + 1]
  BY OrderOfTail DEF FrameOK
<1>2. /\ \A x : Has(g.todo, x) => Has(f.todo, x)
      /\ \A x : Has(f.todo, x) => op = x \/ Has(g.todo, x)
  <2>1. InOrder(p.kind, f.todo) /\ f.todo # <<>>
    BY DEF FrameOK
  <2>2. /\ \A x : Has(Tail(f.todo), x) => Has(f.todo, x)
        /\ \A x : Has(f.todo, x) => f.todo[1][1] = x \/ Has(Tail(f.todo), x)
    BY <2>1, OrderOfTail
  <2> QED BY <1>1, <2>2
<1> USE DEF Learns, Looks
<1>3. AliveOK(p, g, k)
  <2>1. SUFFICES ASSUME p.kind \in AIKinds
                 PROVE  /\ Has(g.todo, "ask") \/ k.alive \/ ~tenant
                        /\ Has(g.todo, "confirm") \/ k.alive
    BY DEF AliveOK
  <2>2. Live(f)
    BY DEF Live
  <2>3. /\ Has(f.todo, "ask") \/ h.alive \/ ~tenant
        /\ Has(f.todo, "confirm") \/ h.alive
    BY <2>1, <2>2 DEF PastOK, AliveOK
  <2>4. Followed(f.todo, "ask", "confirm") /\ Followed(g.todo, "ask", "confirm")
    BY <1>1, <2>1 DEF InOrder
  <2>5. Has(g.todo, "ask") => Has(g.todo, "confirm")
    BY <2>4 DEF Followed, Has
  <2>6. CASE op = "ask"
    <3>1. 1 \in 1..Len(f.todo)
      BY <1>1
    <3>2. Has(f.todo, "confirm")
      BY <1>1, <2>4, <2>6, <3>1 DEF Followed, Has
    <3> QED BY <1>2, <2>6, <3>2
  <2>7. CASE op = "confirm"
    BY <1>2, <2>3, <2>5, <2>7
  <2>8. CASE op \notin {"ask", "confirm"}
    BY <1>2, <2>3, <2>8
  <2> QED BY <2>6, <2>7, <2>8
<1>4. LegacyOK(p, g, k)
  <2>1. /\ k.scoped => binding["scoped"] # Nothing
        /\ p.kind = "legacy" /\ k.begun =>
             \A r \in {"scoped", "unscoped"} : Grants(binding[r]) => r \in k.opened
    BY DEF PastOK, LegacyOK
  <2>2. ASSUME p.kind = "legacy"
        PROVE  \/ Has(g.todo, "scoped")
               \/ /\ k.begun
                  /\ \/ "scoped" \in k.opened
                     \/ /\ Has(g.todo, "unscoped") \/ "unscoped" \in k.opened
                        /\ ~k.scoped /\ ~world.scopedRequired
    <3>1. Live(f)
      BY DEF Live
    <3>2. \/ Has(f.todo, "scoped")
          \/ /\ h.begun
             /\ \/ "scoped" \in h.opened
                \/ /\ Has(f.todo, "unscoped") \/ "unscoped" \in h.opened
                   /\ ~h.scoped /\ ~world.scopedRequired
      BY <2>2, <3>1 DEF PastOK, LegacyOK
    <3>3. CASE op = "scoped"
      <4>1. f.todo[1][1] = "scoped" /\ 1 \in 1..Len(f.todo)
        BY <1>1, <3>3
      <4>2. Has(f.todo, "unscoped")
        BY <1>1, <2>2, <4>1 DEF InOrder, Followed, Has
      <4>3. Has(g.todo, "unscoped")
        BY <1>2, <3>3, <4>2
      <4> QED BY <2>1, <3>3, <4>3
    <3>4. CASE op # "scoped"
      BY <1>2, <3>2, <3>4
    <3> QED BY <3>3, <3>4
  <2> QED BY <2>1, <2>2 DEF LegacyOK
<1>5. DeleteOK(p, g, k)
  <2>1. Live(f)
    BY DEF Live
  <2> QED BY <1>2, <2>1 DEF PastOK, DeleteOK
<1>6. UnusedOK(c, g)
  BY <1>2 DEF PastOK, UnusedOK
<1>7. AdmittedOK(c, p, g, k)
  BY <1>2 DEF PastOK, AdmittedOK
<1> QED BY <1>3, <1>4, <1>5, <1>6, <1>7 DEF PastOK

(* A call that is refused owes nothing. *)
LEMMA PastRefused ==
  ASSUME NEW c, NEW p, NEW f, NEW g, NEW h, PastOK(c, p, f, h),
         g.todo = <<>>, g.out \notin {"pending", "granted"},
         g.out = "changed" /\ p.kind = "delete" => h.begun /\ h.versions \ {Nothing, p.etag} # {}
  PROVE  PastOK(c, p, g, h)
<1>1. \A op : ~Has(g.todo, op)
  BY DEF Has
<1> QED BY <1>1 DEF PastOK, AliveOK, LegacyOK, DeleteOK, UnusedOK, AdmittedOK, Live

----------------------------------------------------------------------------
(* Steps of one call *)

(* The stores that calls have read from stay; the account may be removed. *)
Quiet ==
  /\ UNCHANGED <<world, clock, tenant, binding, object, attempts, given>>
  /\ account' = account \/ account' = Nothing

(* The ways in which a call ends early, but for one answer to a delete. *)
Codes ==
  {"invalid", "unavailable", "limited", "busy", "inactive", "denied", "throttled", "internal",
   "expiring", "missing", "tooLarge", "conflict", "credentials"}

(* What a call knows stays true while the stores it was read from stay. *)
LEMMA PastKept ==
  ASSUME NEW d, NEW p, NEW f, NEW h, PastOK(d, p, f, h),
         Quiet
  PROVE  PastOK(d, p, f, h)'
<1> USE DEF Quiet
<1>1. AliveOK(p, f, h)' /\ HistoryShape(h)' /\ h.stale \in Int /\ h.stale < CacheTTL + FetchTimeout
  BY DEF PastOK, AliveOK, HistoryShape, Has, Live
<1>2. LegacyOK(p, f, h)'
  BY DEF PastOK, LegacyOK, Has, Live, Grants
<1>3. DeleteOK(p, f, h)'
  BY DEF PastOK, DeleteOK, Has, Live
<1>4. UnusedOK(d, f)'
  BY DEF PastOK, UnusedOK, Has
<1>5. AdmittedOK(d, p, f, h)'
  BY DEF PastOK, AdmittedOK, Has
<1> QED BY <1>1, <1>2, <1>3, <1>4, <1>5 DEF PastOK

(* What a frame owes depends on no store. *)
LEMMA FrameConstant ==
  ASSUME NEW p, NEW f, FrameOK(p, f)
  PROVE  FrameOK(p, f)'
BY DEF FrameOK, Later, InOrder, Released, Room, Never, Followed, Life, Has, OpsOf, Services, AIKinds, PodKinds,
       UserKinds

(* The frames after a step of call c that leaves it as g. *)
LEMMA FramesStep ==
  ASSUME Frames, NEW c \in Callers, NEW g, call' = [call EXCEPT ![c] = g], UNCHANGED world,
         FrameOK(Plan(c), g)
  PROVE  Frames'
<1>1. call' = [d \in Callers |-> call'[d]] /\ call'[c] = g /\ \A d \in Callers \ {c} : call'[d] = call[d]
  BY DEF Frames
<1>2. ASSUME NEW d \in Callers PROVE FrameOK(Plan(d), call[d])'
  <2>1. PICK p : p = Plan(d)
    OBVIOUS
  <2>2. PICK f : f = call'[d]
    OBVIOUS
  <2>3. FrameOK(p, f)
    BY <1>1, <2>1, <2>2 DEF Frames
  <2>4. FrameOK(p, f)' /\ p = Plan(d)'
    BY <2>1, <2>3, FrameConstant DEF Plan
  <2> QED BY <2>2, <2>4
<1> QED BY <1>1, <1>2 DEF Frames

(* No service has more holders when a call gives slots back. *)
LEMMA SlotsShrink ==
  ASSUME Frames, SlotsOK, NEW c \in Callers, NEW g, call' = [call EXCEPT ![c] = g],
         g.held \subseteq call[c].held
  PROVE  SlotsOK'
<1>1. ASSUME NEW s \in Services PROVE Cardinality(Holders(s))' <= Capacity
  <2>1. Holders(s)' \subseteq Holders(s) /\ Holders(s) \subseteq Callers
    BY DEF Holders, Frames
  <2>2. IsFiniteSet(Holders(s))
    BY <2>1, CallersFinite, FS_Subset
  <2>3. Cardinality(Holders(s)') <= Cardinality(Holders(s)) /\ Cardinality(Holders(s)') \in Nat
        /\ Cardinality(Holders(s)) \in Nat
    BY <2>1, <2>2, FS_Subset, FS_CardinalityType
  <2> QED BY <2>3, LimitsPositive DEF SlotsOK
<1> QED BY <1>1 DEF SlotsOK, Services

(* Windows count admissions only. *)
LEMMA WindowsSame ==
  ASSUME WindowsOK, UNCHANGED world, \A d \in Callers : hist'[d].admitted = hist[d].admitted
  PROVE  WindowsOK'
<1>1. ASSUME NEW d \in Callers PROVE SameWindow(d)' = SameWindow(d)
  BY DEF SameWindow, Plan
<1> QED BY <1>1 DEF WindowsOK

(* A step of call c that changes no store the calls have read from. *)
LEMMA CallStep ==
  ASSUME WorkloadInv, NEW c \in Callers, NEW g, NEW k,
         call' = [call EXCEPT ![c] = g], hist' = [hist EXCEPT ![c] = k],
         Quiet,
         FrameOK(Plan(c), g), SlotsOK',
         PastOK(c, Plan(c), g, k), k.admitted = hist[c].admitted
  PROVE  RequestsOK'
<1>1. Frames'
  BY FramesStep DEF WorkloadInv, RequestsOK, Quiet
<1>2. /\ hist' = [d \in Callers |-> hist'[d]] /\ hist'[c] = k /\ call'[c] = g
      /\ \A d \in Callers \ {c} : hist'[d] = hist[d] /\ call'[d] = call[d]
  BY DEF WorkloadInv, RequestsOK, Frames, Histories
<1>3. WindowsOK'
  BY <1>2, WindowsSame DEF WorkloadInv, RequestsOK, Quiet
<1>4. ASSUME NEW d \in Callers PROVE PastOK(d, Plan(d), call[d], hist[d])'
  <2>1. PICK p : p = Plan(d)
    OBVIOUS
  <2>2. PICK f : f = call'[d]
    OBVIOUS
  <2>3. PICK h : h = hist'[d]
    OBVIOUS
  <2>4. PastOK(d, p, f, h)
    BY <1>2, <2>1, <2>2, <2>3 DEF WorkloadInv, RequestsOK, Histories
  <2>5. PastOK(d, p, f, h)' /\ p = Plan(d)'
    BY <2>1, <2>4, PastKept DEF Plan, Quiet
  <2> QED BY <2>2, <2>3, <2>5
<1> QED BY <1>1, <1>2, <1>3, <1>4 DEF RequestsOK, Histories

(* What is known of a call that is at an operation. *)
LEMMA AtOperation ==
  ASSUME WorkloadInv, NEW c \in Callers, NEW op, At(c, op)
  PROVE  /\ Plan(c) \in Request /\ FrameOK(Plan(c), call[c]) /\ PastOK(c, Plan(c), call[c], hist[c])
         /\ call[c].out = "pending" /\ hist[c].begun /\ call[c].todo # <<>>
         /\ Head(call[c].todo)[1] = op /\ op \in OpsOf(Plan(c).kind)
         /\ hist = [hist EXCEPT ![c] = hist[c]]
<1>1. /\ Plan(c) \in Request /\ FrameOK(Plan(c), call[c]) /\ PastOK(c, Plan(c), call[c], hist[c])
      /\ call[c].out = "pending" /\ hist[c].begun /\ call[c].todo # <<>>
      /\ Head(call[c].todo)[1] = op /\ hist = [hist EXCEPT ![c] = hist[c]]
  BY DEF WorkloadInv, WorldOK, RequestsOK, Frames, Histories, Plan, At, FrameOK
<1>2. PICK s : s = call[c].todo
  OBVIOUS
<1>3. PICK kind : kind = Plan(c).kind
  OBVIOUS
<1>4. InOrder(kind, s) /\ s # <<>>
  BY <1>1, <1>2, <1>3 DEF FrameOK
<1>5. Head(s) = s[1] /\ s[1] \in OpsOf(kind) \X (Services \cup {"none"})
  BY <1>4, OrderOfTail
<1> QED BY <1>1, <1>2, <1>3, <1>5

(* An early return. *)
LEMMA RefuseStep ==
  ASSUME WorkloadInv, NEW c \in Callers, NEW op, At(c, op), NEW code, Refuse(c, code),
         code \in Codes \/ (code = "changed" /\ hist[c].versions \ {Nothing, Plan(c).etag} # {}),
         hist' = hist, Quiet
  PROVE  RequestsOK'
<1>1. PICK g : g = Refusal(code)
  OBVIOUS
<1>2. PICK k : k = hist[c]
  OBVIOUS
<1>3. Plan(c) \in Request /\ PastOK(c, Plan(c), call[c], k) /\ k.begun /\ hist' = [hist EXCEPT ![c] = k]
  BY <1>2, AtOperation
<1>4. call' = [call EXCEPT ![c] = g]
  BY <1>1 DEF Refuse, Refusal
<1>5. FrameOK(Plan(c), g) /\ g.todo = <<>> /\ g.held = {} /\ g.out = code
  BY <1>1, <1>3, FrameRefused DEF Codes
<1>6. PastOK(c, Plan(c), g, k)
  BY <1>2, <1>3, <1>5, PastRefused DEF Codes
<1>7. SlotsOK'
  BY <1>4, <1>5, SlotsShrink DEF WorkloadInv, RequestsOK
<1> QED BY <1>2, <1>3, <1>4, <1>5, <1>6, <1>7, CallStep

(* Frame e is f with other fields; what it holds is released later. *)
Framed(f, e) ==
  /\ e = [todo |-> f.todo, at |-> e.at, lease |-> e.lease, seen |-> e.seen, held |-> e.held,
          exp |-> e.exp, out |-> "pending"]
  /\ e.held \subseteq f.held /\ \A x \in e.held : Head(f.todo) # <<"release", x>>

(* Frame e is f, but for what was seen. *)
Same(f, e) ==
  e = [todo |-> f.todo, at |-> f.at, lease |-> f.lease, seen |-> e.seen, held |-> f.held,
       exp |-> f.exp, out |-> "pending"]

(* An operation that is done; e is the frame it leaves, k the history. *)
LEMMA ContinueStep ==
  ASSUME WorkloadInv, NEW c \in Callers, NEW op, At(c, op), NEW e, NEW k,
         Continue(c, e), hist' = [hist EXCEPT ![c] = k],
         Quiet,
         Framed(call[c], e),
         Life(Plan(c), e.at, e.lease, e.exp, Tail(call[c].todo)),
         Learns(op, hist[c], k), Looks(op)
  PROVE  RequestsOK'
<1>1. PICK f : f = call[c]
  OBVIOUS
<1>2. PICK g : g = After(e)
  OBVIOUS
<1>3. PICK h : h = hist[c]
  OBVIOUS
<1>4. PICK p : p = Plan(c)
  OBVIOUS
<1>5. /\ p \in Request /\ FrameOK(p, f) /\ PastOK(c, p, f, h) /\ f.out = "pending" /\ h.begun
      /\ op = Head(f.todo)[1]
  BY <1>1, <1>3, <1>4, AtOperation
<1>6. call' = [call EXCEPT ![c] = g]
  BY <1>2 DEF Continue, After
<1>7. \A x \in e.held : Later(Tail(f.todo), x)
  <2>1. \A x \in e.held : x \in f.held /\ Head(f.todo) # <<"release", x>>
    BY <1>1 DEF Framed
  <2>2. \A x \in f.held : Head(f.todo) # <<"release", x>> => Later(Tail(f.todo), x)
    BY <1>5, ReleasesLeft
  <2> QED BY <2>1, <2>2
<1>8. Life(p, e.at, e.lease, e.exp, Tail(f.todo))
      /\ e = [todo |-> f.todo, at |-> e.at, lease |-> e.lease, seen |-> e.seen, held |-> e.held,
              exp |-> e.exp, out |-> "pending"]
  BY <1>1, <1>4 DEF Framed
<1>9. FrameOK(p, g) /\ g.todo = Tail(f.todo) /\ g.held = e.held /\ g.out \in {"pending", "granted"}
  <2>1. /\ FrameOK(p, After(e)) /\ After(e).todo = Tail(f.todo) /\ After(e).held = e.held
        /\ After(e).out \in {"pending", "granted"}
    BY ONLY <1>5, <1>7, <1>8, FrameAfter
  <2> QED BY <1>2, <2>1
<1>10. PastOK(c, p, g, k)
  <2>1. Learns(op, h, k)
    BY <1>3
  <2>2. g.todo = Tail(f.todo) /\ g.out \in {"pending", "granted"}
    BY <1>9
  <2> QED BY <1>5, <2>1, <2>2, PastAfter
<1>11. FrameOK(Plan(c), g) /\ g.held \subseteq call[c].held /\ PastOK(c, Plan(c), g, k)
  BY <1>4, <1>9, <1>10 DEF Framed
<1>12. k.admitted = hist[c].admitted
  BY DEF Learns
<1>13. SlotsOK'
  BY <1>6, <1>11, SlotsShrink DEF WorkloadInv, RequestsOK
<1> QED BY <1>6, <1>11, <1>12, <1>13, CallStep

(* An operation that only looks. *)
LEMMA PlainStep ==
  ASSUME WorkloadInv, NEW c \in Callers, NEW op, At(c, op), NEW e, Continue(c, e),
         hist' = hist, Quiet,
         Same(call[c], e),
         op \notin {"ask", "release", "lease", "userLease"}, Looks(op)
  PROVE  RequestsOK'
<1>1. PICK k : k = hist[c]
  OBVIOUS
<1>2. /\ hist' = [hist EXCEPT ![c] = k] /\ FrameOK(Plan(c), call[c]) /\ call[c].out = "pending"
      /\ Head(call[c].todo)[1] = op /\ PastOK(c, Plan(c), call[c], k)
  BY <1>1, AtOperation
<1>3. Learns(op, hist[c], k)
  BY <1>1, <1>2 DEF PastOK, Learns
<1>4. e.at = call[c].at /\ e.lease = call[c].lease /\ e.held = call[c].held /\ e.exp = call[c].exp
  BY DEF Same
<1>5. Life(Plan(c), e.at, e.lease, e.exp, Tail(call[c].todo))
  BY <1>2, <1>4, LifeAfter
<1>6. \A x \in e.held : Head(call[c].todo) # <<"release", x>>
  BY <1>2
<1>7. Framed(call[c], e)
  BY <1>4, <1>6 DEF Same, Framed
<1> QED BY <1>2, <1>3, <1>5, <1>7, ContinueStep

(* The parts of the invariant that a step leaves alone. *)
LEMMA RestKept ==
  ASSUME WorkloadInv, UNCHANGED <<world, binding, attempts, account, roles, given>>
  PROVE  WorldOK' /\ ReplayKeepsRoles'
<1>1. WorldOK'
  BY DEF WorkloadInv, WorldOK, Request, Ids, Services
<1>2. ReplayKeepsRoles'
  BY DEF WorkloadInv, ReplayKeepsRoles, Exists
<1> QED BY <1>1, <1>2

LEMMA KeysKept ==
  ASSUME KeysOK, UNCHANGED <<clock, issuer, withdrawn, cache, fetch>>
  PROVE  KeysOK'
BY DEF KeysOK, Free

----------------------------------------------------------------------------
(* Verification *)

(* Verify accepts: the lease, where there is one, is counted later. *)
LEMMA AcceptStep ==
  ASSUME WorkloadInv, NEW c \in Callers, At(c, "verify"), Accept(c),
         withdrawn[Plan(c).kid] # Nothing => clock - withdrawn[Plan(c).kid] < CacheTTL + FetchTimeout,
         UNCHANGED <<environment, stores, storage, accounts>>
  PROVE  RequestsOK'
<1>1. Quiet
  BY DEF Quiet, environment, stores, storage, accounts
<1>2. /\ Plan(c) \in Request /\ FrameOK(Plan(c), call[c]) /\ PastOK(c, Plan(c), call[c], hist[c])
      /\ call[c].out = "pending" /\ Head(call[c].todo)[1] = "verify" /\ "verify" \in OpsOf(Plan(c).kind)
  BY AtOperation
<1>3. CASE Plan(c).exp > clock /\ ClaimsValid(c)
  <2>1. PICK e : e = [call[c] EXCEPT !.at = clock]
    OBVIOUS
  <2>2. PICK x : x = IF withdrawn[Plan(c).kid] = Nothing THEN 0 ELSE clock - withdrawn[Plan(c).kid]
    OBVIOUS
  <2>3. PICK k : k = [hist[c] EXCEPT !.stale = x]
    OBVIOUS
  <2>4. x \in Int /\ x < CacheTTL + FetchTimeout /\ clock \in Int
    <3>1. Plan(c).kid \in Kids
      BY <1>2 DEF Request
    <3>2. clock \in Nat /\ (withdrawn[Plan(c).kid] # Nothing => withdrawn[Plan(c).kid] \in Nat)
      BY <3>1 DEF WorkloadInv, KeysOK
    <3> QED BY <2>2, <3>2, DurationsPositive
  <2>5. Continue(c, e) /\ hist' = [hist EXCEPT ![c] = k]
    <3>1. hist' = [hist EXCEPT ![c].stale = x] /\ Continue(c, e)
      BY <1>3, <2>1, <2>2 DEF Accept
    <3> QED BY <2>3, <3>1
  <2>6. Learns("verify", hist[c], k)
    BY <1>2, <2>3, <2>4 DEF PastOK, Learns, HistoryShape
  <2>7. /\ e = [todo |-> call[c].todo, at |-> e.at, lease |-> e.lease, seen |-> e.seen, held |-> e.held,
                exp |-> e.exp, out |-> "pending"]
        /\ e.at = clock /\ e.lease = call[c].lease /\ e.exp = call[c].exp /\ e.held = call[c].held
    BY <1>2, <2>1 DEF FrameOK
  <2>8. Life(Plan(c), call[c].at, call[c].lease, call[c].exp, Tail(call[c].todo))
    BY <1>2, LifeAfter
  <2>9. /\ Plan(c).kind # "aiUser"
        /\ Plan(c).kind \in {"ai", "delegated"} => Has(Tail(call[c].todo), "lease")
    <3>1. Plan(c).kind # "aiUser"
      BY <1>2 DEF OpsOf
    <3>2. PICK s : s = call[c].todo
      OBVIOUS
    <3>3. PICK kind : kind = Plan(c).kind
      OBVIOUS
    <3>4. InOrder(kind, s) /\ s # <<>> /\ Head(s)[1] = "verify"
      BY <1>2, <3>2, <3>3 DEF FrameOK
    <3>5. Len(s) \in Nat \ {0} /\ Head(s) = s[1] /\ (Has(s, "lease") => s[1][1] = "lease" \/ Has(Tail(s), "lease"))
      BY <3>4, OrderOfTail
    <3>6. ASSUME kind \in {"ai", "delegated"} PROVE Has(s, "lease")
      <4>1. Followed(s, "verify", "lease")
        BY <3>4, <3>6 DEF InOrder
      <4> QED BY <3>4, <3>5, <4>1 DEF Followed, Has
    <3> QED BY <3>1, <3>2, <3>3, <3>4, <3>5, <3>6
  <2>10. Life(Plan(c), e.at, e.lease, e.exp, Tail(call[c].todo))
    BY <2>4, <2>7, <2>8, <2>9 DEF Life
  <2>11. \A y \in e.held : Head(call[c].todo) # <<"release", y>>
    BY <1>2
  <2>12. Framed(call[c], e) /\ Looks("verify")
    BY <2>7, <2>11 DEF Framed, Looks
  <2> QED BY <1>1, <2>5, <2>6, <2>10, <2>12, ContinueStep
<1>4. CASE ~(Plan(c).exp > clock /\ ClaimsValid(c))
  <2>1. Refuse(c, "invalid") /\ UNCHANGED hist
    BY <1>4 DEF Accept
  <2> QED BY <1>1, <2>1, RefuseStep DEF Codes
<1> QED BY <1>3, <1>4

(* No call moves, and no store that calls have read from. *)
LEMMA CallsStay ==
  ASSUME WorkloadInv, Quiet, UNCHANGED <<call, hist>>
  PROVE  RequestsOK'
<1>1. ASSUME NEW d \in Callers
      PROVE  FrameOK(Plan(d), call[d])' /\ PastOK(d, Plan(d), call[d], hist[d])'
  <2>1. PICK p : p = Plan(d)
    OBVIOUS
  <2>2. PICK f : f = call[d]
    OBVIOUS
  <2>3. PICK h : h = hist[d]
    OBVIOUS
  <2>4. FrameOK(p, f) /\ PastOK(d, p, f, h)
    BY <2>1, <2>2, <2>3 DEF WorkloadInv, RequestsOK, Frames, Histories
  <2>5. FrameOK(p, f)' /\ PastOK(d, p, f, h)' /\ p = Plan(d)' /\ f = call[d]' /\ h = hist[d]'
    BY <2>1, <2>2, <2>3, <2>4, PastKept, FrameConstant DEF Plan, Quiet
  <2> QED BY <2>5
<1>2. Frames' /\ Histories'
  BY <1>1 DEF WorkloadInv, RequestsOK, Frames, Histories
<1>3. SlotsOK'
  BY DEF WorkloadInv, RequestsOK, SlotsOK, Holders, Services
<1>4. WindowsOK'
  BY WindowsSame DEF WorkloadInv, RequestsOK, Quiet
<1> QED BY <1>2, <1>3, <1>4 DEF RequestsOK

(* The verifier: cached keys, refreshes and the keys they bring. *)
LEMMA VerifyingStep ==
  ASSUME WorkloadInv, NEW c \in Callers, Verifying(c),
         UNCHANGED <<environment, stores, storage, accounts>>
  PROVE  WorkloadInv'
<1>1. Quiet /\ clock' = clock
  BY DEF Quiet, environment, stores, storage, accounts
<1>2. WorldOK' /\ ReplayKeepsRoles'
  BY RestKept DEF environment, stores, storage, accounts
<1>3. KeysOK /\ Nothing \notin Callers
  BY CallersFinite DEF WorkloadInv
<1>4. At(c, "verify") => Plan(c) \in Request /\ Plan(c).kid \in Kids
  BY AtOperation DEF Request
<1>5. CASE CachedKey(c)
  <2>1. At(c, "verify") /\ Accept(c) /\ clock < cache.expires /\ Plan(c).kid \in cache.keys
    BY <1>5 DEF CachedKey, Current
  <2>2. KeysOK'
    BY <1>1, <1>3, <1>5, KeysKept DEF CachedKey, keys
  <2>3. withdrawn[Plan(c).kid] # Nothing => clock - withdrawn[Plan(c).kid] < CacheTTL + FetchTimeout
    BY <1>3, <1>4, <2>1, DurationsPositive DEF KeysOK
  <2> QED BY <1>2, <2>1, <2>2, <2>3, AcceptStep DEF WorkloadInv
<1>6. CASE UnknownKey(c)
  <2>1. KeysOK'
    BY <1>1, <1>3, <1>6, KeysKept DEF UnknownKey, keys
  <2>2. At(c, "verify") /\ Refuse(c, "invalid") /\ hist' = hist
    BY <1>6 DEF UnknownKey
  <2>3. RequestsOK'
    BY <1>1, <2>2, RefuseStep DEF Codes
  <2> QED BY <1>2, <2>1, <2>3 DEF WorkloadInv
<1>7. CASE StartRefresh(c)
  <2>1. KeysOK'
    BY <1>1, <1>3, <1>7, DurationsPositive DEF StartRefresh, KeysOK, Free
  <2> QED BY <1>1, <1>2, <1>7, <2>1, CallsStay DEF StartRefresh, requests, WorkloadInv
<1>8. CASE Abandon(c)
  <2>1. KeysOK'
    BY <1>1, <1>3, <1>8, KeysKept DEF Abandon, keys
  <2>2. At(c, "verify") /\ Refuse(c, "unavailable") /\ hist' = hist
    BY <1>8 DEF Abandon
  <2>3. RequestsOK'
    BY <1>1, <2>2, RefuseStep DEF Codes
  <2> QED BY <1>2, <2>1, <2>3 DEF WorkloadInv
<1>9. CASE ServeKeys(c)
  <2>1. fetch # Free
    BY <1>3, <1>9 DEF ServeKeys, Free
  <2>2. KeysOK'
    BY <1>1, <1>3, <1>9, <2>1 DEF ServeKeys, KeysOK, Free
  <2> QED BY <1>1, <1>2, <1>9, <2>2, CallsStay DEF ServeKeys, requests, WorkloadInv
<1>10. CASE StoreKeys(c)
  <2>1. At(c, "verify") /\ fetch # Free /\ fetch.doc # Nothing
    BY <1>3, <1>10 DEF StoreKeys, Free
  <2>2. /\ clock \in Nat /\ fetch.due \in Nat /\ clock <= fetch.due
        /\ \A k \in Kids : withdrawn[k] # Nothing => withdrawn[k] \in Nat
        /\ \A k \in Kids : k \in fetch.doc /\ withdrawn[k] # Nothing => fetch.due <= withdrawn[k] + FetchTimeout
    BY <1>3, <2>1 DEF KeysOK
  <2>3. \A k \in Kids : k \in fetch.doc /\ withdrawn[k] # Nothing =>
          /\ clock + CacheTTL <= withdrawn[k] + CacheTTL + FetchTimeout
          /\ clock - withdrawn[k] < CacheTTL + FetchTimeout
    BY <2>2, DurationsPositive
  <2>4. KeysOK'
    <3>1. /\ cache'.keys = fetch.doc /\ cache'.expires = clock + CacheTTL /\ fetch' = Free
          /\ UNCHANGED <<issuer, withdrawn>>
      BY <1>10 DEF StoreKeys
    <3>2. cache'.expires \in Nat /\ cache'.expires <= clock + CacheTTL
      BY <2>2, <3>1, DurationsPositive
    <3>3. \A k \in Kids : k \in cache'.keys /\ withdrawn[k] # Nothing =>
            cache'.expires <= withdrawn[k] + CacheTTL + FetchTimeout
      BY <2>3, <3>1
    <3> QED BY <1>1, <1>3, <3>1, <3>2, <3>3 DEF KeysOK, Free
  <2>5. CASE Plan(c).kid \in fetch.doc
    <3>1. Accept(c)
      BY <1>10, <2>5 DEF StoreKeys
    <3>2. withdrawn[Plan(c).kid] # Nothing => clock - withdrawn[Plan(c).kid] < CacheTTL + FetchTimeout
      BY <1>4, <2>1, <2>3, <2>5
    <3> QED BY <1>2, <2>1, <2>4, <3>1, <3>2, AcceptStep DEF WorkloadInv
  <2>6. CASE Plan(c).kid \notin fetch.doc
    <3>1. Refuse(c, "invalid") /\ hist' = hist
      BY <1>10, <2>6 DEF StoreKeys
    <3>2. RequestsOK'
      BY <1>1, <2>1, <3>1, RefuseStep DEF Codes
    <3> QED BY <1>2, <2>4, <3>2 DEF WorkloadInv
  <2> QED BY <2>5, <2>6
<1>11. CASE FailRefresh(c)
  <2>1. At(c, "verify") /\ Refuse(c, "unavailable") /\ hist' = hist /\ fetch' = Free
        /\ UNCHANGED <<issuer, withdrawn, cache>>
    BY <1>11 DEF FailRefresh
  <2>2. KeysOK'
    BY <1>1, <1>3, <2>1 DEF KeysOK, Free
  <2>3. RequestsOK'
    BY <1>1, <2>1, RefuseStep DEF Codes
  <2> QED BY <1>2, <2>2, <2>3 DEF WorkloadInv
<1> QED BY <1>5, <1>6, <1>7, <1>8, <1>9, <1>10, <1>11 DEF Verifying

----------------------------------------------------------------------------
(* Exchanges *)

(* Nothing but the calls has changed. *)
LEMMA StoresStay ==
  ASSUME WorkloadInv, RequestsOK', UNCHANGED <<environment, keys, stores, storage, accounts>>
  PROVE  WorkloadInv'
<1>1. WorldOK' /\ ReplayKeepsRoles'
  BY RestKept DEF environment, stores, accounts
<1>2. KeysOK'
  BY KeysKept DEF WorkloadInv, environment, keys
<1> QED BY <1>1, <1>2 DEF WorkloadInv

(* An operation that looks, and goes on or refuses. *)
LEMMA LookStep ==
  ASSUME WorkloadInv, NEW c \in Callers, NEW op, At(c, op),
         op \notin {"ask", "release", "lease", "userLease"},
         UNCHANGED <<environment, keys, stores, storage, accounts>>, hist' = hist,
         (Continue(c, call[c]) /\ Looks(op)) \/ \E code \in Codes : Refuse(c, code)
  PROVE  WorkloadInv'
<1>1. Quiet
  BY DEF Quiet, environment, stores, storage, accounts
<1>2. CASE Continue(c, call[c]) /\ Looks(op)
  <2>1. PICK e : e = call[c]
    OBVIOUS
  <2>2. Same(call[c], e)
    BY <2>1, AtOperation DEF Same, FrameOK
  <2>3. Continue(c, e)
    BY <1>2, <2>1
  <2>4. RequestsOK'
    BY <1>1, <1>2, <2>2, <2>3, PlainStep
  <2> QED BY <2>4, StoresStay
<1>3. CASE \E code \in Codes : Refuse(c, code)
  <2>1. RequestsOK'
    BY <1>1, <1>3, RefuseStep
  <2> QED BY <2>1, StoresStay
<1> QED BY <1>2, <1>3

(* A slot is taken only while one is free. *)
LEMMA TakeSlotStep ==
  ASSUME WorkloadInv, NEW c \in Callers, TakeSlot(c), UNCHANGED <<environment, storage, accounts>>
  PROVE  WorkloadInv'
<1>1. Quiet /\ UNCHANGED <<environment, keys, stores, storage, accounts>> /\ At(c, "slot") /\ hist' = hist
  BY DEF TakeSlot, Quiet, environment, keys, stores, storage, accounts
<1>2. CASE Cardinality(Holders(Service(c))) < Capacity
  <2>1. PICK f : f = call[c]
    OBVIOUS
  <2>2. PICK p : p = Plan(c)
    OBVIOUS
  <2>3. PICK k : k = hist[c]
    OBVIOUS
  <2>4. PICK x : x = Service(c)
    OBVIOUS
  <2>5. /\ p \in Request /\ FrameOK(p, f) /\ PastOK(c, p, f, k) /\ k.begun /\ f.out = "pending"
        /\ Head(f.todo)[1] = "slot" /\ hist' = [hist EXCEPT ![c] = k]
    BY <1>1, <2>1, <2>2, <2>3, AtOperation
  <2>6. x = Head(f.todo)[2]
    BY <2>1, <2>4 DEF Service
  <2>7. PICK e : e = [f EXCEPT !.held = @ \cup {x}]
    OBVIOUS
  <2>8. /\ e = [todo |-> f.todo, at |-> e.at, lease |-> e.lease, seen |-> e.seen, held |-> e.held,
                exp |-> e.exp, out |-> "pending"]
        /\ e.at = f.at /\ e.lease = f.lease /\ e.exp = f.exp /\ e.held = f.held \cup {x}
    BY <2>5, <2>7 DEF FrameOK
  <2>9. Life(p, e.at, e.lease, e.exp, Tail(f.todo))
    BY <2>5, <2>8, LifeAfter
  <2>10. \A y \in e.held : Later(Tail(f.todo), y)
    <3>1. /\ \A y \in f.held : Head(f.todo) # <<"release", y>> => Later(Tail(f.todo), y)
          /\ Later(Tail(f.todo), Head(f.todo)[2])
      BY <2>5, ReleasesLeft
    <3> QED BY <2>5, <2>6, <2>8, <3>1
  <2>11. PICK g : g = After(e)
    OBVIOUS
  <2>12. FrameOK(p, g) /\ g.todo = Tail(f.todo) /\ g.held = e.held /\ g.out \in {"pending", "granted"}
    <3>1. /\ FrameOK(p, After(e)) /\ After(e).todo = Tail(f.todo) /\ After(e).held = e.held
          /\ After(e).out \in {"pending", "granted"}
      BY ONLY <2>5, <2>8, <2>9, <2>10, FrameAfter
    <3> QED BY <2>11, <3>1
  <2>13. call' = [call EXCEPT ![c] = g]
    BY <1>1, <1>2, <2>1, <2>4, <2>7, <2>11 DEF TakeSlot, Continue, After
  <2>14. Learns("slot", k, k) /\ Looks("slot")
    BY <2>5 DEF PastOK, Learns, Looks
  <2>15. PastOK(c, p, g, k)
    BY <2>5, <2>12, <2>14, PastAfter
  <2>16. SlotsOK'
    <3>1. SUFFICES ASSUME NEW s \in Services PROVE Cardinality(Holders(s)') <= Capacity
      BY DEF SlotsOK, Services
    <3>2. /\ Holders(s)' \subseteq Holders(s) \cup (IF s = x THEN {c} ELSE {}) /\ Holders(s) \subseteq Callers
      BY <2>1, <2>8, <2>12, <2>13 DEF Holders, WorkloadInv, RequestsOK, Frames
    <3>3. IsFiniteSet(Holders(s)) /\ Cardinality(Holders(s)) \in Nat
      BY <3>2, CallersFinite, FS_Subset, FS_CardinalityType
    <3>4. CASE s = x
      <4>1. IsFiniteSet(Holders(s) \cup {c}) /\ Cardinality(Holders(s) \cup {c}) <= Cardinality(Holders(s)) + 1
        <5>1. PICK H : H = Holders(s)
          OBVIOUS
        <5>2. IsFiniteSet(H) /\ Cardinality(H) \in Nat
          BY <3>3, <5>1
        <5>3. /\ IsFiniteSet(H \cup {c})
              /\ Cardinality(H \cup {c}) = IF c \in H THEN Cardinality(H) ELSE Cardinality(H) + 1
          BY <5>2, FS_AddElement
        <5>4. Cardinality(H \cup {c}) <= Cardinality(H) + 1
          BY <5>2, <5>3
        <5> QED BY <5>1, <5>3, <5>4
      <4>2. Holders(s)' \subseteq Holders(s) \cup {c}
        BY <3>2, <3>4
      <4>3. Cardinality(Holders(s)') <= Cardinality(Holders(s) \cup {c})
            /\ Cardinality(Holders(s)') \in Nat /\ Cardinality(Holders(s) \cup {c}) \in Nat
        <5>1. Holders(s)' \in SUBSET (Holders(s) \cup {c})
          BY <4>2
        <5> QED BY <4>1, <5>1, FS_Subset, FS_CardinalityType
      <4>4. Cardinality(Holders(s)) < Capacity
        <5>1. Cardinality(Holders(x)) < Capacity
          BY <1>2, <2>4
        <5> QED BY <3>4, <5>1
      <4> QED BY <3>3, <4>1, <4>3, <4>4, LimitsPositive
    <3>5. CASE s # x
      <4>1. Holders(s)' \subseteq Holders(s)
        BY <3>2, <3>5
      <4>2. Cardinality(Holders(s)') <= Cardinality(Holders(s)) /\ Cardinality(Holders(s)') \in Nat
        BY <3>3, <4>1, FS_Subset, FS_CardinalityType
      <4>3. Cardinality(Holders(s)) <= Capacity
        BY DEF WorkloadInv, RequestsOK, SlotsOK
      <4> QED BY <3>3, <4>2, <4>3, LimitsPositive
    <3> QED BY <3>4, <3>5
  <2>17. FrameOK(Plan(c), g) /\ PastOK(c, Plan(c), g, k) /\ k.admitted = hist[c].admitted
    BY <2>2, <2>3, <2>12, <2>15
  <2>18. RequestsOK'
    BY <1>1, <2>5, <2>13, <2>16, <2>17, CallStep
  <2> QED BY <1>1, <2>18, StoresStay
<1>3. CASE ~(Cardinality(Holders(Service(c))) < Capacity)
  <2>1. Refuse(c, "busy")
    BY <1>3 DEF TakeSlot
  <2>2. RequestsOK'
    BY <1>1, <2>1, RefuseStep DEF Codes
  <2> QED BY <1>1, <2>2, StoresStay
<1> QED BY <1>2, <1>3

(* A slot is returned: the frame holds one less. *)
LEMMA ReleaseSlotStep ==
  ASSUME WorkloadInv, NEW c \in Callers, ReleaseSlot(c), UNCHANGED <<environment, storage, accounts>>
  PROVE  WorkloadInv'
<1>1. Quiet /\ UNCHANGED <<environment, keys, stores, storage, accounts>> /\ At(c, "release") /\ hist' = hist
  BY DEF ReleaseSlot, Quiet, environment, keys, stores, storage, accounts
<1>2. PICK f : f = call[c]
  OBVIOUS
<1>3. PICK x : x = Service(c)
  OBVIOUS
<1>4. PICK k : k = hist[c]
  OBVIOUS
<1>5. /\ FrameOK(Plan(c), f) /\ PastOK(c, Plan(c), f, k) /\ f.out = "pending"
      /\ Head(f.todo)[1] = "release" /\ hist' = [hist EXCEPT ![c] = k] /\ x = Head(f.todo)[2]
  BY <1>1, <1>2, <1>3, <1>4, AtOperation DEF Service
<1>6. PICK e : e = [f EXCEPT !.held = @ \ {x}]
  OBVIOUS
<1>7. /\ e = [todo |-> f.todo, at |-> e.at, lease |-> e.lease, seen |-> e.seen, held |-> e.held,
              exp |-> e.exp, out |-> "pending"]
      /\ e.at = f.at /\ e.lease = f.lease /\ e.exp = f.exp /\ e.held = f.held \ {x}
  BY <1>5, <1>6 DEF FrameOK
<1>8. \A y \in e.held : Head(f.todo) # <<"release", y>>
  BY <1>5, <1>7
<1>9. Framed(call[c], e)
  BY <1>2, <1>7, <1>8 DEF Framed
<1>10. Life(Plan(c), f.at, f.lease, f.exp, Tail(f.todo))
  BY <1>5, LifeAfter
<1>11. Life(Plan(c), e.at, e.lease, e.exp, Tail(call[c].todo))
  BY <1>2, <1>7, <1>10
<1>12. Learns("release", hist[c], k) /\ Looks("release")
  BY <1>4, <1>5 DEF PastOK, Learns, Looks
<1>13. Continue(c, e)
  BY <1>2, <1>3, <1>6 DEF ReleaseSlot
<1>14. RequestsOK'
  BY <1>1, <1>5, <1>9, <1>11, <1>12, <1>13, ContinueStep
<1> QED BY <1>1, <1>14, StoresStay

(* The operations that read a tenant, a user or a record. *)
LEMMA ReadingStep ==
  ASSUME WorkloadInv, NEW c \in Callers, UNCHANGED <<environment, storage, accounts>>,
         ReadTenant(c) \/ ConfirmTenant(c) \/ FindUser(c) \/ ParseToken(c) \/ Permit(c) \/ LoadBinding(c)
  PROVE  WorkloadInv'
<1> USE DEF environment, keys, stores, storage, accounts
<1>1. CASE ReadTenant(c)
  <2>1. At(c, "tenant") /\ hist' = hist /\ UNCHANGED <<environment, keys, stores, storage, accounts>>
    BY <1>1 DEF ReadTenant
  <2>2. Continue(c, call[c]) \/ \E code \in Codes : Refuse(c, code)
    BY <1>1 DEF ReadTenant, Codes
  <2>3. Looks("tenant")
    BY DEF Looks
  <2> QED BY <2>1, <2>2, <2>3, LookStep
<1>2. CASE ConfirmTenant(c)
  <2>1. At(c, "confirm") /\ hist' = hist /\ UNCHANGED <<environment, keys, stores, storage, accounts>>
    BY <1>2 DEF ConfirmTenant
  <2>2. (Continue(c, call[c]) /\ Looks("confirm")) \/ \E code \in Codes : Refuse(c, code)
    BY <1>2 DEF ConfirmTenant, Codes, Looks
  <2> QED BY <2>1, <2>2, LookStep
<1>3. CASE FindUser(c)
  <2>1. At(c, "find") /\ hist' = hist /\ UNCHANGED <<environment, keys, stores, storage, accounts>>
    BY <1>3 DEF FindUser
  <2>2. Continue(c, call[c]) \/ \E code \in Codes : Refuse(c, code)
    BY <1>3 DEF FindUser, Codes
  <2>3. Looks("find")
    BY DEF Looks
  <2> QED BY <2>1, <2>2, <2>3, LookStep
<1>4. CASE Permit(c)
  <2>1. At(c, "permit") /\ hist' = hist /\ UNCHANGED <<environment, keys, stores, storage, accounts>>
    BY <1>4 DEF Permit
  <2>2. Continue(c, call[c]) \/ \E code \in Codes : Refuse(c, code)
    BY <1>4 DEF Permit, Codes
  <2>3. Looks("permit")
    BY DEF Looks
  <2> QED BY <2>1, <2>2, <2>3, LookStep
<1>5. CASE LoadBinding(c)
  <2>1. At(c, "load") /\ hist' = hist /\ UNCHANGED <<environment, keys, stores, storage, accounts>>
    BY <1>5 DEF LoadBinding
  <2>2. Continue(c, call[c]) \/ \E code \in Codes : Refuse(c, code)
    BY <1>5 DEF LoadBinding, Codes
  <2>3. Looks("load")
    BY DEF Looks
  <2> QED BY <2>1, <2>2, <2>3, LookStep
<1>6. CASE ParseToken(c)
  <2>1. At(c, "parse") /\ hist' = hist /\ UNCHANGED <<environment, keys, stores, storage, accounts>>
    BY <1>6 DEF ParseToken
  <2>2. Continue(c, call[c]) \/ \E code \in Codes : Refuse(c, code)
    BY <1>6 DEF ParseToken, Codes
  <2>3. Looks("parse")
    BY DEF Looks
  <2> QED BY <2>1, <2>2, <2>3, LookStep
<1> QED BY <1>1, <1>2, <1>3, <1>4, <1>5, <1>6

(* An authority's answer. *)
LEMMA AnsweredStep ==
  ASSUME WorkloadInv, NEW c \in Callers, NEW s, NEW failures, failures \subseteq Codes,
         Answered(c, s, failures), UNCHANGED <<environment, storage, accounts>>
  PROVE  WorkloadInv'
<1>1. Quiet /\ UNCHANGED <<environment, keys, stores, storage, accounts>> /\ At(c, "ask")
  BY DEF Answered, Quiet, environment, keys, stores, storage, accounts
<1>2. CASE Continue(c, call[c]) /\ hist' = [hist EXCEPT ![c].alive = tenant]
  <2>1. PICK e : e = call[c]
    OBVIOUS
  <2>2. PICK k : k = [hist[c] EXCEPT !.alive = tenant]
    OBVIOUS
  <2>3. /\ FrameOK(Plan(c), e) /\ PastOK(c, Plan(c), e, hist[c]) /\ e.out = "pending"
        /\ Head(e.todo)[1] = "ask"
    BY <1>1, <2>1, AtOperation
  <2>4. Learns("ask", hist[c], k) /\ Looks("ask")
    BY <2>2, <2>3 DEF PastOK, Learns, Looks, HistoryShape
  <2>5. \A x \in e.held : Head(e.todo) # <<"release", x>>
    BY <2>3
  <2>6. Framed(call[c], e)
    BY <2>1, <2>3, <2>5 DEF Framed, FrameOK
  <2>7. Life(Plan(c), e.at, e.lease, e.exp, Tail(call[c].todo))
    BY <2>1, <2>3, LifeAfter
  <2>8. Continue(c, e) /\ hist' = [hist EXCEPT ![c] = k]
    BY <1>2, <2>1, <2>2
  <2>9. RequestsOK'
    BY <1>1, <2>4, <2>6, <2>7, <2>8, ContinueStep
  <2> QED BY <1>1, <2>9, StoresStay
<1>3. CASE \E code \in failures : Refuse(c, code) /\ UNCHANGED hist
  <2>1. RequestsOK'
    BY <1>1, <1>3, RefuseStep
  <2> QED BY <1>1, <2>1, StoresStay
<1> QED BY <1>2, <1>3 DEF Answered

(* Frame e is f with another time, lease or expiry. *)
Timed(f, e) ==
  e = [todo |-> f.todo, at |-> e.at, lease |-> e.lease, seen |-> e.seen, held |-> f.held,
       exp |-> e.exp, out |-> "pending"]

(* An operation that counts a lease or signs. *)
LEMMA TimedStep ==
  ASSUME WorkloadInv, NEW c \in Callers, NEW op, At(c, op), op \notin {"ask", "release"}, Looks(op),
         NEW e, Continue(c, e), Timed(call[c], e), hist' = hist,
         Life(Plan(c), e.at, e.lease, e.exp, Tail(call[c].todo)),
         UNCHANGED <<environment, keys, stores, storage, accounts>>
  PROVE  WorkloadInv'
<1>1. Quiet
  BY DEF Quiet, environment, stores, storage, accounts
<1>2. PICK k : k = hist[c]
  OBVIOUS
<1>3. hist' = [hist EXCEPT ![c] = k] /\ PastOK(c, Plan(c), call[c], k) /\ Head(call[c].todo)[1] = op
  BY <1>2, AtOperation
<1>4. Learns(op, hist[c], k)
  BY <1>2, <1>3 DEF PastOK, Learns
<1>5. \A x \in e.held : Head(call[c].todo) # <<"release", x>>
  BY <1>3
<1>6. e.held = call[c].held
  BY DEF Timed
<1>7. Framed(call[c], e)
  BY <1>5, <1>6 DEF Timed, Framed
<1>8. RequestsOK'
  BY <1>1, <1>3, <1>4, <1>7, ContinueStep
<1> QED BY <1>8, StoresStay

LEMMA LesserBounds ==
  ASSUME NEW a \in Int, NEW b \in Int
  PROVE  Lesser(a, b) \in Int /\ Lesser(a, b) <= a /\ Lesser(a, b) <= b
BY DEF Lesser

(* exchangeAIWorkload counts the lease from the time of verification. *)
LEMMA LeaseStep ==
  ASSUME WorkloadInv, NEW c \in Callers, Lease(c), UNCHANGED <<environment, storage, accounts>>
  PROVE  WorkloadInv'
<1>1. Quiet /\ UNCHANGED <<environment, keys, stores, storage, accounts>> /\ At(c, "lease") /\ hist' = hist
  BY DEF Lease, Quiet, environment, keys, stores, storage, accounts
<1>2. PICK f : f = call[c]
  OBVIOUS
<1>3. PICK p : p = Plan(c)
  OBVIOUS
<1>4. /\ p \in Request /\ FrameOK(p, f) /\ f.out = "pending" /\ "lease" \in OpsOf(p.kind)
  BY <1>1, <1>2, <1>3, AtOperation
<1>5. p.kind \in {"ai", "delegated"}
  BY <1>4 DEF OpsOf
<1>6. PICK subject : subject = Lesser(TokenTTL, p.exp - f.at)
  OBVIOUS
<1>7. PICK lease : lease = IF p.kind = "delegated" THEN Lesser(subject, p.userExp - f.at) ELSE subject
  OBVIOUS
<1>8. f.at \in Int /\ f.exp \in Int /\ f.exp <= p.exp /\ (p.kind = "delegated" => f.exp <= p.userExp)
  BY <1>4, <1>5 DEF FrameOK, Life, PodKinds, UserKinds
<1>9. p.exp \in Nat /\ p.userExp \in Nat
  BY <1>4 DEF Request
<1>10. subject \in Int /\ subject <= p.exp - f.at
  BY <1>6, <1>8, <1>9, LimitsPositive DEF Lesser
<1>11. lease \in Int /\ lease <= p.exp - f.at /\ (p.kind = "delegated" => lease <= p.userExp - f.at)
  <2>1. PICK u : u = p.userExp - f.at
    OBVIOUS
  <2>2. u \in Int /\ Lesser(subject, u) \in Int /\ Lesser(subject, u) <= subject /\ Lesser(subject, u) <= u
    BY <1>8, <1>9, <1>10, <2>1, LesserBounds
  <2> QED BY <1>7, <1>8, <1>9, <1>10, <2>1, <2>2
<1>12. CASE lease >= 1
  <2>1. PICK e : e = [f EXCEPT !.lease = lease]
    OBVIOUS
  <2>2. Continue(c, e)
    BY <1>2, <1>3, <1>6, <1>7, <1>12, <2>1 DEF Lease
  <2>3. Timed(call[c], e) /\ e.at = f.at /\ e.lease = lease /\ e.exp = f.exp
    BY <1>2, <1>4, <2>1 DEF FrameOK, Timed
  <2>4. Life(p, f.at, lease, f.exp, Tail(f.todo))
    BY <1>5, <1>8, <1>9, <1>11 DEF Life, PodKinds, UserKinds
  <2>5. Life(Plan(c), e.at, e.lease, e.exp, Tail(call[c].todo))
    BY <1>2, <1>3, <2>3, <2>4
  <2>6. Looks("lease")
    BY DEF Looks
  <2> QED BY <1>1, <2>2, <2>3, <2>5, <2>6, TimedStep
<1>13. CASE ~(lease >= 1)
  <2>1. Refuse(c, "invalid")
    BY <1>2, <1>3, <1>6, <1>7, <1>13 DEF Lease
  <2>2. RequestsOK'
    BY <1>1, <2>1, RefuseStep DEF Codes
  <2> QED BY <1>1, <2>2, StoresStay
<1> QED BY <1>12, <1>13

(* exchangeAIUser counts it from now. *)
LEMMA UserLeaseStep ==
  ASSUME WorkloadInv, NEW c \in Callers, UserLease(c), UNCHANGED <<environment, storage, accounts>>
  PROVE  WorkloadInv'
<1>1. Quiet /\ UNCHANGED <<environment, keys, stores, storage, accounts>> /\ At(c, "userLease") /\ hist' = hist
  BY DEF UserLease, Quiet, environment, keys, stores, storage, accounts
<1>2. PICK f : f = call[c]
  OBVIOUS
<1>3. PICK p : p = Plan(c)
  OBVIOUS
<1>4. /\ p \in Request /\ FrameOK(p, f) /\ f.out = "pending" /\ "userLease" \in OpsOf(p.kind)
  BY <1>1, <1>2, <1>3, AtOperation
<1>5. p.kind = "aiUser"
  BY <1>4 DEF OpsOf
<1>6. PICK lease : lease = Lesser(TokenTTL, p.userExp - clock)
  OBVIOUS
<1>7. clock \in Nat /\ f.exp \in Int /\ f.exp <= p.userExp /\ p.userExp \in Nat
  BY <1>4, <1>5 DEF FrameOK, Life, UserKinds, Request, WorkloadInv, KeysOK
<1>8. lease \in Int /\ lease <= p.userExp - clock
  BY <1>6, <1>7, LimitsPositive DEF Lesser
<1>9. CASE lease >= 1
  <2>1. PICK e : e = [f EXCEPT !.at = clock, !.lease = lease]
    OBVIOUS
  <2>2. Continue(c, e)
    BY <1>2, <1>3, <1>6, <1>9, <2>1 DEF UserLease
  <2>3. Timed(call[c], e) /\ e.at = clock /\ e.lease = lease /\ e.exp = f.exp
    BY <1>2, <1>4, <2>1 DEF FrameOK, Timed
  <2>4. Life(p, clock, lease, f.exp, Tail(f.todo))
    BY <1>5, <1>7, <1>8 DEF Life, PodKinds, UserKinds
  <2>5. Life(Plan(c), e.at, e.lease, e.exp, Tail(call[c].todo))
    BY <1>2, <1>3, <2>3, <2>4
  <2>6. Looks("userLease")
    BY DEF Looks
  <2> QED BY <1>1, <2>2, <2>3, <2>5, <2>6, TimedStep
<1>10. CASE ~(lease >= 1)
  <2>1. Refuse(c, "invalid")
    BY <1>2, <1>3, <1>6, <1>10 DEF UserLease
  <2>2. RequestsOK'
    BY <1>1, <2>1, RefuseStep DEF Codes
  <2> QED BY <1>1, <2>2, StoresStay
<1> QED BY <1>9, <1>10

SignOps == {"sign", "signBounded", "signLogs", "signMachine", "signTopic", "signLegacy"}

(* A token whose expiry is within the tokens presented. *)
LEMMA GrantStep ==
  ASSUME WorkloadInv, NEW c \in Callers, NEW op \in SignOps, At(c, op), NEW exp \in Int, Grant(c, exp),
         Plan(c).kind \in PodKinds => exp <= Plan(c).exp,
         Plan(c).kind \in UserKinds => exp <= Plan(c).userExp,
         UNCHANGED <<environment, storage, accounts>>
  PROVE  WorkloadInv'
<1>1. UNCHANGED <<environment, keys, stores, storage, accounts>> /\ hist' = hist
  BY DEF Grant
<1>2. PICK f : f = call[c]
  OBVIOUS
<1>3. PICK p : p = Plan(c)
  OBVIOUS
<1>4. p \in Request /\ FrameOK(p, f) /\ f.out = "pending" /\ Head(f.todo)[1] = op
  BY <1>2, <1>3, AtOperation
<1>5. PICK e : e = [f EXCEPT !.exp = exp]
  OBVIOUS
<1>6. Continue(c, e)
  BY <1>2, <1>5 DEF Grant
<1>7. Timed(call[c], e) /\ e.at = f.at /\ e.lease = f.lease /\ e.exp = exp
  BY <1>2, <1>4, <1>5 DEF FrameOK, Timed
<1>8. op \notin {"lease", "userLease", "ask", "release"} /\ Looks(op)
  BY DEF SignOps, Looks
<1>9. Life(p, f.at, f.lease, f.exp, Tail(f.todo))
  BY <1>4, <1>8, LifeAfter
<1>10. Life(p, f.at, f.lease, exp, Tail(f.todo))
  BY <1>3, <1>9 DEF Life
<1>11. Life(Plan(c), e.at, e.lease, e.exp, Tail(call[c].todo))
  BY <1>2, <1>3, <1>7, <1>10
<1> QED BY <1>1, <1>6, <1>7, <1>8, <1>11, TimedStep

(* Too little of the lifetime is left. *)
LEMMA TooLateStep ==
  ASSUME WorkloadInv, NEW c \in Callers, NEW op, At(c, op), TooLate(c),
         UNCHANGED <<environment, storage, accounts>>
  PROVE  WorkloadInv'
<1>1. Quiet /\ UNCHANGED <<environment, keys, stores, storage, accounts>> /\ hist' = hist /\ Refuse(c, "expiring")
  BY DEF TooLate, Quiet, environment, keys, stores, storage, accounts
<1>2. RequestsOK'
  BY <1>1, RefuseStep DEF Codes
<1> QED BY <1>1, <1>2, StoresStay

(* Each way to sign keeps the expiry within the tokens presented. *)
LEMMA SignStep ==
  ASSUME WorkloadInv, NEW c \in Callers, Sign(c), UNCHANGED <<environment, storage, accounts>>
  PROVE  WorkloadInv'
<1>1. PICK f : f = call[c]
  OBVIOUS
<1>2. PICK p : p = Plan(c)
  OBVIOUS
<1>3. \A op : At(c, op) => /\ p \in Request /\ FrameOK(p, f) /\ f.out = "pending"
                           /\ Head(f.todo)[1] = op /\ op \in OpsOf(p.kind)
  BY <1>1, <1>2, AtOperation
<1>4. clock \in Nat /\ (p \in Request => p.exp \in Nat /\ p.userExp \in Nat)
  BY DEF WorkloadInv, KeysOK, Request
<1>5. FrameOK(p, f) => f.at \in Int /\ f.lease \in Int
  BY DEF FrameOK, Life
<1>6. p \in Request => BoundedTTL(c) \in Int /\ clock + BoundedTTL(c) <= p.exp
  BY <1>2, <1>4, LimitsPositive DEF BoundedTTL, Lesser
<1>7. CASE SignAI(c)
  <2>1. At(c, "sign") /\ Grant(c, f.at + f.lease)
    BY <1>1, <1>7 DEF SignAI, Expiry
  <2>2. /\ p \in Request /\ FrameOK(p, f) /\ f.out = "pending"
        /\ Head(f.todo)[1] = "sign" /\ "sign" \in OpsOf(p.kind)
    BY <1>3, <2>1
  <2>3. p.kind \in {"ai", "delegated", "aiUser"}
    BY <2>2 DEF OpsOf
  <2>4. ~Has(f.todo, "lease") /\ ~Has(f.todo, "userLease")
    <3>1. InOrder(p.kind, f.todo) /\ f.todo # <<>>
      BY <2>2 DEF FrameOK
    <3>2. Len(f.todo) \in Nat \ {0} /\ Head(f.todo) = f.todo[1]
      BY <3>1, OrderOfTail
    <3>3. Never(f.todo, "sign", {"lease", "userLease"})
      BY <3>1 DEF InOrder
    <3>4. \A j \in 1..Len(f.todo) : f.todo[j][1] \notin {"lease", "userLease"}
      BY <2>2, <3>2, <3>3 DEF Never
    <3> QED BY <3>4 DEF Has
  <2>5. /\ p.kind \in PodKinds => f.at + f.lease <= p.exp
        /\ p.kind \in UserKinds => f.at + f.lease <= p.userExp
    BY <2>2, <2>3, <2>4 DEF FrameOK, Life, PodKinds, UserKinds
  <2>6. f.at + f.lease \in Int /\ "sign" \in SignOps
    BY <1>5, <2>2 DEF SignOps
  <2> QED BY <1>2, <2>1, <2>5, <2>6, GrantStep
<1>8. CASE SignBinding(c)
  <2>1. At(c, "signBounded")
    BY <1>8 DEF SignBinding
  <2>2. p \in Request /\ p.kind \notin UserKinds
    BY <1>3, <2>1 DEF OpsOf, UserKinds
  <2>3. CASE BoundedTTL(c) >= MinTTL
    <3>1. PICK exp : exp = clock + BoundedTTL(c)
      OBVIOUS
    <3>2. Grant(c, exp) /\ exp \in Int /\ exp <= p.exp /\ "signBounded" \in SignOps
      BY <1>4, <1>6, <1>8, <2>2, <2>3, <3>1 DEF SignBinding, SignOps
    <3> QED BY <1>2, <2>1, <2>2, <3>2, GrantStep
  <2>4. CASE ~(BoundedTTL(c) >= MinTTL)
    <3>1. TooLate(c)
      BY <1>8, <2>4 DEF SignBinding
    <3> QED BY <2>1, <3>1, TooLateStep
  <2> QED BY <2>3, <2>4
<1>9. CASE SignLogs(c)
  <2>1. At(c, "signLogs")
    BY <1>9 DEF SignLogs
  <2>2. p \in Request /\ p.kind \notin UserKinds
    BY <1>3, <2>1 DEF OpsOf, UserKinds
  <2>3. PICK ttl : ttl = IF p.kind = "resolve" THEN Lesser(BoundedTTL(c), MachineTTL) ELSE BoundedTTL(c)
    OBVIOUS
  <2>4. ttl \in Int /\ ttl <= BoundedTTL(c)
    BY <1>6, <2>2, <2>3, LimitsPositive DEF Lesser
  <2>5. CASE ttl >= MinTTL
    <3>1. PICK exp : exp = clock + ttl
      OBVIOUS
    <3>2. exp \in Int /\ exp <= p.exp /\ "signLogs" \in SignOps
      BY <1>4, <1>6, <2>2, <2>4, <3>1 DEF SignOps
    <3>3. Grant(c, exp)
      BY <1>2, <1>9, <2>3, <2>5, <3>1 DEF SignLogs
    <3> QED BY <1>2, <2>1, <2>2, <3>2, <3>3, GrantStep
  <2>6. CASE ~(ttl >= MinTTL)
    <3>1. TooLate(c)
      BY <1>2, <1>9, <2>3, <2>6 DEF SignLogs
    <3> QED BY <2>1, <3>1, TooLateStep
  <2> QED BY <2>5, <2>6
<1>10. CASE SignMachine(c)
  <2>1. At(c, "signMachine")
    BY <1>10 DEF SignMachine
  <2>2. p \in Request /\ FrameOK(p, f) /\ p.kind \notin UserKinds
    BY <1>3, <2>1 DEF OpsOf, UserKinds
  <2>3. PICK exp : exp = f.at + MachineLease(c)
    OBVIOUS
  <2>4. exp \in Int /\ exp <= p.exp /\ "signMachine" \in SignOps
    BY <1>1, <1>2, <1>4, <1>5, <2>2, <2>3, LimitsPositive DEF MachineLease, Lesser, SignOps
  <2>5. Grant(c, exp)
    BY <1>1, <1>10, <2>3 DEF SignMachine
  <2> QED BY <1>2, <2>1, <2>2, <2>4, <2>5, GrantStep
<1>11. CASE SignTopic(c)
  <2>1. At(c, "signTopic")
    BY <1>11 DEF SignTopic
  <2>2. p.kind \notin UserKinds /\ p.kind \notin PodKinds
    BY <1>3, <2>1 DEF OpsOf, UserKinds, PodKinds
  <2>3. PICK exp : exp = clock + Lesser(MachineTTL, TokenTTL)
    OBVIOUS
  <2>4. exp \in Int /\ "signTopic" \in SignOps
    BY <1>4, <2>3, LimitsPositive DEF Lesser, SignOps
  <2>5. Grant(c, exp)
    BY <1>11, <2>3 DEF SignTopic
  <2> QED BY <1>2, <2>1, <2>2, <2>4, <2>5, GrantStep
<1>12. CASE SignLegacy(c)
  <2>1. At(c, "signLegacy")
    BY <1>12 DEF SignLegacy
  <2>2. p.kind \notin UserKinds /\ p.kind \notin PodKinds
    BY <1>3, <2>1 DEF OpsOf, UserKinds, PodKinds
  <2>3. PICK exp : exp = clock + TokenTTL
    OBVIOUS
  <2>4. exp \in Int /\ "signLegacy" \in SignOps
    BY <1>4, <2>3, LimitsPositive DEF SignOps
  <2>5. Grant(c, exp)
    BY <1>12, <2>3 DEF SignLegacy
  <2> QED BY <1>2, <2>1, <2>2, <2>4, <2>5, GrantStep
<1> QED BY <1>7, <1>8, <1>9, <1>10, <1>11, <1>12 DEF Sign

(* Frame g is f without its next n operations. *)
Jumped(f, n, id, g) == g = [f EXCEPT !.todo = SubSeq(f.todo, n + 1, Len(f.todo)), !.seen = id]

(* A step that skips the next n operations. *)
LEMMA JumpFrame ==
  ASSUME NEW p \in Request, p.kind \in {"legacy", "register"}, NEW f, FrameOK(p, f), f.out = "pending",
         NEW n \in Nat, n < Len(f.todo), NEW id, NEW g,
         Jumped(f, n, id, g)
  PROVE  /\ FrameOK(p, g) /\ g.out = "pending" /\ g.held = {} /\ f.held = {}
         /\ Len(g.todo) = Len(f.todo) - n /\ \A i \in 1..Len(g.todo) : g.todo[i] = f.todo[i + n]
         /\ \A op : Has(g.todo, op) => Has(f.todo, op)
<1> DEFINE E == OpsOf(p.kind) \X (Services \cup {"none"})
<1>1. InOrder(p.kind, f.todo) /\ f.todo \in Seq(E) /\ Len(f.todo) \in Nat
  BY DEF FrameOK, InOrder
<1>2. PICK s : s = f.todo
  OBVIOUS
<1>3. PICK t : t = SubSeq(s, n + 1, Len(s))
  OBVIOUS
<1>4. s \in Seq(E) /\ Len(s) \in Nat /\ n + 1 \in 1..Len(s) + 1 /\ Len(s) \in n..Len(s) /\ n < Len(s)
  BY <1>1, <1>2
<1>5. t \in Seq(E) /\ Len(t) = Len(s) - n /\ \A i \in 1..Len(t) : t[i] = s[i + n]
  <2>1. /\ t \in Seq(E)
        /\ Len(t) = IF n + 1 <= Len(s) THEN Len(s) - (n + 1) + 1 ELSE 0
        /\ \A i \in 1..Len(s) - (n + 1) + 1 : t[i] = s[(n + 1) + i - 1]
    BY <1>3, <1>4, SubSeqProperties
  <2>2. Len(t) = Len(s) - n /\ Len(s) - (n + 1) + 1 = Len(s) - n
    BY <1>4, <2>1
  <2>3. \A i \in 1..Len(t) : (n + 1) + i - 1 = i + n
    BY <1>4, <2>2
  <2> QED BY <2>1, <2>2, <2>3
<1>6. n \in 0..Len(s) /\ InOrder(p.kind, s)
  BY <1>1, <1>2, <1>4
<1>7. InOrder(p.kind, t) /\ \A op : Has(t, op) => Has(s, op)
  BY <1>5, <1>6, OrderOfSuffix
<1>8. t # <<>>
  BY <1>4, <1>5, EmptySeq
<1>9. f.held = {}
  <2>1. SUFFICES ASSUME NEW x \in f.held PROVE FALSE
    OBVIOUS
  <2>2. PICK i \in 1..Len(s) : s[i] = <<"release", x>>
    BY <1>2, <2>1 DEF FrameOK, Later
  <2>3. s[i] \in E /\ s[i][1] = "release"
    BY <1>4, <2>2
  <2>4. "release" \in OpsOf(p.kind)
    BY <2>3
  <2> QED BY <2>4 DEF OpsOf
<1>10. /\ g = [todo |-> t, at |-> f.at, lease |-> f.lease, seen |-> id, held |-> f.held,
              exp |-> f.exp, out |-> f.out]
  BY <1>2, <1>3 DEF FrameOK, Jumped
<1>11. /\ g = [todo |-> g.todo, at |-> g.at, lease |-> g.lease, seen |-> g.seen, held |-> g.held,
               exp |-> g.exp, out |-> g.out]
       /\ g.todo = t /\ g.at = f.at /\ g.lease = f.lease /\ g.held = {} /\ g.exp = f.exp /\ g.out = "pending"
  BY ONLY f.out = "pending", <1>9, <1>10
<1>12. Life(p, g.at, g.lease, g.exp, t)
  BY <1>11 DEF FrameOK, Life, PodKinds, UserKinds
<1>13. FrameOK(p, g)
  BY <1>7, <1>8, <1>11, <1>12 DEF FrameOK
<1> QED BY <1>2, <1>5, <1>7, <1>9, <1>11, <1>13

(* The first operation, and what it leaves room for. *)
LEMMA RoomAhead ==
  ASSUME NEW p, NEW f, FrameOK(p, f), f.out = "pending"
  PROVE  /\ Len(f.todo) \in Nat
         /\ Head(f.todo)[1] \in {"scoped", "lookup"} => 2 < Len(f.todo)
         /\ Head(f.todo)[1] \in {"unscoped", "create", "winner"} => 1 < Len(f.todo)
<1>1. PICK s : s = f.todo
  OBVIOUS
<1>2. InOrder(p.kind, s) /\ s # <<>>
  BY <1>1 DEF FrameOK
<1>3. Len(s) \in Nat \ {0} /\ Head(s) = s[1]
  BY <1>2, OrderOfTail
<1>4. Room(s)
  BY <1>2 DEF InOrder
<1> QED BY <1>1, <1>3, <1>4 DEF Room

(* A record decides a legacy request. *)
LEMMA DecideStep ==
  ASSUME WorkloadInv, NEW c \in Callers, UNCHANGED <<environment, storage, accounts>>,
         NEW op, NEW n, <<op, n>> \in {<<"scoped", 2>>, <<"unscoped", 1>>}, At(c, op), Decide(c, binding[op], n)
  PROVE  WorkloadInv'
<1>1. UNCHANGED <<environment, keys, stores, storage, accounts>> /\ hist' = hist
  BY DEF Decide, Denied
<1>2. Quiet
  BY <1>1 DEF Quiet, environment, keys, stores, storage, accounts
<1>3. (op = "scoped" /\ n = 2) \/ (op = "unscoped" /\ n = 1)
  OBVIOUS
<1>4. CASE Grants(binding[op])
  <2>1. PICK f : f = call[c]
    OBVIOUS
  <2>2. PICK p : p = Plan(c)
    OBVIOUS
  <2>3. PICK h : h = hist[c]
    OBVIOUS
  <2>4. PICK id : id = binding[op]
    OBVIOUS
  <2>5. PICK g : g = [f EXCEPT !.todo = SubSeq(f.todo, n + 1, Len(f.todo)), !.seen = id]
    OBVIOUS
  <2>6. /\ p \in Request /\ FrameOK(p, f) /\ PastOK(c, p, f, h) /\ f.out = "pending" /\ h.begun
        /\ Head(f.todo)[1] = op /\ op \in OpsOf(p.kind) /\ hist = [hist EXCEPT ![c] = h]
    BY <2>1, <2>2, <2>3, AtOperation
  <2>7. p.kind = "legacy"
    BY <1>3, <2>6 DEF OpsOf
  <2>8. call' = [call EXCEPT ![c] = g]
    <3>1. call' = [call EXCEPT ![c].todo = SubSeq(@, n + 1, Len(@)), ![c].seen = binding[op]]
      BY <1>4 DEF Decide
    <3> QED BY <2>1, <2>4, <2>5, <3>1
  <2>9. n \in Nat /\ n < Len(f.todo)
    BY <1>3, <2>6, RoomAhead
  <2>10. /\ FrameOK(p, g) /\ g.out = "pending" /\ g.held = {} /\ f.held = {}
         /\ Len(g.todo) = Len(f.todo) - n /\ \A i \in 1..Len(g.todo) : g.todo[i] = f.todo[i + n]
         /\ \A x : Has(g.todo, x) => Has(f.todo, x)
    <3>1. p.kind \in {"legacy", "register"}
      BY <2>7
    <3>2. Jumped(f, n, id, g)
      BY <2>5 DEF Jumped
    <3> QED BY <2>6, <2>9, <3>1, <3>2, JumpFrame
  <2>11. /\ h.scoped => binding["scoped"] # Nothing
         /\ op \in h.opened
         /\ \A k \in {"scoped", "unscoped"} : Grants(binding[k]) => k \in h.opened
         /\ \/ Has(f.todo, "scoped")
            \/ /\ h.begun
               /\ \/ "scoped" \in h.opened
                  \/ /\ Has(f.todo, "unscoped") \/ "unscoped" \in h.opened
                     /\ ~h.scoped /\ ~world.scopedRequired
    BY <1>3, <1>4, <2>6, <2>7 DEF PastOK, LegacyOK, Live
  <2>12. LegacyOK(p, g, h)
    <3>1. CASE op = "scoped"
      BY <2>6, <2>11, <3>1 DEF LegacyOK
    <3>2. CASE op = "unscoped"
      <4>1. Has(f.todo, "scoped") => Has(g.todo, "scoped")
        <5>1. SUFFICES ASSUME Has(f.todo, "scoped") PROVE Has(g.todo, "scoped")
          OBVIOUS
        <5>2. PICK i \in 1..Len(f.todo) : f.todo[i][1] = "scoped"
          BY <5>1 DEF Has
        <5>3. f.todo[1][1] = "unscoped" /\ Len(f.todo) \in Nat
          <6>1. InOrder(p.kind, f.todo) /\ f.todo # <<>>
            BY <2>6 DEF FrameOK
          <6>2. Head(f.todo) = f.todo[1] /\ Len(f.todo) \in Nat \ {0}
            BY <6>1, OrderOfTail
          <6> QED BY <2>6, <3>2, <6>2
        <5>4. n = 1 /\ i # 1
          BY <1>3, <3>2, <5>2, <5>3
        <5>5. i - 1 \in 1..Len(g.todo) /\ g.todo[i - 1] = f.todo[i]
          BY <2>10, <5>2, <5>3, <5>4
        <5> QED BY <5>2, <5>5 DEF Has
      <4> QED BY <2>6, <2>11, <3>2, <4>1 DEF LegacyOK
    <3> QED BY <1>3, <3>1, <3>2
  <2>13. PastOK(c, p, g, h)
    BY <2>6, <2>7, <2>10, <2>12 DEF PastOK, AliveOK, DeleteOK, UnusedOK, AdmittedOK, AIKinds
  <2>14. SlotsOK'
    BY <2>1, <2>8, <2>10, SlotsShrink DEF WorkloadInv, RequestsOK
  <2>15. FrameOK(Plan(c), g) /\ PastOK(c, Plan(c), g, h) /\ h.admitted = hist[c].admitted
         /\ hist' = [hist EXCEPT ![c] = h]
    BY <1>1, <2>2, <2>3, <2>6, <2>10, <2>13
  <2>16. RequestsOK'
    BY <1>2, <2>8, <2>14, <2>15, CallStep
  <2> QED BY <1>1, <2>16, StoresStay
<1>5. CASE ~Grants(binding[op])
  <2>1. Refuse(c, "denied")
    BY <1>5 DEF Decide, Denied
  <2>2. RequestsOK'
    BY <1>1, <1>2, <2>1, RefuseStep DEF Codes
  <2> QED BY <1>1, <2>2, StoresStay
<1> QED BY <1>4, <1>5

(* legacyBinding *)
LEMMA LegacyStep ==
  ASSUME WorkloadInv, NEW c \in Callers, ReadScoped(c) \/ ReadUnscoped(c),
         UNCHANGED <<environment, storage, accounts>>
  PROVE  WorkloadInv'
<1>1. CASE ReadUnscoped(c) /\ ~Unread(c)
  BY <1>1, DecideStep DEF ReadUnscoped
<1>2. CASE ReadScoped(c) /\ binding["scoped"] # Nothing /\ ~Unread(c)
  BY <1>2, DecideStep DEF ReadScoped
<1>3. CASE ReadScoped(c) /\ binding["scoped"] = Nothing /\ ~Unread(c)
  <2>1. At(c, "scoped")
    BY <1>3 DEF ReadScoped
  <2>2. UNCHANGED <<environment, keys, stores, storage, accounts>> /\ hist' = hist
    BY <1>3 DEF ReadScoped, Denied
  <2>3. (Continue(c, call[c]) /\ Looks("scoped")) \/ \E code \in Codes : Refuse(c, code)
    BY <1>3 DEF ReadScoped, Denied, Looks, Codes
  <2> QED BY <2>1, <2>2, <2>3, LookStep
<1>4. CASE Unread(c)
  <2>1. PICK op \in {"scoped", "unscoped"} : At(c, op)
    BY DEF ReadScoped, ReadUnscoped
  <2>2. UNCHANGED <<environment, keys, stores, storage, accounts>> /\ hist' = hist
    BY <1>4 DEF Unread
  <2>3. \E code \in Codes : Refuse(c, code)
    BY <1>4 DEF Unread, Codes
  <2> QED BY <2>1, <2>2, <2>3, LookStep
<1> QED BY <1>1, <1>2, <1>3, <1>4

(* History k is h after a record r was written. *)
Hears(h, k, r, record) ==
  /\ Grants(record) => k = [h EXCEPT !.opened = @ \cup {r}]
  /\ ~Grants(record) => k = h

(* Only record r of the stores that calls read from changes. *)
Rewrites(r, record) ==
  /\ r \in {"scoped", "unscoped"} /\ record # Nothing /\ binding' = [binding EXCEPT ![r] = record]
  /\ UNCHANGED <<world, clock, tenant, object, attempts, given, account>>

(* A record is written: the calls under way know it if it grants. *)
LEMMA PastWritten ==
  ASSUME NEW d, NEW p, NEW f, NEW h, NEW k, PastOK(d, p, f, h), WorldOK,
         NEW r, NEW record, Hears(h, k, r, record), Rewrites(r, record)
  PROVE  PastOK(d, p, f, k)' /\ k.admitted = h.admitted
<1> USE DEF Rewrites
<1>1. /\ HistoryShape(k) /\ k.stale = h.stale /\ k.begun = h.begun /\ k.alive = h.alive
      /\ k.scoped = h.scoped /\ k.versions = h.versions /\ k.removed = h.removed /\ k.admitted = h.admitted
      /\ h.opened \subseteq k.opened /\ (Grants(record) => r \in k.opened)
  <2>1. HistoryShape(h)
    BY DEF PastOK
  <2>2. CASE Grants(record)
    BY <2>1, <2>2 DEF HistoryShape, Hears
  <2>3. CASE ~Grants(record)
    BY <2>1, <2>3 DEF Hears
  <2> QED BY <2>2, <2>3
<1>2. /\ \A x \in {"scoped", "unscoped"} : x # r => binding'[x] = binding[x]
      /\ binding'[r] = record
  BY DEF WorldOK
<1>3. HistoryShape(k)' /\ (k.stale \in Int /\ k.stale < CacheTTL + FetchTimeout)'
  BY <1>1 DEF PastOK, HistoryShape
<1>4. AliveOK(p, f, k)'
  BY <1>1 DEF PastOK, AliveOK, Has, Live
<1>5. LegacyOK(p, f, k)'
  <2>1. k.scoped => binding'["scoped"] # Nothing
    BY <1>1, <1>2 DEF PastOK, LegacyOK
  <2>2. p.kind = "legacy" /\ k.begun =>
          \A x \in {"scoped", "unscoped"} : Grants(binding'[x]) => x \in k.opened
    <3>1. SUFFICES ASSUME p.kind = "legacy", k.begun, NEW x \in {"scoped", "unscoped"}, Grants(binding'[x])
                   PROVE  x \in k.opened
      OBVIOUS
    <3>2. CASE x = r
      BY <1>1, <1>2, <3>1, <3>2
    <3>3. CASE x # r
      <4>1. Grants(binding[x])
        BY <1>2, <3>1, <3>3
      <4> QED BY <1>1, <3>1, <4>1 DEF PastOK, LegacyOK
    <3> QED BY <3>2, <3>3
  <2> QED BY <1>1, <2>1, <2>2 DEF PastOK, LegacyOK, Has, Live, Grants
<1>6. DeleteOK(p, f, k)'
  BY <1>1 DEF PastOK, DeleteOK, Has, Live
<1>7. UnusedOK(d, f)'
  BY DEF PastOK, UnusedOK, Has
<1>8. AdmittedOK(d, p, f, k)'
  BY <1>1 DEF PastOK, AdmittedOK, Has
<1> QED BY <1>1, <1>3, <1>4, <1>5, <1>6, <1>7, <1>8 DEF PastOK

(* UpsertBinding or RevokeBinding writes a record: calls under way hear of it. *)
LEMMA WriteStep ==
  ASSUME WorkloadInv, NEW c \in Callers, NEW op \in {"revoke", "upsert"}, At(c, op), NEW record, record # Nothing,
         Write(c, record), UNCHANGED <<environment, storage, accounts>>
  PROVE  WorkloadInv'
<1>1. /\ UNCHANGED <<world, clock, tenant, object, attempts, given, account, roles>>
      /\ UNCHANGED <<issuer, withdrawn, cache, fetch>>
  BY DEF Write, environment, keys, stores, storage, accounts
<1>2. PICK e : e = call[c]
  OBVIOUS
<1>3. PICK p : p = Plan(c)
  OBVIOUS
<1>4. PICK h : h = hist[c]
  OBVIOUS
<1>5. PICK g : g = After(e)
  OBVIOUS
<1>6. PICK r : r = Plan(c).record
  OBVIOUS
<1>7. /\ p \in Request /\ FrameOK(p, e) /\ PastOK(c, p, e, h) /\ e.out = "pending" /\ h.begun
      /\ op = Head(e.todo)[1]
  BY <1>2, <1>3, <1>4, AtOperation
<1>8. r \in {"scoped", "unscoped"}
  BY <1>3, <1>6, <1>7 DEF Request
<1>9. call' = [call EXCEPT ![c] = g]
  BY <1>2, <1>5 DEF Write, Continue, After
<1>10. FrameOK(p, g) /\ g.todo = Tail(e.todo) /\ g.held = e.held /\ g.out \in {"pending", "granted"}
  <2>1. \A x \in e.held : Later(Tail(e.todo), x)
    <3>1. \A x \in e.held : Head(e.todo) # <<"release", x>>
      BY <1>7
    <3> QED BY <1>7, <3>1, ReleasesLeft
  <2>2. Life(p, e.at, e.lease, e.exp, Tail(e.todo))
    BY <1>7, LifeAfter
  <2>3. PICK f : f = e
    OBVIOUS
  <2>4. /\ p \in Request /\ FrameOK(p, f) /\ f.out = "pending"
        /\ e = [todo |-> f.todo, at |-> e.at, lease |-> e.lease, seen |-> e.seen, held |-> e.held,
                exp |-> e.exp, out |-> "pending"]
        /\ \A x \in e.held : Later(Tail(f.todo), x)
        /\ Life(p, e.at, e.lease, e.exp, Tail(f.todo))
    BY <1>7, <2>1, <2>2, <2>3 DEF FrameOK
  <2>5. /\ FrameOK(p, After(e)) /\ After(e).todo = Tail(f.todo) /\ After(e).held = e.held
        /\ After(e).out \in {"pending", "granted"}
    BY ONLY <2>4, FrameAfter
  <2> QED BY <1>5, <2>3, <2>5
<1>11. PastOK(c, p, g, h)
  <2>1. Learns(op, h, h) /\ Looks(op)
    BY <1>7 DEF PastOK, Learns, Looks
  <2> QED BY <1>7, <1>10, <2>1, PastAfter
<1>12. Frames'
  <2>1. FrameOK(Plan(c), g)
    BY <1>3, <1>10
  <2> QED BY <1>1, <1>9, <2>1, FramesStep DEF WorkloadInv, RequestsOK
<1>13. SlotsOK'
  BY <1>2, <1>9, <1>10, SlotsShrink DEF WorkloadInv, RequestsOK
<1>14. /\ binding' = [binding EXCEPT ![r] = record]
       /\ hist' = [d \in Callers |-> hist'[d]]
       /\ \A d \in Callers : /\ Grants(record) => hist'[d] = [hist[d] EXCEPT !.opened = @ \cup {r}]
                             /\ ~Grants(record) => hist'[d] = hist[d]
  BY <1>6 DEF Write
<1>15. ASSUME NEW d \in Callers
       PROVE  PastOK(d, Plan(d), call[d], hist[d])' /\ hist'[d].admitted = hist[d].admitted
  <2>1. PICK q : q = Plan(d)
    OBVIOUS
  <2>2. PICK f : f = call'[d]
    OBVIOUS
  <2>3. PICK y : y = hist[d]
    OBVIOUS
  <2>4. PICK k : k = hist'[d]
    OBVIOUS
  <2>5. PastOK(d, q, f, y)
    <3>1. CASE d = c
      <4>1. f = g /\ q = p /\ y = h
        BY <1>3, <1>4, <1>9, <2>1, <2>2, <2>3, <3>1 DEF WorkloadInv, RequestsOK, Frames
      <4> QED BY <1>11, <3>1, <4>1
    <3>2. CASE d # c
      <4>1. f = call[d]
        BY <1>9, <2>2, <3>2 DEF WorkloadInv, RequestsOK, Frames
      <4> QED BY <2>1, <2>3, <4>1 DEF WorkloadInv, RequestsOK, Histories
    <3> QED BY <3>1, <3>2
  <2>6. Hears(y, k, r, record)
    BY <1>14, <2>3, <2>4 DEF Hears
  <2>7. WorldOK
    BY DEF WorkloadInv
  <2>8. PastOK(d, q, f, k)' /\ k.admitted = y.admitted
    <3>1. Rewrites(r, record)
      BY <1>1, <1>8, <1>14 DEF Rewrites
    <3> QED BY <2>5, <2>6, <2>7, <3>1, PastWritten
  <2>9. q = Plan(d)'
    BY <1>1, <2>1 DEF Plan
  <2> QED BY <2>2, <2>3, <2>4, <2>8, <2>9
<1>16. WindowsOK'
  BY <1>1, <1>15, WindowsSame DEF WorkloadInv, RequestsOK
<1>17. WorldOK' /\ ReplayKeepsRoles'
  <2>1. binding' = [x \in {"scoped", "unscoped"} |-> binding'[x]]
    BY <1>14 DEF WorkloadInv, WorldOK
  <2> QED BY <1>1, <2>1 DEF WorkloadInv, WorldOK, ReplayKeepsRoles, Exists, Request, Ids, Services
<1>18. KeysOK'
  BY <1>1, KeysKept DEF WorkloadInv
<1>19. Histories'
  BY <1>14, <1>15 DEF Histories
<1> QED BY <1>12, <1>13, <1>16, <1>17, <1>18, <1>19 DEF WorkloadInv, RequestsOK

LEMMA StoreBindingStep ==
  ASSUME WorkloadInv, NEW c \in Callers, StoreBinding(c), UNCHANGED <<environment, storage, accounts>>
  PROVE  WorkloadInv'
<1>1. CASE At(c, "revoke") /\ Write(c, "revoked")
  BY <1>1, NothingIsAbsence, WriteStep
<1>2. CASE At(c, "upsert") /\ Write(c, Plan(c).value)
  <2>1. Plan(c).value \in {"open", "other"}
    BY <1>2, AtOperation DEF Request
  <2>2. PICK record : record = Plan(c).value
    OBVIOUS
  <2>3. record # Nothing /\ Write(c, record)
    BY <1>2, <2>1, <2>2, NothingIsAbsence
  <2> QED BY <1>2, <2>3, WriteStep
<1>3. CASE At(c, "upsert") /\ Denied(c)
  <2>1. Quiet /\ UNCHANGED <<environment, keys, stores, storage, accounts>> /\ hist' = hist /\ Refuse(c, "denied")
    BY <1>3 DEF Denied, Quiet, environment, keys, stores, storage, accounts
  <2>2. RequestsOK'
    BY <1>3, <2>1, RefuseStep DEF Codes
  <2> QED BY <2>1, <2>2, StoresStay
<1> QED BY <1>1, <1>2, <1>3 DEF StoreBinding

----------------------------------------------------------------------------
(* Rate limits *)

(* The limiter forgets nothing of the window, and admits only below the limit. *)
LEMMA AllowKeeps ==
  ASSUME NEW table, NEW pod \in Pods, NEW c, NEW answer, answer = Allow(table, pod, c),
         table = [q \in Pods |-> table[q]], \A q \in Pods : IsFiniteSet(table[q])
  PROVE  /\ answer.table = [q \in Pods |-> answer.table[q]]
         /\ \A q \in Pods : IsFiniteSet(answer.table[q]) /\ Recent(table[q]) \subseteq answer.table[q]
         /\ answer.ok => /\ answer.table[pod] = Recent(table[pod]) \cup {<<clock, c>>}
                         /\ Cardinality(Recent(table[pod])) < Limit
<1>1. PICK recent : recent = Recent(table[pod])
  OBVIOUS
<1>2. PICK pruned : pruned = [table EXCEPT ![pod] = recent]
  OBVIOUS
<1>3. PICK swept : swept = IF recent = {} /\ Tracked(pruned) >= MaxEntries THEN EvictExpired(pruned) ELSE pruned
  OBVIOUS
<1>4. \A q \in Pods : Recent(table[q]) \subseteq table[q] /\ Recent(Recent(table[q])) = Recent(table[q])
  BY DEF Recent
<1>5. \A q \in Pods : IsFiniteSet(Recent(table[q]))
  <2>1. SUFFICES ASSUME NEW q \in Pods PROVE IsFiniteSet(Recent(table[q]))
    OBVIOUS
  <2>2. Recent(table[q]) \in SUBSET table[q] /\ IsFiniteSet(table[q])
    BY <1>4
  <2> QED BY <2>2, FS_Subset
<1>6. /\ pruned = [q \in Pods |-> pruned[q]] /\ pruned[pod] = Recent(table[pod])
      /\ \A q \in Pods : pruned[q] = table[q] \/ pruned[q] = Recent(table[q])
  BY <1>1, <1>2
<1>7. /\ swept = [q \in Pods |-> swept[q]] /\ swept[pod] = Recent(table[pod])
      /\ \A q \in Pods : swept[q] = table[q] \/ swept[q] = Recent(table[q])
  <2>1. CASE recent = {} /\ Tracked(pruned) >= MaxEntries
    <3>1. swept = [q \in Pods |-> Recent(pruned[q])]
      BY <1>3, <2>1 DEF EvictExpired
    <3>2. \A q \in Pods : Recent(pruned[q]) = Recent(table[q])
      BY <1>4, <1>6
    <3> QED BY <3>1, <3>2
  <2>2. CASE ~(recent = {} /\ Tracked(pruned) >= MaxEntries)
    BY <1>3, <1>6, <2>2
  <2> QED BY <2>1, <2>2
<1>8. PICK full : full = [swept EXCEPT ![pod] = recent \cup {<<clock, c>>}]
  OBVIOUS
<1>9. answer = IF recent = {} /\ Tracked(swept) >= MaxEntries THEN [table |-> swept, ok |-> FALSE]
               ELSE IF Cardinality(recent) >= Limit THEN [table |-> swept, ok |-> FALSE]
               ELSE [table |-> full, ok |-> TRUE]
  BY <1>1, <1>2, <1>3, <1>8 DEF Allow
<1>10. CASE answer = [table |-> swept, ok |-> FALSE]
  <2>1. answer.table = swept /\ ~answer.ok
    BY <1>10
  <2> QED BY <1>4, <1>5, <1>7, <2>1
<1>11. CASE ~(Cardinality(recent) >= Limit) /\ answer = [table |-> full, ok |-> TRUE]
  <2>1. PICK more : more = recent \cup {<<clock, c>>}
    OBVIOUS
  <2>2. answer.table = [swept EXCEPT ![pod] = more]
    <3>1. answer.table = full
      BY <1>11
    <3> QED BY <1>8, <2>1, <3>1
  <2>3. PICK a : a = <<clock, c>>
    OBVIOUS
  <2>4. IsFiniteSet(recent)
    BY <1>1, <1>5
  <2>5. IsFiniteSet(more)
    <3>1. IsFiniteSet(recent \cup {a})
      BY <2>4, FS_AddElement
    <3> QED BY <2>1, <2>3, <3>1
  <2>6. Cardinality(recent) \in Nat
    BY <2>4, FS_CardinalityType
  <2>7. Cardinality(recent) < Limit
    BY <1>11, <2>6, LimitsPositive
  <2>8. answer.table = [q \in Pods |-> answer.table[q]] /\ answer.table[pod] = more
        /\ \A q \in Pods : q # pod => answer.table[q] = swept[q]
    BY <1>7, <2>2
  <2>9. \A q \in Pods : IsFiniteSet(answer.table[q]) /\ Recent(table[q]) \subseteq answer.table[q]
    <3>1. SUFFICES ASSUME NEW q \in Pods
                   PROVE  IsFiniteSet(answer.table[q]) /\ Recent(table[q]) \subseteq answer.table[q]
      OBVIOUS
    <3>2. CASE q = pod
      BY <1>1, <2>1, <2>5, <2>8, <3>2
    <3>3. CASE q # pod
      BY <1>4, <1>5, <1>7, <2>8, <3>3
    <3> QED BY <3>2, <3>3
  <2> QED BY <1>1, <2>1, <2>7, <2>8, <2>9
<1> QED BY <1>9, <1>10, <1>11

(* The limiters keep the attempts of the window. *)
Keeps == \A s \in Services, q \in Pods : Recent(attempts[s][q]) \subseteq attempts'[s][q]

(* What calls know survives an admission that keeps the running window. *)
LEMMA PastCounted ==
  ASSUME NEW d, NEW p \in Request, NEW f, NEW h, PastOK(d, p, f, h), KeysOK, Keeps,
         UNCHANGED <<world, clock, tenant, binding, object, given, account>>
  PROVE  PastOK(d, p, f, h)'
<1>1. AliveOK(p, f, h)' /\ HistoryShape(h)' /\ h.stale \in Int /\ h.stale < CacheTTL + FetchTimeout
  BY DEF PastOK, AliveOK, HistoryShape, Has, Live
<1>2. LegacyOK(p, f, h)'
  BY DEF PastOK, LegacyOK, Has, Live, Grants
<1>3. DeleteOK(p, f, h)'
  BY DEF PastOK, DeleteOK, Has, Live
<1>4. UnusedOK(d, f)'
  BY DEF PastOK, UnusedOK, Has
<1>5. AdmittedOK(d, p, f, h)'
  <2>1. SUFFICES ASSUME h.admitted # Nothing
                 PROVE  /\ h.admitted \in Services \X Nat /\ h.admitted[2] <= clock
                        /\ ~Has(f.todo, "limit")
                        /\ clock < h.admitted[2] + Window =>
                             <<h.admitted[2], d>> \in attempts'[h.admitted[1]][p.pod]
    BY DEF AdmittedOK, Has, Services
  <2>2. /\ h.admitted \in Services \X Nat /\ h.admitted[2] <= clock
        /\ ~Has(f.todo, "limit")
        /\ clock < h.admitted[2] + Window =>
             <<h.admitted[2], d>> \in attempts[h.admitted[1]][p.pod]
    BY <2>1 DEF PastOK, AdmittedOK
  <2>3. PICK s, t : s = h.admitted[1] /\ t = h.admitted[2]
    OBVIOUS
  <2>4. s \in Services /\ t \in Nat /\ p.pod \in Pods /\ clock \in Nat
    BY <2>2, <2>3 DEF Request, KeysOK
  <2>5. ASSUME clock < t + Window PROVE <<t, d>> \in attempts'[s][p.pod]
    <3>1. <<t, d>> \in attempts[s][p.pod] /\ <<t, d>>[1] + Window > clock
      BY <2>2, <2>3, <2>4, <2>5, LimitsPositive
    <3>2. <<t, d>> \in Recent(attempts[s][p.pod])
      BY <3>1 DEF Recent
    <3> QED BY <2>4, <3>2 DEF Keeps
  <2> QED BY <2>2, <2>3, <2>5
<1> QED BY <1>1, <1>2, <1>3, <1>4, <1>5 DEF PastOK

(* The admissions of one window are entries of one table. *)
LEMMA WindowFits ==
  ASSUME WorkloadInv, NEW c \in Callers, NEW s \in Services, NEW pod, pod = Plan(c).pod,
         NEW recent, recent = Recent(attempts[s][pod]), Cardinality(recent) < Limit, IsFiniteSet(recent),
         UNCHANGED world, hist[c].admitted = Nothing,
         hist'[c].admitted = <<s, clock>>, \A d \in Callers \ {c} : hist'[d] = hist[d]
  PROVE  Cardinality(SameWindow(c)') <= Limit
<1>1. PICK W : W = SameWindow(c)'
  OBVIOUS
<1>2. PICK a : a = <<clock, c>>
  OBVIOUS
<1>3. PICK H : H = hist'
  OBVIOUS
<1>4. clock \in Nat
  BY DEF WorkloadInv, KeysOK
<1>5. ASSUME NEW d \in W PROVE d \in Callers /\ <<H[d].admitted[2], d>> \in recent \cup {a}
  <2>1. /\ d \in Callers /\ H[d].admitted # Nothing /\ Plan(d).pod = pod
        /\ H[d].admitted[1] = H[c].admitted[1]
        /\ H[d].admitted[2] <= H[c].admitted[2] /\ H[c].admitted[2] < H[d].admitted[2] + Window
    BY <1>1, <1>3 DEF SameWindow, Plan
  <2>2. H[c].admitted[1] = s /\ H[c].admitted[2] = clock
    BY <1>3
  <2>3. CASE d = c
    BY <1>2, <2>1, <2>2, <2>3
  <2>4. CASE d # c
    <3>1. H[d] = hist[d]
      BY <1>3, <2>1, <2>4
    <3>2. PICK h : h = H[d]
      OBVIOUS
    <3>3. PICK t : t = h.admitted[2]
      OBVIOUS
    <3>4. AdmittedOK(d, Plan(d), call[d], h)
      BY <2>1, <3>1, <3>2 DEF WorkloadInv, RequestsOK, Histories, PastOK
    <3>5. h.admitted \in Services \X Nat /\ t \in Nat /\ h.admitted[1] = s
      BY <2>1, <2>2, <3>2, <3>3, <3>4 DEF AdmittedOK
    <3>6. clock < t + Window
      BY <2>1, <2>2, <3>2, <3>3
    <3>7. <<t, d>> \in attempts[s][pod]
      BY <2>1, <3>2, <3>3, <3>4, <3>5, <3>6 DEF AdmittedOK
    <3>8. <<t, d>>[1] + Window > clock
      BY <1>4, <3>5, <3>6, LimitsPositive
    <3>9. <<t, d>> \in recent
      BY <3>7, <3>8 DEF Recent
    <3> QED BY <2>1, <3>2, <3>3, <3>9
  <2> QED BY <2>3, <2>4
<1>6. PICK F : F = [d \in W |-> <<H[d].admitted[2], d>>]
  OBVIOUS
<1>7. F \in [W -> recent \cup {a}] /\ \A d, e \in W : F[d] = F[e] => d = e
  BY <1>5, <1>6
<1>8. F \in Injection(W, recent \cup {a})
  BY <1>7, Fun_IsInj
<1>9. /\ IsFiniteSet(recent \cup {a})
      /\ Cardinality(recent \cup {a}) = IF a \in recent THEN Cardinality(recent) ELSE Cardinality(recent) + 1
  BY FS_AddElement
<1>10. Cardinality(recent) \in Nat
  BY FS_CardinalityType
<1>11. IsFiniteSet(W) /\ Cardinality(W) <= Cardinality(recent \cup {a})
  BY <1>8, <1>9, FS_Injection
<1>12. Cardinality(W) \in Nat
  BY <1>11, FS_CardinalityType
<1>13. Cardinality(recent \cup {a}) \in Nat /\ Cardinality(recent \cup {a}) <= Limit
  BY <1>9, <1>10, LimitsPositive
<1>14. Cardinality(W) <= Limit
  BY <1>11, <1>12, <1>13, LimitsPositive
<1> QED BY <1>1, <1>14

(* An admission within the limit keeps every window within it. *)
LEMMA WindowsCounted ==
  ASSUME WorkloadInv, NEW c \in Callers, NEW s \in Services, NEW pod, pod = Plan(c).pod,
         NEW recent, recent = Recent(attempts[s][pod]), Cardinality(recent) < Limit, IsFiniteSet(recent),
         UNCHANGED world, hist[c].admitted = Nothing,
         hist'[c].admitted = <<s, clock>>, \A d \in Callers \ {c} : hist'[d] = hist[d]
  PROVE  WindowsOK'
<1>1. Cardinality(SameWindow(c)') <= Limit
  BY WindowFits
<1>2. ASSUME NEW d \in Callers, hist'[d].admitted # Nothing PROVE Cardinality(SameWindow(d)') <= Limit
  <2>1. CASE d = c
    BY <1>1, <2>1
  <2>2. CASE d # c
    <3>1. hist'[d] = hist[d]
      BY <2>2
    <3>2. hist[d].admitted[2] \in Nat /\ hist[d].admitted[2] <= clock /\ clock \in Nat
      BY <1>2, <3>1 DEF WorkloadInv, RequestsOK, Histories, PastOK, AdmittedOK, KeysOK
    <3>3. hist'[c].admitted[1] = s /\ hist'[c].admitted[2] = clock
      OBVIOUS
    <3>4. CASE c \in SameWindow(d)'
      <4>1. Plan(d)'.pod = Plan(c)'.pod /\ hist'[d].admitted[1] = s /\ clock <= hist'[d].admitted[2]
        BY <3>3, <3>4 DEF SameWindow
      <4>2. hist'[d].admitted[2] = clock
        BY <3>1, <3>2, <4>1
      <4>3. SameWindow(d)' = SameWindow(c)'
        BY <3>3, <4>1, <4>2 DEF SameWindow
      <4> QED BY <1>1, <4>3
    <3>5. CASE c \notin SameWindow(d)'
      <4>1. ASSUME NEW x \in Callers PROVE x \in SameWindow(d)' <=> x \in SameWindow(d)
        <5>1. CASE x = c
          BY <3>5, <5>1 DEF SameWindow
        <5>2. CASE x # c
          <6>1. hist'[x] = hist[x]
            BY <5>2
          <6> QED BY <3>1, <6>1 DEF SameWindow, Plan
        <5> QED BY <5>1, <5>2
      <4>2. SameWindow(d)' = SameWindow(d)
        <5>1. SameWindow(d)' \subseteq Callers /\ SameWindow(d) \subseteq Callers
          BY DEF SameWindow
        <5> QED BY <4>1, <5>1
      <4> QED BY <1>2, <3>1, <4>2 DEF WorkloadInv, RequestsOK, WindowsOK
    <3> QED BY <3>4, <3>5
  <2> QED BY <2>1, <2>2
<1> QED BY <1>2 DEF WindowsOK

(* IdentityRateLimiter.Allow admits or refuses the call. *)
LEMMA RateLimitStep ==
  ASSUME WorkloadInv, NEW c \in Callers, RateLimit(c), UNCHANGED <<environment, storage, accounts>>
  PROVE  WorkloadInv'
<1>1. /\ UNCHANGED <<world, clock, tenant, binding, object, given, account, roles>>
      /\ UNCHANGED <<issuer, withdrawn, cache, fetch>> /\ At(c, "limit") /\ KeysOK
  BY DEF RateLimit, environment, keys, stores, storage, accounts, WorkloadInv
<1>2. PICK f : f = call[c]
  OBVIOUS
<1>3. PICK p : p = Plan(c)
  OBVIOUS
<1>4. PICK h : h = hist[c]
  OBVIOUS
<1>5. PICK s : s = Service(c)
  OBVIOUS
<1>6. PICK pod : pod = p.pod
  OBVIOUS
<1>7. PICK table : table = attempts[s]
  OBVIOUS
<1>8. PICK answer : answer = Allow(table, pod, c)
  OBVIOUS
<1>9. /\ p \in Request /\ FrameOK(p, f) /\ PastOK(c, p, f, h) /\ f.out = "pending" /\ h.begun
      /\ Head(f.todo)[1] = "limit" /\ pod \in Pods
  BY <1>1, <1>2, <1>3, <1>4, <1>6, AtOperation DEF Request
<1>10. InOrder(p.kind, f.todo) /\ f.todo # <<>>
  BY <1>9 DEF FrameOK
<1>11. /\ Len(f.todo) \in Nat \ {0} /\ Head(f.todo) = f.todo[1] /\ Len(Tail(f.todo)) = Len(f.todo) - 1
       /\ \A i \in 1..Len(Tail(f.todo)) : Tail(f.todo)[i] = f.todo[i + 1]
  BY <1>10, OrderOfTail
<1>12. s \in Services /\ Has(f.todo, "limit") /\ ~Has(Tail(f.todo), "limit")
  <2>1. s = f.todo[1][2] /\ 1 \in 1..Len(f.todo) /\ f.todo[1][1] = "limit"
    BY <1>2, <1>5, <1>9, <1>11 DEF Service
  <2>2. \A j \in 1..Len(f.todo) : 1 < j => f.todo[j][1] # "limit"
    BY <1>10, <2>1 DEF InOrder, Never
  <2>3. \A i \in 1..Len(Tail(f.todo)) : Tail(f.todo)[i][1] # "limit"
    BY <1>11, <2>2
  <2> QED BY <1>10, <2>1, <2>3 DEF InOrder, Has
<1>13. table = [q \in Pods |-> table[q]] /\ \A q \in Pods : IsFiniteSet(table[q])
  BY <1>7, <1>12 DEF WorkloadInv, WorldOK
<1>14. /\ answer.table = [q \in Pods |-> answer.table[q]]
       /\ \A q \in Pods : IsFiniteSet(answer.table[q]) /\ Recent(table[q]) \subseteq answer.table[q]
       /\ answer.ok => /\ answer.table[pod] = Recent(table[pod]) \cup {<<clock, c>>}
                       /\ Cardinality(Recent(table[pod])) < Limit
  BY <1>8, <1>9, <1>13, AllowKeeps
<1>15. attempts' = [attempts EXCEPT ![s] = answer.table]
  BY <1>3, <1>5, <1>6, <1>7, <1>8 DEF RateLimit
<1>16. /\ attempts' = [x \in Services |-> attempts'[x]] /\ attempts'[s] = answer.table
       /\ \A x \in Services : x # s => attempts'[x] = attempts[x]
       /\ attempts = [x \in Services |-> [q \in Pods |-> attempts[x][q]]]
       /\ \A x \in Services, q \in Pods : IsFiniteSet(attempts[x][q])
  BY <1>12, <1>15 DEF WorkloadInv, WorldOK
<1>17. Keeps
  <2>1. SUFFICES ASSUME NEW x \in Services, NEW q \in Pods PROVE Recent(attempts[x][q]) \subseteq attempts'[x][q]
    BY DEF Keeps
  <2>2. CASE x = s
    BY <1>7, <1>14, <1>16, <2>2
  <2>3. CASE x # s
    BY <1>16, <2>3 DEF Recent
  <2> QED BY <2>2, <2>3
<1>18. WorldOK' /\ ReplayKeepsRoles' /\ KeysOK'
  <2>1. ASSUME NEW x \in Services PROVE attempts'[x] = [q \in Pods |-> attempts'[x][q]]
    <3>1. CASE x = s
      BY <1>14, <1>16, <3>1
    <3>2. CASE x # s
      BY <1>16, <3>2
    <3> QED BY <3>1, <3>2
  <2>2. attempts' = [x \in Services |-> [q \in Pods |-> attempts'[x][q]]]
    BY <1>16, <2>1
  <2>3. ASSUME NEW x \in Services, NEW q \in Pods PROVE IsFiniteSet(attempts'[x][q])
    <3>1. CASE x = s
      BY <1>14, <1>16, <3>1
    <3>2. CASE x # s
      BY <1>16, <3>2
    <3> QED BY <3>1, <3>2
  <2>4. WorldOK'
    <3>1. (world.plan \in [Callers -> Request])' /\ (binding = [k \in {"scoped", "unscoped"} |-> binding[k]])'
      BY <1>1 DEF WorkloadInv, WorldOK, Request
    <3>2. /\ (account # Nothing => account.id \in Ids)' /\ (roles = [id \in Ids |-> roles[id]])'
          /\ (\A id \in Ids : roles[id] # Nothing => roles[id] \subseteq {Base} \cup Additional)'
      BY <1>1 DEF WorkloadInv, WorldOK, Ids
    <3> QED BY <2>2, <2>3, <3>1, <3>2 DEF WorldOK, Services
  <2>5. ReplayKeepsRoles'
    BY <1>1 DEF WorkloadInv, ReplayKeepsRoles, Exists
  <2> QED BY <1>1, <2>4, <2>5, KeysKept
<1>19. h.admitted = Nothing
  BY <1>9, <1>12 DEF PastOK, AdmittedOK
<1>20. ASSUME NEW d \in Callers, d # c, call'[d] = call[d], hist'[d] = hist[d]
       PROVE  PastOK(d, Plan(d), call[d], hist[d])'
  <2>1. PICK q : q = Plan(d)
    OBVIOUS
  <2>2. PICK g : g = call'[d]
    OBVIOUS
  <2>3. PICK k : k = hist'[d]
    OBVIOUS
  <2>4. PastOK(d, q, g, k) /\ q \in Request
    BY <1>20, <2>1, <2>2, <2>3 DEF WorkloadInv, WorldOK, RequestsOK, Histories, Plan
  <2>5. PastOK(d, q, g, k)'
    BY <1>1, <1>17, <2>4, PastCounted
  <2>6. q = Plan(d)'
    BY <1>1, <2>1 DEF Plan
  <2> QED BY <2>2, <2>3, <2>5, <2>6
<1>21. CASE answer.ok
  <2>1. PICK g : g = After(f)
    OBVIOUS
  <2>2. PICK k : k = [h EXCEPT !.admitted = <<s, clock>>]
    OBVIOUS
  <2>3. call' = [call EXCEPT ![c] = g] /\ hist' = [hist EXCEPT ![c] = k]
    <3>1. Continue(c, call[c]) /\ hist' = [hist EXCEPT ![c].admitted = <<Service(c), clock>>]
      BY <1>3, <1>5, <1>6, <1>7, <1>8, <1>21 DEF RateLimit
    <3> QED BY <1>2, <1>4, <1>5, <2>1, <2>2, <3>1 DEF Continue, After
  <2>4. FrameOK(p, g) /\ g.todo = Tail(f.todo) /\ g.held = f.held /\ g.out \in {"pending", "granted"}
    <3>1. PICK e : e = f
      OBVIOUS
    <3>2. \A x \in f.held : Head(f.todo) # <<"release", x>>
      BY <1>9
    <3>3. /\ p \in Request /\ FrameOK(p, f) /\ f.out = "pending"
          /\ e = [todo |-> f.todo, at |-> e.at, lease |-> e.lease, seen |-> e.seen, held |-> e.held,
                  exp |-> e.exp, out |-> "pending"]
      BY <1>9, <3>1 DEF FrameOK
    <3>4. \A x \in e.held : Later(Tail(f.todo), x)
      BY <1>9, <3>1, <3>2, ReleasesLeft
    <3>5. Life(p, e.at, e.lease, e.exp, Tail(f.todo))
      BY <1>9, <3>1, LifeAfter
    <3>6. /\ FrameOK(p, After(e)) /\ After(e).todo = Tail(f.todo) /\ After(e).held = e.held
          /\ After(e).out \in {"pending", "granted"}
      BY ONLY <3>3, <3>4, <3>5, FrameAfter
    <3> QED BY <2>1, <3>1, <3>6
  <2>5. PastOK(c, p, g, h)
    <3>1. Learns("limit", h, h) /\ Looks("limit")
      BY <1>9 DEF PastOK, Learns, Looks
    <3> QED BY <1>9, <2>4, <3>1, PastAfter
  <2>6. PastOK(c, p, g, h)'
    BY <1>1, <1>9, <1>17, <2>5, PastCounted
  <2>7. /\ HistoryShape(k) /\ k.begun = h.begun /\ k.stale = h.stale /\ k.alive = h.alive /\ k.opened = h.opened
        /\ k.scoped = h.scoped /\ k.versions = h.versions /\ k.removed = h.removed
        /\ k.admitted = <<s, clock>>
    BY <2>2, <2>5 DEF PastOK, HistoryShape
  <2>8. AdmittedOK(c, p, g, k)'
    <3>1. <<s, clock>> \in Services \X Nat /\ clock <= clock
      BY <1>1, <1>12 DEF KeysOK
    <3>2. <<clock, c>> \in attempts'[s][p.pod]
      BY <1>6, <1>14, <1>16, <1>21
    <3>3. ~Has(g.todo, "limit")
      BY <1>12, <2>4
    <3>4. /\ k.admitted \in Services \X Nat /\ k.admitted[2] <= clock' /\ ~Has(g.todo, "limit")
          /\ <<k.admitted[2], c>> \in attempts'[k.admitted[1]][p.pod]
      BY <1>1, <2>7, <3>1, <3>2, <3>3
    <3> QED BY <3>4 DEF AdmittedOK, Has, Services
  <2>9. PastOK(c, p, g, k)'
    <3>1. AliveOK(p, g, k)'
      BY <2>6, <2>7 DEF PastOK, AliveOK
    <3>2. LegacyOK(p, g, k)'
      BY <2>6, <2>7 DEF PastOK, LegacyOK
    <3>3. DeleteOK(p, g, k)' /\ UnusedOK(c, g)'
      BY <2>6, <2>7 DEF PastOK, DeleteOK
    <3>4. HistoryShape(k)' /\ (k.stale \in Int /\ k.stale < CacheTTL + FetchTimeout)'
      BY <2>6, <2>7 DEF PastOK, HistoryShape
    <3> QED BY <2>8, <3>1, <3>2, <3>3, <3>4 DEF PastOK
  <2>10. /\ hist' = [d \in Callers |-> hist'[d]] /\ hist'[c] = k /\ call'[c] = g
         /\ \A d \in Callers \ {c} : hist'[d] = hist[d] /\ call'[d] = call[d]
    BY <2>3 DEF WorkloadInv, RequestsOK, Frames, Histories
  <2>11. Histories'
    <3>1. PastOK(c, Plan(c), call[c], hist[c])'
      <4>1. p = Plan(c)'
        BY <1>1, <1>3 DEF Plan
      <4> QED BY <2>9, <2>10, <4>1
    <3>2. \A d \in Callers : PastOK(d, Plan(d), call[d], hist[d])'
      BY <1>20, <2>10, <3>1
    <3> QED BY <2>10, <3>2 DEF Histories
  <2>12. Frames'
    <3>1. FrameOK(Plan(c), g)
      BY <1>3, <2>4
    <3> QED BY <1>1, <2>3, <3>1, FramesStep DEF WorkloadInv, RequestsOK
  <2>13. SlotsOK'
    BY <1>2, <2>3, <2>4, SlotsShrink DEF WorkloadInv, RequestsOK
  <2>14. WindowsOK'
    <3>1. PICK recent : recent = Recent(attempts[s][pod])
      OBVIOUS
    <3>2. Cardinality(recent) < Limit
      BY <1>7, <1>14, <1>21, <3>1
    <3>3. recent \in SUBSET attempts[s][pod] /\ IsFiniteSet(attempts[s][pod])
      BY <1>9, <1>12, <1>16, <3>1 DEF Recent
    <3>4. IsFiniteSet(recent)
      BY <3>3, FS_Subset
    <3>5. pod = Plan(c).pod /\ hist[c].admitted = Nothing /\ hist'[c].admitted = <<s, clock>>
      BY <1>3, <1>4, <1>6, <1>19, <2>7, <2>10
    <3>6. \A d \in Callers \ {c} : hist'[d] = hist[d]
      BY <2>10
    <3> QED BY <1>1, <1>12, <3>1, <3>2, <3>4, <3>5, <3>6, WindowsCounted
  <2> QED BY <1>18, <2>11, <2>12, <2>13, <2>14 DEF WorkloadInv, RequestsOK
<1>22. CASE ~answer.ok
  <2>1. PICK g : g = Refusal("limited")
    OBVIOUS
  <2>2. call' = [call EXCEPT ![c] = g] /\ hist' = hist
    BY <1>3, <1>5, <1>6, <1>7, <1>8, <1>22, <2>1 DEF RateLimit, Refuse, Refusal
  <2>3. FrameOK(p, g) /\ g.todo = <<>> /\ g.held = {} /\ g.out = "limited"
    BY <1>9, <2>1, FrameRefused
  <2>4. PastOK(c, p, g, h)
    BY <1>9, <2>3, PastRefused
  <2>5. PastOK(c, p, g, h)'
    BY <1>1, <1>9, <1>17, <2>4, PastCounted
  <2>6. hist' = [d \in Callers |-> hist'[d]] /\ call'[c] = g /\ \A d \in Callers \ {c} : call'[d] = call[d]
    BY <2>2 DEF WorkloadInv, RequestsOK, Frames, Histories
  <2>7. Histories'
    <3>1. PastOK(c, Plan(c), call[c], hist[c])'
      <4>1. p = Plan(c)' /\ h = hist'[c]
        BY <1>1, <1>3, <1>4, <2>2 DEF Plan
      <4> QED BY <2>5, <2>6, <4>1
    <3>2. \A d \in Callers : PastOK(d, Plan(d), call[d], hist[d])'
      BY <1>20, <2>2, <2>6, <3>1
    <3> QED BY <2>6, <3>2 DEF Histories
  <2>8. Frames'
    <3>1. FrameOK(Plan(c), g)
      BY <1>3, <2>3
    <3> QED BY <1>1, <2>2, <3>1, FramesStep DEF WorkloadInv, RequestsOK
  <2>9. SlotsOK'
    BY <2>2, <2>3, SlotsShrink DEF WorkloadInv, RequestsOK
  <2>10. WindowsOK'
    BY <1>1, <2>2, WindowsSame DEF WorkloadInv, RequestsOK
  <2> QED BY <1>18, <2>7, <2>8, <2>9, <2>10 DEF WorkloadInv, RequestsOK
<1> QED BY <1>21, <1>22

(* Every step of an exchange. *)
LEMMA ExchangingStep ==
  ASSUME WorkloadInv, NEW c \in Callers, Exchanging(c), UNCHANGED <<environment, storage, accounts>>
  PROVE  WorkloadInv'
<1>1. CASE AskBinding(c) \/ AskLogs(c) \/ AskAI(c)
  <2>1. PICK s, failures : failures \subseteq Codes /\ Answered(c, s, failures)
    <3>1. {"denied", "throttled", "unavailable"} \subseteq Codes /\ {"denied", "unavailable"} \subseteq Codes
      BY DEF Codes
    <3> QED BY <1>1, <3>1 DEF AskBinding, AskLogs, AskAI
  <2> QED BY <2>1, AnsweredStep
<1> QED BY <1>1, RateLimitStep, TakeSlotStep, ReleaseSlotStep, ReadingStep, LeaseStep, UserLeaseStep, SignStep,
           LegacyStep, StoreBindingStep DEF Exchanging

----------------------------------------------------------------------------
(* The object store *)

(* History k is h after the object became another version. *)
Sees(h, k, version, gone) ==
  /\ HistoryShape(k) /\ k.stale = h.stale /\ k.begun = h.begun /\ k.alive = h.alive
  /\ k.scoped = h.scoped /\ k.opened = h.opened /\ k.admitted = h.admitted
  /\ k.versions = h.versions \cup {version} /\ k.removed = h.removed \cup gone

OnlyObject(version) ==
  object' = version /\ UNCHANGED <<world, clock, tenant, binding, attempts, given, account>>

(* A call that sees the object change has seen what it is now. *)
LEMMA PastBecome ==
  ASSUME NEW d, NEW p, NEW f, NEW h, NEW k, PastOK(d, p, f, h), NEW version, NEW gone,
         Sees(h, k, version, gone), OnlyObject(version), p.kind = "delete" => gone \subseteq {p.etag}
  PROVE  PastOK(d, p, f, k)'
<1> USE DEF Sees, OnlyObject
<1>1. HistoryShape(k)' /\ (k.stale \in Int /\ k.stale < CacheTTL + FetchTimeout)'
  BY DEF PastOK, HistoryShape
<1>2. AliveOK(p, f, k)'
  BY DEF PastOK, AliveOK, Has, Live
<1>3. LegacyOK(p, f, k)'
  BY DEF PastOK, LegacyOK, Has, Live, Grants
<1>4. DeleteOK(p, f, k)'
  <2>1. SUFFICES ASSUME p.kind = "delete"
                 PROVE  /\ k.begun => object' \in k.versions
                        /\ Live(f) => Has(f.todo, "head") \/ (k.begun /\ Nothing \in k.versions)
                        /\ f.out = "changed" => k.begun /\ k.versions \ {Nothing, p.etag} # {}
                        /\ k.removed \subseteq {p.etag}
    BY DEF DeleteOK, Live, Has
  <2> QED BY <2>1 DEF PastOK, DeleteOK
<1>5. UnusedOK(d, f)'
  BY DEF PastOK, UnusedOK, Has
<1>6. AdmittedOK(d, p, f, k)'
  BY DEF PastOK, AdmittedOK, Has
<1> QED BY <1>1, <1>2, <1>3, <1>4, <1>5, <1>6 DEF PastOK

LEMMA BecomeSeen ==
  ASSUME WorkloadInv, NEW version, NEW by, Become(version, by)
  PROVE  /\ object' = version /\ hist' = [d \in Callers |-> hist'[d]]
         /\ \A d \in Callers : Sees(hist[d], hist'[d], version, IF d = by THEN {object} ELSE {})
<1>1. /\ object' = version /\ hist' = [d \in Callers |-> hist'[d]]
      /\ \A d \in Callers : hist'[d] = [hist[d] EXCEPT !.versions = @ \cup {version},
                                          !.removed = IF d = by THEN @ \cup {object} ELSE @]
  BY DEF Become
<1>2. SUFFICES ASSUME NEW d \in Callers
               PROVE  Sees(hist[d], hist'[d], version, IF d = by THEN {object} ELSE {})
  BY <1>1
<1>3. PICK h : h = hist[d]
  OBVIOUS
<1>4. PICK k : k = hist'[d]
  OBVIOUS
<1>5. HistoryShape(h)
  BY <1>3 DEF WorkloadInv, RequestsOK, Histories, PastOK
<1>6. PICK removed : removed = IF d = by THEN h.removed \cup {object} ELSE h.removed
  OBVIOUS
<1>7. k = [h EXCEPT !.versions = @ \cup {version}, !.removed = removed]
  BY <1>1, <1>3, <1>4, <1>6
<1>8. k = [begun |-> h.begun, stale |-> h.stale, admitted |-> h.admitted, alive |-> h.alive,
           opened |-> h.opened, scoped |-> h.scoped, versions |-> h.versions \cup {version}, removed |-> removed]
  BY <1>5, <1>7 DEF HistoryShape
<1>9. removed = h.removed \cup (IF d = by THEN {object} ELSE {})
  BY <1>6
<1>10. Sees(h, k, version, IF d = by THEN {object} ELSE {})
  BY <1>8, <1>9 DEF Sees, HistoryShape
<1> QED BY <1>3, <1>4, <1>10

(* The object changes while no call moves. *)
LEMMA BecomeStep ==
  ASSUME WorkloadInv, NEW version, Become(version, Nothing), UNCHANGED call, OnlyObject(version)
  PROVE  RequestsOK'
<1>1. /\ hist' = [d \in Callers |-> hist'[d]]
      /\ \A d \in Callers : Sees(hist[d], hist'[d], version, {})
  BY BecomeSeen, CallersFinite
<1>2. ASSUME NEW d \in Callers
      PROVE  /\ FrameOK(Plan(d), call[d])' /\ PastOK(d, Plan(d), call[d], hist[d])'
             /\ hist'[d].admitted = hist[d].admitted
  <2>1. PICK p : p = Plan(d)
    OBVIOUS
  <2>2. PICK f : f = call[d]
    OBVIOUS
  <2>3. PICK h : h = hist[d]
    OBVIOUS
  <2>4. PICK k : k = hist'[d]
    OBVIOUS
  <2>5. PICK none : none = {}
    OBVIOUS
  <2>6. FrameOK(p, f) /\ PastOK(d, p, f, h)
    BY <2>1, <2>2, <2>3 DEF WorkloadInv, RequestsOK, Frames, Histories
  <2>7. Sees(h, k, version, none) /\ none \subseteq {p.etag}
    BY <1>1, <2>3, <2>4, <2>5
  <2>8. PastOK(d, p, f, k)'
    BY <2>6, <2>7, PastBecome
  <2>9. p = Plan(d)' /\ f = call'[d] /\ k = hist'[d] /\ k.admitted = h.admitted
    BY <2>1, <2>2, <2>4, <2>7 DEF Plan, OnlyObject, Sees
  <2>10. FrameOK(p, f)'
    BY <2>6, FrameConstant
  <2> QED BY <2>3, <2>8, <2>9, <2>10
<1>3. Frames' /\ Histories'
  BY <1>1, <1>2 DEF WorkloadInv, RequestsOK, Frames, Histories
<1>4. SlotsOK'
  BY DEF WorkloadInv, RequestsOK, SlotsOK, Holders, Services
<1>5. WindowsOK'
  BY <1>2, WindowsSame DEF WorkloadInv, RequestsOK, OnlyObject
<1> QED BY <1>3, <1>4, <1>5 DEF RequestsOK

(* A call that is confirmed before its program ends gives nothing back. *)
LEMMA FrameGranted ==
  ASSUME NEW p \in Request, NEW f, FrameOK(p, f), f.held = {}, NEW g, g = Granting(f)
  PROVE  FrameOK(p, g) /\ g.todo = <<>> /\ g.held = {} /\ g.out = "granted"
<1>1. g = [todo |-> <<>>, at |-> 0, lease |-> 0, seen |-> Nothing, held |-> {}, exp |-> f.exp, out |-> "granted"]
  BY DEF Granting, Fresh
<1>2. /\ g = [todo |-> g.todo, at |-> g.at, lease |-> g.lease, seen |-> g.seen, held |-> g.held,
              exp |-> g.exp, out |-> g.out]
      /\ g.todo = <<>> /\ g.at = 0 /\ g.lease = 0 /\ g.held = {} /\ g.exp = f.exp /\ g.out = "granted"
  BY ONLY <1>1
<1>3. InOrder(p.kind, <<>>)
  BY EmptySeq DEF InOrder, Released, Room, Never, Followed
<1>4. Life(p, 0, 0, f.exp, <<>>)
  BY DEF FrameOK, Life, Request
<1> QED BY <1>2, <1>3, <1>4 DEF FrameOK

(* A call at the removal of an object holds no slot. *)
LEMMA RemoveHoldsNothing ==
  ASSUME NEW p, NEW f, FrameOK(p, f), f.out = "pending", Head(f.todo)[1] = "remove"
  PROVE  f.held = {}
<1>1. InOrder(p.kind, f.todo) /\ f.todo # <<>>
  BY DEF FrameOK
<1>2. Len(f.todo) \in Nat \ {0} /\ Head(f.todo) = f.todo[1]
  BY <1>1, OrderOfTail
<1>3. \A j \in 1..Len(f.todo) : f.todo[j][1] # "release"
  BY <1>1, <1>2 DEF InOrder, Never
<1>4. SUFFICES ASSUME NEW x \in f.held PROVE FALSE
  OBVIOUS
<1>5. PICK j \in 1..Len(f.todo) : f.todo[j] = <<"release", x>>
  BY DEF FrameOK, Later
<1> QED BY <1>3, <1>5

(* The object that was listed is removed, and the answer may be lost. *)
LEMMA RemovedStep ==
  ASSUME WorkloadInv, NEW c \in Callers, At(c, "remove"), Matches(c), Become(Nothing, c),
         Confirm(c) \/ Refuse(c, "unavailable"),
         UNCHANGED <<world, clock, tenant, binding, attempts, given, account>>
  PROVE  RequestsOK'
<1>1. PICK f : f = call[c]
  OBVIOUS
<1>2. PICK p : p = Plan(c)
  OBVIOUS
<1>3. PICK h : h = hist[c]
  OBVIOUS
<1>4. PICK k : k = hist'[c]
  OBVIOUS
<1>5. /\ p \in Request /\ FrameOK(p, f) /\ PastOK(c, p, f, h) /\ f.out = "pending" /\ h.begun
      /\ Head(f.todo)[1] = "remove" /\ "remove" \in OpsOf(p.kind)
  BY <1>1, <1>2, <1>3, AtOperation
<1>6. p.kind = "delete" /\ f.held = {}
  BY <1>5, RemoveHoldsNothing DEF OpsOf
<1>7. /\ hist' = [d \in Callers |-> hist'[d]] /\ OnlyObject(Nothing)
      /\ \A d \in Callers : Sees(hist[d], hist'[d], Nothing, IF d = c THEN {object} ELSE {})
  BY BecomeSeen DEF OnlyObject
<1>8. PICK gone : gone = {object}
  OBVIOUS
<1>9. Sees(h, k, Nothing, gone) /\ gone \subseteq {p.etag}
  BY <1>2, <1>3, <1>4, <1>7, <1>8 DEF Matches
<1>10. PICK g : g = IF Confirm(c) THEN Granting(f) ELSE Refusal("unavailable")
  OBVIOUS
<1>11. call' = [call EXCEPT ![c] = g]
  BY <1>1, <1>10 DEF Confirm, Refuse, Refusal
<1>12. FrameOK(p, g) /\ g.todo = <<>> /\ g.held = {} /\ g.out \in {"granted", "unavailable"}
  <2>1. CASE Confirm(c)
    <3>1. g = Granting(f)
      BY <1>10, <2>1
    <3> QED BY <1>5, <1>6, <3>1, FrameGranted
  <2>2. CASE ~Confirm(c)
    <3>1. g = Refusal("unavailable")
      BY <1>10, <2>2
    <3> QED BY <1>5, <3>1, FrameRefused
  <2> QED BY <2>1, <2>2
<1>13. PastOK(c, p, f, k)'
  BY <1>5, <1>7, <1>9, PastBecome
<1>14. PastOK(c, p, g, k)'
  <2>1. k.begun /\ Nothing \in k.versions /\ p.kind = "delete"
    BY <1>5, <1>6, <1>9 DEF Sees
  <2>2. \A op : ~Has(g.todo, op)
    BY <1>12 DEF Has
  <2>3. AliveOK(p, g, k)' /\ UnusedOK(c, g)'
    BY <2>1, <2>2 DEF AliveOK, UnusedOK, AIKinds, Has
  <2>4. LegacyOK(p, g, k)'
    BY <1>13, <2>1 DEF PastOK, LegacyOK
  <2>5. DeleteOK(p, g, k)'
    BY <1>12, <1>13, <2>1 DEF PastOK, DeleteOK
  <2>6. AdmittedOK(c, p, g, k)'
    BY <1>13, <2>2 DEF PastOK, AdmittedOK, Has
  <2> QED BY <1>13, <2>3, <2>4, <2>5, <2>6 DEF PastOK
<1>15. ASSUME NEW d \in Callers
       PROVE  PastOK(d, Plan(d), call[d], hist[d])' /\ hist'[d].admitted = hist[d].admitted
  <2>1. CASE d = c
    <3>1. p = Plan(c)' /\ g = call'[c] /\ k = hist'[c] /\ k.admitted = h.admitted
      BY <1>2, <1>4, <1>7, <1>9, <1>11 DEF Plan, OnlyObject, Sees, WorkloadInv, RequestsOK, Frames
    <3> QED BY <1>3, <1>14, <2>1, <3>1
  <2>2. CASE d # c
    <3>1. PICK q : q = Plan(d)
      OBVIOUS
    <3>2. PICK e : e = call[d]
      OBVIOUS
    <3>3. PICK y : y = hist[d]
      OBVIOUS
    <3>4. PICK z : z = hist'[d]
      OBVIOUS
    <3>5. PICK none : none = {}
      OBVIOUS
    <3>6. PastOK(d, q, e, y)
      BY <3>1, <3>2, <3>3 DEF WorkloadInv, RequestsOK, Histories
    <3>7. Sees(y, z, Nothing, none) /\ none \subseteq {q.etag}
      BY <1>7, <2>2, <3>3, <3>4, <3>5
    <3>8. PastOK(d, q, e, z)'
      BY <1>7, <3>6, <3>7, PastBecome
    <3>9. q = Plan(d)' /\ e = call'[d] /\ z = hist'[d] /\ z.admitted = y.admitted
      BY <1>11, <2>2, <3>1, <3>2, <3>4, <3>7 DEF Plan, Sees, WorkloadInv, RequestsOK, Frames
    <3> QED BY <3>3, <3>8, <3>9
  <2> QED BY <2>1, <2>2
<1>16. Histories'
  BY <1>7, <1>15 DEF Histories
<1>17. Frames'
  <2>1. FrameOK(Plan(c), g)
    BY <1>2, <1>12
  <2> QED BY <1>11, <2>1, FramesStep DEF WorkloadInv, RequestsOK
<1>18. SlotsOK'
  BY <1>11, <1>12, SlotsShrink DEF WorkloadInv, RequestsOK
<1>19. WindowsOK'
  BY <1>15, WindowsSame DEF WorkloadInv, RequestsOK
<1> QED BY <1>16, <1>17, <1>18, <1>19 DEF RequestsOK

(* Every step of the storage broker. *)
LEMMA StoringStep ==
  ASSUME WorkloadInv, NEW c \in Callers, Storing(c), UNCHANGED <<environment, accounts>>
  PROVE  WorkloadInv'
<1> USE DEF elsewhereUnchanged
<1>1. CASE AskStorage(c) \/ AskAdmin(c)
  <2>1. PICK s : Answered(c, s, {"denied", "unavailable", "internal"}) /\ UNCHANGED storage
    BY <1>1 DEF AskStorage, AskAdmin
  <2>2. PICK failures : failures = {"denied", "unavailable", "internal"}
    OBVIOUS
  <2>3. failures \subseteq Codes /\ Answered(c, s, failures)
    BY <2>1, <2>2 DEF Codes
  <2> QED BY <2>1, <2>3, AnsweredStep
<1>2. CASE ValidateAdminToken(c) \/ ProviderExchange(c) \/ ListObjects(c) \/ Presign(c)
  <2>1. PICK op \in {"validate", "provider", "listing", "presign"}, code \in Codes : Remote(c, op, code)
    BY <1>2 DEF ValidateAdminToken, ProviderExchange, ListObjects, Presign, Codes
  <2>2. /\ At(c, op) /\ hist' = hist /\ UNCHANGED <<environment, keys, stores, storage, accounts>>
        /\ Continue(c, call[c]) \/ Refuse(c, code)
    BY <2>1 DEF Remote
  <2>3. op \notin {"ask", "release", "lease", "userLease"} /\ Looks(op)
    BY DEF Looks
  <2> QED BY <2>2, <2>3, LookStep
<1>3. CASE ProbeBucket(c)
  <2>1. /\ At(c, "probe") /\ hist' = hist /\ UNCHANGED <<environment, keys, stores, storage, accounts>>
        /\ Continue(c, call[c]) \/ \E code \in Codes : Refuse(c, code)
    BY <1>3 DEF ProbeBucket, Codes
  <2>2. Looks("probe")
    BY DEF Looks
  <2> QED BY <2>1, <2>2, LookStep
<1>4. CASE HeadObject(c)
  <2>1. At(c, "head") /\ hist' = hist /\ UNCHANGED <<environment, keys, stores, storage, accounts>>
    BY <1>4 DEF HeadObject
  <2>2. CASE (bucket /\ object = Nothing /\ Continue(c, call[c])) \/ Refuse(c, "unavailable")
    <3>1. (Continue(c, call[c]) /\ Looks("head")) \/ \E code \in Codes : Refuse(c, code)
      BY <2>2 DEF Looks, Codes
    <3> QED BY <2>1, <3>1, LookStep
  <2>3. CASE object \notin {Nothing, Plan(c).etag} /\ Refuse(c, "changed")
    <3>1. Quiet
      BY <2>1 DEF Quiet, environment, keys, stores, storage, accounts
    <3>2. PastOK(c, Plan(c), call[c], hist[c]) /\ hist[c].begun /\ "head" \in OpsOf(Plan(c).kind)
      BY <2>1, AtOperation
    <3>3. Plan(c).kind = "delete"
      BY <3>2 DEF OpsOf
    <3>4. object \in hist[c].versions
      BY <3>2, <3>3 DEF PastOK, DeleteOK
    <3>5. hist[c].versions \ {Nothing, Plan(c).etag} # {}
      BY <2>3, <3>4
    <3>6. RequestsOK'
      BY <2>1, <2>3, <3>1, <3>5, RefuseStep
    <3> QED BY <2>1, <3>6, StoresStay
  <2> QED BY <1>4, <2>2, <2>3 DEF HeadObject
<1>5. CASE RemoveObject(c)
  <2>1. At(c, "remove") /\ UNCHANGED <<environment, keys, stores, accounts, bucket>>
    BY <1>5 DEF RemoveObject
  <2>2. CASE Matches(c) /\ Become(Nothing, c) /\ (Confirm(c) \/ Refuse(c, "unavailable"))
    <3>1. UNCHANGED <<world, clock, tenant, binding, attempts, given, account, roles, issuer, withdrawn, cache, fetch>>
      BY <2>1 DEF environment, keys, stores, accounts
    <3>2. RequestsOK'
      BY <2>1, <2>2, <3>1, RemovedStep
    <3>3. WorldOK' /\ ReplayKeepsRoles'
      BY <3>1, RestKept
    <3>4. KeysOK'
      BY <3>1, KeysKept DEF WorkloadInv
    <3> QED BY <3>2, <3>3, <3>4 DEF WorkloadInv
  <2>3. CASE /\ (~Matches(c) /\ bucket /\ Continue(c, call[c])) \/ Refuse(c, "unavailable")
             /\ UNCHANGED <<hist, object>>
    <3>1. UNCHANGED <<environment, keys, stores, storage, accounts>> /\ hist' = hist
      BY <2>1, <2>3 DEF storage
    <3>2. (Continue(c, call[c]) /\ Looks("remove")) \/ \E code \in Codes : Refuse(c, code)
      BY <2>3 DEF Looks, Codes
    <3> QED BY <2>1, <3>1, <3>2, LookStep
  <2> QED BY <1>5, <2>2, <2>3 DEF RemoveObject
<1> QED BY <1>1, <1>2, <1>3, <1>4, <1>5 DEF Storing

----------------------------------------------------------------------------
(* The account broker *)

(* A registration takes no slot. *)
LEMMA RegisterHoldsNothing ==
  ASSUME NEW p, p.kind = "register", NEW f, FrameOK(p, f)
  PROVE  f.held = {}
<1>1. SUFFICES ASSUME NEW x \in f.held PROVE FALSE
  OBVIOUS
<1>2. PICK i \in 1..Len(f.todo) : f.todo[i] = <<"release", x>>
  BY <1>1 DEF FrameOK, Later
<1>3. f.todo \in Seq(OpsOf(p.kind) \X (Services \cup {"none"}))
  BY DEF FrameOK, InOrder
<1>4. f.todo[i] \in OpsOf(p.kind) \X (Services \cup {"none"}) /\ f.todo[i][1] = "release"
  BY <1>2, <1>3
<1>5. "release" \in OpsOf(p.kind)
  BY <1>4
<1> QED BY <1>5 DEF OpsOf

Redirected(f, t, g) == g = [f EXCEPT !.todo = t]

(* A registration that goes on with another program. *)
LEMMA RedirectedFrame ==
  ASSUME NEW p, p.kind = "register", NEW f, FrameOK(p, f), f.out = "pending", NEW t, InOrder("register", t),
         t # <<>>, NEW g, Redirected(f, t, g)
  PROVE  FrameOK(p, g) /\ g.todo = t /\ g.held = {}
<1>1. f.held = {}
  BY RegisterHoldsNothing
<1>2. g = [todo |-> t, at |-> f.at, lease |-> f.lease, seen |-> f.seen, held |-> f.held, exp |-> f.exp,
           out |-> f.out]
  BY DEF FrameOK, Redirected
<1>3. /\ g = [todo |-> g.todo, at |-> g.at, lease |-> g.lease, seen |-> g.seen, held |-> g.held,
              exp |-> g.exp, out |-> g.out]
      /\ g.todo = t /\ g.at = f.at /\ g.lease = f.lease /\ g.held = {} /\ g.exp = f.exp /\ g.out = "pending"
  BY ONLY <1>1, <1>2, f.out = "pending"
<1>4. Life(p, g.at, g.lease, g.exp, t)
  BY <1>3 DEF FrameOK, Life, PodKinds, UserKinds
<1> QED BY <1>3, <1>4 DEF FrameOK

(* The loser of a race goes on with the winner's account. *)
LEMMA OrderOfWinner ==
  ASSUME NEW s, InOrder("register", s), s # <<>>, Head(s)[1] = "create", NEW t, t = <<Do("winner")>> \o Tail(s)
  PROVE  InOrder("register", t) /\ t # <<>> /\ (\A op : Has(t, op) /\ op # "winner" => Has(s, op))
<1> DEFINE E == OpsOf("register") \X (Services \cup {"none"})
<1>1. /\ Len(s) \in Nat \ {0} /\ Len(Tail(s)) = Len(s) - 1 /\ Head(s) = s[1] /\ s[1] \in E
      /\ \A i \in 1..Len(Tail(s)) : Tail(s)[i] = s[i + 1]
      /\ InOrder("register", Tail(s))
  BY OrderOfTail
<1>2. Tail(s) \in Seq(E) /\ Do("winner") \in E
  BY <1>1 DEF InOrder, Do, OpsOf
<1>3. PICK w : w = Do("winner")
  OBVIOUS
<1>4. PICK r : r = Tail(s)
  OBVIOUS
<1>5. t = <<w>> \o r /\ r \in Seq(E) /\ w \in E /\ Len(r) = Len(s) - 1 /\ w[1] = "winner"
  BY <1>1, <1>2, <1>3, <1>4 DEF Do
<1>6. /\ t \in Seq(E) /\ Len(t) = Len(s) /\ t[1] = w
      /\ \A i \in 1..Len(t) : i # 1 => t[i] = r[i - 1]
  <2>1. PICK v : v = <<w>>
    OBVIOUS
  <2>2. v \in Seq(E) /\ Len(v) = 1 /\ v[1] = w
    BY <1>5, <2>1
  <2>3. /\ v \o r \in Seq(E) /\ Len(v \o r) = Len(v) + Len(r)
        /\ \A i \in 1..Len(v) + Len(r) : (v \o r)[i] = IF i <= Len(v) THEN v[i] ELSE r[i - Len(v)]
    BY <1>5, <2>2, ConcatProperties
  <2>4. t = v \o r
    BY <1>5, <2>1
  <2>5. PICK n : n = Len(s)
    OBVIOUS
  <2>6. n \in Nat \ {0} /\ Len(r) = n - 1
    BY <1>1, <1>5, <2>5
  <2>7. /\ t \in Seq(E) /\ Len(t) = n
        /\ \A i \in 1..n : t[i] = IF i <= 1 THEN v[i] ELSE r[i - 1]
    BY ONLY <2>2, <2>3, <2>4, <2>6
  <2>8. t[1] = w /\ \A i \in 1..n : i # 1 => t[i] = r[i - 1]
    BY ONLY <2>2, <2>6, <2>7
  <2> QED BY <2>5, <2>7, <2>8
<1>7. \A i \in 1..Len(t) : i # 1 => t[i] = s[i]
  BY <1>1, <1>4, <1>6
<1>8. \A i \in 1..Len(t) : t[i] \in E /\ t[i][1] \in OpsOf("register")
  BY <1>6
<1>9. \A i \in 1..Len(t) : t[i][1] \notin {"slot", "limit", "remove", "sign", "ask", "scoped", "unscoped"}
  BY <1>8 DEF OpsOf
<1>10. Released(t)
  BY <1>9 DEF Released
<1>11. Room(t)
  <2>1. Room(s)
    BY DEF InOrder
  <2>2. 1 \in 1..Len(s) /\ s[1][1] = "create"
    BY <1>1
  <2>3. 2 <= Len(s)
    BY <2>1, <2>2 DEF Room
  <2>4. ASSUME NEW i \in 1..Len(t)
        PROVE  /\ t[i][1] \in {"scoped", "lookup"} => i + 2 <= Len(t)
               /\ t[i][1] \in {"unscoped", "create", "winner"} => i + 1 <= Len(t)
    <3>1. CASE i = 1
      BY <1>5, <1>6, <2>3, <3>1
    <3>2. CASE i # 1
      BY <1>6, <1>7, <2>1, <2>4, <3>2 DEF Room
    <3> QED BY <3>1, <3>2
  <2> QED BY <2>4 DEF Room
<1>12. Never(t, "create", {"create"})
  <2>1. Never(s, "create", {"create"})
    BY DEF InOrder
  <2>2. \A i \in 1..Len(t) : t[i][1] = "create" => i # 1
    BY <1>5, <1>6
  <2>3. SUFFICES ASSUME NEW i \in 1..Len(t), NEW j \in 1..Len(t), i < j, t[i][1] = "create"
                 PROVE  t[j][1] # "create"
    BY DEF Never
  <2>4. i # 1 /\ j # 1 /\ i \in 1..Len(s) /\ j \in 1..Len(s)
    BY <1>6, <2>2, <2>3
  <2> QED BY <1>7, <2>1, <2>3, <2>4 DEF Never
<1>13. InOrder("register", t)
  BY <1>6, <1>9, <1>10, <1>11, <1>12 DEF InOrder, Never, AIKinds
<1>14. t # <<>>
  BY <1>1, <1>6, EmptySeq
<1>15. ASSUME NEW op, Has(t, op), op # "winner" PROVE Has(s, op)
  BY <1>5, <1>6, <1>7, <1>15 DEF Has
<1> QED BY <1>13, <1>14, <1>15

(* A step of a registration. *)
LEMMA RegisterPast ==
  ASSUME NEW c, NEW p, p.kind = "register", NEW f, NEW g, NEW h, PastOK(c, p, f, h),
         Has(g.todo, "create") => Has(f.todo, "create"), Has(g.todo, "limit") => Has(f.todo, "limit")
  PROVE  PastOK(c, p, g, h)
BY DEF PastOK, AliveOK, LegacyOK, DeleteOK, UnusedOK, AdmittedOK, AIKinds

(* A registration moves to a frame that is in order. *)
LEMMA RegisterStep ==
  ASSUME WorkloadInv, NEW c \in Callers, Plan(c).kind = "register", NEW g, call' = [call EXCEPT ![c] = g],
         FrameOK(Plan(c), g), g.held = {}, hist' = hist, Quiet,
         Has(g.todo, "create") => Has(call[c].todo, "create"), Has(g.todo, "limit") => Has(call[c].todo, "limit")
  PROVE  RequestsOK'
<1>1. PICK k : k = hist[c]
  OBVIOUS
<1>2. PICK f : f = call[c]
  OBVIOUS
<1>3. PICK p : p = Plan(c)
  OBVIOUS
<1>4. PastOK(c, p, f, k) /\ hist' = [hist EXCEPT ![c] = k]
  BY <1>1, <1>2, <1>3 DEF WorkloadInv, RequestsOK, Histories
<1>5. PastOK(c, p, g, k)
  BY <1>2, <1>3, <1>4, RegisterPast
<1>6. SlotsOK'
  BY SlotsShrink DEF WorkloadInv, RequestsOK
<1> QED BY <1>1, <1>3, <1>4, <1>5, <1>6, CallStep

(* Operations of a registration, and what ends it. *)
LEMMA AtRegistration ==
  ASSUME WorkloadInv, NEW c \in Callers, NEW op \in {"lookup", "create", "winner", "assign", "current", "undo"}, At(c, op)
  PROVE  Plan(c).kind = "register"
BY AtOperation DEF OpsOf

(* A registration that skips operations stays in order. *)
LEMMA SkippedFrame ==
  ASSUME WorkloadInv, NEW c \in Callers, NEW op, NEW n, At(c, op), NEW id, Skip(c, n, id),
         <<op, n>> \in {<<"lookup", 2>>, <<"create", 1>>, <<"winner", 1>>}
  PROVE  \E g : /\ call' = [call EXCEPT ![c] = g] /\ FrameOK(Plan(c), g) /\ g.held = {} /\ call[c].held = {}
                /\ Plan(c).kind = "register" /\ \A x : Has(g.todo, x) => Has(call[c].todo, x)
                /\ op = "create" => ~Has(g.todo, "create")
<1>1. (op = "lookup" /\ n = 2) \/ (op \in {"create", "winner"} /\ n = 1)
  OBVIOUS
<1>2. PICK f : f = call[c]
  OBVIOUS
<1>3. PICK p : p = Plan(c)
  OBVIOUS
<1>4. p \in Request /\ FrameOK(p, f) /\ f.out = "pending" /\ Head(f.todo)[1] = op
  BY <1>2, <1>3, AtOperation
<1>5. p.kind = "register" /\ p.kind \in {"legacy", "register"}
  BY <1>1, <1>3, AtRegistration
<1>6. n \in Nat /\ n < Len(f.todo)
  BY <1>1, <1>4, RoomAhead
<1>7. PICK g : g = [f EXCEPT !.todo = SubSeq(f.todo, n + 1, Len(f.todo)), !.seen = id]
  OBVIOUS
<1>8. Jumped(f, n, id, g)
  BY <1>7 DEF Jumped
<1>9. /\ FrameOK(p, g) /\ g.held = {} /\ f.held = {}
      /\ Len(g.todo) = Len(f.todo) - n /\ \A i \in 1..Len(g.todo) : g.todo[i] = f.todo[i + n]
      /\ \A x : Has(g.todo, x) => Has(f.todo, x)
  <2>1. p.kind \in {"legacy", "register"}
    BY <1>5
  <2>2. p \in Request /\ FrameOK(p, f) /\ f.out = "pending"
    BY <1>4
  <2>3. /\ FrameOK(p, g) /\ g.out = "pending" /\ g.held = {} /\ f.held = {}
        /\ Len(g.todo) = Len(f.todo) - n /\ \A i \in 1..Len(g.todo) : g.todo[i] = f.todo[i + n]
        /\ \A x : Has(g.todo, x) => Has(f.todo, x)
    BY ONLY <1>6, <1>8, <2>1, <2>2, JumpFrame
  <2> QED BY <2>3
<1>10. call' = [call EXCEPT ![c] = g]
  BY <1>2, <1>7 DEF Skip
<1>11. ASSUME op = "create" PROVE ~Has(g.todo, "create")
  <2>1. InOrder(p.kind, f.todo) /\ f.todo # <<>>
    BY <1>4 DEF FrameOK
  <2>2. Len(f.todo) \in Nat \ {0} /\ Head(f.todo) = f.todo[1] /\ n = 1
    BY <1>1, <1>11, <2>1, OrderOfTail
  <2>3. \A j \in 1..Len(f.todo) : 1 < j => f.todo[j][1] # "create"
    BY <1>4, <1>11, <2>1, <2>2 DEF InOrder, Never
  <2>4. Len(g.todo) = Len(f.todo) - 1 /\ \A i \in 1..Len(g.todo) : g.todo[i] = f.todo[i + 1]
    BY <1>9, <2>2
  <2>5. \A i \in 1..Len(g.todo) : i + 1 \in 1..Len(f.todo) /\ 1 < i + 1
    BY <2>2, <2>4
  <2>6. \A i \in 1..Len(g.todo) : g.todo[i][1] # "create"
    BY <2>3, <2>4, <2>5
  <2> QED BY <2>6 DEF Has
<1> QED BY <1>2, <1>3, <1>5, <1>9, <1>10, <1>11

LEMMA SkipStep ==
  ASSUME WorkloadInv, NEW c \in Callers, NEW op, NEW n, At(c, op), NEW id, Skip(c, n, id),
         <<op, n>> \in {<<"lookup", 2>>, <<"winner", 1>>}, hist' = hist, Quiet
  PROVE  RequestsOK'
<1>1. <<op, n>> \in {<<"lookup", 2>>, <<"create", 1>>, <<"winner", 1>>}
  OBVIOUS
<1>2. PICK g : /\ call' = [call EXCEPT ![c] = g] /\ FrameOK(Plan(c), g) /\ g.held = {}
               /\ Plan(c).kind = "register" /\ \A x : Has(g.todo, x) => Has(call[c].todo, x)
  BY <1>1, SkippedFrame
<1> QED BY <1>2, RegisterStep

(* A registration reports the account. *)
LEMMA ReportStep ==
  ASSUME WorkloadInv, NEW c \in Callers, NEW op \in {"assign", "current"}, At(c, op), Report(c), hist' = hist, Quiet
  PROVE  RequestsOK'
<1>1. PICK f : f = call[c]
  OBVIOUS
<1>2. PICK g : g = Granting(f)
  OBVIOUS
<1>3. Plan(c) \in Request /\ FrameOK(Plan(c), f) /\ Plan(c).kind = "register"
  BY <1>1, AtOperation, AtRegistration
<1>4. f.held = {}
  BY <1>3, RegisterHoldsNothing
<1>5. FrameOK(Plan(c), g) /\ g.todo = <<>> /\ g.held = {}
  BY <1>2, <1>3, <1>4, FrameGranted
<1>6. call' = [call EXCEPT ![c] = g] /\ \A x : ~Has(g.todo, x)
  BY <1>1, <1>2, <1>5 DEF Report, Has
<1> QED BY <1>3, <1>5, <1>6, RegisterStep

(* An assignment that fails is undone, or ends the registration. *)
LEMMA FailStep ==
  ASSUME WorkloadInv, NEW c \in Callers, At(c, "assign"), Fail(c), hist' = hist, Quiet
  PROVE  RequestsOK'
<1>1. CASE Created(c)
  <2>1. PICK f : f = call[c]
    OBVIOUS
  <2>2. PICK t : t = <<Do("undo")>>
    OBVIOUS
  <2>3. PICK g : g = [f EXCEPT !.todo = t]
    OBVIOUS
  <2>4. FrameOK(Plan(c), f) /\ f.out = "pending" /\ Plan(c).kind = "register"
    BY <2>1, AtOperation, AtRegistration
  <2>5. InOrder("register", t) /\ t # <<>> /\ ~Has(t, "create") /\ ~Has(t, "limit")
    BY <2>2 DEF Do, InOrder, OpsOf, Released, Room, Never, AIKinds, Has
  <2>6. FrameOK(Plan(c), g) /\ g.todo = t /\ g.held = {}
    <3>1. Redirected(f, t, g)
      BY <2>3 DEF Redirected
    <3> QED BY <2>4, <2>5, <3>1, RedirectedFrame
  <2>7. call' = [call EXCEPT ![c] = g]
    BY <1>1, <2>1, <2>2, <2>3 DEF Fail
  <2> QED BY <2>4, <2>5, <2>6, <2>7, RegisterStep
<1>2. CASE ~Created(c)
  <2>1. Refuse(c, "conflict")
    BY <1>2 DEF Fail
  <2> QED BY <2>1, RefuseStep DEF Codes
<1> QED BY <1>1, <1>2

(* The account is gone: nobody's roles are at stake. *)
LEMMA AccountGone ==
  ASSUME WorkloadInv, account' = Nothing, UNCHANGED <<world, binding, attempts, given>>,
         roles' = [id \in Ids |-> roles'[id]],
         \A id \in Ids : roles'[id] # Nothing => roles'[id] \subseteq {Base} \cup Additional
  PROVE  WorldOK' /\ ReplayKeepsRoles'
<1>1. WorldOK'
  BY DEF WorkloadInv, WorldOK, Request, Ids, Services
<1>2. ReplayKeepsRoles'
  BY DEF ReplayKeepsRoles, Exists
<1> QED BY <1>1, <1>2

(* A new account: its id was never used. *)
LEMMA PastCreated ==
  ASSUME NEW c, NEW d, NEW p, NEW f, NEW h, PastOK(d, p, f, h), d # c \/ ~Has(f.todo, "create"),
         account' = [id |-> c, active |-> TRUE],
         UNCHANGED <<world, clock, tenant, binding, object, attempts, given>>
  PROVE  PastOK(d, p, f, h)'
<1>1. AliveOK(p, f, h)' /\ HistoryShape(h)' /\ h.stale \in Int /\ h.stale < CacheTTL + FetchTimeout
  BY DEF PastOK, AliveOK, HistoryShape, Has, Live
<1>2. LegacyOK(p, f, h)'
  BY DEF PastOK, LegacyOK, Has, Live, Grants
<1>3. DeleteOK(p, f, h)'
  BY DEF PastOK, DeleteOK, Has, Live
<1>4. UnusedOK(d, f)'
  <2>1. account'.id = c
    OBVIOUS
  <2> QED BY <2>1 DEF PastOK, UnusedOK, Has
<1>5. AdmittedOK(d, p, f, h)'
  BY DEF PastOK, AdmittedOK, Has
<1> QED BY <1>1, <1>2, <1>3, <1>4, <1>5 DEF PastOK

(* CreateUser creates the account under an id of its own, and goes on as g. *)
LEMMA CreatedStep ==
  ASSUME WorkloadInv, NEW c \in Callers, NEW g, call' = [call EXCEPT ![c] = g], FrameOK(Plan(c), g), g.held = {},
         Plan(c).kind = "register", \A x : Has(g.todo, x) => Has(call[c].todo, x), ~Has(g.todo, "create"),
         account' = [id |-> c, active |-> TRUE],
         hist' = hist, UNCHANGED <<world, clock, tenant, binding, object, attempts, given>>
  PROVE  RequestsOK'
<1>3. Frames'
  BY FramesStep DEF WorkloadInv, RequestsOK
<1>4. SlotsOK'
  BY SlotsShrink DEF WorkloadInv, RequestsOK
<1>5. WindowsOK'
  BY WindowsSame DEF WorkloadInv, RequestsOK
<1>6. ASSUME NEW d \in Callers PROVE PastOK(d, Plan(d), call[d], hist[d])'
  <2>1. PICK p : p = Plan(d)
    OBVIOUS
  <2>2. PICK f : f = call'[d]
    OBVIOUS
  <2>3. PICK h : h = hist[d]
    OBVIOUS
  <2>4. PastOK(d, p, f, h) /\ (d # c \/ ~Has(f.todo, "create"))
    <3>1. PICK e : e = call[d]
      OBVIOUS
    <3>2. PastOK(d, p, e, h)
      BY <2>1, <2>3, <3>1 DEF WorkloadInv, RequestsOK, Histories
    <3>3. CASE d = c
      <4>1. f = g /\ p.kind = "register" /\ e = call[c]
        BY <2>1, <2>2, <3>1, <3>3 DEF WorkloadInv, RequestsOK, Frames
      <4>2. (Has(f.todo, "create") => Has(e.todo, "create")) /\ (Has(f.todo, "limit") => Has(e.todo, "limit"))
        BY <4>1
      <4> QED BY <3>2, <4>1, <4>2, RegisterPast
    <3>4. CASE d # c
      <4>1. f = e
        BY <2>2, <3>1, <3>4 DEF WorkloadInv, RequestsOK, Frames
      <4> QED BY <3>2, <3>4, <4>1
    <3> QED BY <3>3, <3>4
  <2>5. PastOK(d, p, f, h)'
    BY <2>4, PastCreated
  <2>6. p = Plan(d)' /\ h = hist'[d]
    BY <2>1, <2>3 DEF Plan
  <2> QED BY <2>2, <2>5, <2>6
<1>7. Histories'
  BY <1>6 DEF WorkloadInv, RequestsOK, Histories
<1> QED BY <1>3, <1>4, <1>5, <1>7 DEF RequestsOK

(* The steps of the broker that change no account. *)
LEMMA BrokerLook ==
  ASSUME WorkloadInv, NEW c \in Callers, UNCHANGED <<environment, accounts>>, Local,
         LookUp(c) \/ Winner(c) \/ Replay(c) \/ SignIn(c) \/ SessionRoles(c) \/ ReadMembership(c)
  PROVE  WorkloadInv'
<1>1. UNCHANGED <<environment, keys, stores, storage, accounts>> /\ hist' = hist
  BY DEF Local
<1>2. Quiet
  BY <1>1 DEF Quiet, environment, keys, stores, storage, accounts
<1>3. SUFFICES RequestsOK'
  BY <1>1, StoresStay
<1>4. ASSUME NEW op, At(c, op), op \in {"lookup", "effective", "exchange", "membership"}, Continue(c, call[c])
      PROVE  RequestsOK'
  <2>1. PICK e : e = call[c]
    OBVIOUS
  <2>2. Same(call[c], e)
    BY <1>4, <2>1, AtOperation DEF Same, FrameOK
  <2>3. op \notin {"ask", "release", "lease", "userLease"} /\ Looks(op) /\ Continue(c, e)
    BY <1>4, <2>1 DEF Looks
  <2> QED BY <1>1, <1>2, <1>4, <2>2, <2>3, PlainStep
<1>5. ASSUME NEW op, At(c, op), NEW code \in Codes, Refuse(c, code) PROVE RequestsOK'
  BY <1>1, <1>2, <1>5, RefuseStep
<1>6. CASE LookUp(c)
  <2>1. At(c, "lookup")
    BY <1>6 DEF LookUp
  <2>2. CASE account = Nothing
    BY <1>4, <1>6, <2>1, <2>2 DEF LookUp
  <2>3. CASE account # Nothing /\ account.active
    <3>1. PICK id : id = account.id
      OBVIOUS
    <3>2. Skip(c, 2, id)
      BY <1>6, <2>3, <3>1 DEF LookUp
    <3> QED BY <1>1, <1>2, <2>1, <3>2, SkipStep
  <2>4. CASE account # Nothing /\ ~account.active
    <3>1. Refuse(c, "conflict") /\ "conflict" \in Codes
      BY <1>6, <2>4 DEF LookUp, Codes
    <3> QED BY <1>5, <2>1, <3>1
  <2> QED BY <2>2, <2>3, <2>4
<1>7. CASE Winner(c)
  <2>1. At(c, "winner")
    BY <1>7 DEF Winner
  <2>2. CASE account # Nothing /\ account.active
    <3>1. PICK id : id = account.id
      OBVIOUS
    <3>2. Skip(c, 1, id)
      BY <1>7, <2>2, <3>1 DEF Winner
    <3> QED BY <1>1, <1>2, <2>1, <3>2, SkipStep
  <2>3. CASE ~(account # Nothing /\ account.active)
    <3>1. Refuse(c, "conflict") /\ "conflict" \in Codes
      BY <1>7, <2>3 DEF Winner, Codes
    <3> QED BY <1>5, <2>1, <3>1
  <2> QED BY <2>2, <2>3
<1>8. CASE Replay(c)
  <2>1. At(c, "current") /\ (Report(c) \/ Refuse(c, "conflict")) /\ "conflict" \in Codes
    BY <1>8 DEF Replay, Codes
  <2>2. CASE Report(c)
    BY <1>1, <1>2, <2>1, <2>2, ReportStep
  <2>3. CASE Refuse(c, "conflict")
    BY <1>5, <2>1, <2>3
  <2> QED BY <2>1, <2>2, <2>3
<1>9. CASE SignIn(c)
  <2>1. At(c, "signIn")
    BY <1>9 DEF SignIn
  <2>2. CASE account # Nothing /\ account.active /\ (call[c].seen # Nothing => account.id = call[c].seen)
    <3>1. PICK e : e = [call[c] EXCEPT !.seen = account.id]
      OBVIOUS
    <3>2. Continue(c, e)
      BY <1>9, <2>2, <3>1 DEF SignIn
    <3>3. PICK f : f = call[c]
      OBVIOUS
    <3>4. FrameOK(Plan(c), f) /\ f.out = "pending"
      BY <2>1, <3>3, AtOperation
    <3>5. PICK id : id = account.id
      OBVIOUS
    <3>6. e = [f EXCEPT !.seen = id]
      BY <3>1, <3>3, <3>5
    <3>7. e = [todo |-> f.todo, at |-> f.at, lease |-> f.lease, seen |-> e.seen, held |-> f.held,
               exp |-> f.exp, out |-> "pending"]
      BY <3>4, <3>6 DEF FrameOK
    <3>8. Same(call[c], e) /\ Looks("signIn")
      BY <3>3, <3>7 DEF Same, Looks
    <3> QED BY <1>1, <1>2, <2>1, <3>2, <3>8, PlainStep
  <2>3. CASE ~(account # Nothing /\ account.active /\ (call[c].seen # Nothing => account.id = call[c].seen))
    <3>1. Refuse(c, "credentials") /\ "credentials" \in Codes
      BY <1>9, <2>3 DEF SignIn, Codes
    <3> QED BY <1>5, <2>1, <3>1
  <2> QED BY <2>2, <2>3
<1>10. CASE SessionRoles(c)
  <2>1. PICK op \in {"effective", "exchange"} : At(c, op)
    BY <1>10 DEF SessionRoles
  <2>2. (Continue(c, call[c]) \/ Refuse(c, "denied")) /\ "denied" \in Codes
    BY <1>10 DEF SessionRoles, Codes
  <2> QED BY <1>4, <1>5, <2>1, <2>2
<1>11. CASE ReadMembership(c)
  <2>1. At(c, "membership") /\ (Continue(c, call[c]) \/ Refuse(c, "denied")) /\ "denied" \in Codes
    BY <1>11 DEF ReadMembership, Codes
  <2> QED BY <1>4, <1>5, <2>1
<1> QED BY <1>6, <1>7, <1>8, <1>9, <1>10, <1>11

(* CreateUser: the account is new, or the winner of the race is looked up. *)
LEMMA CreateUserStep ==
  ASSUME WorkloadInv, NEW c \in Callers, CreateUser(c), UNCHANGED environment
  PROVE  WorkloadInv'
<1>1. /\ UNCHANGED <<world, clock, tenant, binding, object, attempts, given, roles>> /\ hist' = hist
      /\ UNCHANGED <<issuer, withdrawn, cache, fetch, environment, keys, stores, storage>> /\ At(c, "create")
  BY DEF CreateUser, Local, environment, keys, stores, storage
<1>2. CASE /\ account = Nothing /\ account' = [id |-> c, active |-> TRUE]
           /\ Skip(c, 1, c) \/ Refuse(c, "unavailable")
  <2>0. PICK g : /\ call' = [call EXCEPT ![c] = g] /\ FrameOK(Plan(c), g) /\ g.held = {}
                 /\ Plan(c).kind = "register" /\ \A x : Has(g.todo, x) => Has(call[c].todo, x)
                 /\ ~Has(g.todo, "create")
    <3>1. CASE Skip(c, 1, c)
      <4>1. <<"create", 1>> \in {<<"lookup", 2>>, <<"create", 1>>, <<"winner", 1>>}
        OBVIOUS
      <4> QED BY <1>1, <3>1, <4>1, SkippedFrame
    <3>2. CASE Refuse(c, "unavailable")
      <4>1. PICK g : g = Refusal("unavailable")
        OBVIOUS
      <4>2. call' = [call EXCEPT ![c] = g]
        BY <3>2, <4>1 DEF Refuse, Refusal
      <4>3. Plan(c) \in Request /\ Plan(c).kind = "register" /\ "unavailable" # "pending"
        BY <1>1, AtOperation, AtRegistration
      <4>4. FrameOK(Plan(c), g) /\ g.todo = <<>> /\ g.held = {}
        BY <4>1, <4>3, FrameRefused
      <4>5. \A x : ~Has(g.todo, x)
        BY <4>4 DEF Has
      <4> QED BY <4>2, <4>3, <4>4, <4>5
    <3> QED BY <1>2, <3>1, <3>2
  <2>1. RequestsOK'
    BY <1>1, <1>2, <2>0, CreatedStep
  <2>2. Has(call[c].todo, "create")
    <3>1. PICK s : s = call[c].todo
      OBVIOUS
    <3>2. PICK kind : kind = Plan(c).kind
      OBVIOUS
    <3>3. InOrder(kind, s) /\ s # <<>> /\ Head(s)[1] = "create"
      BY <1>1, <3>1, <3>2, AtOperation DEF FrameOK
    <3>4. Len(s) \in Nat \ {0} /\ Head(s) = s[1]
      BY <3>3, OrderOfTail
    <3> QED BY <3>1, <3>3, <3>4 DEF Has
  <2>3. \A e \in given : e[1] # c
    BY <2>2 DEF WorkloadInv, RequestsOK, Histories, PastOK, UnusedOK
  <2>4. account'.id = c
    BY <1>2
  <2>5. WorldOK'
    BY <1>1, <2>4 DEF WorkloadInv, WorldOK, Request, Ids, Services
  <2>6. ReplayKeepsRoles'
    BY <1>1, <2>3, <2>4 DEF ReplayKeepsRoles, Exists
  <2>7. KeysOK'
    BY <1>1, KeysKept DEF WorkloadInv
  <2> QED BY <2>1, <2>5, <2>6, <2>7 DEF WorkloadInv
<1>3. CASE account # Nothing /\ UNCHANGED account /\ call' = [call EXCEPT ![c].todo = <<Do("winner")>> \o Tail(@)]
  <2>1. PICK f : f = call[c]
    OBVIOUS
  <2>2. PICK t : t = <<Do("winner")>> \o Tail(f.todo)
    OBVIOUS
  <2>3. PICK g : g = [f EXCEPT !.todo = t]
    OBVIOUS
  <2>4. /\ FrameOK(Plan(c), f) /\ f.out = "pending" /\ Plan(c).kind = "register"
        /\ Head(f.todo)[1] = "create"
    BY <1>1, <2>1, AtOperation, AtRegistration
  <2>5. InOrder("register", t) /\ t # <<>> /\ (\A op : Has(t, op) /\ op # "winner" => Has(f.todo, op))
    <3>1. PICK s : s = f.todo
      OBVIOUS
    <3>2. InOrder("register", s) /\ s # <<>> /\ Head(s)[1] = "create" /\ t = <<Do("winner")>> \o Tail(s)
      BY <2>2, <2>4, <3>1 DEF FrameOK
    <3>3. InOrder("register", t) /\ t # <<>> /\ (\A op : Has(t, op) /\ op # "winner" => Has(s, op))
      BY <3>2, OrderOfWinner
    <3> QED BY <3>1, <3>3
  <2>6. Redirected(f, t, g)
    BY <2>3 DEF Redirected
  <2>7. FrameOK(Plan(c), g) /\ g.todo = t /\ g.held = {}
    BY <2>4, <2>5, <2>6, RedirectedFrame
  <2>8. call' = [call EXCEPT ![c] = g]
    BY <1>3, <2>1, <2>2, <2>3
  <2>9. Quiet /\ UNCHANGED <<environment, keys, stores, storage, accounts>>
    BY <1>1, <1>3 DEF Quiet, accounts, CreateUser
  <2>10. (Has(g.todo, "create") => Has(call[c].todo, "create")) /\ (Has(g.todo, "limit") => Has(call[c].todo, "limit"))
    BY <2>1, <2>5, <2>7
  <2>11. RequestsOK'
    BY <1>1, <2>4, <2>7, <2>8, <2>9, <2>10, RegisterStep
  <2> QED BY <2>9, <2>11, StoresStay
<1>4. CASE Refuse(c, "unavailable") /\ UNCHANGED account
  <2>1. Quiet /\ UNCHANGED <<environment, keys, stores, storage, accounts>>
    BY <1>1, <1>4 DEF Quiet, accounts, CreateUser
  <2>2. RequestsOK'
    BY <1>1, <1>4, <2>1, RefuseStep DEF Codes
  <2> QED BY <2>1, <2>2, StoresStay
<1> QED BY <1>2, <1>3, <1>4 DEF CreateUser

(* PutAccessAssignment writes the base role where there is no other. *)
LEMMA BaseAssigned ==
  ASSUME WorkloadInv, NEW id, Exists(id), roles[id] \in {Nothing, {Base}}, roles' = [roles EXCEPT ![id] = {Base}],
         UNCHANGED <<world, binding, attempts, account, given>>
  PROVE  WorldOK' /\ ReplayKeepsRoles'
<1>1. id \in Ids /\ account # Nothing /\ account.id = id
  BY DEF Exists, WorkloadInv, WorldOK
<1>2. {Base} # Nothing
  BY NothingIsAbsence
<1>3. /\ roles' = [x \in Ids |-> roles'[x]] /\ roles'[id] = {Base}
      /\ \A x \in Ids : x # id => roles'[x] = roles[x]
  BY <1>1 DEF WorkloadInv, WorldOK
<1>4. \A x \in Ids : roles'[x] # Nothing => roles'[x] \subseteq {Base} \cup Additional
  BY <1>3 DEF WorkloadInv, WorldOK
<1>5. WorldOK'
  <2>1. /\ (world.plan \in [Callers -> Request])' /\ (binding = [k \in {"scoped", "unscoped"} |-> binding[k]])'
        /\ (attempts = [s \in Services |-> [pod \in Pods |-> attempts[s][pod]]])'
        /\ (\A s \in Services, pod \in Pods : IsFiniteSet(attempts[s][pod]))'
    BY DEF WorkloadInv, WorldOK, Request, Services
  <2>2. (account # Nothing => account.id \in Ids)'
    BY <1>1 DEF Ids
  <2>3. /\ (roles = [x \in Ids |-> roles[x]])'
        /\ (\A x \in Ids : roles[x] # Nothing => roles[x] \subseteq {Base} \cup Additional)'
    BY <1>3, <1>4 DEF Ids
  <2> QED BY <2>1, <2>2, <2>3 DEF WorldOK
<1>6. ReplayKeepsRoles'
  <2>1. SUFFICES ASSUME NEW g \in given, g[1] = id
                 PROVE  roles'[g[1]] # Nothing /\ g[2] \in roles'[g[1]]
    BY <1>1 DEF ReplayKeepsRoles, Exists
  <2>2. roles[id] # Nothing /\ g[2] \in roles[id]
    BY <2>1 DEF WorkloadInv, ReplayKeepsRoles
  <2> QED BY <1>2, <1>3, <2>1, <2>2
<1> QED BY <1>5, <1>6

(* PutAccessAssignment writes the base role over nothing or itself, or fails. *)
LEMMA AssignStep ==
  ASSUME WorkloadInv, NEW c \in Callers, Assign(c), UNCHANGED environment
  PROVE  WorkloadInv'
<1>1. /\ UNCHANGED <<world, clock, tenant, binding, object, attempts, given, account, issuer, withdrawn, cache, fetch>>
      /\ UNCHANGED <<environment, keys, stores, storage, member>> /\ hist' = hist /\ At(c, "assign")
  BY DEF Assign, Local, environment, keys, stores, storage
<1>2. Quiet
  BY <1>1 DEF Quiet
<1>3. PICK id : id = call[c].seen
  OBVIOUS
<1>4. KeysOK'
  BY <1>1, KeysKept DEF WorkloadInv
<1>5. CASE /\ Exists(id) /\ roles[id] \in {Nothing, {Base}}
           /\ roles' = [roles EXCEPT ![id] = {Base}] /\ (Report(c) \/ Fail(c))
  <2>1. RequestsOK'
    BY <1>1, <1>2, <1>5, ReportStep, FailStep
  <2>2. WorldOK' /\ ReplayKeepsRoles'
    BY <1>1, <1>5, BaseAssigned
  <2> QED BY <1>4, <2>1, <2>2 DEF WorkloadInv
<1>6. CASE UNCHANGED roles /\ Fail(c)
  <2>1. RequestsOK'
    BY <1>1, <1>2, <1>6, FailStep
  <2>2. WorldOK' /\ ReplayKeepsRoles'
    BY <1>1, <1>6, RestKept
  <2> QED BY <1>4, <2>1, <2>2 DEF WorkloadInv
<1>7. CASE UNCHANGED roles /\ Continue(c, call[c])
  <2>1. UNCHANGED <<environment, keys, stores, storage, accounts>>
    BY <1>1, <1>7 DEF accounts
  <2>2. Looks("assign")
    BY DEF Looks
  <2> QED BY <1>1, <1>7, <2>1, <2>2, LookStep
<1> QED BY <1>3, <1>5, <1>6, <1>7 DEF Assign

(* DeleteByEmail: whatever account there is goes with its assignment. *)
LEMMA UndoStep ==
  ASSUME WorkloadInv, NEW c \in Callers, Undo(c), UNCHANGED environment
  PROVE  WorkloadInv'
<1>1. /\ UNCHANGED <<world, clock, tenant, binding, object, attempts, given, issuer, withdrawn, cache, fetch>>
      /\ hist' = hist /\ At(c, "undo") /\ Refuse(c, "conflict")
  BY DEF Undo, Local, environment, keys, stores, storage
<1>2. KeysOK'
  BY <1>1, KeysKept DEF WorkloadInv
<1>3. CASE UNCHANGED <<account, roles>>
  <2>1. Quiet
    BY <1>1, <1>3 DEF Quiet
  <2>2. RequestsOK'
    BY <1>1, <2>1, RefuseStep DEF Codes
  <2> QED BY <1>1, <1>2, <1>3, <2>2, RestKept DEF WorkloadInv
<1>4. CASE /\ account' = Nothing
           /\ roles' = IF account = Nothing THEN roles ELSE [roles EXCEPT ![account.id] = Nothing]
  <2>1. Quiet
    BY <1>1, <1>4 DEF Quiet
  <2>2. RequestsOK'
    BY <1>1, <2>1, RefuseStep DEF Codes
  <2>3. /\ roles' = [id \in Ids |-> roles'[id]]
        /\ \A id \in Ids : roles'[id] # Nothing => roles'[id] \subseteq {Base} \cup Additional
    BY <1>4 DEF WorkloadInv, WorldOK
  <2>4. WorldOK' /\ ReplayKeepsRoles'
    BY <1>1, <1>4, <2>3, AccountGone
  <2> QED BY <1>2, <2>2, <2>4 DEF WorkloadInv
<1> QED BY <1>3, <1>4 DEF Undo

(* An account is erased; its assignment stays. *)
LEMMA EraseStep ==
  ASSUME WorkloadInv, NEW c \in Callers, Erase(c), UNCHANGED environment
  PROVE  WorkloadInv'
<1>1. /\ UNCHANGED <<world, clock, tenant, binding, object, attempts, given, roles, issuer, withdrawn, cache, fetch>>
      /\ UNCHANGED <<environment, keys, stores, storage>> /\ hist' = hist /\ At(c, "erase")
  BY DEF Erase, Local, environment, keys, stores, storage
<1>2. KeysOK'
  BY <1>1, KeysKept DEF WorkloadInv
<1>3. CASE account' = Nothing /\ Continue(c, call[c])
  <2>1. Quiet /\ Looks("erase")
    BY <1>1, <1>3 DEF Quiet, Looks
  <2>2. PICK e : e = call[c]
    OBVIOUS
  <2>3. Same(call[c], e) /\ Continue(c, e)
    BY <1>1, <1>3, <2>2, AtOperation DEF Same, FrameOK
  <2>4. RequestsOK'
    BY <1>1, <2>1, <2>3, PlainStep
  <2>5. /\ roles' = [id \in Ids |-> roles'[id]]
        /\ \A id \in Ids : roles'[id] # Nothing => roles'[id] \subseteq {Base} \cup Additional
    BY <1>1 DEF WorkloadInv, WorldOK
  <2>6. WorldOK' /\ ReplayKeepsRoles'
    BY <1>1, <1>3, <2>5, AccountGone
  <2> QED BY <1>2, <2>4, <2>6 DEF WorkloadInv
<1>4. CASE Refuse(c, "missing") /\ UNCHANGED <<account, member>>
  <2>1. Quiet
    BY <1>1, <1>4 DEF Quiet
  <2>2. RequestsOK'
    BY <1>1, <1>4, <2>1, RefuseStep DEF Codes
  <2> QED BY <1>1, <1>2, <1>4, <2>2, RestKept DEF WorkloadInv
<1> QED BY <1>3, <1>4 DEF Erase

(* Every step of the account broker. *)
LEMMA BrokeringStep ==
  ASSUME WorkloadInv, NEW c \in Callers, Brokering(c), UNCHANGED environment
  PROVE  WorkloadInv'
<1>1. CASE LookUp(c) \/ Winner(c) \/ Replay(c) \/ SignIn(c) \/ SessionRoles(c) \/ ReadMembership(c)
  <2>1. UNCHANGED <<environment, accounts>> /\ Local
    BY <1>1 DEF LookUp, Winner, Replay, SignIn, SessionRoles, ReadMembership
  <2> QED BY <1>1, <2>1, BrokerLook
<1> QED BY <1>1, CreateUserStep, AssignStep, UndoStep, EraseStep DEF Brokering

----------------------------------------------------------------------------
(* Arrivals and the environment *)

(* A request arrives, and sees what the stores hold. *)
LEMMA ArriveStep ==
  ASSUME WorkloadInv, NEW c \in Callers, Arrive(c)
  PROVE  WorkloadInv'
<1>1. UNCHANGED <<environment, keys, stores, storage, accounts, call>> /\ ~hist[c].begun
  BY DEF Arrive
<1>2. Quiet
  BY <1>1 DEF Quiet, environment, keys, stores, storage, accounts
<1>3. PICK f : f = call[c]
  OBVIOUS
<1>4. PICK p : p = Plan(c)
  OBVIOUS
<1>5. PICK h : h = hist[c]
  OBVIOUS
<1>6. PICK open : open = {k \in DOMAIN binding : Grants(binding[k])}
  OBVIOUS
<1>7. PICK k : k = [h EXCEPT !.begun = TRUE, !.opened = open, !.scoped = binding["scoped"] # Nothing,
                             !.versions = {object}]
  OBVIOUS
<1>8. hist' = [hist EXCEPT ![c] = k]
  BY <1>5, <1>6, <1>7 DEF Arrive
<1>9. FrameOK(p, f) /\ PastOK(c, p, f, h) /\ HistoryShape(h) /\ ~h.begun
  BY <1>1, <1>3, <1>4, <1>5 DEF WorkloadInv, RequestsOK, Frames, Histories, PastOK
<1>10. /\ HistoryShape(k) /\ k.begun /\ k.stale = h.stale /\ k.alive = h.alive /\ k.opened = open
       /\ k.scoped = (binding["scoped"] # Nothing) /\ k.versions = {object} /\ k.removed = h.removed
       /\ k.admitted = h.admitted
  <2>1. k = [begun |-> TRUE, stale |-> h.stale, admitted |-> h.admitted, alive |-> h.alive, opened |-> open,
             scoped |-> (binding["scoped"] # Nothing), versions |-> {object}, removed |-> h.removed]
    BY <1>7, <1>9 DEF HistoryShape
  <2> QED BY ONLY <2>1 DEF HistoryShape
<1>11. \A r \in {"scoped", "unscoped"} : Grants(binding[r]) => r \in open
  BY <1>6 DEF WorkloadInv, WorldOK
<1>12. AliveOK(p, f, k)
  BY <1>9, <1>10 DEF PastOK, AliveOK
<1>13. LegacyOK(p, f, k)
  BY <1>9, <1>10, <1>11 DEF PastOK, LegacyOK
<1>14. DeleteOK(p, f, k)
  BY <1>9, <1>10 DEF PastOK, DeleteOK
<1>15. AdmittedOK(c, p, f, k)
  BY <1>9, <1>10 DEF PastOK, AdmittedOK
<1>16. PastOK(c, p, f, k)
  BY <1>9, <1>10, <1>12, <1>13, <1>14, <1>15 DEF PastOK
<1>17. call' = [call EXCEPT ![c] = f]
  BY <1>1, <1>3 DEF WorkloadInv, RequestsOK, Frames
<1>18. SlotsOK'
  BY <1>3, <1>17, SlotsShrink DEF WorkloadInv, RequestsOK
<1>19. RequestsOK'
  BY <1>2, <1>4, <1>5, <1>8, <1>9, <1>10, <1>16, <1>17, <1>18, CallStep
<1> QED BY <1>1, <1>19, StoresStay

(* What time, a retired tenant and a new grant leave true. *)
Outside ==
  /\ UNCHANGED <<world, binding, object, attempts, account, call, hist>>
  /\ clock' \in {clock, clock + 1} /\ (tenant' = tenant \/ ~tenant')
  /\ \A g \in given' : g \in given \/ (account # Nothing /\ g[1] = account.id)

(* What the calls know outlives a step of the environment. *)
LEMMA PastOutside ==
  ASSUME NEW d, NEW p, NEW f, NEW h, PastOK(d, p, f, h), KeysOK, Outside
  PROVE  PastOK(d, p, f, h)'
<1> USE DEF Outside
<1>1. HistoryShape(h)' /\ h.stale \in Int /\ h.stale < CacheTTL + FetchTimeout
  BY DEF PastOK, HistoryShape
<1>2. AliveOK(p, f, h)'
  BY DEF PastOK, AliveOK, Has, Live
<1>3. LegacyOK(p, f, h)'
  BY DEF PastOK, LegacyOK, Has, Live, Grants
<1>4. DeleteOK(p, f, h)'
  BY DEF PastOK, DeleteOK, Has, Live
<1>5. UnusedOK(d, f)'
  BY DEF PastOK, UnusedOK, Has
<1>6. AdmittedOK(d, p, f, h)'
  <2>1. SUFFICES ASSUME h.admitted # Nothing
                 PROVE  /\ h.admitted \in Services \X Nat /\ h.admitted[2] <= clock'
                        /\ ~Has(f.todo, "limit")
                        /\ clock' < h.admitted[2] + Window =>
                             <<h.admitted[2], d>> \in attempts[h.admitted[1]][p.pod]
    BY DEF AdmittedOK, Has, Services
  <2>2. /\ h.admitted \in Services \X Nat /\ h.admitted[2] <= clock
        /\ ~Has(f.todo, "limit")
        /\ clock < h.admitted[2] + Window =>
             <<h.admitted[2], d>> \in attempts[h.admitted[1]][p.pod]
    BY <2>1 DEF PastOK, AdmittedOK
  <2>3. PICK t : t = h.admitted[2]
    OBVIOUS
  <2>4. t \in Nat /\ clock \in Nat
    BY <2>2, <2>3 DEF KeysOK
  <2>5. t <= clock' /\ (clock' < t + Window => clock < t + Window)
    BY <2>2, <2>3, <2>4, LimitsPositive
  <2> QED BY <2>2, <2>3, <2>5
<1> QED BY <1>1, <1>2, <1>3, <1>4, <1>5, <1>6 DEF PastOK

LEMMA OutsideStep ==
  ASSUME WorkloadInv, Outside
  PROVE  RequestsOK'
<1>1. ASSUME NEW d \in Callers
      PROVE  FrameOK(Plan(d), call[d])' /\ PastOK(d, Plan(d), call[d], hist[d])'
  <2>1. PICK p : p = Plan(d)
    OBVIOUS
  <2>2. PICK f : f = call[d]
    OBVIOUS
  <2>3. PICK h : h = hist[d]
    OBVIOUS
  <2>4. FrameOK(p, f) /\ PastOK(d, p, f, h) /\ KeysOK
    BY <2>1, <2>2, <2>3 DEF WorkloadInv, RequestsOK, Frames, Histories
  <2>5. FrameOK(p, f)' /\ PastOK(d, p, f, h)'
    BY <2>4, PastOutside, FrameConstant
  <2>6. p = Plan(d)' /\ f = call[d]' /\ h = hist[d]'
    BY <2>1, <2>2, <2>3 DEF Plan, Outside
  <2> QED BY <2>5, <2>6
<1>2. Frames' /\ Histories'
  BY <1>1 DEF WorkloadInv, RequestsOK, Frames, Histories, Outside
<1>3. SlotsOK'
  BY DEF WorkloadInv, RequestsOK, SlotsOK, Holders, Services, Outside
<1>4. WindowsOK'
  BY WindowsSame DEF WorkloadInv, RequestsOK, Outside
<1> QED BY <1>2, <1>3, <1>4 DEF RequestsOK

(* Time, rotations, withdrawals, object changes and grants keep the invariant. *)
LEMMA EnvironmentStep ==
  ASSUME WorkloadInv, Environment
  PROVE  WorkloadInv'
<1>1. KeysOK
  BY DEF WorkloadInv
<1> USE DEF keys, requests, stores, storage, accounts
<1>2. CASE Tick /\ UNCHANGED <<stores, storage, accounts>>
  <2>1. Outside
    BY <1>2 DEF Tick, Outside
  <2>2. WorldOK' /\ ReplayKeepsRoles'
    BY <1>2, RestKept DEF Tick
  <2>3. KeysOK'
    <3>1. clock' = clock + 1 /\ UNCHANGED <<issuer, withdrawn, cache, fetch>> /\ (fetch # Free => clock < fetch.due)
      BY <1>2 DEF Tick
    <3> QED BY <1>1, <3>1, DurationsPositive DEF KeysOK, Free
  <2> QED BY <2>1, <2>2, <2>3, OutsideStep DEF WorkloadInv
<1>3. ASSUME NEW next \in SUBSET Kids, RotateKeys(next), UNCHANGED <<stores, storage, accounts>>
      PROVE  WorkloadInv'
  <2>1. Outside
    BY <1>3 DEF RotateKeys, Outside
  <2>2. WorldOK' /\ ReplayKeepsRoles'
    BY <1>3, RestKept DEF RotateKeys
  <2>3. KeysOK'
    <3>1. /\ issuer' = next /\ UNCHANGED <<clock, cache, fetch>>
          /\ withdrawn' = [k \in Kids |-> IF k \in issuer \ next THEN clock
                                          ELSE IF k \in next THEN Nothing ELSE withdrawn[k]]
      BY <1>3 DEF RotateKeys
    <3>2. /\ withdrawn' = [k \in Kids |-> withdrawn'[k]]
          /\ \A k \in Kids : withdrawn'[k] # Nothing => withdrawn'[k] \in Nat /\ withdrawn'[k] <= clock
          /\ \A k \in next : withdrawn'[k] = Nothing
          /\ \A k \in Kids : withdrawn'[k] # Nothing => withdrawn'[k] = clock \/ withdrawn'[k] = withdrawn[k]
      BY <1>1, <3>1 DEF KeysOK
    <3>3. \A k \in Kids : k \in cache.keys /\ withdrawn'[k] # Nothing =>
            cache.expires <= withdrawn'[k] + CacheTTL + FetchTimeout
      BY <1>1, <3>2, DurationsPositive DEF KeysOK
    <3>4. fetch # Free /\ fetch.doc # Nothing => \A k \in Kids : k \in fetch.doc /\ withdrawn'[k] # Nothing =>
            fetch.due <= withdrawn'[k] + FetchTimeout
      BY <1>1, <3>2, DurationsPositive DEF KeysOK
    <3> QED BY <1>1, <3>1, <3>2, <3>3, <3>4 DEF KeysOK, Free
  <2> QED BY <2>1, <2>2, <2>3, OutsideStep DEF WorkloadInv
<1>4. CASE (RetireTenant \/ ChangeUser) /\ UNCHANGED <<storage, accounts>>
  <2>1. Outside
    BY <1>4 DEF RetireTenant, ChangeUser, Outside
  <2>2. WorldOK' /\ ReplayKeepsRoles'
    BY <1>4, RestKept DEF RetireTenant, ChangeUser
  <2>3. KeysOK'
    BY <1>1, <1>4, KeysKept DEF RetireTenant, ChangeUser
  <2> QED BY <2>1, <2>2, <2>3, OutsideStep DEF WorkloadInv
<1>5. ASSUME NEW version, Become(version, Nothing), UNCHANGED <<world, clock, call, keys, stores, accounts>>
      PROVE  WorkloadInv'
  <2>1. OnlyObject(version) /\ UNCHANGED call
    BY <1>5 DEF OnlyObject, Become
  <2>2. RequestsOK'
    BY <1>5, <2>1, BecomeStep
  <2>3. WorldOK' /\ ReplayKeepsRoles'
    BY <1>5, RestKept
  <2>4. KeysOK'
    BY <1>1, <1>5, KeysKept
  <2> QED BY <2>2, <2>3, <2>4 DEF WorkloadInv
<1>6. CASE DropBucket /\ UNCHANGED accounts
  BY <1>5, <1>6 DEF DropBucket, elsewhereUnchanged
<1>7. ASSUME NEW version \in Etags \cup {Nothing}, ChangeObject(version), UNCHANGED accounts
      PROVE  WorkloadInv'
  BY <1>5, <1>7 DEF ChangeObject, elsewhereUnchanged
<1>8. ASSUME NEW role \in Additional, GrantRole(role)
      PROVE  WorkloadInv'
  <2>1. PICK id : id = account.id
    OBVIOUS
  <2>2. PICK more : more = (IF roles[id] = Nothing THEN {} ELSE roles[id]) \cup {role}
    OBVIOUS
  <2>3. /\ account # Nothing /\ given' = given \cup {<<id, role>>}
        /\ UNCHANGED <<world, clock, call, hist, account, issuer, withdrawn, cache, fetch>>
        /\ UNCHANGED <<tenant, attempts, binding, object>>
    BY <1>8, <2>1 DEF GrantRole, Local
  <2>4. id \in Ids
    BY <2>1, <2>3 DEF WorkloadInv, WorldOK
  <2>5. roles' = [roles EXCEPT ![id] = more]
    BY <1>8, <2>1, <2>2 DEF GrantRole
  <2>6. more \subseteq {Base} \cup Additional /\ role \in more
    BY <2>2, <2>4 DEF WorkloadInv, WorldOK
  <2>7. more # Nothing
    BY <2>6, NothingIsAbsence
  <2>8. /\ roles' = [x \in Ids |-> roles'[x]] /\ roles'[id] = more
        /\ \A x \in Ids : x # id => roles'[x] = roles[x]
    BY <2>4, <2>5 DEF WorkloadInv, WorldOK
  <2>9. \A x \in Ids : roles'[x] # Nothing => roles'[x] \subseteq {Base} \cup Additional
    BY <2>6, <2>8 DEF WorkloadInv, WorldOK
  <2>10. WorldOK'
    <3>1. /\ (world.plan \in [Callers -> Request])' /\ (binding = [k \in {"scoped", "unscoped"} |-> binding[k]])'
          /\ (attempts = [s \in Services |-> [pod \in Pods |-> attempts[s][pod]]])'
          /\ (\A s \in Services, pod \in Pods : IsFiniteSet(attempts[s][pod]))'
      BY <2>3 DEF WorkloadInv, WorldOK, Request, Services
    <3>2. (account # Nothing => account.id \in Ids)'
      BY <2>1, <2>3, <2>4 DEF Ids
    <3>3. /\ (roles = [x \in Ids |-> roles[x]])'
          /\ (\A x \in Ids : roles[x] # Nothing => roles[x] \subseteq {Base} \cup Additional)'
      BY <2>8, <2>9 DEF Ids
    <3> QED BY <3>1, <3>2, <3>3 DEF WorldOK
  <2>11. ReplayKeepsRoles'
    <3>1. SUFFICES ASSUME NEW g \in given', g[1] = id
                   PROVE  roles'[g[1]] # Nothing /\ g[2] \in roles'[g[1]]
      BY <2>1, <2>3 DEF ReplayKeepsRoles, Exists
    <3>2. CASE g = <<id, role>>
      BY <2>6, <2>7, <2>8, <3>2
    <3>3. CASE g \in given
      <4>1. roles[id] # Nothing /\ g[2] \in roles[id]
        BY <2>1, <2>3, <3>1, <3>3 DEF WorkloadInv, ReplayKeepsRoles, Exists
      <4>2. g[2] \in more
        BY <2>2, <4>1
      <4> QED BY <2>7, <2>8, <3>1, <4>2
    <3> QED BY <2>3, <3>1, <3>2, <3>3
  <2>12. Outside
    <3>1. \A g \in given' : g \in given \/ (account # Nothing /\ g[1] = account.id)
      BY <2>1, <2>3
    <3> QED BY <2>3, <3>1 DEF Outside
  <2>13. KeysOK'
    BY <1>1, <2>3, KeysKept
  <2> QED BY <2>10, <2>11, <2>12, <2>13, OutsideStep DEF WorkloadInv
<1> QED BY <1>2, <1>3, <1>4, <1>6, <1>7, <1>8 DEF Environment

----------------------------------------------------------------------------
(* The invariant *)

(* Every step keeps the invariant. *)
LEMMA NextStep ==
  ASSUME WorkloadInv, [Next]_vars
  PROVE  WorkloadInv'
<1>1. ASSUME NEW c \in Callers, Step(c)
      PROVE  WorkloadInv'
  <2>1. CASE Arrive(c)
    BY <2>1, ArriveStep
  <2>2. CASE Verifying(c) /\ UNCHANGED <<environment, stores, storage, accounts>>
    BY <2>2, VerifyingStep
  <2>3. CASE Exchanging(c) /\ UNCHANGED <<environment, storage, accounts>>
    BY <2>3, ExchangingStep
  <2>4. CASE Storing(c) /\ UNCHANGED <<environment, accounts>>
    BY <2>4, StoringStep
  <2>5. CASE Brokering(c) /\ UNCHANGED environment
    BY <2>5, BrokeringStep
  <2> QED BY <1>1, <2>1, <2>2, <2>3, <2>4, <2>5 DEF Step
<1>2. CASE UNCHANGED vars
  <2>1. UNCHANGED <<environment, keys, requests, stores, storage, accounts>>
    BY <1>2 DEF vars
  <2>2. Quiet /\ UNCHANGED <<call, hist>>
    BY <2>1 DEF Quiet, environment, requests, stores, storage, accounts
  <2>3. RequestsOK'
    BY <2>2, CallsStay
  <2> QED BY <2>1, <2>3, StoresStay
<1> QED BY <1>1, <1>2, EnvironmentStep DEF Next

(* A request that has not been dealt with yet. *)
LEMMA FreshFrame ==
  ASSUME NEW p \in Request, NEW s, Starts(p.kind, s), NEW f, f = Fresh(s)
  PROVE  FrameOK(p, f) /\ f.todo = s /\ f.held = {} /\ f.out = "pending"
<1>1. /\ f = [todo |-> f.todo, at |-> f.at, lease |-> f.lease, seen |-> f.seen, held |-> f.held,
              exp |-> f.exp, out |-> f.out]
      /\ f.todo = s /\ f.at = 0 /\ f.lease = 0 /\ f.held = {} /\ f.exp = 0 /\ f.out = "pending"
  BY DEF Fresh
<1>2. InOrder(p.kind, s) /\ s # <<>>
  BY DEF Starts
<1>3. p.exp \in Nat /\ p.userExp \in Nat
  BY DEF Request
<1>4. Life(p, 0, 0, 0, s)
  BY <1>3 DEF Life, Starts
<1> QED BY <1>1, <1>2, <1>4 DEF FrameOK

LEMMA HistoryStart ==
  ASSUME NEW b, NEW h, h = [Unstarted EXCEPT !.begun = b]
  PROVE  /\ HistoryShape(h) /\ h.begun = b /\ h.stale = 0 /\ h.admitted = Nothing
         /\ h.scoped = FALSE /\ h.removed = {}
BY DEF Unstarted, HistoryShape

(* What a call knows before it arrives. *)
LEMMA PastStart ==
  ASSUME Init, NEW c \in Callers, NEW p \in Request, NEW f, NEW h,
         h = [Unstarted EXCEPT !.begun = p.kind \notin Dated],
         \/ p.kind # "none" /\ Starts(p.kind, f.todo) /\ f.out = "pending"
         \/ p.kind = "none" /\ f.todo = <<>> /\ f.out = "none"
  PROVE  PastOK(c, p, f, h)
<1>1. PICK b : b = (p.kind \notin Dated)
  OBVIOUS
<1>2. /\ HistoryShape(h) /\ h.begun = b /\ h.stale = 0 /\ h.admitted = Nothing
      /\ h.scoped = FALSE /\ h.removed = {}
  <2>1. h = [Unstarted EXCEPT !.begun = b]
    BY <1>1
  <2> QED BY ONLY <2>1, HistoryStart
<1>3. p.kind \in Dated => ~h.begun
  BY <1>1, <1>2
<1>4. AliveOK(p, f, h)
  BY DEF AliveOK, Starts, AIKinds, Live
<1>5. LegacyOK(p, f, h)
  BY <1>2, <1>3 DEF LegacyOK, Starts, Live, Dated
<1>6. DeleteOK(p, f, h)
  BY <1>2, <1>3 DEF DeleteOK, Starts, Live, Dated
<1>7. UnusedOK(c, f)
  <2>1. given = {} /\ (account # Nothing => account.id = Old) /\ Old \notin Callers
    BY SituationsPossible DEF Init, BrokerInit, TokensInit
  <2> QED BY <2>1 DEF UnusedOK
<1>8. AdmittedOK(c, p, f, h)
  BY <1>2 DEF AdmittedOK
<1> QED BY <1>2, <1>4, <1>5, <1>6, <1>7, <1>8, DurationsPositive DEF PastOK

(* Every situation starts in order. *)
LEMMA InitInv ==
  ASSUME Init
  PROVE  WorkloadInv
<1>1. PICK w : w = world
  OBVIOUS
<1>2. /\ w \in Scenarios /\ w.plan \in [Callers -> Request]
      /\ w.issuer \subseteq Kids /\ w.cache.keys \subseteq Kids /\ w.cache.expires \in 0..CacheTTL
      /\ w.binding \in [{"scoped", "unscoped"} -> {Nothing, "open", "other", "revoked"}]
      /\ w.account = Nothing \/ w.account.id = Old
  BY <1>1, SituationsPossible DEF Init, TokensInit
<1>3. WorldOK
  <2>1. world.plan \in [Callers -> Request] /\ binding = [k \in {"scoped", "unscoped"} |-> binding[k]]
    BY <1>1, <1>2 DEF Init, ExchangeInit
  <2>2. /\ attempts = [s \in Services |-> [pod \in Pods |-> attempts[s][pod]]]
        /\ \A s \in Services, pod \in Pods : attempts[s][pod] = {}
    BY DEF Init, ExchangeInit
  <2>3. \A s \in Services, pod \in Pods : IsFiniteSet(attempts[s][pod])
    BY <2>2, FS_EmptySet
  <2>4. account # Nothing => account.id \in Ids
    BY <1>1, <1>2 DEF Init, BrokerInit, Ids
  <2>5. roles = [id \in Ids |-> roles[id]] /\ \A id \in Ids : roles[id] = Nothing
    BY DEF Init, BrokerInit
  <2> QED BY <2>1, <2>2, <2>3, <2>4, <2>5 DEF WorldOK
<1>4. KeysOK
  <2>1. clock = 0 /\ issuer = w.issuer /\ withdrawn = [k \in Kids |-> Nothing] /\ cache = w.cache /\ fetch = Free
    BY <1>1 DEF Init, TokensInit
  <2> QED BY <1>2, <2>1, DurationsPositive DEF KeysOK, Free
<1>5. ReplayKeepsRoles
  BY DEF Init, BrokerInit, ReplayKeepsRoles
<1>6. ASSUME NEW c \in Callers
      PROVE  /\ FrameOK(Plan(c), call[c]) /\ PastOK(c, Plan(c), call[c], hist[c])
             /\ call[c].held = {} /\ hist[c].admitted = Nothing
  <2>1. PICK p : p = Plan(c)
    OBVIOUS
  <2>2. PICK f : f = call[c]
    OBVIOUS
  <2>3. PICK h : h = hist[c]
    OBVIOUS
  <2>4. p \in Request
    BY <1>1, <1>2, <2>1 DEF Plan
  <2>5. h = [Unstarted EXCEPT !.begun = p.kind \notin Dated]
    BY <2>1, <2>3 DEF Init, Plan
  <2>6. f = IF p.kind = "none" THEN Refusal("none") ELSE Fresh(Program(p))
    BY <2>1, <2>2 DEF Init, Plan, Refusal
  <2>7. /\ FrameOK(p, f) /\ f.held = {}
        /\ \/ p.kind # "none" /\ Starts(p.kind, f.todo) /\ f.out = "pending"
           \/ p.kind = "none" /\ f.todo = <<>> /\ f.out = "none"
    <3>1. CASE p.kind = "none"
      BY <2>4, <2>6, <3>1, FrameRefused
    <3>2. CASE p.kind # "none"
      <4>1. PICK s : s = Program(p)
        OBVIOUS
      <4>2. p.kind \in ExchangeKinds \cup StorageKinds \cup BrokerKinds
        BY <2>4, <3>2 DEF Request
      <4>3. Starts(p.kind, s) /\ f = Fresh(s)
        BY <2>6, <3>2, <4>1, <4>2, ProgramsStart
      <4> QED BY <2>4, <3>2, <4>3, FreshFrame
    <3> QED BY <3>1, <3>2
  <2>8. PastOK(c, p, f, h)
    BY <2>4, <2>5, <2>7, PastStart
  <2>9. h.admitted = Nothing
    BY <2>5 DEF Unstarted
  <2> QED BY <2>1, <2>2, <2>3, <2>7, <2>8, <2>9
<1>7. Frames /\ Histories
  BY <1>6 DEF Init, Frames, Histories
<1>8. SlotsOK
  <2>1. ASSUME NEW s PROVE Holders(s) = {}
    BY <1>6 DEF Holders
  <2>2. Cardinality({}) = 0
    BY FS_EmptySet
  <2> QED BY <2>1, <2>2, LimitsPositive DEF SlotsOK
<1>9. WindowsOK
  BY <1>6 DEF WindowsOK
<1> QED BY <1>3, <1>4, <1>5, <1>7, <1>8, <1>9 DEF WorkloadInv, RequestsOK

(***************************************************************************)
(* Every reachable state satisfies the invariant: what is left of a request  *)
(* pays back what it holds and reads again what it relies on, the verifier's *)
(* keys are recent, and the limiters' tables remember every admission of the *)
(* running window.                                                           *)
(***************************************************************************)
THEOREM WorkloadInvariant == Spec => []WorkloadInv
<1>1. Init => WorkloadInv
  BY InitInv
<1>2. WorkloadInv /\ [Next]_vars => WorkloadInv'
  BY NextStep
<1> QED BY <1>1, <1>2, PTL DEF Spec

(* A request that has been answered has nothing left to do. *)
LEMMA AnsweredFrame ==
  ASSUME WorkloadInv, NEW c \in Callers, call[c].out # "pending"
  PROVE  /\ call[c].held = {} /\ \A op : ~Has(call[c].todo, op)
         /\ Life(Plan(c), call[c].at, call[c].lease, call[c].exp, call[c].todo)
<1>1. PICK f : f = call[c]
  OBVIOUS
<1>2. PICK p : p = Plan(c)
  OBVIOUS
<1>3. FrameOK(p, f) /\ f.out # "pending"
  BY <1>1, <1>2 DEF WorkloadInv, RequestsOK, Frames
<1>4. f.todo = <<>> /\ Life(p, f.at, f.lease, f.exp, f.todo)
  BY <1>3 DEF FrameOK
<1>5. \A op : ~Has(f.todo, op)
  BY <1>4 DEF Has
<1>6. f.held = {}
  <2>1. \A x \in f.held : Later(<<>>, x)
    BY <1>3, <1>4 DEF FrameOK
  <2> QED BY <2>1 DEF Later
<1> QED BY <1>1, <1>2, <1>4, <1>5, <1>6

LEMMA AnsweredPast ==
  ASSUME WorkloadInv, NEW c \in Callers
  PROVE  PastOK(c, Plan(c), call[c], hist[c])
BY DEF WorkloadInv, RequestsOK, Histories

(***************************************************************************)
(* A key the issuer withdrew verifies no token once the cache's lifetime and *)
(* one fetch have passed, whatever the refreshes of keyFor and refreshLocked *)
(* answer, and however many requests wait for them.                          *)
(***************************************************************************)
THEOREM WithdrawnKeys == Spec => []WithdrawnKeysExpire
<1>1. WorkloadInv => WithdrawnKeysExpire
  BY AnsweredPast DEF PastOK, WithdrawnKeysExpire
<1> QED BY <1>1, WorkloadInvariant, PTL

(***************************************************************************)
(* An AI token is issued or accepted only if the tenant was active at or     *)
(* after the authority's last answer (aiGatewayExchange.authorize): the      *)
(* tenant is read again after every callback on every path.                  *)
(***************************************************************************)
THEOREM WithdrawalsWin == Spec => []WithdrawalWins
<1>1. WorkloadInv => WithdrawalWins
  <2> SUFFICES ASSUME WorkloadInv, NEW c \in Callers, Granted(c), Plan(c).kind \in AIKinds
               PROVE  hist[c].alive
    BY DEF WithdrawalWins
  <2>1. ~Has(call[c].todo, "confirm")
    BY AnsweredFrame DEF Granted
  <2>2. AliveOK(Plan(c), call[c], hist[c])
    BY AnsweredPast DEF PastOK
  <2> QED BY <2>1, <2>2 DEF AliveOK, Live, Granted
<1> QED BY <1>1, WorkloadInvariant, PTL

(***************************************************************************)
(* A token issued for a Pod's or a user's token does not outlive it, however *)
(* long verification, admission and callbacks take (codeqBindingProcedure,   *)
(* issueLogsToken, exchangeAIWorkload, exchangeAIUser, exchangeAIMachine).   *)
(***************************************************************************)
THEOREM TokensEndInTime == Spec => []TokensWithinLifetimes
<1>1. WorkloadInv => TokensWithinLifetimes
  <2> SUFFICES ASSUME WorkloadInv, NEW c \in Callers, Granted(c)
               PROVE  /\ Plan(c).kind \in PodKinds => call[c].exp <= Plan(c).exp
                      /\ Plan(c).kind \in UserKinds => call[c].exp <= Plan(c).userExp
    BY DEF TokensWithinLifetimes, PodKinds, UserKinds
  <2>1. Life(Plan(c), call[c].at, call[c].lease, call[c].exp, call[c].todo)
    BY AnsweredFrame DEF Granted
  <2> QED BY <2>1 DEF Life
<1> QED BY <1>1, WorkloadInvariant, PTL

(***************************************************************************)
(* A legacy token rests on a record that granted it during the call, and on  *)
(* the unscoped record only if the verified cluster had none (legacyBinding, *)
(* UpsertBinding, RevokeBinding).                                            *)
(***************************************************************************)
THEOREM LegacyGrants == Spec => []LegacyGrantsCurrent
<1>1. WorkloadInv => LegacyGrantsCurrent
  <2> SUFFICES ASSUME WorkloadInv, NEW c \in Callers, Granted(c), Plan(c).kind = "legacy"
               PROVE  \/ "scoped" \in hist[c].opened
                      \/ "unscoped" \in hist[c].opened /\ ~hist[c].scoped /\ ~world.scopedRequired
    BY DEF LegacyGrantsCurrent
  <2>1. ~Has(call[c].todo, "scoped") /\ ~Has(call[c].todo, "unscoped")
    BY AnsweredFrame DEF Granted
  <2>2. LegacyOK(Plan(c), call[c], hist[c])
    BY AnsweredPast DEF PastOK
  <2> QED BY <2>1, <2>2 DEF LegacyOK, Live, Granted
<1> QED BY <1>1, WorkloadInvariant, PTL

(***************************************************************************)
(* An answered request holds no slot, a service never has more callbacks     *)
(* than its capacity, and one identity is admitted at most Limit times in    *)
(* any window, also when the table of IdentityRateLimiter is full.           *)
(***************************************************************************)
THEOREM Admissions == Spec => []AdmissionControl
<1>1. WorkloadInv => AdmissionControl
  BY AnsweredFrame DEF AdmissionControl, WorkloadInv, RequestsOK, SlotsOK, WindowsOK
<1> QED BY <1>1, WorkloadInvariant, PTL

(***************************************************************************)
(* A confirmed delete found the key absent during the request, "changed" is  *)
(* answered only after another version was there, and nothing is removed but *)
(* the listed version (DeleteObject, resolveConditionalDelete).              *)
(***************************************************************************)
THEOREM Deletes == Spec => []DeleteAnswersTrue
<1>1. WorkloadInv => DeleteAnswersTrue
  <2> SUFFICES ASSUME WorkloadInv, NEW c \in Callers, Plan(c).kind = "delete"
               PROVE  /\ Granted(c) => Nothing \in hist[c].versions
                      /\ call[c].out = "changed" => hist[c].versions \ {Nothing, Plan(c).etag} # {}
                      /\ hist[c].removed \subseteq {Plan(c).etag}
    BY DEF DeleteAnswersTrue
  <2>1. Granted(c) => ~Has(call[c].todo, "head")
    BY AnsweredFrame DEF Granted
  <2>2. DeleteOK(Plan(c), call[c], hist[c])
    BY AnsweredPast DEF PastOK
  <2> QED BY <2>1, <2>2 DEF DeleteOK, Live, Granted
<1> QED BY <1>1, WorkloadInvariant, PTL

(***************************************************************************)
(* An account keeps every role an administrator gave it, whichever           *)
(* registrations, replays and undone creations run beside the grant.         *)
(***************************************************************************)
THEOREM RolesSurviveReplay == Spec => []ReplayKeepsRoles
<1>1. WorkloadInv => ReplayKeepsRoles
  BY DEF WorkloadInv
<1> QED BY <1>1, WorkloadInvariant, PTL
=============================================================================
