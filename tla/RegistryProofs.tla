--------------------------- MODULE RegistryProofs ---------------------------
(***************************************************************************)
(* What the jobs leave in the registry, for any number of tenants, jobs,     *)
(* users and brokers, and any order of their commands.                       *)
(*                                                                         *)
(* Two things carry the proof.  A job that is about to swap a record or to   *)
(* commit a tenant holds what it read, and the new value keeps what must     *)
(* stand (InHand).  And what is left of a program is in order: whatever an   *)
(* operation relies on is defined, or an operation before it in the program  *)
(* defines it (Order).  Dedicated role definitions are never changed and no  *)
(* definition is removed, so what one job found stays for it (RolesStay).    *)
(***************************************************************************)
EXTENDS Registry, FiniteSetTheorems, SequenceTheorems, TLAPS

Dedicated == {<<"ai-admin", AdminPermissions>>, <<"ai-user", UserPermissions>>}
Wanted == {Absent, AdminPermissions, UserPermissions}

(* Role r of tenant t is defined, and as p when p is a definition. *)
Given(t, r, p) == role[<<t, r>>] # Absent /\ (p = Absent \/ role[<<t, r>>] = p)

(* What an operation relies on, and what one that succeeded has defined. *)
Needs(o, t, r, p) ==
  \/ o.op \in {"assign", "member"} /\ o.tenant = t /\ r \in o.roles /\ p = Absent
  \/ o.op = "ensure" /\ o.tenant = t /\ o.client = AI /\ <<r, p>> \in Dedicated
Provides(o, t, r, p) ==
  \/ /\ o.op = "ensureRole" /\ o.tenant = t /\ o.role = r
     /\ p = Absent \/ (p = o.permissions /\ o.previous = Absent)
  \/ o.op = "putRole" /\ o.tenant = t /\ o.role = r /\ p = Absent
  \/ o.op = "roles" /\ o.tenant = t /\ r \in o.roles /\ p = Absent

Order(s) ==
  \A i \in 1..Len(s) : \A t \in Tenants, r \in RoleNames, p \in Wanted :
    Needs(s[i], t, r, p) => Given(t, r, p) \/ \E k \in 1..(i - 1) : Provides(s[k], t, r, p)

(* The operations a program is made of. *)
OpOK(o) ==
  /\ o.op # "audiences" => o.tenant \in Tenants
  /\ o.op = "ensure" => /\ o.client \in ClientIds /\ o.record \in ClientRecord
                        /\ o.record.owner # "none" /\ ~o.record.secret
  /\ o.op \in {"raise", "rescope", "converge", "home", "audiences"} => o.scopes \in Scopes
  /\ o.op \in {"upsertClient", "createClient"} => o.record \in ClientRecord /\ o.record.owner = "none"
  /\ o.op = "upsertClient" => BootstrapHome(o.record)
  /\ o.op \in {"upsertTenant", "create"} => o.name \in STRING
  /\ o.op \in {"putRole", "ensureRole", "migrateRole"} => o.role \in RoleNames /\ o.permissions \in Scopes
  /\ o.op = "putRole" => o.role = "ADMIN"
  /\ o.op = "migrateRole" => o.role = "base"
  /\ o.op = "ensureRole" =>
       /\ o = [op |-> "ensureRole", tenant |-> o.tenant, role |-> o.role,
               permissions |-> o.permissions, previous |-> o.previous]
       /\ o.previous # Absent => o.role = "base"
  /\ o.op \in {"assign", "member", "addLegacy", "dropLegacy"} => o.roles \in SUBSET RoleNames
  /\ o.op \in {"assign", "unassign", "addRole", "member", "addLegacy", "dropLegacy"} => o.user \in Users

IsSequence(s) == Len(s) \in Nat /\ s = [i \in 1..Len(s) |-> s[i]]
Good(s) == IsSequence(s) /\ (\A i \in 1..Len(s) : OpOK(s[i])) /\ Order(s)

(* What a job in the middle of operation o holds. *)
InHand(o, m) ==
  /\ m.pc = "swap" =>
       /\ m.seen \in ClientRecord /\ m.to \in ClientRecord
       /\ ~m.seen.secret /\ ~m.to.secret
       /\ m.seen.owner # "none" => m.to.owner = m.seen.owner
       /\ o.op = "raise" => m.to.scopes = m.seen.scopes \cup o.scopes
       /\ o.op = "deactivate" => m.to.status = "INACTIVE"
  /\ m.pc = "commit" /\ o.op \in {"upsertTenant", "retire"} =>
       /\ m.to \in TenantRecord
       /\ m.seen[o.tenant] # Absent =>
            /\ ~m.seen[o.tenant].retired /\ m.to.created = m.seen[o.tenant].created
            /\ m.seen[o.tenant].status = "DISABLED" => m.to.status = "DISABLED"
  /\ m.pc \in {"current", "write"} /\ o.op = "addRole" => role[<<o.tenant, "ai-admin">>] # Absent

JobOK(m) ==
  /\ m = [pc |-> m.pc, todo |-> m.todo, tries |-> m.tries, seen |-> m.seen, to |-> m.to]
  /\ m.tries \in Nat
  /\ Good(m.todo)
  /\ m.todo # <<>> => InHand(Head(m.todo), m)

TypeOK ==
  /\ tenant \in [Tenants -> TenantRecord \cup {Absent}]
  /\ role \in [Tenants \X RoleNames -> {Absent} \cup Scopes]
  /\ client \in [Tenants \X ClientIds -> ClientRecord \cup {Absent}]
  /\ marker \in [Tenants \X ClientIds -> ClientRecord \cup {Absent}]
  /\ promised \in [Tenants -> Scopes]
  /\ assignment \in [Tenants \X Users -> Assigned \cup {Absent}]
  /\ member \in [Tenants \X Users -> {Absent} \cup SUBSET RoleNames]
  /\ legacy \in [Tenants \X Users -> {Absent} \cup SUBSET RoleNames]

(* Nothing with a secret is owned. *)
MarkersOwned ==
  \A k \in Tenants \X ClientIds : marker[k] # Absent => marker[k].owner # "none" /\ ~marker[k].secret

StoresOK == TypeOK /\ MarkersOwned /\ OwnedRecordsPaired /\ NoReportedScopeLost /\ RolesBeforeUse

RegistryInv ==
  /\ StoresOK
  /\ job = [j \in Jobs |-> job[j]]
  /\ \A j \in Jobs : JobOK(job[j])

----------------------------------------------------------------------------
(* Sequences *)

LEMMA SequenceIsSeq ==
  ASSUME NEW s, IsSequence(s)
  PROVE  s \in Seq({s[i] : i \in 1..Len(s)})
BY DEF IsSequence

LEMMA TailOf ==
  ASSUME NEW s, IsSequence(s), s # <<>>
  PROVE  /\ IsSequence(Tail(s)) /\ Len(Tail(s)) = Len(s) - 1 /\ Len(s) > 0
         /\ Head(s) = s[1] /\ \A i \in 1..Len(Tail(s)) : Tail(s)[i] = s[i + 1]
<1> DEFINE S == {s[i] : i \in 1..Len(s)}
<1>1. s \in Seq(S)
  BY SequenceIsSeq
<1> HIDE DEF S
<1>2. /\ Tail(s) \in Seq(S) /\ Len(Tail(s)) = Len(s) - 1
      /\ \A i \in 1..Len(Tail(s)) : Tail(s)[i] = s[i + 1]
  BY <1>1, HeadTailProperties
<1>3. Tail(s) \in [1..Len(Tail(s)) -> S] /\ Len(Tail(s)) \in Nat
  BY <1>2, LenProperties
<1>4. Len(s) > 0 /\ Head(s) = s[1]
  BY <1>1, EmptySeq
<1>5. IsSequence(Tail(s))
  BY <1>3 DEF IsSequence
<1> QED BY <1>2, <1>4, <1>5

LEMMA Concatenation ==
  ASSUME NEW a, NEW b, IsSequence(a), IsSequence(b)
  PROVE  /\ IsSequence(a \o b) /\ Len(a \o b) = Len(a) + Len(b)
         /\ \A i \in 1..Len(a) : (a \o b)[i] = a[i]
         /\ \A i \in 1..Len(b) : (a \o b)[Len(a) + i] = b[i]
<1> DEFINE S == {a[i] : i \in 1..Len(a)} \cup {b[i] : i \in 1..Len(b)}
<1>1. a \in Seq(S) /\ b \in Seq(S)
  BY DEF IsSequence
<1> HIDE DEF S
<1>2. /\ a \o b \in Seq(S) /\ Len(a \o b) = Len(a) + Len(b)
      /\ \A i \in 1..(Len(a) + Len(b)) : (a \o b)[i] = IF i <= Len(a) THEN a[i] ELSE b[i - Len(a)]
  BY <1>1, ConcatProperties
<1>3. a \o b \in [1..Len(a \o b) -> S] /\ Len(a \o b) \in Nat
  BY <1>2, LenProperties
<1>4. IsSequence(a \o b)
  BY <1>3 DEF IsSequence
<1>5. Len(a) \in Nat /\ Len(b) \in Nat
  BY DEF IsSequence
<1>6. \A i \in 1..Len(a) : (a \o b)[i] = a[i]
  BY <1>2, <1>5
<1>7. ASSUME NEW i \in 1..Len(b) PROVE (a \o b)[Len(a) + i] = b[i]
  <2>1. Len(a) + i \in 1..(Len(a) + Len(b)) /\ ~(Len(a) + i <= Len(a)) /\ (Len(a) + i) - Len(a) = i
    BY <1>5
  <2> QED BY <1>2, <2>1
<1> QED BY <1>2, <1>4, <1>6, <1>7

LEMMA EmptyIsGood == Good(<<>>)
BY DEF Good, IsSequence, Order

----------------------------------------------------------------------------
(* Programs in order *)

(* No definition is lost, and no dedicated one changes. *)
RolesStay ==
  \A t \in Tenants, r \in RoleNames, p \in Wanted :
    Given(t, r, p) /\ (p = Absent \/ <<r, p>> \in Dedicated) => Given(t, r, p)'

LEMMA NeedsDedicated ==
  ASSUME NEW o, NEW t, NEW r, NEW p, Needs(o, t, r, p)
  PROVE  p = Absent \/ <<r, p>> \in Dedicated
BY DEF Needs

LEMMA OrderStays ==
  ASSUME NEW s, Order(s), RolesStay
  PROVE  Order(s)'
<1> SUFFICES ASSUME NEW i \in 1..Len(s), NEW t \in Tenants, NEW r \in RoleNames, NEW p \in Wanted,
                    Needs(s[i], t, r, p)
             PROVE  Given(t, r, p)' \/ \E k \in 1..(i - 1) : Provides(s[k], t, r, p)
  BY DEF Order, Needs, Provides, Dedicated, Wanted
<1>1. Given(t, r, p) \/ \E k \in 1..(i - 1) : Provides(s[k], t, r, p)
  BY DEF Order
<1>2. Given(t, r, p) => Given(t, r, p)'
  BY NeedsDedicated DEF RolesStay
<1> QED BY <1>1, <1>2

(* The rest of a program, once its first operation has succeeded. *)
LEMMA OrderOfTail ==
  ASSUME NEW s, Good(s), s # <<>>, RolesStay,
         \A t \in Tenants, r \in RoleNames, p \in Wanted :
           Provides(Head(s), t, r, p) /\ (p = Absent \/ <<r, p>> \in Dedicated) => Given(t, r, p)'
  PROVE  Good(Tail(s))'
<1>1. /\ IsSequence(Tail(s)) /\ Len(Tail(s)) = Len(s) - 1 /\ Len(s) > 0 /\ Len(s) \in Nat
      /\ Head(s) = s[1] /\ \A i \in 1..Len(Tail(s)) : Tail(s)[i] = s[i + 1]
  BY TailOf DEF Good, IsSequence
<1>2. PICK q : q = Tail(s)
  OBVIOUS
<1>3. ASSUME NEW i \in 1..Len(q), NEW t \in Tenants, NEW r \in RoleNames, NEW p \in Wanted,
             Needs(q[i], t, r, p)
      PROVE  Given(t, r, p)' \/ \E k \in 1..(i - 1) : Provides(q[k], t, r, p)
  <2>1. i + 1 \in 1..Len(s) /\ q[i] = s[i + 1]
    BY <1>1, <1>2
  <2>2. Given(t, r, p) \/ \E k \in 1..i : Provides(s[k], t, r, p)
    BY <1>3, <2>1, (i + 1) - 1 = i DEF Good, Order
  <2>3. p = Absent \/ <<r, p>> \in Dedicated
    BY <1>3, NeedsDedicated
  <2>4. CASE Given(t, r, p)
    BY <2>3, <2>4 DEF RolesStay
  <2>5. ASSUME NEW k \in 1..i, Provides(s[k], t, r, p) PROVE Given(t, r, p)' \/ \E n \in 1..(i - 1) : Provides(q[n], t, r, p)
    <3>1. CASE k = 1
      BY <1>1, <2>3, <2>5, <3>1
    <3>2. CASE k # 1
      <4>1. k - 1 \in 1..(i - 1) /\ k - 1 \in 1..Len(q) /\ q[k - 1] = s[k]
        BY <1>1, <1>2, <2>1, <3>2
      <4> QED BY <2>5, <4>1
    <3> QED BY <3>1, <3>2
  <2> QED BY <2>2, <2>4, <2>5
<1>4. \A i \in 1..Len(q) : OpOK(q[i])
  BY <1>1, <1>2 DEF Good
<1>5. Order(q)'
  BY <1>3 DEF Order, Needs, Provides, Dedicated, Wanted
<1>6. Good(q)'
  BY <1>1, <1>2, <1>4, <1>5 DEF Good, OpOK, IsSequence, BootstrapHome
<1> QED BY <1>2, <1>6

(* Operations that replace the first one and rely on nothing. *)
LEMMA OrderOfInsertion ==
  ASSUME NEW a, NEW s, Good(s), s # <<>>, RolesStay, IsSequence(a),
         \A i \in 1..Len(a) : OpOK(a[i]) /\ \A t, r, p : ~Needs(a[i], t, r, p),
         \A t, r, p : ~Provides(Head(s), t, r, p)
  PROVE  Good(a \o Tail(s))'
<1>1. /\ IsSequence(Tail(s)) /\ Len(Tail(s)) = Len(s) - 1 /\ Len(s) > 0 /\ Len(s) \in Nat
      /\ Head(s) = s[1] /\ \A i \in 1..Len(Tail(s)) : Tail(s)[i] = s[i + 1]
  BY TailOf DEF Good, IsSequence
<1>2. PICK b : b = Tail(s)
  OBVIOUS
<1>3. PICK q : q = a \o b
  OBVIOUS
<1>4. /\ IsSequence(q) /\ Len(q) = Len(a) + Len(b)
      /\ \A i \in 1..Len(a) : q[i] = a[i]
      /\ \A i \in 1..Len(b) : q[Len(a) + i] = b[i]
  BY <1>1, <1>2, <1>3, Concatenation
<1>5. Len(a) \in Nat /\ Len(b) \in Nat
  BY <1>1, <1>2 DEF IsSequence
<1>6. ASSUME NEW i \in 1..Len(q)
      PROVE  (i \in 1..Len(a) /\ q[i] = a[i]) \/
             (i - Len(a) \in 1..Len(b) /\ q[i] = b[i - Len(a)] /\ q[i] = s[i - Len(a) + 1])
  <2>1. CASE i \in 1..Len(a)
    BY <1>4, <2>1
  <2>2. CASE i \notin 1..Len(a)
    <3>1. i - Len(a) \in 1..Len(b) /\ Len(a) + (i - Len(a)) = i
      BY <1>4, <1>5, <2>2
    <3> QED BY <1>1, <1>2, <1>4, <3>1
  <2> QED BY <2>1, <2>2
<1>7. \A i \in 1..Len(q) : OpOK(q[i])
  <2> SUFFICES ASSUME NEW i \in 1..Len(q) PROVE OpOK(q[i])
    OBVIOUS
  <2>1. CASE q[i] = a[i] /\ i \in 1..Len(a)
    BY <2>1
  <2>2. CASE i - Len(a) \in 1..Len(b) /\ q[i] = s[i - Len(a) + 1]
    <3>1. i - Len(a) + 1 \in 1..Len(s)
      BY <1>1, <1>2, <1>5, <2>2
    <3> QED BY <2>2, <3>1 DEF Good
  <2> QED BY <1>6, <2>1, <2>2
<1>8. ASSUME NEW i \in 1..Len(q), NEW t \in Tenants, NEW r \in RoleNames, NEW p \in Wanted,
             Needs(q[i], t, r, p)
      PROVE  Given(t, r, p)' \/ \E k \in 1..(i - 1) : Provides(q[k], t, r, p)
  <2>1. i - Len(a) \in 1..Len(b) /\ q[i] = s[i - Len(a) + 1]
    BY <1>6, <1>8
  <2>2. PICK n : n = i - Len(a) + 1
    OBVIOUS
  <2>3. n \in 1..Len(s) /\ n > 1 /\ n - 1 = i - Len(a)
    BY <1>1, <1>2, <1>5, <2>1, <2>2
  <2>4. Given(t, r, p) \/ \E k \in 1..(n - 1) : Provides(s[k], t, r, p)
    BY <1>8, <2>1, <2>2, <2>3 DEF Good, Order
  <2>5. Given(t, r, p) => Given(t, r, p)'
    BY <1>8, NeedsDedicated DEF RolesStay
  <2>6. ASSUME NEW k \in 1..(n - 1), Provides(s[k], t, r, p)
        PROVE  \E l \in 1..(i - 1) : Provides(q[l], t, r, p)
    <3>1. k # 1
      BY <1>1, <2>6
    <3>2. k - 1 \in 1..Len(b) /\ b[k - 1] = s[k]
      BY <1>1, <1>2, <2>1, <2>3, <3>1
    <3>3. PICK l : l = Len(a) + (k - 1)
      OBVIOUS
    <3>4. q[l] = s[k]
      BY <1>4, <3>2, <3>3
    <3>5. l \in 1..(i - 1)
      <4>1. k \in Nat /\ k <= n - 1 /\ k > 1 /\ n - 1 = i - Len(a) /\ i \in Nat
        BY <1>5, <2>3, <3>1
      <4> QED BY <1>5, <3>3, <4>1
    <3> QED BY <2>6, <3>4, <3>5
  <2> QED BY <2>4, <2>5, <2>6
<1>9. Order(q)'
  BY <1>8 DEF Order, Needs, Provides, Dedicated, Wanted
<1>10. Good(q)'
  BY <1>4, <1>7, <1>9 DEF Good, OpOK, IsSequence, BootstrapHome
<1> QED BY <1>2, <1>3, <1>10

(* A program that goes on with operations its first part provides for. *)
LEMMA Continued ==
  ASSUME NEW a, NEW b, Good(a), IsSequence(b),
         \A i \in 1..Len(b) : OpOK(b[i]),
         \A i \in 1..Len(b) : \A t, r, p :
           Needs(b[i], t, r, p) => \E k \in 1..Len(a) : Provides(a[k], t, r, p)
  PROVE  Good(a \o b)
<1>1. PICK q : q = a \o b
  OBVIOUS
<1>2. IsSequence(a) /\ Len(a) \in Nat /\ Len(b) \in Nat
  BY DEF Good, IsSequence
<1>3. /\ IsSequence(q) /\ Len(q) = Len(a) + Len(b)
      /\ \A i \in 1..Len(a) : q[i] = a[i]
      /\ \A i \in 1..Len(b) : q[Len(a) + i] = b[i]
  BY <1>1, <1>2, Concatenation
<1>4. ASSUME NEW i \in 1..Len(q)
      PROVE  \/ i \in 1..Len(a) /\ q[i] = a[i]
             \/ i - Len(a) \in 1..Len(b) /\ q[i] = b[i - Len(a)]
  <2>1. CASE i \in 1..Len(a)
    BY <1>3, <2>1
  <2>2. CASE i \notin 1..Len(a)
    <3>1. i - Len(a) \in 1..Len(b) /\ Len(a) + (i - Len(a)) = i
      BY <1>2, <1>3, <2>2
    <3> QED BY <1>3, <3>1
  <2> QED BY <2>1, <2>2
<1>5. \A i \in 1..Len(q) : OpOK(q[i])
  BY <1>4 DEF Good
<1>6. ASSUME NEW i \in 1..Len(q), NEW t \in Tenants, NEW r \in RoleNames, NEW p \in Wanted,
             Needs(q[i], t, r, p)
      PROVE  Given(t, r, p) \/ \E k \in 1..(i - 1) : Provides(q[k], t, r, p)
  <2>1. CASE i \in 1..Len(a) /\ q[i] = a[i]
    <3>1. Given(t, r, p) \/ \E k \in 1..(i - 1) : Provides(a[k], t, r, p)
      BY <1>6, <2>1 DEF Good, Order
    <3>2. \A k \in 1..(i - 1) : k \in 1..Len(a)
      BY <1>2, <2>1
    <3> QED BY <1>3, <3>1, <3>2
  <2>2. CASE i - Len(a) \in 1..Len(b) /\ q[i] = b[i - Len(a)]
    <3>1. PICK k \in 1..Len(a) : Provides(a[k], t, r, p)
      BY <1>6, <2>2
    <3>2. k \in 1..(i - 1)
      BY <1>2, <2>2
    <3> QED BY <1>3, <3>1, <3>2
  <2> QED BY <1>4, <2>1, <2>2
<1>7. Good(q)
  BY <1>3, <1>5, <1>6 DEF Good, Order
<1> QED BY <1>1, <1>7

(* The rest of a program that ends with one more operation, which relies on  *)
(* nothing.                                                                  *)
LEMMA OrderOfExtension ==
  ASSUME NEW e, NEW s, Good(s), s # <<>>, RolesStay, OpOK(e), \A t, r, p : ~Needs(e, t, r, p),
         \A t \in Tenants, r \in RoleNames, p \in Wanted :
           Provides(Head(s), t, r, p) /\ (p = Absent \/ <<r, p>> \in Dedicated) => Given(t, r, p)'
  PROVE  Good(Tail(s) \o <<e>>)'
<1>1. PICK b : b = <<e>>
  OBVIOUS
<1>2. IsSequence(b) /\ Len(b) = 1 /\ b[1] = e
  BY <1>1 DEF IsSequence
<1>3. \A i \in 1..Len(b) : b[i] = e
  BY <1>2
<1>4. PICK q : q = s \o b
  OBVIOUS
<1>5. Good(q)
  <2>1. /\ \A i \in 1..Len(b) : OpOK(b[i])
        /\ \A i \in 1..Len(b) : \A t, r, p : ~Needs(b[i], t, r, p)
    BY ONLY <1>3, OpOK(e), \A t, r, p : ~Needs(e, t, r, p)
  <2>2. Good(s \o b)
    BY ONLY <1>2, <2>1, Good(s), Continued
  <2> QED BY <1>4, <2>2
<1>6. PICK w : w = Tail(s) \o b
  OBVIOUS
<1>7. /\ IsSequence(Tail(s)) /\ Len(Tail(s)) = Len(s) - 1 /\ Len(s) > 0 /\ Len(s) \in Nat
      /\ Head(s) = s[1] /\ \A i \in 1..Len(Tail(s)) : Tail(s)[i] = s[i + 1]
  BY TailOf DEF Good, IsSequence
<1>8. /\ IsSequence(q) /\ Len(q) = Len(s) + 1
      /\ \A i \in 1..Len(s) : q[i] = s[i]
      /\ q[Len(s) + 1] = e
  <2>1. IsSequence(s) /\ IsSequence(b)
    BY <1>2 DEF Good
  <2>2. /\ IsSequence(q) /\ Len(q) = Len(s) + Len(b)
        /\ \A i \in 1..Len(s) : q[i] = s[i]
        /\ \A i \in 1..Len(b) : q[Len(s) + i] = b[i]
    BY ONLY <1>4, <2>1, Concatenation
  <2> QED BY <1>2, <2>2
<1>9. PICK v : v = Tail(s)
  OBVIOUS
<1>10. /\ IsSequence(w) /\ Len(w) = Len(s)
       /\ \A i \in 1..(Len(s) - 1) : w[i] = s[i + 1]
       /\ w[Len(s)] = e
  <2>1. /\ IsSequence(w) /\ Len(w) = Len(v) + Len(b)
        /\ \A i \in 1..Len(v) : w[i] = v[i]
        /\ \A i \in 1..Len(b) : w[Len(v) + i] = b[i]
    <3>1. IsSequence(v) /\ IsSequence(b)
      BY <1>2, <1>7, <1>9
    <3>2. w = v \o b
      BY <1>6, <1>9
    <3> QED BY ONLY <3>1, <3>2, Concatenation
  <2>2. Len(v) = Len(s) - 1 /\ 1 \in 1..Len(b) /\ Len(v) + 1 = Len(s)
    BY <1>2, <1>7, <1>9
  <2> QED BY <1>2, <1>7, <1>9, <2>1, <2>2
<1>11. q # <<>>
  <2>1. Len(q) > 0
    BY <1>7, <1>8
  <2> QED BY <2>1
<1>12. PICK u : u = Tail(q)
  OBVIOUS
<1>13. /\ IsSequence(u) /\ Len(u) = Len(s) /\ Head(q) = q[1]
       /\ \A i \in 1..Len(u) : u[i] = q[i + 1]
  <2>1. /\ IsSequence(Tail(q)) /\ Len(Tail(q)) = Len(q) - 1 /\ Head(q) = q[1]
        /\ \A i \in 1..Len(Tail(q)) : Tail(q)[i] = q[i + 1]
    BY <1>8, <1>11, TailOf
  <2> QED BY <1>7, <1>8, <1>12, <2>1
<1>14. u = w
  <2>1. \A i \in 1..Len(s) : u[i] = w[i]
    <3> SUFFICES ASSUME NEW i \in 1..Len(s) PROVE u[i] = w[i]
      OBVIOUS
    <3>1. CASE i = Len(s)
      BY <1>8, <1>10, <1>13, <3>1
    <3>2. CASE i # Len(s)
      <4>1. i \in 1..(Len(s) - 1) /\ i + 1 \in 1..Len(s)
        <5>1. Len(s) \in Nat /\ i \in Nat /\ 1 <= i /\ i <= Len(s)
          BY <1>7
        <5> QED BY <3>2, <5>1
      <4>2. u[i] = q[i + 1]
        BY <1>13
      <4>3. q[i + 1] = s[i + 1] /\ w[i] = s[i + 1]
        BY <1>8, <1>10, <4>1
      <4> QED BY <4>2, <4>3
    <3> QED BY <3>1, <3>2
  <2> QED BY <1>10, <1>13, <2>1 DEF IsSequence
<1>15. Head(q) = Head(s)
  BY <1>7, <1>8, <1>13
<1>16. Good(u)'
  BY <1>5, <1>11, <1>12, <1>15, OrderOfTail
<1> QED BY <1>1, <1>6, <1>14, <1>16

LEMMA GoodStays ==
  ASSUME NEW s, Good(s), RolesStay
  PROVE  Good(s)'
BY OrderStays DEF Good, OpOK, IsSequence, BootstrapHome

----------------------------------------------------------------------------
(* Where a step leaves its job *)

LEMMA FreshJob ==
  ASSUME NEW s, Good(s)'
  PROVE  JobOK(Fresh(s))'
<1> PICK m : m = Fresh(s)
  OBVIOUS
<1>1. m = [pc |-> "run", todo |-> s, tries |-> 0, seen |-> Absent, to |-> Absent]
  BY DEF Fresh
<1>2. m.pc = "run" /\ m.todo = s /\ m.tries = 0 /\ m.seen = Absent /\ m.to = Absent
  BY <1>1
<1>3. JobOK(m)'
  BY <1>1, <1>2 DEF JobOK, InHand
<1> QED BY <1>3 DEF Fresh

LEMMA FailedJob == JobOK([Fresh(<<>>) EXCEPT !.pc = "failed"])'
<1> PICK m : m = [Fresh(<<>>) EXCEPT !.pc = "failed"]
  OBVIOUS
<1>1. m = [pc |-> "failed", todo |-> <<>>, tries |-> 0, seen |-> Absent, to |-> Absent]
  BY DEF Fresh
<1>2. Good(<<>>)'
  BY DEF Good, IsSequence, Order
<1>3. m.pc = "failed" /\ m.todo = <<>> /\ m.tries = 0 /\ m.seen = Absent /\ m.to = Absent
  BY <1>1
<1>4. JobOK(m)'
  BY <1>1, <1>2, <1>3 DEF JobOK
<1> QED BY <1>4 DEF Fresh

LEMMA HeldJob ==
  ASSUME NEW m, JobOK(m), RolesStay, NEW pc, NEW seen, NEW to, m.todo # <<>>,
         InHand(Head(m.todo), [m EXCEPT !.pc = pc, !.seen = seen, !.to = to])'
  PROVE  JobOK([m EXCEPT !.pc = pc, !.seen = seen, !.to = to])'
<1> PICK n : n = [m EXCEPT !.pc = pc, !.seen = seen, !.to = to]
  OBVIOUS
<1>1. n = [pc |-> pc, todo |-> m.todo, tries |-> m.tries, seen |-> seen, to |-> to]
  BY DEF JobOK
<1>2. n.pc = pc /\ n.todo = m.todo /\ n.tries = m.tries /\ n.seen = seen /\ n.to = to
  BY <1>1
<1>3. Good(m.todo)'
  BY GoodStays DEF JobOK
<1>4. InHand(Head(n.todo), n)'
  BY <1>2
<1>5. JobOK(n)'
  BY <1>1, <1>2, <1>3, <1>4 DEF JobOK
<1> QED BY <1>5

(* Job j moves and the others stay where they are. *)
Moves(j) == \E m : job' = [job EXCEPT ![j] = m] /\ JobOK(m)'

LEMMA ProceedMoves ==
  ASSUME RegistryInv, NEW j \in Jobs, job[j].todo # <<>>, Proceed(j), RolesStay,
         \A t \in Tenants, r \in RoleNames, p \in Wanted :
           Provides(This(j), t, r, p) /\ (p = Absent \/ <<r, p>> \in Dedicated) => Given(t, r, p)'
  PROVE  Moves(j)
<1>1. PICK s : s = job[j].todo
  OBVIOUS
<1>2. Good(s) /\ s # <<>>
  BY <1>1 DEF RegistryInv, JobOK
<1>3. Good(Tail(s))'
  BY <1>1, <1>2, OrderOfTail DEF This
<1>4. PICK q : q = Tail(s)
  OBVIOUS
<1>5. JobOK(Fresh(q))'
  BY <1>3, <1>4, FreshJob
<1>6. job' = [job EXCEPT ![j] = Fresh(q)]
  BY <1>1, <1>4 DEF Proceed
<1>7. PICK m : m = Fresh(q)
  OBVIOUS
<1>8. JobOK(m)'
  BY <1>5, <1>7 DEF Fresh
<1> QED BY <1>6, <1>7, <1>8 DEF Moves

(* An operation that defines no role. *)
Silent(o) == o.op \notin {"ensureRole", "putRole", "roles"}

LEMMA SilentProceeds ==
  ASSUME RegistryInv, NEW j \in Jobs, job[j].todo # <<>>, Proceed(j), RolesStay, Silent(This(j))
  PROVE  Moves(j)
BY ProceedMoves DEF Silent, Provides

LEMMA FailMoves ==
  ASSUME NEW j \in Jobs, Fail(j)
  PROVE  Moves(j)
<1> PICK m : m = [Fresh(<<>>) EXCEPT !.pc = "failed"]
  OBVIOUS
<1>1. JobOK(m)'
  BY FailedJob DEF Fresh
<1> QED BY <1>1 DEF Fail, Moves

LEMMA AgainMoves ==
  ASSUME RegistryInv, NEW j \in Jobs, Again(j), RolesStay
  PROVE  Moves(j)
<1>1. CASE Fail(j)
  BY <1>1, FailMoves
<1>2. CASE job' = [job EXCEPT ![j] = [Fresh(@.todo) EXCEPT !.tries = job[j].tries + 1]]
  <2>1. PICK s : s = job[j].todo
    OBVIOUS
  <2>2. PICK n : n = job[j].tries + 1
    OBVIOUS
  <2>3. PICK m : m = [Fresh(s) EXCEPT !.tries = n]
    OBVIOUS
  <2>4. m = [pc |-> "run", todo |-> s, tries |-> n, seen |-> Absent, to |-> Absent]
    BY <2>3 DEF Fresh
  <2>5. m.pc = "run" /\ m.todo = s /\ m.tries = n /\ m.seen = Absent /\ m.to = Absent
    BY <2>4
  <2>6. Good(s) /\ n \in Nat
    BY <2>1, <2>2 DEF RegistryInv, JobOK
  <2>7. Good(s)'
    BY <2>6, GoodStays
  <2>8. JobOK(m)'
    BY <2>4, <2>5, <2>6, <2>7 DEF JobOK, InHand
  <2>9. job' = [job EXCEPT ![j] = m]
    BY <1>2, <2>1, <2>2, <2>3
  <2> QED BY <2>8, <2>9 DEF Moves
<1> QED BY <1>1, <1>2 DEF Again

LEMMA HoldMoves ==
  ASSUME RegistryInv, NEW j \in Jobs, NEW pc, NEW seen, NEW to, Hold(j, pc, seen, to), RolesStay,
         job[j].todo # <<>>, NEW o, o = This(j),
         \A m : m.pc = pc /\ m.seen = seen /\ m.to = to => InHand(o, m)'
  PROVE  Moves(j)
<1>1. PICK w : w = job[j]
  OBVIOUS
<1>2. JobOK(w)
  BY <1>1 DEF RegistryInv
<1>3. PICK n : n = [w EXCEPT !.pc = pc, !.seen = seen, !.to = to]
  OBVIOUS
<1>4. n = [pc |-> pc, todo |-> w.todo, tries |-> w.tries, seen |-> seen, to |-> to]
  BY <1>2, <1>3 DEF JobOK
<1>7. InHand(Head(w.todo), n)'
  <2>1. n.pc = pc /\ n.seen = seen /\ n.to = to
    BY <1>4
  <2>2. Head(w.todo) = o
    BY <1>1 DEF This
  <2>3. InHand(o, n)'
    BY <2>1
  <2> QED BY <2>2, <2>3
<1>8. JobOK(n)'
  BY <1>1, <1>2, <1>3, <1>7, HeldJob
<1>9. job' = [job EXCEPT ![j] = n]
  BY <1>1, <1>3 DEF Hold, RegistryInv
<1> QED BY <1>8, <1>9 DEF Moves

LEMMA InsertMoves ==
  ASSUME RegistryInv, NEW j \in Jobs, NEW a, job[j].todo # <<>>, RolesStay, IsSequence(a),
         job' = [job EXCEPT ![j] = Fresh(a \o Tail(@.todo))], Silent(This(j)),
         \A i \in 1..Len(a) : OpOK(a[i]) /\ \A t, r, p : ~Needs(a[i], t, r, p)
  PROVE  Moves(j)
<1>1. PICK s : s = job[j].todo
  OBVIOUS
<1>2. Good(s) /\ s # <<>>
  BY <1>1 DEF RegistryInv, JobOK
<1>3. \A t, r, p : ~Provides(Head(s), t, r, p)
  BY <1>1 DEF Silent, Provides, This
<1>4. Good(a \o Tail(s))'
  BY <1>2, <1>3, OrderOfInsertion
<1>5. PICK q : q = a \o Tail(s)
  OBVIOUS
<1>6. JobOK(Fresh(q))'
  BY <1>4, <1>5, FreshJob
<1>7. PICK m : m = Fresh(q)
  OBVIOUS
<1>8. JobOK(m)'
  BY <1>6, <1>7 DEF Fresh
<1>9. job' = [job EXCEPT ![j] = m]
  BY <1>1, <1>5, <1>7
<1> QED BY <1>8, <1>9 DEF Moves

(* Job j goes on, and has one more operation to end with. *)
LEMMA ExtendMoves ==
  ASSUME RegistryInv, NEW j \in Jobs, NEW e, job[j].todo # <<>>, RolesStay,
         job' = [job EXCEPT ![j] = Fresh(Tail(@.todo) \o <<e>>)],
         OpOK(e), \A t, r, p : ~Needs(e, t, r, p),
         \A t \in Tenants, r \in RoleNames, p \in Wanted :
           Provides(This(j), t, r, p) /\ (p = Absent \/ <<r, p>> \in Dedicated) => Given(t, r, p)'
  PROVE  Moves(j)
<1>1. PICK s : s = job[j].todo
  OBVIOUS
<1>2. Good(s) /\ s # <<>>
  BY <1>1 DEF RegistryInv, JobOK
<1>3. Good(Tail(s) \o <<e>>)'
  BY <1>1, <1>2, OrderOfExtension DEF This
<1>4. PICK q : q = Tail(s) \o <<e>>
  OBVIOUS
<1>5. JobOK(Fresh(q))'
  BY <1>3, <1>4, FreshJob
<1>6. job' = [job EXCEPT ![j] = Fresh(q)]
  BY <1>1, <1>4
<1>7. PICK m : m = Fresh(q)
  OBVIOUS
<1>8. JobOK(m)'
  BY <1>5, <1>7 DEF Fresh
<1> QED BY <1>6, <1>7, <1>8 DEF Moves

(* The job that is left alone by a step of another. *)
LEMMA JobStays ==
  ASSUME NEW m, JobOK(m), RolesStay
  PROVE  JobOK(m)'
<1>1. Good(m.todo)'
  BY GoodStays DEF JobOK
<1>2. m.todo # <<>> => InHand(Head(m.todo), m)'
  <2> SUFFICES ASSUME m.todo # <<>> PROVE InHand(Head(m.todo), m)'
    OBVIOUS
  <2> PICK o : o = Head(m.todo)
    OBVIOUS
  <2>1. InHand(o, m)
    BY DEF JobOK
  <2>2. OpOK(o)
    BY TailOf DEF JobOK, Good
  <2>3. o.op = "addRole" /\ role[<<o.tenant, "ai-admin">>] # Absent => role'[<<o.tenant, "ai-admin">>] # Absent
    BY <2>2 DEF OpOK, RolesStay, Given, Wanted, RoleNames
  <2> QED BY <2>1, <2>3 DEF InHand
<1> QED BY <1>1, <1>2 DEF JobOK

LEMMA AllJobs ==
  ASSUME RegistryInv, NEW j \in Jobs, Moves(j), RolesStay
  PROVE  (job = [q \in Jobs |-> job[q]] /\ \A q \in Jobs : JobOK(job[q]))'
<1>1. PICK m : job' = [job EXCEPT ![j] = m] /\ JobOK(m)'
  BY DEF Moves
<1>2. job' = [q \in Jobs |-> IF q = j THEN m ELSE job[q]]
  BY <1>1 DEF RegistryInv
<1>3. ASSUME NEW q \in Jobs PROVE JobOK(job[q])'
  <2>1. PICK w : w = job[q]
    OBVIOUS
  <2>2. JobOK(w)'
    BY <2>1, JobStays DEF RegistryInv
  <2>3. PICK v : v = job'[q]
    OBVIOUS
  <2>4. v = w \/ v = m
    BY <1>2, <2>1, <2>3
  <2>5. JobOK(v)'
    BY <1>1, <2>2, <2>4
  <2> QED BY <2>3, <2>5 DEF JobOK
<1> QED BY <1>2, <1>3

----------------------------------------------------------------------------
(* What a step writes *)

(* The parts of RecordsKeepStanding. *)
TenantsKeep ==
  \A t \in Tenants : tenant[t] # Absent =>
    /\ tenant'[t] # Absent /\ tenant'[t].created = tenant[t].created
    /\ tenant[t].status = "DISABLED" => tenant'[t].status = "DISABLED"
    /\ tenant[t].retired => tenant'[t] = tenant[t]
ClientsKeep ==
  \A k \in Tenants \X ClientIds :
    /\ marker[k] # Absent => marker'[k] # Absent /\ marker'[k].owner = marker[k].owner
    /\ client[k] # Absent /\ client[k].secret =>
         client'[k] = client[k] \/ BootstrapHome(client'[k])
MembersKeep == \A k \in Tenants \X Users : member[k] # Absent => member'[k] = member[k]

Writes == StoresOK' /\ TenantsKeep /\ ClientsKeep /\ MembersKeep /\ RolesStay

LEMMA SameRolesStay ==
  ASSUME role' = role
  PROVE  RolesStay
BY DEF RolesStay, Given

LEMMA NothingWritten ==
  ASSUME StoresOK, UNCHANGED <<tenant, role, clients, people>>
  PROVE  Writes
<1>1. UNCHANGED <<tenant, role, client, marker, promised, assignment, member, legacy>>
  BY DEF clients, people
<1>2. StoresOK'
  BY <1>1 DEF StoresOK, TypeOK, MarkersOwned, OwnedRecordsPaired, Corrupt, NoReportedScopeLost,
              RolesBeforeUse, ActiveAudienceHasRoles, HeldRolesDefined
<1>3. TenantsKeep /\ ClientsKeep /\ MembersKeep
  BY <1>1 DEF TenantsKeep, ClientsKeep, MembersKeep
<1> QED BY <1>1, <1>2, <1>3, SameRolesStay DEF Writes

LEMMA TenantsWritten ==
  ASSUME StoresOK, tenant' \in [Tenants -> TenantRecord \cup {Absent}], TenantsKeep,
         UNCHANGED <<role, clients, people>>
  PROVE  Writes
<1>1. UNCHANGED <<role, client, marker, promised, assignment, member, legacy>>
  BY DEF clients, people
<1>2. StoresOK'
  BY <1>1 DEF StoresOK, TypeOK, MarkersOwned, OwnedRecordsPaired, Corrupt, NoReportedScopeLost,
              RolesBeforeUse, ActiveAudienceHasRoles, HeldRolesDefined
<1>3. ClientsKeep /\ MembersKeep
  BY <1>1 DEF ClientsKeep, MembersKeep
<1> QED BY <1>1, <1>2, <1>3, SameRolesStay DEF Writes

LEMMA RoleWritten ==
  ASSUME StoresOK, NEW t \in Tenants, NEW r \in RoleNames, NEW p \in Scopes,
         role' = [role EXCEPT ![<<t, r>>] = p],
         role[<<t, r>>] = Absent \/ r \in {"ADMIN", "base"},
         UNCHANGED <<tenant, clients, people>>
  PROVE  Writes /\ role'[<<t, r>>] = p
<1>1. UNCHANGED <<tenant, client, marker, promised, assignment, member, legacy>>
  BY DEF clients, people
<1>2. /\ role' \in [Tenants \X RoleNames -> {Absent} \cup Scopes]
      /\ role'[<<t, r>>] = p /\ p # Absent
      /\ \A k \in Tenants \X RoleNames : k # <<t, r>> => role'[k] = role[k]
  BY RegistryNames DEF StoresOK, TypeOK
<1>3. \A k \in Tenants \X RoleNames : role[k] # Absent => role'[k] # Absent
  BY <1>2
<1>4. ASSUME NEW u \in Tenants, NEW d, NEW e, <<d, e>> \in Dedicated, role[<<u, d>>] = e
      PROVE  role'[<<u, d>>] = e
  <2>1. d \in {"ai-admin", "ai-user"} /\ d \in RoleNames /\ e \in Scopes
    BY <1>4, DedicatedScopes DEF Dedicated, RoleNames
  <2>2. role[<<u, d>>] # Absent
    BY <1>4, <2>1, RegistryNames
  <2>3. <<u, d>> # <<t, r>>
    BY <2>1, <2>2
  <2> QED BY <1>2, <1>4, <2>1, <2>3
<1>5. RolesStay
  <2> SUFFICES ASSUME NEW u \in Tenants, NEW d \in RoleNames, NEW e \in Wanted, Given(u, d, e),
                      e = Absent \/ <<d, e>> \in Dedicated
               PROVE  Given(u, d, e)'
    BY DEF RolesStay
  <2>1. <<u, d>> \in Tenants \X RoleNames
    OBVIOUS
  <2> QED BY <1>3, <1>4, <2>1 DEF Given
<1>6. ActiveAudienceHasRoles'
  BY <1>1, <1>4 DEF StoresOK, RolesBeforeUse, ActiveAudienceHasRoles, Dedicated
<1>7. HeldRolesDefined'
  <2> SUFFICES ASSUME NEW k \in Tenants \X Users,
                      NEW d \in (IF assignment[k] = Absent THEN {} ELSE assignment[k].roles)
                                  \cup (IF member[k] = Absent THEN {} ELSE member[k])
               PROVE  role'[<<k[1], d>>] # Absent
    BY <1>1 DEF HeldRolesDefined
  <2>1. role[<<k[1], d>>] # Absent
    BY DEF StoresOK, RolesBeforeUse, HeldRolesDefined
  <2>2. d \in RoleNames /\ k[1] \in Tenants
    BY RegistryNames DEF StoresOK, TypeOK, Assigned
  <2> QED BY <1>3, <2>1, <2>2
<1>8. StoresOK'
  BY <1>1, <1>2, <1>6, <1>7 DEF StoresOK, TypeOK, MarkersOwned, OwnedRecordsPaired, Corrupt,
              NoReportedScopeLost, RolesBeforeUse
<1>9. TenantsKeep /\ ClientsKeep /\ MembersKeep
  BY <1>1 DEF TenantsKeep, ClientsKeep, MembersKeep
<1> QED BY <1>2, <1>5, <1>8, <1>9 DEF Writes

(* One write of a client, and of its marker when it is owned. *)
LEMMA ClientWritten ==
  ASSUME StoresOK, NEW k \in Tenants \X ClientIds, NEW rec \in ClientRecord, NEW promise \in Scopes,
         Store(k, rec, promise), UNCHANGED <<tenant, role, people>>,
         rec.owner = "none" => marker[k] = Absent,
         rec.owner # "none" => ~rec.secret,
         marker[k] # Absent => rec.owner = marker[k].owner,
         client[k] # Absent /\ client[k].secret => BootstrapHome(rec),
         k[2] = Console => promise \subseteq rec.scopes,
         k[2] = AI /\ rec.status = "ACTIVE" =>
           role[<<k[1], "ai-admin">>] = AdminPermissions /\ role[<<k[1], "ai-user">>] = UserPermissions
  PROVE  Writes
<1>1. UNCHANGED <<tenant, role, assignment, member, legacy>>
  BY DEF people
<1>2. /\ client' \in [Tenants \X ClientIds -> ClientRecord \cup {Absent}]
      /\ client'[k] = rec /\ rec # Absent
      /\ \A l \in Tenants \X ClientIds : l # k => client'[l] = client[l]
  BY RegistryNames DEF Store, StoresOK, TypeOK
<1>3. /\ marker' \in [Tenants \X ClientIds -> ClientRecord \cup {Absent}]
      /\ marker'[k] = IF rec.owner = "none" THEN marker[k] ELSE rec
      /\ \A l \in Tenants \X ClientIds : l # k => marker'[l] = marker[l]
  BY RegistryNames DEF Store, StoresOK, TypeOK
<1>4. k[1] \in Tenants /\ k[2] \in ClientIds /\ k = <<k[1], k[2]>>
  OBVIOUS
<1>5. /\ promised' \in [Tenants -> Scopes]
      /\ k[2] = Console => promised'[k[1]] = promise
      /\ \A t \in Tenants : k # <<t, Console>> => promised'[t] = promised[t]
  BY <1>4 DEF Store, StoresOK, TypeOK
<1>6. TypeOK'
  BY <1>1, <1>2, <1>3, <1>5 DEF StoresOK, TypeOK
<1>7. MarkersOwned'
  BY <1>2, <1>3 DEF StoresOK, MarkersOwned
<1>8. OwnedRecordsPaired'
  <2>1. ASSUME NEW l \in Tenants \X ClientIds PROVE ~Corrupt(l)'
    <3>1. CASE l = k
      BY <1>2, <1>3, <3>1 DEF Corrupt
    <3>2. CASE l # k
      BY <1>2, <1>3, <3>2 DEF Corrupt, StoresOK, OwnedRecordsPaired
    <3> QED BY <3>1, <3>2
  <2> QED BY <1>1, <2>1 DEF StoresOK, OwnedRecordsPaired
<1>9. NoReportedScopeLost'
  <2> SUFFICES ASSUME NEW t \in Tenants, client'[<<t, Console>>] # Absent
               PROVE  promised'[t] \subseteq client'[<<t, Console>>].scopes
    BY DEF NoReportedScopeLost
  <2>1. <<t, Console>> \in Tenants \X ClientIds
    BY DEF ClientIds
  <2>2. CASE k = <<t, Console>>
    BY <1>2, <1>5, <2>2
  <2>3. CASE k # <<t, Console>>
    BY <1>2, <1>5, <2>1, <2>3 DEF StoresOK, NoReportedScopeLost
  <2> QED BY <2>2, <2>3
<1>10. ActiveAudienceHasRoles'
  <2> SUFFICES ASSUME NEW t \in Tenants, client'[<<t, AI>>] # Absent, client'[<<t, AI>>].status = "ACTIVE"
               PROVE  role[<<t, "ai-admin">>] = AdminPermissions /\ role[<<t, "ai-user">>] = UserPermissions
    BY <1>1 DEF ActiveAudienceHasRoles
  <2>1. <<t, AI>> \in Tenants \X ClientIds
    BY DEF ClientIds
  <2>2. CASE k = <<t, AI>>
    BY <1>2, <2>2
  <2>3. CASE k # <<t, AI>>
    BY <1>2, <2>1, <2>3 DEF StoresOK, RolesBeforeUse, ActiveAudienceHasRoles
  <2> QED BY <2>2, <2>3
<1>11. HeldRolesDefined'
  BY <1>1 DEF StoresOK, RolesBeforeUse, HeldRolesDefined
<1>12. StoresOK'
  BY <1>6, <1>7, <1>8, <1>9, <1>10, <1>11 DEF StoresOK, RolesBeforeUse
<1>13. ClientsKeep
  <2> SUFFICES ASSUME NEW l \in Tenants \X ClientIds
               PROVE  /\ marker[l] # Absent => marker'[l] # Absent /\ marker'[l].owner = marker[l].owner
                      /\ client[l] # Absent /\ client[l].secret =>
                           client'[l] = client[l] \/ BootstrapHome(client'[l])
    BY DEF ClientsKeep
  <2>1. CASE l = k
    <3>1. marker[k] # Absent => marker[k].owner # "none"
      BY DEF StoresOK, MarkersOwned
    <3>2. marker[k] # Absent => marker'[k] = rec
      BY <1>3, <3>1
    <3> QED BY <1>2, <2>1, <3>2
  <2>2. CASE l # k
    BY <1>2, <1>3, <2>2
  <2> QED BY <2>1, <2>2
<1>14. TenantsKeep /\ MembersKeep
  BY <1>1 DEF TenantsKeep, MembersKeep
<1> QED BY <1>1, <1>12, <1>13, <1>14, SameRolesStay DEF Writes

(* A write of one person's roles. *)
LEMMA PersonWritten ==
  ASSUME StoresOK, NEW k \in Tenants \X Users,
         assignment' \in [Tenants \X Users -> Assigned \cup {Absent}],
         member' \in [Tenants \X Users -> {Absent} \cup SUBSET RoleNames],
         legacy' \in [Tenants \X Users -> {Absent} \cup SUBSET RoleNames],
         \A l \in Tenants \X Users : l # k =>
           assignment'[l] = assignment[l] /\ member'[l] = member[l] /\ legacy'[l] = legacy[l],
         member[k] # Absent => member'[k] = member[k],
         member'[k] # Absent => legacy'[k] = member'[k],
         assignment'[k] # Absent => \A r \in assignment'[k].roles : role[<<k[1], r>>] # Absent,
         member'[k] # Absent => \A r \in member'[k] : role[<<k[1], r>>] # Absent,
         UNCHANGED <<tenant, role, clients>>
  PROVE  Writes
<1>1. UNCHANGED <<tenant, role, client, marker, promised>>
  BY DEF clients
<1>2. TypeOK'
  BY <1>1 DEF StoresOK, TypeOK
<1>3. MarkersOwned' /\ NoReportedScopeLost' /\ ActiveAudienceHasRoles'
  BY <1>1 DEF StoresOK, MarkersOwned, NoReportedScopeLost, RolesBeforeUse, ActiveAudienceHasRoles
<1>4. OwnedRecordsPaired'
  <2>1. \A l \in Tenants \X ClientIds : ~Corrupt(l)'
    BY <1>1 DEF StoresOK, OwnedRecordsPaired, Corrupt
  <2>2. ASSUME NEW l \in Tenants \X Users, member'[l] # Absent PROVE legacy'[l] = member'[l]
    BY <2>2 DEF StoresOK, OwnedRecordsPaired
  <2> QED BY <2>1, <2>2 DEF OwnedRecordsPaired
<1>5. HeldRolesDefined'
  <2> SUFFICES ASSUME NEW l \in Tenants \X Users,
                      NEW d \in (IF assignment'[l] = Absent THEN {} ELSE assignment'[l].roles)
                                  \cup (IF member'[l] = Absent THEN {} ELSE member'[l])
               PROVE  role[<<l[1], d>>] # Absent
    BY <1>1 DEF HeldRolesDefined
  <2>1. CASE l = k
    BY <2>1
  <2>2. CASE l # k
    BY <2>2 DEF StoresOK, RolesBeforeUse, HeldRolesDefined
  <2> QED BY <2>1, <2>2
<1>6. TenantsKeep /\ ClientsKeep /\ MembersKeep
  BY <1>1 DEF TenantsKeep, ClientsKeep, MembersKeep
<1> QED BY <1>1, <1>2, <1>3, <1>4, <1>5, <1>6, SameRolesStay DEF Writes, StoresOK, RolesBeforeUse

----------------------------------------------------------------------------
(* The operation a job is at *)

Outcome(j) == Writes /\ Moves(j)

LEMMA AtOperation ==
  ASSUME RegistryInv, NEW j \in Jobs, job[j].todo # <<>>
  PROVE  /\ OpOK(This(j)) /\ InHand(This(j), job[j])
         /\ \A t \in Tenants, r \in RoleNames, p \in Wanted : Needs(This(j), t, r, p) => Given(t, r, p)
<1>1. PICK s : s = job[j].todo
  OBVIOUS
<1>2. Good(s) /\ s # <<>> /\ InHand(Head(s), job[j])
  BY <1>1 DEF RegistryInv, JobOK
<1>3. Head(s) = s[1] /\ 1 \in 1..Len(s)
  BY <1>2, TailOf DEF Good, IsSequence
<1>4. OpOK(s[1])
  BY <1>2, <1>3 DEF Good
<1>5. ASSUME NEW t \in Tenants, NEW r \in RoleNames, NEW p \in Wanted, Needs(s[1], t, r, p)
      PROVE  Given(t, r, p)
  <2>1. Given(t, r, p) \/ \E k \in 1..(1 - 1) : Provides(s[k], t, r, p)
    BY <1>2, <1>3, <1>5 DEF Good, Order
  <2> QED BY <2>1
<1> QED BY <1>1, <1>2, <1>3, <1>4, <1>5 DEF This

(* Steps that only read. *)
LEMMA Reads ==
  ASSUME RegistryInv, OnlyJobs
  PROVE  Writes /\ RolesStay /\ role' = role
<1>1. Writes
  BY NothingWritten DEF RegistryInv, OnlyJobs
<1> QED BY <1>1 DEF Writes, OnlyJobs

LEMMA CheckMoves ==
  ASSUME RegistryInv, NEW j \in Jobs, NEW ok, job[j].todo # <<>>, Check(j, ok), RolesStay, Silent(This(j))
  PROVE  Moves(j)
BY SilentProceeds, FailMoves DEF Check

(* A hold that says nothing of what is held. *)
LEMMA PlainHold ==
  ASSUME RegistryInv, NEW j \in Jobs, NEW pc, NEW seen, NEW to, Hold(j, pc, seen, to), RolesStay,
         job[j].todo # <<>>, pc \notin {"swap", "commit", "current", "write"}
  PROVE  Moves(j)
<1>1. PICK o : o = This(j)
  OBVIOUS
<1>2. \A m : m.pc = pc /\ m.seen = seen /\ m.to = to => InHand(o, m)'
  BY DEF InHand
<1> QED BY <1>1, <1>2, HoldMoves

----------------------------------------------------------------------------
(* Tenants *)

LEMMA CheckTenantStep ==
  ASSUME RegistryInv, NEW j \in Jobs, CheckTenant(j)
  PROVE  Outcome(j)
<1>1. Writes /\ RolesStay /\ job[j].todo # <<>> /\ This(j).op \in {"active", "known", "brokerTenant"}
  BY Reads DEF CheckTenant, Doing, This
<1>2. Silent(This(j))
  BY <1>1 DEF Silent
<1>3. CASE job' = [job EXCEPT ![j] = Fresh(<<>>)]
  <2>1. PICK m : m = Fresh(<<>>)
    OBVIOUS
  <2>2. Good(<<>>)'
    BY DEF Good, IsSequence, Order
  <2>3. JobOK(m)'
    BY <2>1, <2>2, FreshJob DEF Fresh
  <2> QED BY <1>1, <1>3, <2>1, <2>3 DEF Outcome, Moves
<1>4. ASSUME NEW ok, Check(j, ok) PROVE Outcome(j)
  BY <1>1, <1>2, <1>4, CheckMoves DEF Outcome
<1>5. \/ Check(j, Running(This(j).tenant))
      \/ Check(j, tenant[This(j).tenant] # Absent /\ ~tenant[This(j).tenant].retired)
      \/ job' = [job EXCEPT ![j] = Fresh(<<>>)]
  BY DEF CheckTenant
<1> QED BY <1>3, <1>4, <1>5

LEMMA CreateTenantStep ==
  ASSUME RegistryInv, NEW j \in Jobs, CreateTenant(j)
  PROVE  Outcome(j)
<1>1. PICK o : o = This(j)
  OBVIOUS
<1>2. job[j].todo # <<>> /\ o.op = "create"
  BY <1>1 DEF CreateTenant, Doing, This
<1>3. OpOK(o) /\ Silent(o)
  BY <1>1, <1>2, AtOperation DEF Silent
<1>4. o.tenant \in Tenants /\ o.name \in STRING
  BY <1>2, <1>3 DEF OpOK
<1>5. StoresOK
  BY DEF RegistryInv
<1>6. CASE tenant[o.tenant] = Absent
  <2>1. PICK rec : rec = [created |-> j, name |-> o.name, status |-> "ACTIVE", retired |-> FALSE]
    OBVIOUS
  <2>2. rec \in TenantRecord
    BY <1>4, <2>1 DEF TenantRecord
  <2>3. /\ tenant' = [tenant EXCEPT ![o.tenant] = rec] /\ Proceed(j)
        /\ UNCHANGED <<role, clients, people>>
    BY <1>1, <1>6, <2>1 DEF CreateTenant
  <2>4. tenant' \in [Tenants -> TenantRecord \cup {Absent}]
    BY <1>5, <2>2, <2>3 DEF StoresOK, TypeOK
  <2>5. TenantsKeep
    BY <1>5, <1>6, <2>3 DEF StoresOK, TypeOK, TenantsKeep
  <2>6. Writes
    BY <1>5, <2>3, <2>4, <2>5, TenantsWritten
  <2> QED BY <1>1, <1>2, <1>3, <2>3, <2>6, SilentProceeds DEF Writes, Outcome
<1>7. CASE tenant[o.tenant] # Absent
  <2>1. Hold(j, "read", Absent, Absent) /\ OnlyJobs
    BY <1>1, <1>7 DEF CreateTenant, OnlyJobs
  <2> QED BY <1>2, <2>1, Reads, PlainHold DEF Outcome
<1> QED BY <1>6, <1>7

LEMMA ReadTenantStep ==
  ASSUME RegistryInv, NEW j \in Jobs, ReadTenant(j)
  PROVE  Outcome(j)
<1>1. job[j].todo # <<>> /\ Silent(This(j)) /\ Writes /\ RolesStay
  BY Reads DEF ReadTenant, Doing, This, Silent
<1>2. PICK ok : Check(j, ok)
  BY DEF ReadTenant
<1> QED BY <1>1, <1>2, CheckMoves DEF Outcome

LEMMA WatchTenantStep ==
  ASSUME RegistryInv, NEW j \in Jobs, WatchTenant(j)
  PROVE  Outcome(j)
<1>1. PICK o : o = This(j)
  OBVIOUS
<1>2. job[j].todo # <<>> /\ o.op = "upsertTenant" /\ Writes /\ RolesStay
  BY <1>1, Reads DEF WatchTenant, Doing, This
<1>3. o.tenant \in Tenants /\ o.name \in STRING
  BY <1>1, <1>2, AtOperation DEF OpOK
<1>4. PICK t : t = tenant[o.tenant]
  OBVIOUS
<1>5. t \in TenantRecord \cup {Absent}
  BY <1>3, <1>4 DEF RegistryInv, StoresOK, TypeOK
<1>6. CASE t # Absent /\ t.retired
  <2>1. Fail(j)
    BY <1>1, <1>4, <1>6 DEF WatchTenant
  <2> QED BY <1>2, <2>1, FailMoves DEF Outcome
<1>7. CASE ~(t # Absent /\ t.retired)
  <2>1. PICK to : to = [created |-> IF t = Absent THEN j ELSE t.created, name |-> o.name,
                        status |-> IF t = Absent THEN "ACTIVE" ELSE t.status, retired |-> FALSE]
    OBVIOUS
  <2>2. Hold(j, "commit", tenant, to)
    BY <1>1, <1>4, <1>7, <2>1 DEF WatchTenant
  <2>3. to \in TenantRecord /\ (t # Absent => to.created = t.created /\ to.status = t.status /\ ~t.retired)
    BY <1>3, <1>5, <1>7, <2>1 DEF TenantRecord
  <2>4. PICK seen : seen = tenant
    OBVIOUS
  <2>5. \A m : m.pc = "commit" /\ m.seen = seen /\ m.to = to => InHand(o, m)'
    BY <1>2, <1>4, <2>3, <2>4 DEF InHand
  <2> QED BY <1>1, <1>2, <2>2, <2>4, <2>5, HoldMoves DEF Outcome
<1> QED BY <1>6, <1>7

LEMMA WatchRetireStep ==
  ASSUME RegistryInv, NEW j \in Jobs, WatchRetire(j)
  PROVE  Outcome(j)
<1>1. PICK o : o = This(j)
  OBVIOUS
<1>2. job[j].todo # <<>> /\ o.op = "retire" /\ Silent(o) /\ Writes /\ RolesStay
  BY <1>1, Reads DEF WatchRetire, Doing, This, Silent
<1>3. o.tenant \in Tenants
  BY <1>1, <1>2, AtOperation DEF OpOK
<1>4. PICK t : t = tenant[o.tenant]
  OBVIOUS
<1>5. t \in TenantRecord \cup {Absent}
  BY <1>3, <1>4 DEF RegistryInv, StoresOK, TypeOK
<1>6. CASE Fail(j)
  BY <1>2, <1>6, FailMoves DEF Outcome
<1>7. CASE Proceed(j)
  BY <1>1, <1>2, <1>7, SilentProceeds DEF Outcome
<1>8. CASE t # Absent /\ ~t.retired /\ Hold(j, "commit", tenant, [t EXCEPT !.status = "DISABLED", !.retired = TRUE])
  <2>1. PICK to : to = [t EXCEPT !.status = "DISABLED", !.retired = TRUE]
    OBVIOUS
  <2>2. Hold(j, "commit", tenant, to)
    BY <1>8, <2>1
  <2>3. to \in TenantRecord /\ to.created = t.created /\ to.status = "DISABLED"
    BY <1>5, <1>8, <2>1 DEF TenantRecord
  <2>4. PICK seen : seen = tenant
    OBVIOUS
  <2>5. \A m : m.pc = "commit" /\ m.seen = seen /\ m.to = to => InHand(o, m)'
    BY <1>2, <1>4, <1>8, <2>3, <2>4 DEF InHand
  <2> QED BY <1>1, <1>2, <2>2, <2>4, <2>5, HoldMoves DEF Outcome
<1> QED BY <1>1, <1>4, <1>6, <1>7, <1>8 DEF WatchRetire

LEMMA CommitTenantStep ==
  ASSUME RegistryInv, NEW j \in Jobs, CommitTenant(j)
  PROVE  Outcome(j)
<1>1. PICK o : o = This(j)
  OBVIOUS
<1>2. PICK m : m = job[j]
  OBVIOUS
<1>3. m.todo # <<>> /\ o.op \in {"upsertTenant", "retire"} /\ m.pc = "commit" /\ Silent(o)
  BY <1>1, <1>2 DEF CommitTenant, Doing, This, Silent
<1>4. OpOK(o) /\ InHand(o, m)
  BY <1>1, <1>2, <1>3, AtOperation
<1>5. o.tenant \in Tenants
  BY <1>3, <1>4 DEF OpOK
<1>6. StoresOK
  BY DEF RegistryInv
<1>7. CASE tenant = m.seen
  <2>1. /\ tenant' = [tenant EXCEPT ![o.tenant] = m.to] /\ Proceed(j)
        /\ UNCHANGED <<role, clients, people>>
    BY <1>1, <1>2, <1>7 DEF CommitTenant
  <2>2. /\ m.to \in TenantRecord
        /\ tenant[o.tenant] # Absent =>
             /\ ~tenant[o.tenant].retired /\ m.to.created = tenant[o.tenant].created
             /\ tenant[o.tenant].status = "DISABLED" => m.to.status = "DISABLED"
    BY <1>3, <1>4, <1>7 DEF InHand
  <2>3. tenant' \in [Tenants -> TenantRecord \cup {Absent}]
    BY <1>6, <2>1, <2>2 DEF StoresOK, TypeOK
  <2>4. TenantsKeep
    <3> SUFFICES ASSUME NEW t \in Tenants, tenant[t] # Absent
                 PROVE  /\ tenant'[t] # Absent /\ tenant'[t].created = tenant[t].created
                        /\ tenant[t].status = "DISABLED" => tenant'[t].status = "DISABLED"
                        /\ tenant[t].retired => tenant'[t] = tenant[t]
      BY DEF TenantsKeep
    <3>1. CASE t = o.tenant
      <4>1. tenant'[t] = m.to /\ m.to # Absent
        BY <1>6, <2>1, <2>2, <3>1, RegistryNames DEF StoresOK, TypeOK
      <4> QED BY <2>2, <3>1, <4>1
    <3>2. CASE t # o.tenant
      BY <1>6, <2>1, <3>2 DEF StoresOK, TypeOK
    <3> QED BY <3>1, <3>2
  <2>5. Writes
    BY <1>6, <2>1, <2>3, <2>4, TenantsWritten
  <2> QED BY <1>1, <1>2, <1>3, <2>1, <2>5, SilentProceeds DEF Writes, Outcome
<1>8. CASE tenant # m.seen
  <2>1. Again(j) /\ OnlyJobs
    BY <1>2, <1>8 DEF CommitTenant, OnlyJobs
  <2> QED BY <2>1, Reads, AgainMoves DEF Outcome
<1> QED BY <1>7, <1>8

----------------------------------------------------------------------------
(* Roles *)

LEMMA PutRoleStep ==
  ASSUME RegistryInv, NEW j \in Jobs, PutRole(j)
  PROVE  Outcome(j)
<1>1. PICK o : o = This(j)
  OBVIOUS
<1>2. job[j].todo # <<>> /\ o.op = "putRole" /\ Proceed(j) /\ SetRole(j)
  BY <1>1 DEF PutRole, Doing, This
<1>3. o.tenant \in Tenants /\ o.role \in RoleNames /\ o.permissions \in Scopes /\ o.role = "ADMIN"
  BY <1>1, <1>2, AtOperation DEF OpOK
<1>4. Writes /\ role'[<<o.tenant, o.role>>] = o.permissions
  <2>1. /\ StoresOK /\ role' = [role EXCEPT ![<<o.tenant, o.role>>] = o.permissions]
        /\ UNCHANGED <<tenant, clients, people>>
    BY <1>1, <1>2 DEF SetRole, RegistryInv
  <2>2. PICK t \in Tenants, r \in RoleNames, p \in Scopes : t = o.tenant /\ r = o.role /\ p = o.permissions
    BY <1>3
  <2>3. role' = [role EXCEPT ![<<t, r>>] = p] /\ r \in {"ADMIN", "base"}
    BY <1>3, <2>1, <2>2
  <2>4. Writes /\ role'[<<t, r>>] = p
    BY <2>1, <2>3, RoleWritten
  <2> QED BY <2>2, <2>4
<1>5. \A t \in Tenants, r \in RoleNames, p \in Wanted :
        Provides(o, t, r, p) /\ (p = Absent \/ <<r, p>> \in Dedicated) => Given(t, r, p)'
  BY <1>2, <1>3, <1>4, RegistryNames DEF Provides, Given
<1>6. Moves(j)
  BY <1>1, <1>2, <1>4, <1>5, ProceedMoves DEF Writes
<1> QED BY <1>4, <1>6 DEF Outcome

LEMMA CreateRoleStep ==
  ASSUME RegistryInv, NEW j \in Jobs, CreateRole(j)
  PROVE  Outcome(j)
<1>1. PICK o : o = This(j)
  OBVIOUS
<1>2. job[j].todo # <<>> /\ o.op = "ensureRole"
  BY <1>1 DEF CreateRole, Doing, This
<1>3. o.tenant \in Tenants /\ o.role \in RoleNames /\ o.permissions \in Scopes
  BY <1>1, <1>2, AtOperation DEF OpOK
<1>4. CASE Fail(j) /\ OnlyJobs
  BY <1>4, Reads, FailMoves DEF Outcome
<1>5. CASE role[<<o.tenant, o.role>>] = Absent /\ SetRole(j) /\ Proceed(j)
  <2>0. /\ StoresOK /\ role' = [role EXCEPT ![<<o.tenant, o.role>>] = o.permissions]
        /\ UNCHANGED <<tenant, clients, people>>
    BY <1>1, <1>5 DEF SetRole, RegistryInv
  <2>1. Writes /\ role'[<<o.tenant, o.role>>] = o.permissions
    <3>1. PICK t \in Tenants, r \in RoleNames, p \in Scopes : t = o.tenant /\ r = o.role /\ p = o.permissions
      BY <1>3
    <3>2. role' = [role EXCEPT ![<<t, r>>] = p] /\ role[<<t, r>>] = Absent
      BY <1>5, <2>0, <3>1
    <3>3. Writes /\ role'[<<t, r>>] = p
      BY <2>0, <3>2, RoleWritten
    <3> QED BY <3>1, <3>3
  <2>2. \A t \in Tenants, r \in RoleNames, p \in Wanted :
          Provides(o, t, r, p) /\ (p = Absent \/ <<r, p>> \in Dedicated) => Given(t, r, p)'
    BY <1>2, <1>3, <2>1, RegistryNames DEF Provides, Given
  <2>3. Moves(j)
    BY <1>1, <1>2, <1>5, <2>1, <2>2, ProceedMoves DEF Writes
  <2> QED BY <2>1, <2>3 DEF Outcome
<1>6. CASE Hold(j, "read", Absent, Absent) /\ OnlyJobs
  BY <1>2, <1>6, Reads, PlainHold DEF Outcome
<1> QED BY <1>1, <1>4, <1>5, <1>6 DEF CreateRole

LEMMA ReadRoleStep ==
  ASSUME RegistryInv, NEW j \in Jobs, ReadRole(j)
  PROVE  Outcome(j)
<1>1. PICK o : o = This(j)
  OBVIOUS
<1>2. job[j].todo # <<>> /\ o.op = "ensureRole" /\ OnlyJobs
  BY <1>1 DEF ReadRole, Doing, This
<1>3. /\ o.tenant \in Tenants /\ o.role \in RoleNames /\ o.permissions \in Scopes
      /\ o = [op |-> "ensureRole", tenant |-> o.tenant, role |-> o.role,
              permissions |-> o.permissions, previous |-> o.previous]
      /\ o.previous # Absent => o.role = "base"
  BY <1>1, <1>2, AtOperation DEF OpOK
<1>4. Writes /\ RolesStay /\ role' = role
  BY <1>2, Reads
<1>5. PICK stored : stored = role[<<o.tenant, o.role>>]
  OBVIOUS
<1>6. CASE Fail(j)
  BY <1>4, <1>6, FailMoves DEF Outcome
<1>7. ASSUME Exact(stored), stored \in {o.permissions, o.previous}
      PROVE  \A t \in Tenants, r \in RoleNames, p \in Wanted :
               Provides(o, t, r, p) /\ (p = Absent \/ <<r, p>> \in Dedicated) => Given(t, r, p)'
  <2>1. stored # Absent
    BY <1>7 DEF Exact
  <2> QED BY <1>2, <1>4, <1>5, <1>7, <2>1 DEF Provides, Given
<1>8. CASE Exact(stored) /\ stored = o.permissions /\ Proceed(j)
  <2>1. Moves(j)
    BY <1>1, <1>2, <1>4, <1>7, <1>8, ProceedMoves
  <2> QED BY <1>4, <2>1 DEF Outcome
<1>9. CASE /\ Exact(stored) /\ stored = o.previous
           /\ job' = [job EXCEPT ![j] = Fresh(Tail(@.todo) \o <<[o EXCEPT !.op = "migrateRole"]>>)]
  <2>1. PICK e : e = [o EXCEPT !.op = "migrateRole"]
    OBVIOUS
  <2>2. e = [op |-> "migrateRole", tenant |-> o.tenant, role |-> o.role,
             permissions |-> o.permissions, previous |-> o.previous]
    BY <1>3, <2>1
  <2>3. /\ e.op = "migrateRole" /\ e.tenant = o.tenant /\ e.role = o.role
        /\ e.permissions = o.permissions
    BY <2>2
  <2>4. o.role = "base"
    BY <1>3, <1>9 DEF Exact
  <2>5. OpOK(e)
    BY <1>3, <2>3, <2>4 DEF OpOK
  <2>6. \A t, r, p : ~Needs(e, t, r, p)
    BY <2>3 DEF Needs
  <2>7. Moves(j)
    BY <1>1, <1>2, <1>4, <1>7, <1>9, <2>1, <2>5, <2>6, ExtendMoves
  <2> QED BY <1>4, <2>7 DEF Outcome
<1> QED BY <1>1, <1>5, <1>6, <1>8, <1>9 DEF ReadRole, Check

LEMMA WatchRoleStep ==
  ASSUME RegistryInv, NEW j \in Jobs, WatchRole(j)
  PROVE  Outcome(j)
<1>1. PICK o : o = This(j)
  OBVIOUS
<1>2. job[j].todo # <<>> /\ o.op = "migrateRole" /\ Silent(o) /\ Writes /\ RolesStay
  BY <1>1, Reads DEF WatchRole, Doing, This, Silent
<1>3. PICK stored : stored = role[<<o.tenant, o.role>>]
  OBVIOUS
<1>4. CASE Hold(j, "commit", stored, Absent)
  <2>1. \A m : m.pc = "commit" /\ m.seen = stored /\ m.to = Absent => InHand(o, m)'
    BY <1>2 DEF InHand
  <2> QED BY <1>1, <1>2, <1>4, <2>1, HoldMoves DEF Outcome
<1>5. CASE Check(j, stored = o.permissions)
  BY <1>1, <1>2, <1>5, CheckMoves DEF Outcome
<1> QED BY <1>1, <1>3, <1>4, <1>5 DEF WatchRole

LEMMA CommitRoleStep ==
  ASSUME RegistryInv, NEW j \in Jobs, CommitRole(j)
  PROVE  Outcome(j)
<1>1. PICK o : o = This(j)
  OBVIOUS
<1>2. job[j].todo # <<>> /\ o.op = "migrateRole" /\ Silent(o)
  BY <1>1 DEF CommitRole, Doing, This, Silent
<1>3. o.tenant \in Tenants /\ o.role \in RoleNames /\ o.permissions \in Scopes /\ o.role = "base"
  BY <1>1, <1>2, AtOperation DEF OpOK
<1>4. CASE SetRole(j) /\ Proceed(j)
  <2>1. Writes
    BY <1>1, <1>3, <1>4, RoleWritten DEF SetRole, RegistryInv
  <2> QED BY <1>1, <1>2, <1>4, <2>1, SilentProceeds DEF Writes, Outcome
<1>5. CASE Check(j, role[<<o.tenant, o.role>>] = o.permissions) /\ OnlyJobs
  BY <1>1, <1>2, <1>5, Reads, CheckMoves DEF Outcome
<1> QED BY <1>1, <1>4, <1>5 DEF CommitRole

LEMMA CheckRolesStep ==
  ASSUME RegistryInv, NEW j \in Jobs, CheckRoles(j)
  PROVE  Outcome(j)
<1>1. PICK o : o = This(j)
  OBVIOUS
<1>2. job[j].todo # <<>> /\ o.op = "roles" /\ Writes /\ RolesStay /\ role' = role
  BY <1>1, Reads DEF CheckRoles, Doing, This
<1>3. CASE \A r \in o.roles : Exact(role[<<o.tenant, r>>])
  <2>1. Proceed(j)
    BY <1>1, <1>3 DEF CheckRoles, Check
  <2>2. \A t \in Tenants, r \in RoleNames, p \in Wanted :
          Provides(o, t, r, p) /\ (p = Absent \/ <<r, p>> \in Dedicated) => Given(t, r, p)'
    BY <1>2, <1>3 DEF Provides, Given, Exact
  <2> QED BY <1>1, <1>2, <2>1, <2>2, ProceedMoves DEF Outcome
<1>4. CASE ~(\A r \in o.roles : Exact(role[<<o.tenant, r>>]))
  <2>1. Fail(j)
    BY <1>1, <1>4 DEF CheckRoles, Check
  <2> QED BY <1>2, <2>1, FailMoves DEF Outcome
<1> QED BY <1>3, <1>4

----------------------------------------------------------------------------
(* Clients *)

LEMMA UnownedFields ==
  ASSUME NEW r, NEW type, NEW scopes, r = Unowned(type, scopes)
  PROVE  /\ r = [owner |-> "none", type |-> type, secret |-> FALSE, status |-> "ACTIVE",
                 scopes |-> scopes]
         /\ r.owner = "none" /\ r.type = type /\ ~r.secret /\ r.scopes = scopes
BY DEF Unowned, Owned

LEMMA KeyIsClient ==
  ASSUME RegistryInv, NEW j \in Jobs, job[j].todo # <<>>, This(j).op # "audiences"
  PROVE  Key(j) \in Tenants \X ClientIds
<1>1. OpOK(This(j))
  BY AtOperation
<1> QED BY <1>1 DEF Key, OpOK, ClientIds

(* What is stored under a key. *)
LEMMA Stored ==
  ASSUME RegistryInv, NEW k \in Tenants \X ClientIds
  PROVE  /\ client[k] \in ClientRecord \cup {Absent} /\ marker[k] \in ClientRecord \cup {Absent}
         /\ marker[k] # Absent => client[k] = marker[k] /\ marker[k].owner # "none" /\ ~marker[k].secret
         /\ client[k] # Absent /\ client[k].owner # "none" => marker[k] = client[k]
BY DEF RegistryInv, StoresOK, TypeOK, MarkersOwned, OwnedRecordsPaired, Corrupt

(* A job that has read a record and knows its successor. *)
LEMMA SwapHeld ==
  ASSUME RegistryInv, NEW j \in Jobs, NEW seen \in ClientRecord, NEW to \in ClientRecord,
         Hold(j, "swap", seen, to), RolesStay, job[j].todo # <<>>,
         ~seen.secret, ~to.secret, seen.owner # "none" => to.owner = seen.owner,
         This(j).op = "raise" => to.scopes = seen.scopes \cup This(j).scopes,
         This(j).op = "deactivate" => to.status = "INACTIVE"
  PROVE  Moves(j)
<1>1. PICK o : o = This(j)
  OBVIOUS
<1>2. \A m : m.pc = "swap" /\ m.seen = seen /\ m.to = to => InHand(o, m)'
  BY <1>1 DEF InHand
<1> QED BY <1>1, <1>2, HoldMoves

LEMMA DedicatedGiven ==
  ASSUME RegistryInv, NEW j \in Jobs, job[j].todo # <<>>, This(j).op = "ensure", This(j).client = AI
  PROVE  /\ role[<<This(j).tenant, "ai-admin">>] = AdminPermissions
         /\ role[<<This(j).tenant, "ai-user">>] = UserPermissions
<1>1. PICK o : o = This(j)
  OBVIOUS
<1>2. /\ OpOK(o)
      /\ \A t \in Tenants, r \in RoleNames, p \in Wanted : Needs(o, t, r, p) => Given(t, r, p)
  BY <1>1, AtOperation
<1>3. o.tenant \in Tenants /\ AdminPermissions # Absent /\ UserPermissions # Absent
  BY <1>1, <1>2, RegistryNames, DedicatedScopes DEF OpOK
<1>4. Given(o.tenant, "ai-admin", AdminPermissions) /\ Given(o.tenant, "ai-user", UserPermissions)
  BY <1>1, <1>2, <1>3 DEF Needs, Dedicated, Wanted, RoleNames
<1> QED BY <1>1, <1>3, <1>4 DEF Given

LEMMA EnsureManagedStep ==
  ASSUME RegistryInv, NEW j \in Jobs, EnsureManagedAudience(j)
  PROVE  Outcome(j)
<1>1. PICK k : k = Key(j)
  OBVIOUS
<1>2. PICK d : d = This(j).record
  OBVIOUS
<1>3. job[j].todo # <<>> /\ This(j).op = "ensure" /\ Silent(This(j))
  BY DEF EnsureManagedAudience, Doing, This, Silent
<1>4. k \in Tenants \X ClientIds /\ k = <<This(j).tenant, This(j).client>>
  BY <1>1, <1>3, KeyIsClient DEF Key
<1>5. d \in ClientRecord /\ d.owner # "none" /\ ~d.secret
  BY <1>2, <1>3, AtOperation DEF OpOK
<1>6. /\ client[k] \in ClientRecord \cup {Absent} /\ marker[k] \in ClientRecord \cup {Absent}
      /\ marker[k] # Absent => client[k] = marker[k] /\ marker[k].owner # "none" /\ ~marker[k].secret
  BY <1>4, Stored
<1>7. CASE Fail(j) /\ OnlyJobs
  BY <1>7, Reads, FailMoves DEF Outcome
<1>8. CASE Proceed(j) /\ OnlyJobs
  BY <1>3, <1>8, Reads, SilentProceeds DEF Outcome
<1>9. CASE client[k] = Absent /\ marker[k] = Absent /\ Store(k, d, d.scopes) /\ OnlyClients /\ Proceed(j)
  <2>1. k[2] = AI => This(j).client = AI /\ k[1] = This(j).tenant
    BY <1>4
  <2>2. k[2] = AI /\ d.status = "ACTIVE" =>
          role[<<k[1], "ai-admin">>] = AdminPermissions /\ role[<<k[1], "ai-user">>] = UserPermissions
    BY <1>3, <2>1, DedicatedGiven
  <2>3. d.scopes \in Scopes
    BY <1>5 DEF ClientRecord
  <2>4. Writes
    BY <1>4, <1>5, <1>9, <2>2, <2>3, ClientWritten DEF OnlyClients, RegistryInv
  <2> QED BY <1>3, <1>9, <2>4, SilentProceeds DEF Writes, Outcome
<1>10. CASE client[k] # Absent /\ marker[k] = Absent /\ Adoptable(client[k], d)
            /\ Hold(j, "swap", client[k], d) /\ OnlyJobs
  <2>1. client[k] \in ClientRecord /\ client[k] = Unowned("SERVICE", client[k].scopes)
    BY <1>6, <1>10 DEF Adoptable
  <2>2. ~client[k].secret /\ client[k].owner = "none"
    BY <2>1, UnownedFields
  <2> QED BY <1>3, <1>5, <1>10, <2>1, <2>2, Reads, SwapHeld DEF Outcome
<1>11. CASE marker[k] # Absent /\ marker[k] = client[k] /\ marker[k].owner = d.owner
            /\ Hold(j, "swap", client[k], d) /\ OnlyJobs
  <2>1. client[k] \in ClientRecord /\ ~client[k].secret /\ client[k].owner = d.owner
    BY <1>6, <1>11
  <2> QED BY <1>3, <1>5, <1>11, <2>1, Reads, SwapHeld DEF Outcome
<1> QED BY <1>1, <1>2, <1>7, <1>8, <1>9, <1>10, <1>11 DEF EnsureManagedAudience

LEMMA DeactivateStep ==
  ASSUME RegistryInv, NEW j \in Jobs, DeactivateAudience(j)
  PROVE  Outcome(j)
<1>1. PICK k : k = Key(j)
  OBVIOUS
<1>2. job[j].todo # <<>> /\ This(j).op = "deactivate" /\ Silent(This(j)) /\ Writes /\ RolesStay
  BY Reads DEF DeactivateAudience, Doing, This, Silent
<1>3. k \in Tenants \X ClientIds
  BY <1>1, <1>2, KeyIsClient
<1>4. CASE Fail(j)
  BY <1>2, <1>4, FailMoves DEF Outcome
<1>5. CASE Proceed(j)
  BY <1>2, <1>5, SilentProceeds DEF Outcome
<1>6. CASE marker[k] # Absent /\ Hold(j, "swap", client[k], [client[k] EXCEPT !.status = "INACTIVE"])
  <2>1. PICK c : c = client[k]
    OBVIOUS
  <2>2. PICK to : to = [c EXCEPT !.status = "INACTIVE"]
    OBVIOUS
  <2>3. c \in ClientRecord /\ ~c.secret
    BY <1>3, <1>6, <2>1, Stored
  <2>4. to \in ClientRecord /\ ~to.secret /\ to.owner = c.owner /\ to.status = "INACTIVE"
    BY <2>2, <2>3 DEF ClientRecord
  <2>5. Hold(j, "swap", c, to)
    BY <1>6, <2>1, <2>2
  <2> QED BY <1>2, <2>3, <2>4, <2>5, SwapHeld DEF Outcome
<1> QED BY <1>1, <1>4, <1>5, <1>6 DEF DeactivateAudience

(* The record of a raise or of a reconciliation: managed, or the legacy home. *)
LEMMA ScopesHeld ==
  ASSUME RegistryInv, NEW j \in Jobs, NEW k \in Tenants \X ClientIds, RolesStay, job[j].todo # <<>>,
         ManagedConsole(client[k]) \/ BootstrapHome(client[k]),
         NEW scopes \in Scopes, Hold(j, "swap", client[k], [client[k] EXCEPT !.scopes = scopes]),
         This(j).op = "raise" => scopes = client[k].scopes \cup This(j).scopes,
         This(j).op # "deactivate"
  PROVE  Moves(j)
<1>1. PICK c : c = client[k]
  OBVIOUS
<1>2. PICK to : to = [c EXCEPT !.scopes = scopes]
  OBVIOUS
<1>3. c \in ClientRecord
  BY <1>1, Stored DEF ManagedConsole, BootstrapHome
<1>4. ~c.secret
  <2>1. CASE ManagedConsole(c)
    BY <1>1, <2>1, Stored DEF ManagedConsole
  <2>2. CASE BootstrapHome(c)
    BY <2>2, UnownedFields DEF BootstrapHome
  <2> QED BY <1>1, <2>1, <2>2
<1>5. to \in ClientRecord /\ ~to.secret /\ to.owner = c.owner /\ to.scopes = scopes
  BY <1>2, <1>3, <1>4 DEF ClientRecord
<1>6. Hold(j, "swap", c, to)
  BY <1>1, <1>2
<1>7. This(j).op = "raise" => to.scopes = c.scopes \cup This(j).scopes
  BY <1>1, <1>5
<1> QED BY <1>3, <1>4, <1>5, <1>6, <1>7, SwapHeld

LEMMA RaiseStep ==
  ASSUME RegistryInv, NEW j \in Jobs, RaiseCeiling(j) \/ RaiseLegacyHome(j)
  PROVE  Outcome(j)
<1>1. PICK k : k = Key(j)
  OBVIOUS
<1>2. /\ job[j].todo # <<>> /\ This(j).op = "raise" /\ Silent(This(j))
      /\ Writes /\ RolesStay
  BY Reads DEF RaiseCeiling, RaiseLegacyHome, Doing, This, Silent
<1>3. k \in Tenants \X ClientIds /\ This(j).scopes \in Scopes
  BY <1>1, <1>2, KeyIsClient, AtOperation DEF OpOK
<1>4. CASE Fail(j)
  BY <1>2, <1>4, FailMoves DEF Outcome
<1>5. CASE Proceed(j)
  BY <1>2, <1>5, SilentProceeds DEF Outcome
<1>6. CASE /\ ManagedConsole(client[k]) \/ BootstrapHome(client[k])
           /\ Hold(j, "swap", client[k], [client[k] EXCEPT !.scopes = @ \cup This(j).scopes])
  <2>1. PICK scopes : scopes = client[k].scopes \cup This(j).scopes
    OBVIOUS
  <2>2. client[k] \in ClientRecord
    BY <1>3, <1>6, Stored DEF ManagedConsole, BootstrapHome
  <2>3. scopes \in Scopes
    BY <1>3, <2>1, <2>2 DEF ClientRecord, Scopes
  <2>4. [client[k] EXCEPT !.scopes = @ \cup This(j).scopes] = [client[k] EXCEPT !.scopes = scopes]
    BY <2>1, <2>2 DEF ClientRecord
  <2>5. Hold(j, "swap", client[k], [client[k] EXCEPT !.scopes = scopes])
    BY <1>6, <2>4
  <2> QED BY <1>2, <1>3, <1>6, <2>1, <2>3, <2>5, ScopesHeld DEF Outcome
<1> QED BY <1>1, <1>4, <1>5, <1>6 DEF RaiseCeiling, RaiseLegacyHome

LEMMA ReadAudienceStep ==
  ASSUME RegistryInv, NEW j \in Jobs, ReadAudience(j)
  PROVE  Outcome(j)
<1>1. PICK k : k = Key(j)
  OBVIOUS
<1>2. /\ job[j].todo # <<>> /\ This(j).op = "rescope" /\ Silent(This(j))
      /\ Writes /\ RolesStay
  BY Reads DEF ReadAudience, Doing, This, Silent
<1>3. k \in Tenants \X ClientIds /\ This(j).scopes \in Scopes
  BY <1>1, <1>2, KeyIsClient, AtOperation DEF OpOK
<1>4. CASE Fail(j)
  BY <1>2, <1>4, FailMoves DEF Outcome
<1>5. CASE Proceed(j)
  BY <1>2, <1>5, SilentProceeds DEF Outcome
<1>6. CASE /\ ManagedConsole(client[k]) \/ BootstrapHome(client[k])
           /\ Hold(j, "swap", client[k], [client[k] EXCEPT !.scopes = This(j).scopes])
  BY <1>2, <1>3, <1>6, ScopesHeld DEF Outcome
<1> QED BY <1>1, <1>4, <1>5, <1>6 DEF ReadAudience

LEMMA OneSequence ==
  ASSUME NEW a
  PROVE  IsSequence(<<a>>) /\ Len(<<a>>) = 1 /\ <<a>>[1] = a
BY DEF IsSequence

LEMMA TwoSequence ==
  ASSUME NEW a, NEW b
  PROVE  IsSequence(<<a, b>>) /\ Len(<<a, b>>) = 2 /\ <<a, b>>[1] = a /\ <<a, b>>[2] = b
BY DEF IsSequence

(* An audience of the Console that a program ensures next. *)
LEMMA ConsoleEnsured ==
  ASSUME RegistryInv, NEW j \in Jobs, job[j].todo # <<>>, RolesStay, Silent(This(j)),
         NEW t \in Tenants, NEW scopes \in Scopes,
         job' = [job EXCEPT ![j] = Fresh(<<Ensure(t, Console, Owned("console", scopes))>> \o Tail(@.todo))]
  PROVE  Moves(j)
<1>1. PICK e : e = Ensure(t, Console, Owned("console", scopes))
  OBVIOUS
<1>2. e = [op |-> "ensure", tenant |-> t, client |-> Console, record |-> Owned("console", scopes)]
  BY <1>1 DEF Ensure
<1>3. PICK r : r = Owned("console", scopes)
  OBVIOUS
<1>4. r \in ClientRecord /\ r.owner # "none" /\ ~r.secret
  BY <1>3 DEF Owned, ClientRecord
<1>5. e.op = "ensure" /\ e.tenant = t /\ e.client = Console /\ e.record = r
  BY <1>2, <1>3
<1>6. OpOK(e)
  BY <1>4, <1>5 DEF OpOK, ClientIds
<1>7. \A u, d, p : ~Needs(e, u, d, p)
  BY <1>5 DEF Needs, Console, AI
<1>8. PICK a : a = <<e>>
  OBVIOUS
<1>9. IsSequence(a) /\ \A i \in 1..Len(a) : a[i] = e
  BY <1>8, OneSequence
<1>10. job' = [job EXCEPT ![j] = Fresh(a \o Tail(@.todo))]
  BY <1>1, <1>8
<1>11. \A i \in 1..Len(a) : OpOK(a[i]) /\ \A u, d, p : ~Needs(a[i], u, d, p)
  BY <1>6, <1>7, <1>9
<1> QED BY <1>9, <1>10, <1>11, InsertMoves

LEMMA ReadOwnerStep ==
  ASSUME RegistryInv, NEW j \in Jobs, ReadOwner(j)
  PROVE  Outcome(j)
<1>1. PICK k : k = Key(j)
  OBVIOUS
<1>2. /\ job[j].todo # <<>> /\ This(j).op = "converge" /\ Silent(This(j))
      /\ Writes /\ RolesStay
  BY Reads DEF ReadOwner, Doing, This, Silent
<1>3. k \in Tenants \X ClientIds /\ This(j).scopes \in Scopes /\ k[1] \in Tenants
  BY <1>1, <1>2, KeyIsClient, AtOperation DEF OpOK
<1>4. CASE Fail(j)
  BY <1>2, <1>4, FailMoves DEF Outcome
<1>5. CASE Proceed(j)
  BY <1>2, <1>5, SilentProceeds DEF Outcome
<1>6. CASE job' = [job EXCEPT ![j] =
                     Fresh(<<Ensure(k[1], Console, Owned("console", This(j).scopes))>> \o Tail(@.todo))]
  BY <1>2, <1>3, <1>6, ConsoleEnsured DEF Outcome
<1> QED BY <1>1, <1>4, <1>5, <1>6 DEF ReadOwner

LEMMA SwapStep ==
  ASSUME RegistryInv, NEW j \in Jobs, SwapClient(j)
  PROVE  Outcome(j)
<1>1. PICK k : k = Key(j)
  OBVIOUS
<1>2. PICK m : m = job[j]
  OBVIOUS
<1>3. PICK o : o = This(j)
  OBVIOUS
<1>4. m.todo # <<>> /\ o.op \in {"ensure", "deactivate", "raise", "rescope"} /\ m.pc = "swap" /\ Silent(o)
  BY <1>2, <1>3 DEF SwapClient, Doing, This, Silent
<1>5. k \in Tenants \X ClientIds
  BY <1>1, <1>2, <1>3, <1>4, KeyIsClient
<1>6. OpOK(o) /\ InHand(o, m)
  BY <1>2, <1>3, <1>4, AtOperation
<1>7. /\ m.seen \in ClientRecord /\ m.to \in ClientRecord /\ ~m.seen.secret /\ ~m.to.secret
      /\ m.seen.owner # "none" => m.to.owner = m.seen.owner
      /\ o.op = "raise" => m.to.scopes = m.seen.scopes \cup o.scopes
      /\ o.op = "deactivate" => m.to.status = "INACTIVE"
  BY <1>4, <1>6 DEF InHand
<1>8. m.seen # Absent /\ m.to.scopes \in Scopes
  BY <1>7, RegistryNames DEF ClientRecord
<1>9. CASE client[k] = m.seen /\ marker[k] = (IF m.seen.owner = "none" THEN Absent ELSE m.seen)
  <2>1. Store(k, m.to, Promise(j)) /\ Proceed(j) /\ OnlyClients
    BY <1>1, <1>2, <1>9 DEF SwapClient
  <2>2. k[1] = o.tenant /\ k[2] = IF o.op = "ensure" THEN o.client ELSE IF o.op = "deactivate" THEN AI ELSE Console
    BY <1>1, <1>3 DEF Key
  <2>3. o.tenant \in Tenants /\ (o.op \in {"raise", "rescope"} => o.scopes \in Scopes)
    BY <1>4, <1>6 DEF OpOK
  <2>4. Promise(j) = IF o.op = "raise" THEN promised[o.tenant] \cup o.scopes ELSE m.to.scopes
    BY <1>2, <1>3 DEF Promise
  <2>5. PICK promise : promise = Promise(j)
    OBVIOUS
  <2>6. promise \in Scopes /\ (k[2] = Console => promise \subseteq m.to.scopes)
    <3>1. CASE o.op # "raise"
      BY <1>8, <2>4, <2>5, <3>1
    <3>2. CASE o.op = "raise"
      <4>1. k = <<o.tenant, Console>> /\ client[k] # Absent
        BY <1>5, <1>8, <1>9, <2>2, <3>2
      <4>2. promised[o.tenant] \in Scopes /\ promised[o.tenant] \subseteq m.seen.scopes
        BY <1>9, <2>3, <4>1 DEF RegistryInv, StoresOK, TypeOK, NoReportedScopeLost
      <4>3. promise = promised[o.tenant] \cup o.scopes /\ m.to.scopes = m.seen.scopes \cup o.scopes
        BY <1>7, <2>4, <2>5, <3>2
      <4> QED BY <2>3, <3>2, <4>2, <4>3 DEF Scopes
    <3> QED BY <3>1, <3>2
  <2>7. k[2] = AI /\ m.to.status = "ACTIVE" =>
          role[<<k[1], "ai-admin">>] = AdminPermissions /\ role[<<k[1], "ai-user">>] = UserPermissions
    <3> SUFFICES ASSUME k[2] = AI, m.to.status = "ACTIVE"
                 PROVE  role[<<k[1], "ai-admin">>] = AdminPermissions /\ role[<<k[1], "ai-user">>] = UserPermissions
      OBVIOUS
    <3>1. o.op = "ensure" /\ o.client = AI
      BY <1>4, <1>7, <2>2 DEF AI, Console
    <3> QED BY <1>2, <1>3, <1>4, <2>2, <3>1, DedicatedGiven
  <2>8. marker[k] # Absent => m.to.owner = marker[k].owner /\ m.to.owner # "none"
    BY <1>7, <1>9
  <2>9. Writes
    BY <1>5, <1>7, <1>9, <2>1, <2>5, <2>6, <2>7, <2>8, ClientWritten DEF OnlyClients, RegistryInv
  <2> QED BY <1>2, <1>3, <1>4, <2>1, <2>9, SilentProceeds DEF Writes, Outcome
<1>10. CASE (Fail(j) \/ Again(j)) /\ OnlyJobs
  BY <1>10, Reads, FailMoves, AgainMoves DEF Outcome
<1> QED BY <1>1, <1>2, <1>9, <1>10 DEF SwapClient

LEMMA UpsertStep ==
  ASSUME RegistryInv, NEW j \in Jobs, UpsertBootstrap(j) \/ CreateClient(j)
  PROVE  Outcome(j)
<1>1. PICK k : k = Key(j)
  OBVIOUS
<1>2. PICK o : o = This(j)
  OBVIOUS
<1>3. job[j].todo # <<>> /\ o.op \in {"upsertClient", "createClient"} /\ Silent(o)
  BY <1>2 DEF UpsertBootstrap, CreateClient, Doing, This, Silent
<1>4. k \in Tenants \X ClientIds /\ k[2] = Console
  BY <1>1, <1>2, <1>3, KeyIsClient DEF Key
<1>5. /\ o.record \in ClientRecord /\ o.record.owner = "none"
      /\ o.op = "upsertClient" => BootstrapHome(o.record)
  BY <1>2, <1>3, AtOperation DEF OpOK
<1>6. CASE Fail(j) /\ OnlyJobs
  BY <1>6, Reads, FailMoves DEF Outcome
<1>7. CASE /\ marker[k] = Absent /\ (o.op = "createClient" => client[k] = Absent)
           /\ Store(k, o.record, o.record.scopes) /\ OnlyClients /\ Proceed(j)
  <2>1. o.record.scopes \in Scopes
    BY <1>5 DEF ClientRecord
  <2>2. client[k] # Absent /\ client[k].secret => BootstrapHome(o.record)
    BY <1>3, <1>5, <1>7
  <2>3. k[2] # AI
    BY <1>4 DEF AI, Console
  <2>4. Writes
    BY <1>4, <1>5, <1>7, <2>1, <2>2, <2>3, ClientWritten DEF OnlyClients, RegistryInv
  <2> QED BY <1>2, <1>3, <1>7, <2>4, SilentProceeds DEF Writes, Outcome
<1>8. UpsertBootstrap(j) => o.op = "upsertClient"
  BY <1>2 DEF UpsertBootstrap, Doing, This
<1> QED BY <1>1, <1>2, <1>6, <1>7, <1>8 DEF UpsertBootstrap, CreateClient

LEMMA ReadHomeStep ==
  ASSUME RegistryInv, NEW j \in Jobs, ReadHome(j)
  PROVE  Outcome(j)
<1>1. PICK k : k = Key(j)
  OBVIOUS
<1>2. /\ job[j].todo # <<>> /\ This(j).op = "home" /\ Silent(This(j))
      /\ Writes /\ RolesStay
  BY Reads DEF ReadHome, Doing, This, Silent
<1>3. k \in Tenants \X ClientIds /\ This(j).scopes \in Scopes /\ k[1] \in Tenants
  BY <1>1, <1>2, KeyIsClient, AtOperation DEF OpOK
<1>4. CASE Fail(j)
  BY <1>2, <1>4, FailMoves DEF Outcome
<1>5. CASE job' = [job EXCEPT ![j] =
                     Fresh(<<Ensure(k[1], Console, Owned("console", This(j).scopes))>> \o Tail(@.todo))]
  BY <1>2, <1>3, <1>5, ConsoleEnsured DEF Outcome
<1>6. PICK rec : rec = Unowned("PUBLIC", This(j).scopes)
  OBVIOUS
<1>7. PICK a : a = <<[op |-> "upsertClient", tenant |-> k[1], record |-> rec],
                     [op |-> "verify", tenant |-> k[1], record |-> rec]>>
  OBVIOUS
<1>8. CASE job' = [job EXCEPT ![j] = Fresh(a \o Tail(@.todo))]
  <2>1. rec \in ClientRecord /\ rec.owner = "none" /\ BootstrapHome(rec)
    <3>0. PICK sc : sc = This(j).scopes
      OBVIOUS
    <3>1. /\ rec = [owner |-> "none", type |-> "PUBLIC", secret |-> FALSE, status |-> "ACTIVE",
                    scopes |-> sc]
          /\ rec.owner = "none" /\ rec.scopes = sc
      <4>1. rec = Unowned("PUBLIC", sc)
        BY <1>6, <3>0
      <4> QED BY <4>1, UnownedFields
    <3>2. rec \in ClientRecord
      BY <1>3, <3>0, <3>1 DEF ClientRecord
    <3>3. rec # Absent
      BY <3>2, RegistryNames
    <3> QED BY <1>6, <3>0, <3>1, <3>2, <3>3 DEF BootstrapHome
  <2>2. /\ IsSequence(a) /\ Len(a) = 2
        /\ a[1] = [op |-> "upsertClient", tenant |-> k[1], record |-> rec]
        /\ a[2] = [op |-> "verify", tenant |-> k[1], record |-> rec]
    BY <1>7, TwoSequence
  <2>3. a[1].op = "upsertClient" /\ a[1].tenant = k[1] /\ a[1].record = rec
    BY <2>2
  <2>4. a[2].op = "verify" /\ a[2].tenant = k[1]
    BY <2>2
  <2>5. OpOK(a[1]) /\ \A t, r, p : ~Needs(a[1], t, r, p)
    BY <1>3, <2>1, <2>3 DEF OpOK, Needs
  <2>6. OpOK(a[2]) /\ \A t, r, p : ~Needs(a[2], t, r, p)
    BY <1>3, <2>4 DEF OpOK, Needs
  <2>7. \A i \in 1..Len(a) : i = 1 \/ i = 2
    BY <2>2
  <2>8. \A i \in 1..Len(a) : OpOK(a[i]) /\ \A t, r, p : ~Needs(a[i], t, r, p)
    BY <2>5, <2>6, <2>7
  <2>9. Moves(j)
    BY <1>2, <1>8, <2>2, <2>8, InsertMoves
  <2> QED BY <1>2, <2>9 DEF Outcome
<1> QED BY <1>1, <1>4, <1>5, <1>6, <1>7, <1>8 DEF ReadHome

LEMMA VerifyHomeStep ==
  ASSUME RegistryInv, NEW j \in Jobs, VerifyHome(j)
  PROVE  Outcome(j)
<1>1. job[j].todo # <<>> /\ Silent(This(j)) /\ Writes /\ RolesStay
  BY Reads DEF VerifyHome, Doing, This, Silent
<1>2. PICK ok : Check(j, ok)
  BY DEF VerifyHome
<1> QED BY <1>1, <1>2, CheckMoves DEF Outcome


----------------------------------------------------------------------------
(* The list of tenants *)

LEMMA SetToSeqOf ==
  ASSUME NEW S, IsFiniteSet(S)
  PROVE  IsSequence(SetToSeq(S)) /\ \A i \in 1..Len(SetToSeq(S)) : SetToSeq(S)[i] \in S
<1>1. PICK n : n = Cardinality(S)
  OBVIOUS
<1>2. n \in Nat /\ ExistsBijection(1..n, S)
  BY <1>1, FS_CardinalityType
<1>3. PICK f \in [1..n -> S] : IsInjective(f)
  BY <1>2 DEF ExistsBijection, Bijection, Injection
<1>4. SetToSeq(S) \in [1..n -> S]
  BY <1>1, <1>3 DEF SetToSeq
<1>5. PICK q : q = SetToSeq(S)
  OBVIOUS
<1>6. q \in Seq(S) /\ Len(q) = n
  BY <1>2, <1>4, <1>5
<1>7. IsSequence(q) /\ \A i \in 1..Len(q) : q[i] \in S
  BY <1>2, <1>4, <1>5, <1>6 DEF IsSequence
<1> QED BY <1>5, <1>7

LEMMA ListTenantsStep ==
  ASSUME RegistryInv, NEW j \in Jobs, ListTenants(j)
  PROVE  Outcome(j)
<1>1. PICK o : o = This(j)
  OBVIOUS
<1>2. job[j].todo # <<>> /\ o.op = "audiences" /\ Silent(o) /\ Writes /\ RolesStay
  BY <1>1, Reads DEF ListTenants, Doing, This, Silent
<1>3. o.scopes \in Scopes
  BY <1>1, <1>2, AtOperation DEF OpOK
<1> DEFINE due(t) == Running(t) /\ (t = Master => o.only)
           listed == (IF due(Master) THEN <<Master>> ELSE <<>>) \o SetToSeq({t \in Workloads : due(t)})
           step(t) == [op |-> IF o.only THEN "rescope" ELSE "converge", tenant |-> t,
                       scopes |-> o.scopes]
<1>4. CASE Fail(j)
  BY <1>2, <1>4, FailMoves DEF Outcome
<1>5. CASE job' = [job EXCEPT ![j] = Fresh([i \in DOMAIN listed |-> step(listed[i])] \o Tail(@.todo))]
  <2>1. PICK a : a = IF due(Master) THEN <<Master>> ELSE <<>>
    OBVIOUS
  <2>2. IsSequence(a) /\ \A i \in 1..Len(a) : a[i] \in Tenants
    <3>1. CASE a = <<Master>>
      BY <3>1, OneSequence DEF Tenants
    <3>2. CASE a = <<>>
      BY <3>2 DEF IsSequence
    <3> QED BY <2>1, <3>1, <3>2
  <2>3. PICK W : W = {t \in Workloads : due(t)}
    OBVIOUS
  <2>4. IsFiniteSet(W) /\ W \subseteq Tenants
    BY <2>3, RegistryNames, FS_Subset DEF Tenants
  <2>5. PICK b : b = SetToSeq(W)
    OBVIOUS
  <2>6. IsSequence(b) /\ \A i \in 1..Len(b) : b[i] \in Tenants
    BY <2>4, <2>5, SetToSeqOf
  <2>7. PICK l : l = a \o b
    OBVIOUS
  <2>8. listed = l
    BY <2>1, <2>3, <2>5, <2>7
  <2>9. /\ IsSequence(l) /\ Len(l) = Len(a) + Len(b)
        /\ \A i \in 1..Len(a) : l[i] = a[i]
        /\ \A i \in 1..Len(b) : l[Len(a) + i] = b[i]
    BY <2>2, <2>6, <2>7, Concatenation
  <2>10. Len(a) \in Nat /\ Len(b) \in Nat
    BY <2>2, <2>6 DEF IsSequence
  <2>11. ASSUME NEW i \in 1..Len(l) PROVE l[i] \in Tenants
    <3>1. CASE i \in 1..Len(a)
      BY <2>2, <2>9, <3>1
    <3>2. CASE i \notin 1..Len(a)
      <4>1. PICK n : n = i - Len(a)
        OBVIOUS
      <4>2. n \in 1..Len(b) /\ i = Len(a) + n
        BY <2>9, <2>10, <3>2, <4>1
      <4> QED BY <2>6, <2>9, <4>2
    <3> QED BY <3>1, <3>2
  <2>12. DOMAIN l = 1..Len(l) /\ Len(l) \in Nat
    BY <2>9 DEF IsSequence
  <2>13. PICK q : q = [i \in DOMAIN l |-> step(l[i])]
    OBVIOUS
  <2>14. PICK op : op = IF o.only THEN "rescope" ELSE "converge"
    OBVIOUS
  <2>15. q = [i \in 1..Len(l) |-> [op |-> op, tenant |-> l[i], scopes |-> o.scopes]]
    BY <2>12, <2>13, <2>14
  <2>16. IsSequence(q) /\ Len(q) = Len(l)
    BY <2>12, <2>15 DEF IsSequence
  <2>17. ASSUME NEW i \in 1..Len(q) PROVE OpOK(q[i]) /\ \A t, r, p : ~Needs(q[i], t, r, p)
    <3>1. PICK e : e = q[i]
      OBVIOUS
    <3>2. PICK t : t = l[i]
      OBVIOUS
    <3>3. t \in Tenants
      BY <2>11, <2>16, <2>17, <3>2
    <3>4. e = [op |-> op, tenant |-> t, scopes |-> o.scopes]
      BY <2>15, <2>16, <2>17, <3>1, <3>2
    <3>5. e.op \in {"rescope", "converge"} /\ e.tenant = t /\ e.scopes = o.scopes
      BY <2>14, <3>4
    <3>6. OpOK(e)
      BY <1>3, <3>3, <3>5 DEF OpOK
    <3>7. \A u, r, p : ~Needs(e, u, r, p)
      BY <3>5 DEF Needs
    <3> QED BY <3>1, <3>6, <3>7
  <2>18. job' = [job EXCEPT ![j] = Fresh(q \o Tail(@.todo))]
    BY <1>5, <2>8, <2>13
  <2>19. Moves(j)
    BY <1>1, <1>2, <2>16, <2>17, <2>18, InsertMoves
  <2> QED BY <1>2, <2>19 DEF Outcome
<1> QED BY ZenonT(60), <1>1, <1>4, <1>5 DEF ListTenants

----------------------------------------------------------------------------
(* Assignments and memberships *)

LEMMA PersonAt ==
  ASSUME RegistryInv, NEW j \in Jobs, job[j].todo # <<>>, NEW o, o = This(j),
         o.op \in {"assign", "unassign", "addRole", "member", "addLegacy", "dropLegacy"}
  PROVE  /\ Person(j) = <<o.tenant, o.user>> /\ Person(j) \in Tenants \X Users /\ Person(j)[1] = o.tenant
         /\ Silent(o) /\ o.tenant \in Tenants
<1>1. OpOK(o)
  BY AtOperation
<1> QED BY <1>1 DEF OpOK, Person, Silent

(* What the store says of a person. *)
LEMMA PersonStored ==
  ASSUME StoresOK, NEW k \in Tenants \X Users
  PROVE  /\ assignment[k] \in Assigned \cup {Absent}
         /\ member[k] \in {Absent} \cup SUBSET RoleNames /\ legacy[k] \in {Absent} \cup SUBSET RoleNames
         /\ member[k] # Absent => legacy[k] = member[k]
         /\ member[k] # Absent => \A r \in member[k] : role[<<k[1], r>>] # Absent
         /\ assignment[k] # Absent => \A r \in assignment[k].roles : role[<<k[1], r>>] # Absent
BY DEF StoresOK, TypeOK, OwnedRecordsPaired, RolesBeforeUse, HeldRolesDefined

(* A write of the assignment, or its removal. *)
LEMMA AssignmentWritten ==
  ASSUME StoresOK, NEW k \in Tenants \X Users, NEW a \in Assigned \cup {Absent},
         assignment' = [assignment EXCEPT ![k] = a],
         a # Absent => \A r \in a.roles : role[<<k[1], r>>] # Absent,
         UNCHANGED <<deployment, tenant, role, clients, member, legacy>>
  PROVE  Writes
<1>1. /\ assignment' \in [Tenants \X Users -> Assigned \cup {Absent}]
      /\ assignment'[k] = a
      /\ \A l \in Tenants \X Users : l # k => assignment'[l] = assignment[l]
  BY DEF StoresOK, TypeOK
<1>2. /\ member' \in [Tenants \X Users -> {Absent} \cup SUBSET RoleNames]
      /\ legacy' \in [Tenants \X Users -> {Absent} \cup SUBSET RoleNames]
      /\ member' = member /\ legacy' = legacy
  BY DEF StoresOK, TypeOK
<1>3. /\ member[k] # Absent => legacy[k] = member[k]
      /\ member[k] # Absent => \A r \in member[k] : role[<<k[1], r>>] # Absent
  BY PersonStored
<1> QED BY <1>1, <1>2, <1>3, PersonWritten

LEMMA AssignmentSet ==
  ASSUME StoresOK, NEW k \in Tenants \X Users, NEW roles \in SUBSET RoleNames,
         SetAssignment(k, roles), \A r \in roles : role[<<k[1], r>>] # Absent
  PROVE  Writes
<1>1. PICK v : v = IF assignment[k] = Absent THEN 1 ELSE assignment[k].version + 1
  OBVIOUS
<1>2. v \in Nat
  BY <1>1, PersonStored DEF Assigned
<1>3. PICK a : a = [version |-> v, roles |-> roles]
  OBVIOUS
<1>4. a \in Assigned /\ a.roles = roles
  BY <1>2, <1>3 DEF Assigned
<1>5. /\ assignment' = [assignment EXCEPT ![k] = a]
      /\ UNCHANGED <<deployment, tenant, role, clients, member, legacy>>
  BY <1>1, <1>3 DEF SetAssignment, StoresOK, TypeOK
<1> QED BY <1>4, <1>5, AssignmentWritten

(* What is assigned or enrolled has its definitions by now. *)
LEMMA NamedRolesGiven ==
  ASSUME RegistryInv, NEW j \in Jobs, job[j].todo # <<>>, NEW o, o = This(j),
         o.op \in {"assign", "member"}
  PROVE  o.roles \in SUBSET RoleNames /\ \A r \in o.roles : role[<<o.tenant, r>>] # Absent
<1>1. /\ OpOK(o)
      /\ \A t \in Tenants, r \in RoleNames, p \in Wanted : Needs(o, t, r, p) => Given(t, r, p)
  BY AtOperation
<1>2. o.tenant \in Tenants /\ o.roles \in SUBSET RoleNames
  BY <1>1 DEF OpOK
<1>3. ASSUME NEW r \in o.roles PROVE role[<<o.tenant, r>>] # Absent
  <2>1. Given(o.tenant, r, Absent)
    BY <1>1, <1>2 DEF Needs, Wanted
  <2> QED BY <2>1 DEF Given
<1> QED BY <1>2, <1>3

LEMMA PutAssignmentStep ==
  ASSUME RegistryInv, NEW j \in Jobs, PutAccessAssignment(j)
  PROVE  Outcome(j)
<1>1. PICK o : o = This(j)
  OBVIOUS
<1>2. PICK k : k = Person(j)
  OBVIOUS
<1>3. job[j].todo # <<>> /\ o.op = "assign"
  BY <1>1 DEF PutAccessAssignment, Doing, This
<1>4. k \in Tenants \X Users /\ k[1] = o.tenant /\ Silent(o)
  BY <1>1, <1>2, <1>3, PersonAt
<1>5. o.roles \in SUBSET RoleNames /\ \A r \in o.roles : role[<<k[1], r>>] # Absent
  BY <1>1, <1>3, <1>4, NamedRolesGiven
<1>6. CASE Fail(j) /\ OnlyJobs
  BY <1>6, Reads, FailMoves DEF Outcome
<1>7. CASE SetAssignment(k, o.roles) /\ Proceed(j)
  <2>1. Writes
    BY <1>4, <1>5, <1>7, AssignmentSet DEF RegistryInv
  <2> QED BY <1>1, <1>3, <1>4, <1>7, <2>1, SilentProceeds DEF Writes, Outcome
<1>8. CASE Proceed(j) /\ OnlyJobs
  BY <1>1, <1>3, <1>4, <1>8, Reads, SilentProceeds DEF Outcome
<1> QED BY <1>1, <1>2, <1>6, <1>7, <1>8 DEF PutAccessAssignment, Check

LEMMA DeleteAssignmentStep ==
  ASSUME RegistryInv, NEW j \in Jobs, DeleteAccessAssignment(j)
  PROVE  Outcome(j)
<1>1. PICK o : o = This(j)
  OBVIOUS
<1>2. PICK k : k = Person(j)
  OBVIOUS
<1>3. job[j].todo # <<>> /\ o.op = "unassign" /\ Proceed(j)
  BY <1>1 DEF DeleteAccessAssignment, Doing, This
<1>4. k \in Tenants \X Users /\ Silent(o)
  BY <1>1, <1>2, <1>3, PersonAt
<1>5. /\ StoresOK /\ assignment' = [assignment EXCEPT ![k] = Absent]
      /\ UNCHANGED <<deployment, tenant, role, clients, member, legacy>>
  BY <1>2 DEF DeleteAccessAssignment, RegistryInv
<1>6. Writes
  BY <1>4, <1>5, AssignmentWritten
<1> QED BY <1>1, <1>3, <1>4, <1>6, SilentProceeds DEF Writes, Outcome

LEMMA CheckDependenciesStep ==
  ASSUME RegistryInv, NEW j \in Jobs, CheckDependencies(j)
  PROVE  Outcome(j)
<1>1. PICK o : o = This(j)
  OBVIOUS
<1>2. job[j].todo # <<>> /\ o.op = "addRole" /\ Silent(o) /\ Writes /\ RolesStay /\ role' = role
  BY <1>1, Reads DEF CheckDependencies, Doing, This, Silent
<1>3. CASE Fail(j)
  BY <1>2, <1>3, FailMoves DEF Outcome
<1>4. CASE Proceed(j)
  BY <1>1, <1>2, <1>4, SilentProceeds DEF Outcome
<1>5. CASE Hold(j, "definition", Absent, Absent)
  BY <1>2, <1>5, PlainHold DEF Outcome
<1>6. ASSUME NEW pc \in {"current", "write"}, NEW seen, Hold(j, pc, seen, Absent),
             role[<<o.tenant, "ai-admin">>] # Absent
      PROVE  Outcome(j)
  <2>1. \A m : m.pc = pc /\ m.seen = seen /\ m.to = Absent => InHand(o, m)'
    BY <1>2, <1>6 DEF InHand
  <2> QED BY <1>1, <1>2, <1>6, <2>1, HoldMoves DEF Outcome
<1>7. CASE role[<<o.tenant, "ai-admin">>] = AdminPermissions /\ Hold(j, "current", Absent, Absent)
  <2>1. role[<<o.tenant, "ai-admin">>] # Absent
    BY <1>7, RegistryNames, DedicatedScopes
  <2> QED BY <1>6, <1>7, <2>1
<1>8. CASE job[j].pc = "current" /\ Hold(j, "write", assignment[Person(j)], Absent)
  <2>1. InHand(o, job[j])
    BY <1>1, <1>2, AtOperation
  <2>2. role[<<o.tenant, "ai-admin">>] # Absent
    BY <1>2, <1>8, <2>1 DEF InHand
  <2> QED BY <1>6, <1>8, <2>2
<1> QED BY <1>1, <1>3, <1>4, <1>5, <1>7, <1>8 DEF CheckDependencies, Doing

LEMMA AddRoleStep ==
  ASSUME RegistryInv, NEW j \in Jobs, AddExactUserRole(j)
  PROVE  Outcome(j)
<1>1. PICK o : o = This(j)
  OBVIOUS
<1>2. PICK k : k = Person(j)
  OBVIOUS
<1>3. job[j].todo # <<>> /\ o.op = "addRole" /\ job[j].pc = "write"
  BY <1>1 DEF AddExactUserRole, Doing, This
<1>4. k \in Tenants \X Users /\ k[1] = o.tenant /\ Silent(o)
  BY <1>1, <1>2, <1>3, PersonAt
<1>5. role[<<k[1], "ai-admin">>] # Absent
  <2>1. InHand(o, job[j])
    BY <1>1, <1>3, AtOperation
  <2> QED BY <1>3, <1>4, <2>1 DEF InHand
<1>6. PICK roles : roles = {"ai-admin"} \cup (IF assignment[k] = Absent THEN {} ELSE assignment[k].roles)
  OBVIOUS
<1>7. StoresOK
  BY DEF RegistryInv
<1>8. roles \in SUBSET RoleNames /\ \A r \in roles : role[<<k[1], r>>] # Absent
  <2>1. CASE assignment[k] = Absent
    BY <1>5, <1>6, <2>1 DEF RoleNames
  <2>2. CASE assignment[k] # Absent
    <3>1. assignment[k].roles \in SUBSET RoleNames /\ \A r \in assignment[k].roles : role[<<k[1], r>>] # Absent
      BY <1>4, <1>7, <2>2, PersonStored DEF Assigned
    <3> QED BY <1>5, <1>6, <2>2, <3>1 DEF RoleNames
  <2> QED BY <2>1, <2>2
<1>9. CASE SetAssignment(k, roles) /\ Proceed(j)
  <2>1. Writes
    BY <1>4, <1>7, <1>8, <1>9, AssignmentSet
  <2> QED BY <1>1, <1>3, <1>4, <1>9, <2>1, SilentProceeds DEF Writes, Outcome
<1>10. CASE Again(j) /\ OnlyJobs
  BY <1>10, Reads, AgainMoves DEF Outcome
<1> QED BY <1>2, <1>6, <1>9, <1>10 DEF AddExactUserRole

LEMMA EnsureMemberStep ==
  ASSUME RegistryInv, NEW j \in Jobs, EnsureMember(j)
  PROVE  Outcome(j)
<1>1. PICK o : o = This(j)
  OBVIOUS
<1>2. PICK k : k = Person(j)
  OBVIOUS
<1>3. job[j].todo # <<>> /\ o.op = "member"
  BY <1>1 DEF EnsureMember, Doing, This
<1>4. k \in Tenants \X Users /\ k[1] = o.tenant /\ Silent(o)
  BY <1>1, <1>2, <1>3, PersonAt
<1>5. o.roles \in SUBSET RoleNames /\ \A r \in o.roles : role[<<k[1], r>>] # Absent
  BY <1>1, <1>3, <1>4, NamedRolesGiven
<1>6. StoresOK
  BY DEF RegistryInv
<1>7. CASE member[k] = Absent /\ legacy[k] = Absent
  <2>1. /\ member' = [member EXCEPT ![k] = o.roles] /\ legacy' = [legacy EXCEPT ![k] = o.roles]
        /\ Proceed(j) /\ assignment' = assignment /\ UNCHANGED <<tenant, role, clients>>
    BY <1>1, <1>2, <1>7 DEF EnsureMember
  <2>2. /\ member' \in [Tenants \X Users -> {Absent} \cup SUBSET RoleNames]
        /\ legacy' \in [Tenants \X Users -> {Absent} \cup SUBSET RoleNames]
        /\ assignment' \in [Tenants \X Users -> Assigned \cup {Absent}]
        /\ member'[k] = o.roles /\ legacy'[k] = o.roles
        /\ \A l \in Tenants \X Users : l # k => member'[l] = member[l] /\ legacy'[l] = legacy[l]
    BY <1>4, <1>5, <1>6, <2>1 DEF StoresOK, TypeOK
  <2>3. assignment'[k] # Absent => \A r \in assignment'[k].roles : role[<<k[1], r>>] # Absent
    BY <1>4, <1>6, <2>1, PersonStored
  <2>4. Writes
    BY <1>4, <1>5, <1>6, <1>7, <2>1, <2>2, <2>3, PersonWritten
  <2> QED BY <1>1, <1>3, <1>4, <2>1, <2>4, SilentProceeds DEF Writes, Outcome
<1>8. CASE ~(member[k] = Absent /\ legacy[k] = Absent)
  <2>1. Check(j, member[k] = o.roles) /\ OnlyJobs
    BY <1>1, <1>2, <1>8 DEF EnsureMember, OnlyJobs, people
  <2> QED BY <1>1, <1>3, <1>4, <2>1, Reads, CheckMoves DEF Outcome
<1> QED BY <1>7, <1>8

LEMMA WriteLegacyStep ==
  ASSUME RegistryInv, NEW j \in Jobs, WriteLegacy(j)
  PROVE  Outcome(j)
<1>1. PICK o : o = This(j)
  OBVIOUS
<1>2. PICK k : k = Person(j)
  OBVIOUS
<1>3. job[j].todo # <<>> /\ o.op \in {"addLegacy", "dropLegacy"}
  BY <1>1 DEF WriteLegacy, Doing, This
<1>4. k \in Tenants \X Users /\ k[1] = o.tenant /\ Silent(o)
  BY <1>1, <1>2, <1>3, PersonAt
<1>5. o.roles \in SUBSET RoleNames
  BY <1>1, <1>3, AtOperation DEF OpOK
<1>6. StoresOK
  BY DEF RegistryInv
<1>7. CASE member[k] = Absent
  <2>1. PICK v : v = IF o.op = "addLegacy" THEN o.roles ELSE Absent
    OBVIOUS
  <2>2. /\ legacy' = [legacy EXCEPT ![k] = v] /\ Proceed(j)
        /\ assignment' = assignment /\ member' = member /\ UNCHANGED <<tenant, role, clients>>
    BY <1>1, <1>2, <1>7, <2>1 DEF WriteLegacy
  <2>3. /\ member' \in [Tenants \X Users -> {Absent} \cup SUBSET RoleNames]
        /\ legacy' \in [Tenants \X Users -> {Absent} \cup SUBSET RoleNames]
        /\ assignment' \in [Tenants \X Users -> Assigned \cup {Absent}]
        /\ \A l \in Tenants \X Users : l # k => legacy'[l] = legacy[l]
    BY <1>5, <1>6, <2>1, <2>2 DEF StoresOK, TypeOK
  <2>4. assignment'[k] # Absent => \A r \in assignment'[k].roles : role[<<k[1], r>>] # Absent
    BY <1>4, <1>6, <2>2, PersonStored
  <2>5. Writes
    BY <1>4, <1>6, <1>7, <2>2, <2>3, <2>4, PersonWritten
  <2> QED BY <1>1, <1>3, <1>4, <2>2, <2>5, SilentProceeds DEF Writes, Outcome
<1>8. CASE member[k] # Absent
  <2>1. Fail(j) /\ OnlyJobs
    BY <1>2, <1>8 DEF WriteLegacy, OnlyJobs, people
  <2> QED BY <2>1, Reads, FailMoves DEF Outcome
<1> QED BY <1>7, <1>8

LEMMA StopStep ==
  ASSUME RegistryInv, NEW j \in Jobs, Stop(j)
  PROVE  Outcome(j)
BY Reads, FailMoves DEF Stop, Outcome

----------------------------------------------------------------------------
(* The programs *)

Independent(o) == OpOK(o) /\ \A t, r, p : ~Needs(o, t, r, p)

LEMMA GoodProgram ==
  ASSUME NEW s, IsSequence(s), \A i \in 1..Len(s) : OpOK(s[i]),
         \A i \in 1..Len(s) : \A t, r, p :
           Needs(s[i], t, r, p) => \E k \in 1..(i - 1) : Provides(s[k], t, r, p)
  PROVE  Good(s)
BY DEF Good, Order

LEMMA OneOp ==
  ASSUME NEW a, Independent(a)
  PROVE  Good(<<a>>)
<1>1. PICK s : s = <<a>>
  OBVIOUS
<1>2. IsSequence(s) /\ Len(s) = 1 /\ s[1] = a
  BY <1>1 DEF IsSequence
<1>3. \A i \in 1..Len(s) : Independent(s[i])
  BY <1>2
<1>4. Good(s)
  BY <1>2, <1>3, GoodProgram DEF Independent
<1> QED BY <1>1, <1>4

LEMMA TwoOps ==
  ASSUME NEW a, NEW b, Independent(a), Independent(b)
  PROVE  Good(<<a, b>>)
<1>1. PICK s : s = <<a, b>>
  OBVIOUS
<1>2. IsSequence(s) /\ Len(s) = 2 /\ s[1] = a /\ s[2] = b
  BY <1>1 DEF IsSequence
<1>3. \A i \in 1..Len(s) : i = 1 \/ i = 2
  BY <1>2
<1>4. \A i \in 1..Len(s) : Independent(s[i])
  BY <1>2, <1>3
<1>5. Good(s)
  BY <1>2, <1>4, GoodProgram DEF Independent
<1> QED BY <1>1, <1>5

LEMMA ThreeOps ==
  ASSUME NEW a, NEW b, NEW c, Independent(a), Independent(b), OpOK(c),
         \A t, r, p : Needs(c, t, r, p) => Provides(b, t, r, p)
  PROVE  Good(<<a, b, c>>)
<1>1. PICK s : s = <<a, b, c>>
  OBVIOUS
<1>2. IsSequence(s) /\ Len(s) = 3 /\ s[1] = a /\ s[2] = b /\ s[3] = c
  BY <1>1 DEF IsSequence
<1>3. \A i \in 1..Len(s) : i = 1 \/ i = 2 \/ i = 3
  BY <1>2
<1>4. \A i \in 1..Len(s) : OpOK(s[i])
  BY <1>2, <1>3 DEF Independent
<1>5. ASSUME NEW i \in 1..Len(s), NEW t, NEW r, NEW p, Needs(s[i], t, r, p)
      PROVE  \E k \in 1..(i - 1) : Provides(s[k], t, r, p)
  <2>1. i = 3 /\ 2 \in 1..(i - 1)
    BY <1>2, <1>3, <1>5 DEF Independent
  <2> QED BY <1>2, <1>5, <2>1
<1>6. Good(s)
  BY <1>2, <1>4, <1>5, GoodProgram
<1> QED BY <1>1, <1>6

LEMMA FiveOps ==
  ASSUME NEW a, NEW b, NEW c, NEW d, NEW e,
         Independent(a), Independent(b), Independent(d), Independent(e), OpOK(c),
         \A t, r, p : Needs(c, t, r, p) => Provides(b, t, r, p)
  PROVE  Good(<<a, b, c, d, e>>)
<1>1. PICK s : s = <<a, b, c, d, e>>
  OBVIOUS
<1>2. IsSequence(s) /\ Len(s) = 5 /\ s[1] = a /\ s[2] = b /\ s[3] = c /\ s[4] = d /\ s[5] = e
  BY <1>1 DEF IsSequence
<1>3. \A i \in 1..Len(s) : i = 1 \/ i = 2 \/ i = 3 \/ i = 4 \/ i = 5
  BY <1>2
<1>4. \A i \in 1..Len(s) : OpOK(s[i])
  BY <1>2, <1>3 DEF Independent
<1>5. ASSUME NEW i \in 1..Len(s), NEW t, NEW r, NEW p, Needs(s[i], t, r, p)
      PROVE  \E k \in 1..(i - 1) : Provides(s[k], t, r, p)
  <2>1. i = 3 /\ 2 \in 1..(i - 1)
    BY <1>2, <1>3, <1>5 DEF Independent
  <2> QED BY <1>2, <1>5, <2>1
<1>6. Good(s)
  BY <1>2, <1>4, <1>5, GoodProgram
<1> QED BY <1>1, <1>6

LEMMA SixOps ==
  ASSUME NEW a, NEW b, NEW c, NEW d, NEW e, NEW f,
         Independent(a), Independent(b), Independent(c), Independent(d), Independent(e), OpOK(f),
         \A t, r, p : Needs(f, t, r, p) => Provides(c, t, r, p) \/ Provides(d, t, r, p)
  PROVE  Good(<<a, b, c, d, e, f>>)
<1>1. PICK s : s = <<a, b, c, d, e, f>>
  OBVIOUS
<1>2. /\ IsSequence(s) /\ Len(s) = 6
      /\ s[1] = a /\ s[2] = b /\ s[3] = c /\ s[4] = d /\ s[5] = e /\ s[6] = f
  BY <1>1 DEF IsSequence
<1>3. \A i \in 1..Len(s) : i = 1 \/ i = 2 \/ i = 3 \/ i = 4 \/ i = 5 \/ i = 6
  BY <1>2
<1>4. \A i \in 1..Len(s) : OpOK(s[i])
  BY <1>2, <1>3 DEF Independent
<1>5. ASSUME NEW i \in 1..Len(s), NEW t, NEW r, NEW p, Needs(s[i], t, r, p)
      PROVE  \E k \in 1..(i - 1) : Provides(s[k], t, r, p)
  <2>1. i = 6 /\ 3 \in 1..(i - 1) /\ 4 \in 1..(i - 1)
    BY <1>2, <1>3, <1>5 DEF Independent
  <2> QED BY <1>2, <1>5, <2>1
<1>6. Good(s)
  BY <1>2, <1>4, <1>5, GoodProgram
<1> QED BY <1>1, <1>6

(* The operations the programs are written with. *)
LEMMA PlainOp ==
  ASSUME NEW op \in {"active", "known", "brokerTenant", "retire", "deactivate"}, NEW t \in Tenants
  PROVE  Independent(Op(op, t)) /\ Independent([op |-> op, tenant |-> t])
BY DEF Independent, OpOK, Needs, Op

LEMMA TenantOps ==
  ASSUME NEW t \in Tenants, NEW n \in STRING, NEW active
  PROVE  /\ Independent([op |-> "upsertTenant", tenant |-> t, name |-> n])
         /\ Independent([op |-> "create", tenant |-> t, name |-> n, active |-> active])
BY DEF Independent, OpOK, Needs

LEMMA RoleOps ==
  ASSUME NEW t \in Tenants, NEW r \in RoleNames, NEW s \in Scopes, NEW previous
  PROVE  /\ Independent(EnsureRole(t, r, s))
         /\ Independent([EnsureRole(t, "base", s) EXCEPT !.previous = previous])
         /\ Independent([op |-> "putRole", tenant |-> t, role |-> "ADMIN", permissions |-> s])
<1>1. Independent(EnsureRole(t, r, s))
  BY DEF Independent, OpOK, Needs, EnsureRole
<1>2. [EnsureRole(t, "base", s) EXCEPT !.previous = previous] =
        [op |-> "ensureRole", tenant |-> t, role |-> "base", permissions |-> s, previous |-> previous]
  BY DEF EnsureRole
<1>3. Independent([op |-> "ensureRole", tenant |-> t, role |-> "base", permissions |-> s, previous |-> previous])
  BY DEF Independent, OpOK, Needs, RoleNames
<1>4. Independent([op |-> "putRole", tenant |-> t, role |-> "ADMIN", permissions |-> s])
  BY DEF Independent, OpOK, Needs, RoleNames
<1> QED BY <1>1, <1>2, <1>3, <1>4

LEMMA EnsureOps ==
  ASSUME NEW t \in Tenants, NEW c \in ClientIds, NEW owner \in {"console", "ai", "broker"},
         NEW s \in Scopes
  PROVE  /\ OpOK(Ensure(t, c, Owned(owner, s)))
         /\ c # AI => Independent(Ensure(t, c, Owned(owner, s)))
<1>1. PICK rec : rec = Owned(owner, s)
  OBVIOUS
<1>2. rec \in ClientRecord /\ rec.owner # "none" /\ ~rec.secret
  BY <1>1 DEF Owned, ClientRecord
<1>3. PICK o : o = Ensure(t, c, Owned(owner, s))
  OBVIOUS
<1>4. o.op = "ensure" /\ o.tenant = t /\ o.client = c /\ o.record = rec
  BY <1>1, <1>3 DEF Ensure
<1>5. OpOK(o)
  BY <1>2, <1>4 DEF OpOK
<1>6. c # AI => \A u, r, p : ~Needs(o, u, r, p)
  BY <1>4 DEF Needs
<1> QED BY <1>3, <1>5, <1>6 DEF Independent

LEMMA UnownedIsRecord ==
  ASSUME NEW s \in Scopes
  PROVE  /\ Unowned("PUBLIC", s) \in ClientRecord /\ Unowned("PUBLIC", s).owner = "none"
         /\ BootstrapHome(Unowned("PUBLIC", s))
         /\ WithSecret(s) \in ClientRecord /\ WithSecret(s).owner = "none"
<1>1. PICK r : r = Unowned("PUBLIC", s)
  OBVIOUS
<1>2. /\ r = [owner |-> "none", type |-> "PUBLIC", secret |-> FALSE, status |-> "ACTIVE", scopes |-> s]
      /\ r.owner = "none" /\ r.scopes = s
  BY <1>1, UnownedFields
<1>3. r \in ClientRecord /\ r # Absent
  <2>1. r \in ClientRecord
    BY <1>2 DEF ClientRecord
  <2> QED BY <2>1, RegistryNames
<1>4. BootstrapHome(r)
  BY <1>1, <1>2, <1>3 DEF BootstrapHome
<1>5. PICK u : u = Unowned("SERVICE", s)
  OBVIOUS
<1>6. u = [owner |-> "none", type |-> "SERVICE", secret |-> FALSE, status |-> "ACTIVE", scopes |-> s]
  BY <1>5, UnownedFields
<1>7. WithSecret(s) = [owner |-> "none", type |-> "SERVICE", secret |-> TRUE, status |-> "ACTIVE", scopes |-> s]
  <2>1. \A x : [u EXCEPT !.secret = x] =
          [owner |-> "none", type |-> "SERVICE", secret |-> x, status |-> "ACTIVE", scopes |-> s]
    BY <1>6
  <2>2. PICK x : x = TRUE
    OBVIOUS
  <2>3. WithSecret(s) = [u EXCEPT !.secret = x]
    BY <1>5, <2>2 DEF WithSecret
  <2> QED BY <2>1, <2>2, <2>3
<1>8. WithSecret(s) \in ClientRecord /\ WithSecret(s).owner = "none"
  BY <1>7 DEF ClientRecord
<1> QED BY <1>1, <1>2, <1>3, <1>4, <1>8

LEMMA ClientOps ==
  ASSUME NEW t \in Tenants, NEW s \in Scopes
  PROVE  /\ Independent([op |-> "upsertClient", tenant |-> t, record |-> Unowned("PUBLIC", s)])
         /\ Independent([op |-> "createClient", tenant |-> t, record |-> WithSecret(s)])
         /\ Independent([op |-> "home", tenant |-> t, scopes |-> s])
         /\ Independent([op |-> "raise", tenant |-> t, scopes |-> s])
<1>1. PICK r : r = Unowned("PUBLIC", s)
  OBVIOUS
<1>2. PICK w : w = WithSecret(s)
  OBVIOUS
<1>3. r \in ClientRecord /\ r.owner = "none" /\ BootstrapHome(r) /\ w \in ClientRecord /\ w.owner = "none"
  BY <1>1, <1>2, UnownedIsRecord
<1>4. PICK o : o = [op |-> "upsertClient", tenant |-> t, record |-> r]
  OBVIOUS
<1>5. o.op = "upsertClient" /\ o.tenant = t /\ o.record = r
  BY <1>4
<1>6. Independent(o)
  BY <1>3, <1>5 DEF Independent, OpOK, Needs
<1>7. PICK q : q = [op |-> "createClient", tenant |-> t, record |-> w]
  OBVIOUS
<1>8. q.op = "createClient" /\ q.tenant = t /\ q.record = w
  BY <1>7
<1>9. Independent(q)
  BY <1>3, <1>8 DEF Independent, OpOK, Needs
<1>10. /\ Independent([op |-> "home", tenant |-> t, scopes |-> s])
       /\ Independent([op |-> "raise", tenant |-> t, scopes |-> s])
  BY DEF Independent, OpOK, Needs
<1> QED BY <1>1, <1>2, <1>4, <1>6, <1>7, <1>9, <1>10

LEMMA AudiencesOp ==
  ASSUME NEW s \in Scopes, NEW only
  PROVE  Independent([op |-> "audiences", only |-> only, scopes |-> s])
BY DEF Independent, OpOK, Needs

LEMMA PersonOps ==
  ASSUME NEW t \in Tenants, NEW u \in Users, NEW R \in SUBSET RoleNames
  PROVE  /\ Independent([op |-> "roles", tenant |-> t, roles |-> R])
         /\ Independent([op |-> "unassign", tenant |-> t, user |-> u])
         /\ Independent([op |-> "addRole", tenant |-> t, user |-> u])
         /\ Independent([op |-> "addLegacy", tenant |-> t, user |-> u, roles |-> R])
         /\ Independent([op |-> "dropLegacy", tenant |-> t, user |-> u, roles |-> R])
BY DEF Independent, OpOK, Needs

LEMMA AssignOp ==
  ASSUME NEW o, o.op \in {"assign", "member"}, o.tenant \in Tenants, o.user \in Users,
         o.roles \in SUBSET RoleNames
  PROVE  OpOK(o) /\ \A v, r, p : Needs(o, v, r, p) => v = o.tenant /\ r \in o.roles /\ p = Absent
BY DEF OpOK, Needs

----------------------------------------------------------------------------
(* Every program is good from the start. *)

LEMMA ActivateGood ==
  ASSUME NEW p \in Task
  PROVE  Good(Activate(p))
<1>1. p.tenant \in Tenants /\ p.user \in Users
  BY DEF Task
<1>2. CeilingScopes \in Scopes /\ AdminPermissions \in Scopes /\ UserPermissions \in Scopes
  BY DedicatedScopes
<1>3. {"invoke"} \in Scopes
  BY <1>2 DEF Scopes, AdminPermissions
<1>4. PICK a : a = Op("active", p.tenant)
  OBVIOUS
<1>5. PICK b : b = RaiseConsoleCeiling(p.tenant)
  OBVIOUS
<1>6. PICK c : c = EnsureRole(p.tenant, "ai-admin", AdminPermissions)
  OBVIOUS
<1>7. PICK d : d = EnsureRole(p.tenant, "ai-user", UserPermissions)
  OBVIOUS
<1>8. PICK e : e = AssignAdministrator(p)
  OBVIOUS
<1>9. PICK f : f = Ensure(p.tenant, AI, AIClient)
  OBVIOUS
<1>10. Independent(a)
  BY <1>1, <1>4, PlainOp
<1>11. Independent(b)
  BY <1>1, <1>2, <1>5, ClientOps DEF RaiseConsoleCeiling
<1>12. Independent(c) /\ Independent(d)
  <2>1. "ai-admin" \in RoleNames /\ "ai-user" \in RoleNames
    BY DEF RoleNames
  <2> QED BY <1>1, <1>2, <1>6, <1>7, <2>1, RoleOps
<1>13. Independent(e)
  <2>1. e = [op |-> "addRole", tenant |-> p.tenant, user |-> p.user]
    BY <1>8 DEF AssignAdministrator
  <2> QED BY <1>1, <2>1 DEF Independent, OpOK, Needs
<1>14. OpOK(f)
  <2>1. AI \in ClientIds
    BY DEF ClientIds
  <2> QED BY <1>1, <1>3, <1>9, <2>1, EnsureOps DEF AIClient
<1>15. ASSUME NEW t, NEW r, NEW q, Needs(f, t, r, q) PROVE Provides(c, t, r, q) \/ Provides(d, t, r, q)
  <2>1. f.op = "ensure" /\ f.tenant = p.tenant
    BY <1>9 DEF Ensure
  <2>2. t = p.tenant /\ <<r, q>> \in Dedicated
    BY <1>15, <2>1 DEF Needs
  <2>3. /\ c.op = "ensureRole" /\ c.tenant = p.tenant /\ c.role = "ai-admin"
        /\ c.permissions = AdminPermissions /\ c.previous = Absent
    BY <1>6 DEF EnsureRole
  <2>4. /\ d.op = "ensureRole" /\ d.tenant = p.tenant /\ d.role = "ai-user"
        /\ d.permissions = UserPermissions /\ d.previous = Absent
    BY <1>7 DEF EnsureRole
  <2> QED BY <2>2, <2>3, <2>4 DEF Provides, Dedicated
<1>16. Good(<<a, b, c, d, e, f>>)
  BY <1>10, <1>11, <1>12, <1>13, <1>14, <1>15, SixOps
<1> QED BY <1>4, <1>5, <1>6, <1>7, <1>8, <1>9, <1>16 DEF Activate

LEMMA BootstrapGood ==
  ASSUME NEW p \in Task
  PROVE  Good(Bootstrap(p))
<1>1. p.tenant \in Tenants /\ p.user \in Users /\ p.name \in STRING /\ p.scopes \in Scopes
  BY DEF Task
<1>2. PICK a : a = [op |-> "upsertTenant", tenant |-> p.tenant, name |-> p.name]
  OBVIOUS
<1>3. PICK b : b = [op |-> "putRole", tenant |-> p.tenant, role |-> "ADMIN", permissions |-> p.scopes]
  OBVIOUS
<1>4. PICK c : c = [op |-> "assign", tenant |-> p.tenant, user |-> p.user, roles |-> {"ADMIN"}, bare |-> TRUE]
  OBVIOUS
<1>5. PICK d : d = [op |-> "upsertClient", tenant |-> p.tenant, record |-> Unowned("PUBLIC", p.scopes)]
  OBVIOUS
<1>6. PICK e : e = [op |-> "audiences", only |-> FALSE, scopes |-> p.scopes]
  OBVIOUS
<1>7. Independent(a) /\ Independent(e) /\ Independent(d)
  BY <1>1, <1>2, <1>5, <1>6, TenantOps, AudiencesOp, ClientOps
<1>8. Independent(b)
  BY <1>1, <1>3 DEF Independent, OpOK, Needs, RoleNames
<1>9. {"ADMIN"} \in SUBSET RoleNames
  BY DEF RoleNames
<1>10. OpOK(c) /\ \A v, r, q : Needs(c, v, r, q) => v = p.tenant /\ r \in {"ADMIN"} /\ q = Absent
  <2>1. c.op = "assign" /\ c.tenant = p.tenant /\ c.user = p.user /\ c.roles = {"ADMIN"}
    BY <1>4
  <2> QED BY <1>1, <1>9, <2>1, AssignOp
<1>11. \A v, r, q : Needs(c, v, r, q) => Provides(b, v, r, q)
  BY <1>3, <1>10 DEF Provides
<1>12. Good(<<a, b, c, d, e>>)
  BY <1>7, <1>8, <1>10, <1>11, FiveOps
<1> QED BY <1>2, <1>3, <1>4, <1>5, <1>6, <1>12 DEF Bootstrap

LEMMA RecoverGood ==
  ASSUME NEW p \in Task
  PROVE  Good(Recover(p))
<1>1. p.tenant \in Tenants /\ p.user \in Users /\ p.name \in STRING /\ p.scopes \in Scopes /\ Master \in Tenants
  BY DEF Task, Tenants
<1>2. PICK a : a = [op |-> "create", tenant |-> Master, name |-> p.name, active |-> TRUE]
  OBVIOUS
<1>3. PICK b : b = EnsureRole(Master, "ADMIN", p.scopes \cap Assignable)
  OBVIOUS
<1>4. PICK c : c = Ensure(Master, Console, Owned("console", p.scopes))
  OBVIOUS
<1>5. PICK d : d = Op("active", p.tenant)
  OBVIOUS
<1>6. PICK e : e = [op |-> "home", tenant |-> p.tenant, scopes |-> p.scopes]
  OBVIOUS
<1>7. PICK f : f = [op |-> "assign", tenant |-> Master, user |-> p.user, roles |-> {"ADMIN"}, bare |-> TRUE]
  OBVIOUS
<1>8. PICK g : g = [op |-> "audiences", only |-> FALSE, scopes |-> p.scopes]
  OBVIOUS
<1>9. Independent(a) /\ Independent(d) /\ Independent(e) /\ Independent(g)
  BY <1>1, <1>2, <1>5, <1>6, <1>8, TenantOps, PlainOp, ClientOps, AudiencesOp
<1>10. Independent(b)
  <2>1. p.scopes \cap Assignable \in Scopes /\ "ADMIN" \in RoleNames
    BY <1>1 DEF Scopes, RoleNames
  <2> QED BY <1>1, <1>3, <2>1, RoleOps
<1>11. Independent(c)
  <2>1. Console \in ClientIds /\ Console # AI
    BY DEF ClientIds, Console, AI
  <2> QED BY <1>1, <1>4, <2>1, EnsureOps
<1>12. {"ADMIN"} \in SUBSET RoleNames
  BY DEF RoleNames
<1>13. OpOK(f) /\ \A v, r, q : Needs(f, v, r, q) => v = Master /\ r \in {"ADMIN"} /\ q = Absent
  <2>1. f.op = "assign" /\ f.tenant = Master /\ f.user = p.user /\ f.roles = {"ADMIN"}
    BY <1>7
  <2> QED BY <1>1, <1>12, <2>1, AssignOp
<1>14. b.op = "ensureRole" /\ b.tenant = Master /\ b.role = "ADMIN"
  BY <1>3 DEF EnsureRole
<1>15. \A v, r, q : Needs(f, v, r, q) => Provides(b, v, r, q)
  BY <1>13, <1>14 DEF Provides
<1>16. PICK s : s = <<a, b, c>>
  OBVIOUS
<1>17. Good(s) /\ IsSequence(s) /\ Len(s) = 3 /\ s[2] = b
  <2>1. Good(<<a, b, c>>)
    BY <1>9, <1>10, <1>11, ThreeOps DEF Independent
  <2> QED BY <1>16, <2>1 DEF IsSequence
<1>18. PICK h : h = IF p.tenant = Master THEN <<>> ELSE <<d, e>>
  OBVIOUS
<1>19. Good(h) /\ \A i \in 1..Len(h) : Independent(h[i])
  <2>1. CASE h = <<>>
    BY <2>1, EmptyIsGood
  <2>2. CASE h = <<d, e>>
    <3>1. Good(h)
      BY <1>9, <2>2, TwoOps
    <3>2. Len(h) = 2 /\ h[1] = d /\ h[2] = e
      BY <2>2, TwoSequence
    <3>3. \A i \in 1..Len(h) : i = 1 \/ i = 2
      BY <3>2
    <3> QED BY <1>9, <3>1, <3>2, <3>3
  <2> QED BY <1>18, <2>1, <2>2
<1>20. PICK u : u = s \o h
  OBVIOUS
<1>21. Good(u)
  <2>1. Good(s \o h)
    BY <1>17, <1>19, Continued DEF Independent, Good
  <2> QED BY <1>20, <2>1
<1>22. 2 \in 1..Len(u) /\ u[2] = b
  <2>1. IsSequence(h) /\ Len(h) \in Nat
    BY <1>19 DEF Good, IsSequence
  <2>2. Len(u) = 3 + Len(h) /\ \A i \in 1..3 : u[i] = s[i]
    <3>1. /\ Len(s \o h) = Len(s) + Len(h)
          /\ \A i \in 1..Len(s) : (s \o h)[i] = s[i]
      BY ZenonT(60), <1>17, <2>1, Concatenation
    <3> QED BY <1>17, <1>20, <3>1
  <2> QED BY <1>17, <2>1, <2>2
<1>23. PICK w : w = <<f, g>>
  OBVIOUS
<1>24. IsSequence(w) /\ Len(w) = 2 /\ w[1] = f /\ w[2] = g
  BY <1>23, TwoSequence
<1>25. \A i \in 1..Len(w) : i = 1 \/ i = 2
  BY <1>24
<1>26. \A i \in 1..Len(w) : OpOK(w[i])
  BY <1>9, <1>13, <1>24, <1>25 DEF Independent
<1>27. \A i \in 1..Len(w) : \A v, r, q : Needs(w[i], v, r, q) => Provides(b, v, r, q)
  BY <1>9, <1>15, <1>24, <1>25 DEF Independent
<1>28. Good(u \o w)
  BY <1>21, <1>22, <1>24, <1>26, <1>27, Continued
<1>29. Recover(p) = (s \o h) \o w
  BY <1>2, <1>3, <1>4, <1>5, <1>6, <1>7, <1>8, <1>16, <1>18, <1>23 DEF Recover
<1> QED BY <1>20, <1>28, <1>29

LEMMA ReconcileGood ==
  ASSUME NEW p \in Task
  PROVE  Good(Reconcile(p))
<1>1. p.tenant \in Tenants /\ p.scopes \in Scopes /\ p.client \in Brokers
  BY DEF Task
<1>2. PICK a : a = [op |-> "brokerTenant", tenant |-> p.tenant]
  OBVIOUS
<1>3. PICK b : b = [EnsureRole(p.tenant, "base", p.scopes) EXCEPT !.previous = p.previous]
  OBVIOUS
<1>4. PICK c : c = Ensure(p.tenant, p.client, Owned("broker", p.scopes))
  OBVIOUS
<1>6. "base" \in RoleNames /\ p.client \in ClientIds /\ p.client # AI
  BY <1>1, RegistryNames DEF RoleNames, ClientIds
<1>7. Independent(a) /\ Independent(b)
  BY <1>1, <1>2, <1>3, <1>6, PlainOp, RoleOps
<1>8. Independent(c)
  BY <1>1, <1>4, <1>6, EnsureOps
<1>9. Good(<<a, b, c>>)
  BY <1>7, <1>8, ThreeOps DEF Independent
<1> QED BY <1>2, <1>3, <1>4, <1>9 DEF Reconcile

LEMMA PeopleGood ==
  ASSUME NEW p \in Task
  PROVE  Good(PutAssignment(p)) /\ Good(EnsureMembership(p))
<1>1. p.tenant \in Tenants /\ p.user \in Users /\ p.roles \in SUBSET RoleNames
  BY DEF Task
<1>2. PICK a : a = Op("active", p.tenant)
  OBVIOUS
<1>3. PICK b : b = [op |-> "roles", tenant |-> p.tenant, roles |-> p.roles]
  OBVIOUS
<1>4. Independent(a) /\ Independent(b)
  BY <1>1, <1>2, <1>3, PlainOp, PersonOps
<1>5. PICK c : c = [op |-> "assign", tenant |-> p.tenant, user |-> p.user, roles |-> p.roles, bare |-> p.bare]
  OBVIOUS
<1>6. PICK d : d = [op |-> "member", tenant |-> p.tenant, user |-> p.user, roles |-> p.roles]
  OBVIOUS
<1>7. OpOK(c) /\ \A v, r, q : Needs(c, v, r, q) => v = p.tenant /\ r \in p.roles /\ q = Absent
  <2>1. c.op = "assign" /\ c.tenant = p.tenant /\ c.user = p.user /\ c.roles = p.roles
    BY <1>5
  <2> QED BY <1>1, <2>1, AssignOp
<1>8. OpOK(d) /\ \A v, r, q : Needs(d, v, r, q) => v = p.tenant /\ r \in p.roles /\ q = Absent
  <2>1. d.op = "member" /\ d.tenant = p.tenant /\ d.user = p.user /\ d.roles = p.roles
    BY <1>6
  <2> QED BY <1>1, <2>1, AssignOp
<1>9. b.op = "roles" /\ b.tenant = p.tenant /\ b.roles = p.roles
  BY <1>3
<1>10. /\ \A v, r, q : Needs(c, v, r, q) => Provides(b, v, r, q)
       /\ \A v, r, q : Needs(d, v, r, q) => Provides(b, v, r, q)
  BY <1>7, <1>8, <1>9 DEF Provides
<1>11. Good(<<a, b, c>>) /\ Good(<<a, b, d>>)
  BY <1>4, <1>7, <1>8, <1>10, ThreeOps
<1> QED BY <1>2, <1>3, <1>5, <1>6, <1>11 DEF PutAssignment, EnsureMembership

LEMMA ShortProgramsGood ==
  ASSUME NEW p \in Task
  PROVE  /\ Good(Deactivate(p)) /\ Good(CreateWithID(p)) /\ Good(Retire(p)) /\ Good(CreateWithName(p))
         /\ Good(EnsureCodeAdminAudience(p))
         /\ Good(<< [op |-> "audiences", only |-> TRUE, scopes |-> p.scopes] >>)
         /\ Good(<< [op |-> "createClient", tenant |-> p.tenant, record |-> WithSecret(p.scopes)] >>)
         /\ Good(<< [op |-> "unassign", tenant |-> p.tenant, user |-> p.user] >>)
         /\ Good(<< [op |-> "addLegacy", tenant |-> p.tenant, user |-> p.user, roles |-> p.roles] >>)
         /\ Good(<< [op |-> "dropLegacy", tenant |-> p.tenant, user |-> p.user, roles |-> p.roles] >>)
<1>1. /\ p.tenant \in Tenants /\ p.user \in Users /\ p.name \in STRING /\ p.scopes \in Scopes
      /\ p.roles \in SUBSET RoleNames /\ p.role \in RoleNames
  BY DEF Task
<1>2. Good(Deactivate(p))
  <2>1. Independent(Op("known", p.tenant)) /\ Independent(Op("deactivate", p.tenant))
    BY <1>1, PlainOp
  <2> QED BY <2>1, TwoOps DEF Deactivate
<1>3. Good(CreateWithID(p))
  <2>1. Independent([op |-> "create", tenant |-> p.tenant, name |-> p.name, active |-> FALSE])
    BY <1>1, TenantOps
  <2> QED BY <2>1, OneOp DEF CreateWithID
<1>4. Good(Retire(p))
  <2>1. Independent(Op("retire", p.tenant))
    BY <1>1, PlainOp
  <2> QED BY <2>1, OneOp DEF Retire
<1>5. Good(CreateWithName(p))
  <2>1. Independent(EnsureRole(p.tenant, p.role, p.scopes))
    BY <1>1, RoleOps
  <2> QED BY <2>1, OneOp DEF CreateWithName
<1>6. Good(EnsureCodeAdminAudience(p))
  <2>1. Console \in ClientIds /\ Console # AI
    BY DEF ClientIds, Console, AI
  <2>2. Independent(Op("active", p.tenant))
    BY <1>1, PlainOp
  <2>3. Independent(Ensure(p.tenant, Console, Owned("console", p.scopes)))
    BY <1>1, <2>1, EnsureOps
  <2> QED BY <2>2, <2>3, TwoOps DEF EnsureCodeAdminAudience
<1>7. Good(<< [op |-> "audiences", only |-> TRUE, scopes |-> p.scopes] >>)
  BY <1>1, AudiencesOp, OneOp
<1>8. Good(<< [op |-> "createClient", tenant |-> p.tenant, record |-> WithSecret(p.scopes)] >>)
  BY <1>1, ClientOps, OneOp
<1>9. /\ Good(<< [op |-> "unassign", tenant |-> p.tenant, user |-> p.user] >>)
      /\ Good(<< [op |-> "addLegacy", tenant |-> p.tenant, user |-> p.user, roles |-> p.roles] >>)
      /\ Good(<< [op |-> "dropLegacy", tenant |-> p.tenant, user |-> p.user, roles |-> p.roles] >>)
  BY <1>1, PersonOps, OneOp
<1> QED BY <1>2, <1>3, <1>4, <1>5, <1>6, <1>7, <1>8, <1>9

LEMMA ProgramsGood ==
  ASSUME NEW p \in Task
  PROVE  Good(Program(p))
<1>1. Good(<<>>)
  BY EmptyIsGood
<1>2. \/ Program(p) \in {Activate(p), Deactivate(p), Bootstrap(p), Recover(p), Reconcile(p)}
      \/ Program(p) \in {CreateWithID(p), Retire(p), CreateWithName(p), EnsureCodeAdminAudience(p)}
      \/ Program(p) \in {PutAssignment(p), EnsureMembership(p), <<>>}
      \/ Program(p) = << [op |-> "audiences", only |-> TRUE, scopes |-> p.scopes] >>
      \/ Program(p) = << [op |-> "createClient", tenant |-> p.tenant, record |-> WithSecret(p.scopes)] >>
      \/ Program(p) = << [op |-> "unassign", tenant |-> p.tenant, user |-> p.user] >>
      \/ Program(p) = << [op |-> "addLegacy", tenant |-> p.tenant, user |-> p.user, roles |-> p.roles] >>
      \/ Program(p) = << [op |-> "dropLegacy", tenant |-> p.tenant, user |-> p.user, roles |-> p.roles] >>
  BY DEF Program
<1> QED BY <1>1, <1>2, ActivateGood, BootstrapGood, RecoverGood, ReconcileGood, PeopleGood, ShortProgramsGood

----------------------------------------------------------------------------
(* The invariant *)

LEMMA InitRegistry ==
  ASSUME RegistryInit
  PROVE  RegistryInv
<1>1. PICK d \in Deployments : d = deployment
  BY DEF RegistryInit
<1>2. /\ d.tenant \in [Tenants -> TenantRecord \cup {Absent}]
      /\ d.role \in [Tenants \X RoleNames -> {Absent} \cup Scopes]
      /\ d.client \in [Tenants \X ClientIds -> ClientRecord \cup {Absent}]
      /\ d.legacy \in [Tenants \X Users -> {Absent} \cup SUBSET RoleNames]
      /\ d.plan \in [Jobs -> Task]
  BY RegistryDeployments
<1>3. \A k \in Tenants \X ClientIds :
        d.client[k] # Absent /\ d.client[k].owner # "none" => ~d.client[k].secret
  BY RegistryDeployments
<1>4. \A t \in Tenants :
         d.client[<<t, AI>>] # Absent =>
           role[<<t, "ai-admin">>] = AdminPermissions /\ role[<<t, "ai-user">>] = UserPermissions
  BY <1>1, RegistryDeployments DEF RegistryInit
<1>5. tenant = d.tenant /\ role = d.role /\ client = d.client /\ legacy = d.legacy
  BY <1>1 DEF RegistryInit
<1>6. /\ marker = [k \in Tenants \X ClientIds |->
                     IF client[k] # Absent /\ client[k].owner # "none" THEN client[k] ELSE Absent]
      /\ assignment = [k \in Tenants \X Users |-> Absent]
      /\ member = [k \in Tenants \X Users |-> Absent]
      /\ promised = [t \in Tenants |-> IF client[<<t, Console>>] = Absent THEN {}
                                       ELSE client[<<t, Console>>].scopes]
  BY DEF RegistryInit
<1>7. marker \in [Tenants \X ClientIds -> ClientRecord \cup {Absent}]
  BY <1>2, <1>5, <1>6
<1>8. promised \in [Tenants -> Scopes]
  <2> SUFFICES ASSUME NEW t \in Tenants
               PROVE  (IF client[<<t, Console>>] = Absent THEN {} ELSE client[<<t, Console>>].scopes) \in Scopes
    BY <1>6
  <2>1. client[<<t, Console>>] \in ClientRecord \cup {Absent}
    BY <1>2, <1>5 DEF ClientIds
  <2> QED BY <2>1 DEF ClientRecord, Scopes
<1>9. TypeOK
  BY <1>2, <1>5, <1>6, <1>7, <1>8 DEF TypeOK
<1>10. MarkersOwned
  BY <1>3, <1>5, <1>6 DEF MarkersOwned
<1>11. OwnedRecordsPaired
  <2>1. \A k \in Tenants \X ClientIds : ~Corrupt(k)
    BY <1>6 DEF Corrupt
  <2>2. \A k \in Tenants \X Users : member[k] = Absent
    BY <1>6
  <2> QED BY <2>1, <2>2 DEF OwnedRecordsPaired
<1>12. NoReportedScopeLost
  BY <1>6 DEF NoReportedScopeLost
<1>13. RolesBeforeUse
  BY <1>4, <1>5, <1>6 DEF RolesBeforeUse, ActiveAudienceHasRoles, HeldRolesDefined
<1>14. job = [j \in Jobs |-> Fresh(Program(d.plan[j]))]
  BY <1>1 DEF RegistryInit
<1>15. ASSUME NEW j \in Jobs PROVE JobOK(job[j])
  <2>1. PICK s : s = Program(d.plan[j])
    OBVIOUS
  <2>2. Good(s)
    BY <1>2, <2>1, ProgramsGood
  <2>3. PICK m : m = job[j]
    OBVIOUS
  <2>4. m = [pc |-> "run", todo |-> s, tries |-> 0, seen |-> Absent, to |-> Absent]
    BY <1>14, <2>1, <2>3 DEF Fresh
  <2>5. m.pc = "run" /\ m.todo = s /\ m.tries = 0 /\ m.seen = Absent /\ m.to = Absent
    BY <2>4
  <2>6. JobOK(m)
    BY <2>2, <2>4, <2>5 DEF JobOK, InHand
  <2> QED BY <2>3, <2>6
<1> QED BY <1>9, <1>10, <1>11, <1>12, <1>13, <1>14, <1>15 DEF RegistryInv, StoresOK

LEMMA StepOutcome ==
  ASSUME RegistryInv, NEW j \in Jobs, Step(j) \/ Stop(j)
  PROVE  Outcome(j)
BY CheckTenantStep, CreateTenantStep, ReadTenantStep, WatchTenantStep, WatchRetireStep, CommitTenantStep,
   PutRoleStep, CreateRoleStep, ReadRoleStep, WatchRoleStep, CommitRoleStep, CheckRolesStep,
   EnsureManagedStep, DeactivateStep, RaiseStep, ReadAudienceStep, ReadOwnerStep, SwapStep, UpsertStep,
   ReadHomeStep, VerifyHomeStep, ListTenantsStep, PutAssignmentStep, DeleteAssignmentStep,
   CheckDependenciesStep, AddRoleStep, EnsureMemberStep, WriteLegacyStep, StopStep
   DEF Step

LEMMA NextRegistry ==
  ASSUME RegistryInv, [RegistryNext]_vars
  PROVE  RegistryInv' /\ TenantsKeep /\ ClientsKeep /\ MembersKeep
<1>1. CASE RegistryNext
  <2>1. PICK j \in Jobs : Step(j) \/ Stop(j)
    BY <1>1 DEF RegistryNext
  <2>2. Writes /\ Moves(j)
    BY <2>1, StepOutcome DEF Outcome
  <2>3. StoresOK' /\ TenantsKeep /\ ClientsKeep /\ MembersKeep /\ RolesStay
    BY <2>2 DEF Writes
  <2>4. (job = [q \in Jobs |-> job[q]] /\ \A q \in Jobs : JobOK(job[q]))'
    BY <2>2, <2>3, AllJobs
  <2> QED BY <2>3, <2>4 DEF RegistryInv
<1>2. CASE UNCHANGED vars
  <2>1. UNCHANGED <<tenant, role, clients, people>> /\ job' = job
    BY <1>2 DEF vars
  <2>2. Writes
    BY <2>1, NothingWritten DEF RegistryInv
  <2>3. StoresOK' /\ TenantsKeep /\ ClientsKeep /\ MembersKeep /\ RolesStay
    BY <2>2 DEF Writes
  <2>4. ASSUME NEW q \in Jobs PROVE JobOK(job[q])'
    <3>1. PICK w : w = job[q]
      OBVIOUS
    <3>2. JobOK(w)'
      BY <2>3, <3>1, JobStays DEF RegistryInv
    <3> QED BY <2>1, <3>1, <3>2
  <2> QED BY <2>1, <2>3, <2>4 DEF RegistryInv
<1> QED BY <1>1, <1>2

(* Whatever order the commands of any number of jobs take, the stores are    *)
(* typed and sound, every job holds what it read, and what is left of every  *)
(* program is in order.                                                      *)
THEOREM RegistryInvariant == Spec => []RegistryInv
<1>1. RegistryInit => RegistryInv
  BY InitRegistry
<1>2. RegistryInv /\ [RegistryNext]_vars => RegistryInv'
  BY NextRegistry
<1> QED BY <1>1, <1>2, PTL DEF Spec

(* No owned client is ever separated from its marker, nor a v2 membership    *)
(* from its legacy copy (managedClientGetScript, membershipV2EnsureScript).  *)
THEOREM OwnedStayPaired == Spec => []OwnedRecordsPaired
<1>1. RegistryInv => OwnedRecordsPaired
  BY DEF RegistryInv, StoresOK
<1> QED BY <1>1, RegistryInvariant, PTL

(* The Console ceiling of a tenant holds the last declaration and every      *)
(* raise since, whoever else wrote it                                        *)
(* (RaiseManagedCodeAdminAudienceScopes, ReconcileCodeAdminAudienceScopes).  *)
THEOREM ReportedScopesKept == Spec => []NoReportedScopeLost
<1>1. RegistryInv => NoReportedScopeLost
  BY DEF RegistryInv, StoresOK
<1> QED BY <1>1, RegistryInvariant, PTL

(* An active AI audience has its two roles, and every role that an           *)
(* assignment or a membership names is defined, wherever a job stopped       *)
(* (aiGatewayIdentityService.Ensure, PutAssignment, AddExactUserRole).       *)
THEOREM RolesComeFirst == Spec => []RolesBeforeUse
<1>1. RegistryInv => RolesBeforeUse
  BY DEF RegistryInv, StoresOK
<1> QED BY <1>1, RegistryInvariant, PTL

(* What is decided of a tenant, an owned client, a client with a secret and  *)
(* a v2 membership stands (tenantRepo.Create, CreateIfAbsent, Retire, the    *)
(* compare-and-set scripts, membershipV2EnsureScript).                       *)
THEOREM StandingIsKept == Spec => RecordsKeepStanding
<1>1. RegistryInv /\ [RegistryNext]_vars => TenantsKeep /\ ClientsKeep /\ MembersKeep
  BY NextRegistry
<1>2. RegistryInv /\ [RegistryNext]_vars =>
        [/\ \A t \in Tenants : tenant[t] # Absent =>
              /\ tenant'[t] # Absent /\ tenant'[t].created = tenant[t].created
              /\ tenant[t].status = "DISABLED" => tenant'[t].status = "DISABLED"
              /\ tenant[t].retired => tenant'[t] = tenant[t]
         /\ \A k \in Tenants \X ClientIds :
              /\ marker[k] # Absent => marker'[k] # Absent /\ marker'[k].owner = marker[k].owner
              /\ client[k] # Absent /\ client[k].secret =>
                   client'[k] = client[k] \/ BootstrapHome(client'[k])
         /\ \A k \in Tenants \X Users : member[k] # Absent => member'[k] = member[k]]_vars
  BY <1>1 DEF TenantsKeep, ClientsKeep, MembersKeep
<1> QED BY <1>2, RegistryInvariant, PTL DEF Spec, RecordsKeepStanding
=============================================================================
