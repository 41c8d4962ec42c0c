-------------------------- MODULE AccessGraphProofs --------------------------
(***************************************************************************)
(* The directory of AccessGraph.tla stays consistent, for every number of  *)
(* users, groups, tenants and concurrent requests.                         *)
(*                                                                         *)
(* The argument is that of optimistic locking.  A request that is past its *)
(* WATCH and not disturbed holds payloads computed from a state that still *)
(* stands (Fresh), because whatever it read lies under a key it watches    *)
(* (Written, UndisturbedStaysFresh).  An EXEC that succeeds is therefore   *)
(* one atomic change of the state it read, and each of those changes both  *)
(* copies of its relation.  CreateGroup, which has no WATCH, is safe       *)
(* because its group id is new and the name key is its own (Reserving).    *)
(***************************************************************************)
EXTENDS AccessGraph, FiniteSetTheorems, TLAPS

WatchOps == {"patchGroup", "deleteGroup", "putMember", "deleteMember", "putAssignment",
             "deleteAssignment", "addExactRole", "selfDelete", "adminDelete"}

\* What the fields of a request are, by its operation.
Shape(c) ==
    /\ c.pc = "watched" => c.op \in WatchOps
    /\ c.pc \in {"reserved", "undo"} <=> c.op = "createGroup"
    /\ c.op = "createGroup" => c.id \in Groups /\ c.name \in Names
    /\ c.op \in {"patchGroup", "deleteGroup", "putMember", "deleteMember"} => c.id \in Groups
    /\ c.op \in {"putMember", "deleteMember"} => c.user \in Users
    /\ c.op \in {"putAssignment", "addExactRole", "deleteAssignment"} =>
           c.id \in Principals /\ c.tenant \in Tenants
    /\ c.op \in {"putAssignment", "addExactRole"} => c.roles # {}
    /\ c.op = "addExactRole" => c.etag \in Nat \cup {NoETag}
    /\ c.op \in {"selfDelete", "adminDelete", "effectiveRoles"} => c.id \in Users
    /\ c.op = "effectiveRoles" => c.tenant \in Tenants

\* The payloads of a request are what its reads would give it now.
FreshPatch(c) ==
    /\ groups[c.id] # NoGroup
    /\ c.old = groups[c.id].name
    /\ c.plan[c.id] = Patched(c, groups[c.id])
    /\ c.plan[c.id].name # c.old => NameAvailable(c.plan[c.id].name, c.id)

FreshDelete(c) ==
    /\ groups[c.id] # NoGroup
    /\ c.old = groups[c.id].name
    /\ c.links = members[c.id]
    /\ c.tenants = principalTenants[c.id]

FreshMember(c) ==
    /\ groups[c.id] # NoGroup
    /\ c.plan[c.id] = [groups[c.id] EXCEPT !.version = @ + 1]
    /\ c.op = "putMember" => c.user \in accounts /\ HasRoom(c.id)

FreshPut(c) ==
    LET current == assignments[c.tenant][c.id] IN
    /\ PrincipalExists(c.id)
    /\ IF current = NoAssignment
       THEN c.entry = [roles |-> c.roles, version |-> 1]
       ELSE /\ c.entry = [roles |-> c.roles, version |-> current.version + 1]
            /\ Matches(c.etag, current.version)

FreshUserDelete(c) ==
    /\ c.links = userGroups[c.id]
    /\ c.tenants = principalTenants[c.id]
    /\ \A g \in c.links : /\ groups[g] # NoGroup
                          /\ c.plan[g] = [groups[g] EXCEPT !.version = @ + 1]

Fresh(c) ==
    /\ c.op = "patchGroup" => FreshPatch(c)
    /\ c.op = "deleteGroup" => FreshDelete(c)
    /\ c.op \in {"putMember", "deleteMember"} => FreshMember(c)
    /\ c.op \in {"putAssignment", "addExactRole"} => FreshPut(c)
    /\ c.op \in {"selfDelete", "adminDelete"} => FreshUserDelete(c)

RequestsFresh == \A p \in Procs : call[p].pc = "watched" /\ ~dirty[p] => Fresh(call[p])

\* A group that is being created has an id nobody else has; while no reply is
\* lost it has no record before its creation ends, and it owns its name key.
Reserving ==
    /\ \A p \in Procs : call[p].op = "createGroup" =>
           /\ call[p].id \in issued
           /\ call[p].pc = "reserved" => groups[call[p].id] = NoGroup
           /\ "lostReply" \notin deployment.clients =>
                  /\ groups[call[p].id] = NoGroup
                  /\ nameOwner[Lower[call[p].name]] = call[p].id
    /\ \A p, q \in Procs : call[p].op = "createGroup" /\ call[q].op = "createGroup"
                              /\ call[p].id = call[q].id => p = q
    /\ \A g \in Groups : groups[g] # NoGroup => g \in issued

USE DEF Reliable

\* Every name key is held by the group of that name, or by the request that
\* reserved it.
NamesHeld ==
    Reliable =>
    \A k \in Keys : nameOwner[k] # NoId =>
        \/ /\ groups[nameOwner[k]] # NoGroup
           /\ Lower[groups[nameOwner[k]].name] = k
        \/ \E p \in Procs : /\ call[p].op = "createGroup"
                            /\ call[p].id = nameOwner[k]
                            /\ Lower[call[p].name] = k

MembersCounted == \A g \in Groups : IsFiniteSet(members[g]) /\ Cardinality(members[g]) <= MaxRelationships

Shapes == \A p \in Procs : Shape(call[p])

Indexed == MembershipIndexed /\ AssignmentsIndexed /\ NamesIndexed

DirectoryInv ==
    /\ TypeOK
    /\ Indexed
    /\ NamesHeld
    /\ MembersCounted
    /\ Shapes
    /\ Reserving
    /\ RequestsFresh

\* Of a request of AddExactUserRole: the assignment it read, while it was never
\* absent, still stands, in a later version if it changed.
AddsInOrder ==
    \A p \in Procs : LET c == call[p] IN
        /\ c.op = "addExactRole" /\ ~window[p].gone =>
               /\ assignments[c.tenant][c.id] # NoAssignment
               /\ c.etag \in Nat
               /\ c.etag <= assignments[c.tenant][c.id].version
               /\ window[p].moved => c.etag < assignments[c.tenant][c.id].version
        /\ c.op = "none" => ~window[p].moved /\ ~window[p].gone

\* Of a reader nothing moved under: what it has collected, and what it still
\* has to read.
ActiveGroups(u, rest) == {g \in userGroups[u] \ rest : groups[g].active}
Collected(u, t, rest) ==
    RolesOf(assignments[t][u]) \cup UNION {RolesOf(assignments[t][g]) : g \in ActiveGroups(u, rest)}

ReadSoFar(c) ==
    /\ c.pc \in {"direct", "groups", "group", "assignment", "answered"}
    /\ c.pc = "groups" => c.roles = RolesOf(assignments[c.tenant][c.id])
    /\ c.pc \in {"group", "assignment", "answered"} =>
           c.links \subseteq userGroups[c.id] /\ c.roles = Collected(c.id, c.tenant, c.links)
    /\ c.pc = "answered" => c.links = {}
    /\ c.pc = "assignment" => \E g \in c.links : c.seen = {g} /\ groups[g].active

ReadsExact ==
    \A p \in Procs : call[p].op = "effectiveRoles" /\ ~window[p].moved => ReadSoFar(call[p])


----------------------------------------------------------------------------
(* Requests *)

LEMMA IdleIsCall == Idle \in Call /\ Shape(Idle) /\ Idle.op = "none" /\ Idle.pc = "idle"
<1>1. NoPlan \in [Groups -> Group \cup {NoGroup}]
  BY DEF NoPlan
<1>2. Idle \in Call
  BY <1>1, AccessAssumption DEF Idle, Call, OpNames
<1>3. Shape(Idle) /\ Idle.op = "none" /\ Idle.pc = "idle"
  BY DEF Idle, Shape, WatchOps
<1> QED BY <1>2, <1>3

\* A request whose fields, apart from pc and the payloads, are those of another.
LEMMA SameShape ==
    ASSUME NEW c, NEW n, Shape(c),
           /\ n.op = c.op /\ n.id = c.id /\ n.user = c.user /\ n.tenant = c.tenant
           /\ n.name = c.name /\ n.etag = c.etag,
           n.roles = c.roles \/ c.op = "effectiveRoles",
           n.pc = "watched" => c.op \in WatchOps,
           n.pc \in {"reserved", "undo"} <=> c.op = "createGroup"
    PROVE  Shape(n)
BY DEF Shape

LEMMA ResetCall ==
    ASSUME NEW c \in Call, NEW plan \in [Groups -> Group \cup {NoGroup}], NEW k \in Nat
    PROVE  LET n == [c EXCEPT !.pc = "prepared", !.attempt = k, !.plan = plan,
                              !.entry = NoAssignment, !.links = {}, !.tenants = {},
                              !.seen = {}, !.seenTenants = {}]
           IN  /\ n \in Call /\ n.pc = "prepared" /\ n.op = c.op /\ n.id = c.id /\ n.user = c.user
               /\ n.tenant = c.tenant /\ n.name = c.name /\ n.roles = c.roles /\ n.etag = c.etag
<1> DEFINE n == [c EXCEPT !.pc = "prepared", !.attempt = k, !.plan = plan,
                          !.entry = NoAssignment, !.links = {}, !.tenants = {},
                          !.seen = {}, !.seenTenants = {}]
<1>1. n \in Call
  BY DEF Call
<1>2. n.pc = "prepared" /\ n.op = c.op /\ n.id = c.id /\ n.user = c.user
  BY DEF Call
<1>3. n.tenant = c.tenant /\ n.name = c.name /\ n.roles = c.roles /\ n.etag = c.etag
  BY DEF Call
<1> QED BY <1>1, <1>2, <1>3

LEMMA AgainIsCall ==
    ASSUME NEW c \in Call, Shape(c), c.pc = "watched"
    PROVE  /\ Again(c) \in Call /\ Shape(Again(c)) /\ Again(c).pc \in {"prepared", "idle"}
           /\ Again(c).op \in {c.op, "none"}
           /\ Again(c).op = c.op => /\ Again(c).id = c.id /\ Again(c).tenant = c.tenant
                                    /\ Again(c).etag = c.etag
<1>1. CASE c.attempt + 1 < MaxRetries
  <2>1. NoPlan \in [Groups -> Group \cup {NoGroup}] /\ c.attempt + 1 \in Nat
    BY DEF NoPlan, Call
  <2> DEFINE n == [c EXCEPT !.pc = "prepared", !.attempt = c.attempt + 1, !.plan = NoPlan,
                   !.entry = NoAssignment, !.links = {}, !.tenants = {},
                   !.seen = {}, !.seenTenants = {}]
  <2>2. /\ n \in Call /\ n.pc = "prepared" /\ n.op = c.op /\ n.id = c.id /\ n.user = c.user
        /\ n.tenant = c.tenant /\ n.name = c.name /\ n.roles = c.roles /\ n.etag = c.etag
    BY ZenonT(60), <2>1, ResetCall
  <2>3. Again(c) = n
    BY <1>1 DEF Again
  <2> HIDE DEF n
  <2>4. c.op \in WatchOps /\ c.op # "createGroup"
    BY DEF Shape, WatchOps
  <2>5. Shape(n)
    BY <2>2, <2>4, SameShape
  <2> QED BY <2>2, <2>3, <2>5
<1>2. CASE ~(c.attempt + 1 < MaxRetries)
  <2>1. c.op # "none"
    BY DEF Shape, WatchOps
  <2> QED BY <1>2, <2>1, IdleIsCall DEF Again
<1> QED BY <1>1, <1>2

----------------------------------------------------------------------------
(* WATCH *)

\* A step writes nothing outside the keys K.
Written(K) ==
    /\ UsersKey \notin K => accounts' = accounts
    /\ GroupsKey \notin K => groups' = groups
    /\ \A k \in Keys : NameKey(k) \notin K => nameOwner'[k] = nameOwner[k]
    /\ \A g \in Groups : MembersKey(g) \notin K => members'[g] = members[g]
    /\ \A u \in Users : UserGroupsKey(u) \notin K => userGroups'[u] = userGroups[u]
    /\ \A t \in Tenants : AssignmentsKey(t) \notin K => assignments'[t] = assignments[t]
    /\ \A pr \in Principals : TenantsKey(pr) \notin K => principalTenants'[pr] = principalTenants[pr]

\* What a request computed its payloads from lies under the keys it watches.
LEMMA UndisturbedStaysFresh ==
    ASSUME TypeOK, NEW c \in Call, c.pc = "watched", Shape(c), Fresh(c),
           NEW K, Written(K), Watching(c) \cap K = {}, UNCHANGED deployment
    PROVE  Fresh(c)'
<1>1. CASE c.op = "patchGroup"
  <2>1. Watching(c) = PatchWatch(c)
    BY <1>1 DEF Watching
  <2>2. GroupsKey \notin K /\ (c.name # NoName => NameKey(Lower[c.name]) \notin K)
    BY <2>1 DEF PatchWatch
  <2>3. FreshPatch(c) /\ groups' = groups /\ c.id \in Groups
    BY <1>1, <2>2 DEF Fresh, Written, Shape
  <2>4. ASSUME c.plan[c.id].name # c.old
        PROVE  NameAvailable(c.plan[c.id].name, c.id)'
    <3>1. c.plan[c.id].name = IF c.name = NoName THEN c.old ELSE c.name
      BY <2>3 DEF FreshPatch, Patched
    <3>2. c.name # NoName /\ c.plan[c.id].name = c.name /\ c.name \in Names
      BY <3>1, <2>4 DEF Call
    <3>3. Lower[c.name] \in Keys
      BY <3>2, AccessAssumption
    <3>4. nameOwner'[Lower[c.name]] = nameOwner[Lower[c.name]]
      BY <3>2, <3>3, <2>2 DEF Written
    <3> QED BY <2>3, <2>4, <3>2, <3>4 DEF FreshPatch, NameAvailable
  <2>5. FreshPatch(c)'
    BY <2>3, <2>4 DEF FreshPatch, Patched
  <2> QED BY <1>1, <2>5 DEF Fresh
<1>2. CASE c.op = "deleteGroup"
  <2>1. Watching(c) = DeleteGroupWatch(c)
    BY <1>2 DEF Watching
  <2>2. GroupsKey \notin K /\ MembersKey(c.id) \notin K /\ TenantsKey(c.id) \notin K
    BY <2>1 DEF DeleteGroupWatch
  <2>3. c.id \in Groups /\ c.id \in Principals
    BY <1>2 DEF Shape, Principals
  <2>4. FreshDelete(c)'
    BY <1>2, <2>2, <2>3 DEF Fresh, FreshDelete, Written
  <2> QED BY <1>2, <2>4 DEF Fresh
<1>3. CASE c.op \in {"putMember", "deleteMember"}
  <2>1. Watching(c) = MemberWatch(c)
    BY <1>3 DEF Watching
  <2>2. GroupsKey \notin K /\ MembersKey(c.id) \notin K /\ UsersKey \notin K
    BY <2>1 DEF MemberWatch
  <2>3. c.id \in Groups
    BY <1>3 DEF Shape
  <2>4. FreshMember(c)'
    BY <1>3, <2>2, <2>3 DEF Fresh, FreshMember, Written, HasRoom, MaxRelationships
  <2> QED BY <1>3, <2>4 DEF Fresh
<1>4. CASE c.op \in {"putAssignment", "addExactRole"}
  <2>1. Watching(c) = PutAssignmentWatch(c)
    BY <1>4 DEF Watching
  <2>2. /\ c.id \in Users => UsersKey \notin K
        /\ c.id \notin Users => GroupsKey \notin K
        /\ AssignmentsKey(c.tenant) \notin K
    BY <2>1 DEF PutAssignmentWatch
  <2>3. c.tenant \in Tenants
    BY <1>4 DEF Shape
  <2>4. FreshPut(c)'
    BY <1>4, <2>2, <2>3 DEF Fresh, FreshPut, Written, PrincipalExists
  <2> QED BY <1>4, <2>4 DEF Fresh
<1>5. CASE c.op \in {"selfDelete", "adminDelete"}
  <2>1. Watching(c) = UserDeleteWatch(c)
    BY <1>5 DEF Watching
  <2>2. GroupsKey \notin K /\ UserGroupsKey(c.id) \notin K /\ TenantsKey(c.id) \notin K
    BY <2>1 DEF UserDeleteWatch
  <2>3. c.id \in Users /\ c.id \in Principals
    BY <1>5 DEF Shape, Principals
  <2>4. FreshUserDelete(c)'
    BY <1>5, <2>2, <2>3 DEF Fresh, FreshUserDelete, Written
  <2> QED BY <1>5, <2>4 DEF Fresh
<1> QED BY <1>1, <1>2, <1>3, <1>4, <1>5 DEF Fresh

\* The requests after a step that writes the keys K.
RequestTypeOK ==
    /\ call \in [Procs -> Call]
    /\ dirty \in [Procs -> BOOLEAN]
    /\ window \in [Procs -> [moved: BOOLEAN, gone: BOOLEAN]]

LEMMA WindowType ==
    ASSUME TypeOK, Observe
    PROVE  window' \in [Procs -> [moved: BOOLEAN, gone: BOOLEAN]]
<1>1. ASSUME NEW p \in Procs
      PROVE  window'[p] \in [moved: BOOLEAN, gone: BOOLEAN]
  BY DEF Observe, Closed, TypeOK
<1>2. window' = [p \in Procs |-> window'[p]]
  BY DEF Observe
<1> QED BY <1>1, <1>2

LEMMA WritesKeepRequests ==
    ASSUME TypeOK, Shapes, RequestsFresh, NEW K, NEW self, Touch(self, K), Written(K), Observe,
           call' \in [Procs -> Call],
           \A q \in Procs : \/ call'[q] = call[q] /\ q \notin self
                            \/ Shape(call'[q]) /\ call'[q].pc # "watched"
    PROVE  RequestTypeOK' /\ Shapes' /\ RequestsFresh'
<1>1. dirty' \in [Procs -> BOOLEAN]
  BY DEF Touch
<1>2. RequestTypeOK'
  BY <1>1, WindowType DEF RequestTypeOK
<1>3. Shapes'
  BY DEF Shapes, Shape
<1>4. ASSUME NEW q \in Procs, call'[q].pc = "watched", ~dirty'[q]
      PROVE  Fresh(call[q])'
  <2>1. call'[q] = call[q] /\ q \notin self
    BY <1>4
  <2>2. ~dirty[q] /\ Watching(call[q]) \cap K = {}
    BY <1>4, <2>1 DEF Touch
  <2>3. Fresh(call[q]) /\ Shape(call[q]) /\ call[q] \in Call /\ call[q].pc = "watched"
    BY <1>4, <2>1, <2>2 DEF RequestsFresh, Shapes, TypeOK
  <2>4. PICK c : c = call[q]
    OBVIOUS
  <2>5. Fresh(c)'
    BY <2>2, <2>3, <2>4, UndisturbedStaysFresh DEF Observe
  <2>6. c = call'[q]
    BY <2>1, <2>4
  <2> QED BY <2>5, <2>6 DEF Fresh, FreshPatch, FreshDelete, FreshMember, FreshPut, FreshUserDelete
<1> QED BY <1>2, <1>3, <1>4 DEF RequestsFresh

----------------------------------------------------------------------------
(* Steps that write nothing *)

\* One request goes on, and what it goes on with is fresh.
LEMMA QuietStep ==
    ASSUME DirectoryInv, NEW p \in Procs, NEW n \in Call, Shape(n),
           Goes(p, n), UNCHANGED <<graph, issued>>, Observe,
           dirty' = dirty \/ dirty' = [dirty EXCEPT ![p] = FALSE],
           n.pc = "watched" => Fresh(n),
           n.op # "createGroup",
           call[p].op = "createGroup" => ~Reliable
    PROVE  DirectoryInv'
<1> USE DEF DirectoryInv
<1>1. /\ accounts' = accounts /\ groups' = groups /\ nameOwner' = nameOwner /\ order' = order
      /\ members' = members /\ userGroups' = userGroups /\ assignments' = assignments
      /\ principalTenants' = principalTenants /\ issued' = issued /\ deployment' = deployment
  BY DEF graph, groupStore, memberStore, assignmentStore, Observe
<1>2. call' \in [Procs -> Call] /\ call'[p] = n /\ \A q \in Procs : q # p => call'[q] = call[q]
  BY DEF TypeOK, Goes
<1>3. dirty' \in [Procs -> BOOLEAN] /\ \A q \in Procs : q # p => dirty'[q] = dirty[q]
  BY DEF TypeOK
<1>4. TypeOK'
  BY <1>1, <1>2, <1>3, WindowType DEF TypeOK
<1>5. Indexed' /\ MembersCounted'
  BY <1>1 DEF Indexed, MembershipIndexed, AssignmentsIndexed, NamesIndexed, PrincipalExists,
              MembersCounted, MaxRelationships
<1>6. NamesHeld'
  BY <1>1, <1>2 DEF NamesHeld
<1>7. Shapes'
  <2>1. ASSUME NEW q \in Procs PROVE Shape(call[q])'
    BY <1>2 DEF Shapes, Shape
  <2> QED BY <2>1 DEF Shapes
<1>8. Reserving'
  BY <1>1, <1>2 DEF Reserving
<1>9. RequestsFresh'
  <2>1. ASSUME NEW q \in Procs, call'[q].pc = "watched", ~dirty'[q]
        PROVE  Fresh(call[q])'
    <3>1. Fresh(call'[q])
      BY <2>1, <1>2, <1>3 DEF RequestsFresh
    <3> QED BY <3>1, <1>1 DEF Fresh, FreshPatch, FreshDelete, FreshMember, FreshPut,
                             FreshUserDelete, NameAvailable, HasRoom, MaxRelationships,
                             PrincipalExists
  <2> QED BY SMTT(60), <2>1 DEF RequestsFresh
<1> QED BY <1>4, <1>5, <1>6, <1>7, <1>8, <1>9

\* A step of nobody.
LEMMA StutterStep ==
    ASSUME DirectoryInv, UNCHANGED vars
    PROVE  DirectoryInv'
<1>1. /\ accounts' = accounts /\ groups' = groups /\ nameOwner' = nameOwner /\ order' = order
      /\ members' = members /\ userGroups' = userGroups /\ assignments' = assignments
      /\ principalTenants' = principalTenants /\ issued' = issued /\ deployment' = deployment
      /\ call' = call /\ dirty' = dirty /\ window' = window
  BY DEF vars, graph, groupStore, memberStore, assignmentStore
<1>2. TypeOK'
  BY <1>1 DEF TypeOK, DirectoryInv
<1>3. Indexed' /\ MembersCounted'
  BY <1>1 DEF Indexed, MembershipIndexed, AssignmentsIndexed, NamesIndexed, PrincipalExists,
              MembersCounted, MaxRelationships, DirectoryInv
<1>4. NamesHeld' /\ Reserving'
  BY <1>1 DEF NamesHeld, Reserving, DirectoryInv
<1>5. Shapes'
  BY SMTT(60), <1>1 DEF Shapes, Shape, DirectoryInv
<1>6. RequestsFresh'
  BY <1>1 DEF RequestsFresh, Fresh, FreshPatch, FreshDelete, FreshMember, FreshPut,
              FreshUserDelete, NameAvailable, HasRoom, MaxRelationships,
              PrincipalExists, DirectoryInv
<1> QED BY <1>2, <1>3, <1>4, <1>5, <1>6 DEF DirectoryInv

LEMMA ReturnsStep ==
    ASSUME DirectoryInv, NEW p \in Procs, Returns(p), call[p].op # "createGroup"
    PROVE  DirectoryInv'
<1>1. Goes(p, Idle) /\ UNCHANGED <<graph, issued>> /\ dirty' = dirty /\ Observe
  BY DEF Returns, Finish
<1> QED BY <1>1, QuietStep, IdleIsCall

LEMMA WatchesStep ==
    ASSUME DirectoryInv, NEW p \in Procs, call[p].op # "createGroup",
           NEW c \in Call, Watches(p, c), Shape(c), c.op \in WatchOps,
           Fresh([c EXCEPT !.pc = "watched"])
    PROVE  DirectoryInv'
<1> DEFINE n == [c EXCEPT !.pc = "watched"]
<1>1. n \in Call /\ n.pc = "watched" /\ n.op = c.op /\ n.id = c.id /\ n.user = c.user
  BY DEF Call
<1>2. n.tenant = c.tenant /\ n.name = c.name /\ n.roles = c.roles /\ n.etag = c.etag
  BY DEF Call
<1>3. Goes(p, n) /\ UNCHANGED <<graph, issued>> /\ dirty' = dirty /\ Observe
  BY DEF Watches
<1> HIDE DEF n
<1>4. n.op # "createGroup" /\ Shape(n)
  BY <1>1, <1>2, SameShape DEF WatchOps
<1> QED BY <1>1, <1>3, <1>4, QuietStep DEF n

LEMMA ExecFailsStep ==
    ASSUME DirectoryInv, NEW p \in Procs, ExecFails(p)
    PROVE  DirectoryInv'
<1>1. call[p] \in Call /\ Shape(call[p]) /\ call[p].pc = "watched"
  BY DEF DirectoryInv, TypeOK, Shapes, ExecFails
<1>2. call[p].op # "createGroup"
  BY <1>1 DEF Shape, WatchOps
<1>3. /\ Goes(p, Again(call[p])) /\ UNCHANGED <<graph, issued>> /\ Observe
      /\ dirty' = [dirty EXCEPT ![p] = FALSE]
  BY DEF ExecFails
<1>4. PICK n : n = Again(call[p])
  OBVIOUS
<1>5. n \in Call /\ Shape(n) /\ n.pc # "watched" /\ n.op # "createGroup"
  BY <1>1, <1>2, <1>4, AgainIsCall
<1> QED BY <1>2, <1>3, <1>4, <1>5, QuietStep

LEMMA CrashStep ==
    ASSUME DirectoryInv, NEW p \in Procs, Crash(p)
    PROVE  DirectoryInv'
<1>1. /\ Goes(p, Idle) /\ UNCHANGED <<graph, issued>> /\ Observe
      /\ dirty' = [dirty EXCEPT ![p] = FALSE] /\ "crash" \in deployment.clients
  BY DEF Crash, Finish
<1> QED BY <1>1, QuietStep, IdleIsCall

----------------------------------------------------------------------------
(* WATCH and the reads behind it *)

\* A request of operation "op".
IsRequest(c, op) == c \in Call /\ Shape(c) /\ c.op = op

LEMMA PendingRequest ==
    ASSUME DirectoryInv, NEW p \in Procs, NEW op \in WatchOps, NEW fresh,
           \A c \in fresh : IsRequest(c, op),
           NEW c \in Pending(p, op, fresh)
    PROVE  IsRequest(c, op) /\ call[p].op # "createGroup"
<1>1. call[p] \in Call /\ Shape(call[p])
  BY DEF DirectoryInv, TypeOK, Shapes
<1>2. CASE Starts(p, op)
  BY <1>2, IdleIsCall DEF Pending, Starts
<1>3. CASE ~Starts(p, op)
  <2>1. c = call[p] /\ call[p].op = op
    BY <1>3 DEF Pending
  <2> QED BY <2>1, <1>1 DEF IsRequest, WatchOps
<1> QED BY <1>2, <1>3

LEMMA DeploymentTyped ==
    ASSUME DirectoryInv
    PROVE  /\ deployment.names \subseteq Names
           /\ deployment.etags \subseteq Nat \cup {AnyETag, NoETag}
           /\ deployment.limit \in Nat
BY DEF DirectoryInv, TypeOK, Deployment

LEMMA PatchRequestTyped ==
    ASSUME NEW g \in Groups, NEW n \in Names \cup {NoName}, NEW a \in BOOLEAN,
           NEW e \in Nat \cup {AnyETag, NoETag}, NEW i \in Call
    PROVE  [i EXCEPT !.op = "patchGroup", !.id = g, !.name = n, !.active = a, !.etag = e] \in Call
BY ZenonT(60) DEF Call, Principals, OpNames

LEMMA RequestsTyped ==
    ASSUME DirectoryInv
    PROVE  /\ \A c \in PatchRequests : IsRequest(c, "patchGroup")
           /\ \A c \in DeleteGroupRequests : IsRequest(c, "deleteGroup")
           /\ \A op \in {"putMember", "deleteMember"} :
                  \A c \in MemberRequests(op) : IsRequest(c, op)
           /\ \A c \in PutRequests : IsRequest(c, "putAssignment")
           /\ \A c \in DropRequests : IsRequest(c, "deleteAssignment")
           /\ \A op \in {"selfDelete", "adminDelete"} :
                  \A c \in DeleteRequests(op) : IsRequest(c, op)
<1>0. /\ Idle \in Call /\ Idle.pc = "idle"
      /\ deployment.names \subseteq Names
      /\ deployment.etags \subseteq Nat \cup {AnyETag, NoETag}
  BY IdleIsCall, DeploymentTyped
<1>1. ASSUME NEW c \in PatchRequests PROVE IsRequest(c, "patchGroup")
  <2>1. PICK g \in Groups, n \in deployment.names \cup {NoName}, a \in BOOLEAN, e \in deployment.etags :
            c = PatchRequest(g, n, a, e)
    BY DEF PatchRequests
  <2> DEFINE m == PatchRequest(g, n, a, e)
  <2>0. e \in Nat \cup {AnyETag, NoETag} /\ n \in Names \cup {NoName} /\ g \in Principals \cup {NoId}
    BY <1>0 DEF Principals
  <2>3. m \in Call
    BY <2>0, <1>0, PatchRequestTyped DEF PatchRequest
  <2>2. m \in Call /\ m.op = "patchGroup" /\ m.id = g /\ m.pc = "idle"
    BY <2>3, <1>0 DEF PatchRequest, Call
  <2> QED BY <2>1, <2>2 DEF IsRequest, Shape
<1>2. ASSUME NEW c \in DeleteGroupRequests PROVE IsRequest(c, "deleteGroup")
  <2>1. PICK g \in Groups, e \in deployment.etags : c = DeleteGroupRequest(g, e)
    BY DEF DeleteGroupRequests
  <2> DEFINE m == DeleteGroupRequest(g, e)
  <2>2. m \in Call /\ m.op = "deleteGroup" /\ m.id = g /\ m.pc = "idle"
    BY ZenonT(60), <1>0 DEF DeleteGroupRequest, Call, Principals, OpNames
  <2> QED BY <2>1, <2>2 DEF IsRequest, Shape
<1>3. ASSUME NEW op \in {"putMember", "deleteMember"}, NEW c \in MemberRequests(op)
      PROVE  IsRequest(c, op)
  <2>1. PICK g \in Groups, u \in Users, e \in deployment.etags : c = MemberRequest(op, g, u, e)
    BY DEF MemberRequests
  <2> DEFINE m == MemberRequest(op, g, u, e)
  <2>0. e \in Nat \cup {AnyETag, NoETag} /\ g \in Principals \cup {NoId}
    BY <1>0 DEF Principals
  <2>3. m \in Call
    BY ZenonT(60), <2>0, <1>0 DEF MemberRequest, Call, OpNames
  <2>2. m \in Call /\ m.op = op /\ m.id = g /\ m.user = u /\ m.pc = "idle"
    BY <2>3, <1>0 DEF MemberRequest, Call
  <2> QED BY <2>1, <2>2 DEF IsRequest, Shape
<1>4. ASSUME NEW c \in PutRequests PROVE IsRequest(c, "putAssignment")
  <2>1. PICK pr \in Principals, t \in Tenants, rs \in (SUBSET Roles) \ {{}}, e \in deployment.etags :
            c = PutRequest(pr, t, rs, e)
    BY DEF PutRequests
  <2> DEFINE m == PutRequest(pr, t, rs, e)
  <2>0. e \in Nat \cup {AnyETag, NoETag} /\ rs \in SUBSET Roles
    BY <1>0
  <2>3. m \in Call
    BY <2>0, <1>0 DEF PutRequest, Call, OpNames
  <2>2. m \in Call /\ m.op = "putAssignment" /\ m.id = pr /\ m.tenant = t /\ m.roles = rs /\ m.pc = "idle"
    BY <2>3, <1>0 DEF PutRequest, Call
  <2> QED BY <2>1, <2>2 DEF IsRequest, Shape
<1>5. ASSUME NEW c \in DropRequests PROVE IsRequest(c, "deleteAssignment")
  <2>1. PICK pr \in Principals, t \in Tenants, e \in deployment.etags : c = DropRequest(pr, t, e)
    BY DEF DropRequests
  <2> DEFINE m == DropRequest(pr, t, e)
  <2>2. m \in Call /\ m.op = "deleteAssignment" /\ m.id = pr /\ m.tenant = t /\ m.pc = "idle"
    BY ZenonT(60), <1>0 DEF DropRequest, Call, OpNames
  <2> QED BY <2>1, <2>2 DEF IsRequest, Shape
<1>6. ASSUME NEW op \in {"selfDelete", "adminDelete"}, NEW c \in DeleteRequests(op)
      PROVE  IsRequest(c, op)
  <2>1. PICK u \in Users : c = [Idle EXCEPT !.op = op, !.id = u]
    BY DEF DeleteRequests
  <2>2. c \in Call /\ c.op = op /\ c.id = u /\ c.pc = "idle"
    BY <2>1, <1>0 DEF Call, Principals, OpNames
  <2> QED BY <2>2 DEF IsRequest, Shape
<1> QED BY <1>1, <1>2, <1>3, <1>4, <1>5, <1>6

LEMMA WatchPatchStep ==
    ASSUME DirectoryInv, NEW p \in Procs, NEW c, IsRequest(c, "patchGroup"),
           call[p].op # "createGroup", WatchPatch(p, c)
    PROVE  DirectoryInv'
<1> DEFINE r == groups[c.id]
           new == Patched(c, r)
           m == [c EXCEPT !.old = r.name, !.plan[c.id] = new]
           n == [m EXCEPT !.pc = "watched"]
<1>1. CASE Returns(p)
  BY <1>1, ReturnsStep
<1>2. CASE /\ r # NoGroup /\ Watches(p, m)
           /\ new.name # r.name => NameAvailable(new.name, c.id)
  <2>1. c \in Call /\ c.op = "patchGroup" /\ c.id \in Groups /\ Shape(c)
    BY DEF IsRequest, Shape
  <2>2. r \in Group /\ r.name \in Names /\ r.version \in Nat
    BY <2>1, <1>2 DEF DirectoryInv, TypeOK, Group
  <2>3. new \in Group
    BY <2>1, <2>2 DEF Patched, Group, Call
  <2>4. /\ m \in Call /\ m.op = c.op /\ m.id = c.id /\ m.user = c.user /\ m.pc = c.pc
    <3> HIDE DEF new
    <3>1. [c.plan EXCEPT ![c.id] = new] \in [Groups -> Group \cup {NoGroup}]
      BY <2>1, <2>3 DEF Call
    <3> QED BY <2>1, <2>2, <2>3, <3>1 DEF Call
  <2>5. /\ m.tenant = c.tenant /\ m.name = c.name /\ m.roles = c.roles /\ m.etag = c.etag
        /\ m.active = c.active /\ m.old = r.name
    <3> HIDE DEF new
    <3> QED BY <2>1 DEF Call
  <2>6. m.plan[c.id] = new
    <3> HIDE DEF new
    <3> QED BY <2>1 DEF Call
  <2>7. Shape(m)
    <3> HIDE DEF m
    <3> QED BY <2>1, <2>4, <2>5, SameShape DEF Shape
  <2>8. /\ n.op = c.op /\ n.id = c.id /\ n.name = c.name /\ n.active = c.active
        /\ n.old = r.name /\ n.plan[c.id] = new
    <3> HIDE DEF m
    <3> QED BY <2>4, <2>5, <2>6 DEF Call
  <2>9. Fresh(n)
    <3> HIDE DEF n, m
    <3>1. Patched(n, r) = new
      BY <2>8 DEF Patched
    <3> HIDE DEF new
    <3> QED BY <2>1, <2>8, <3>1, <1>2 DEF Fresh, FreshPatch
  <2> HIDE DEF m
  <2> QED BY <2>1, <2>4, <2>7, <2>9, <1>2, WatchesStep DEF WatchOps
<1> QED BY <1>1, <1>2 DEF WatchPatch

LEMMA WatchDeleteGroupStep ==
    ASSUME DirectoryInv, NEW p \in Procs, NEW c, IsRequest(c, "deleteGroup"),
           call[p].op # "createGroup", WatchDeleteGroup(p, c)
    PROVE  DirectoryInv'
<1> DEFINE m == [c EXCEPT !.old = groups[c.id].name, !.links = members[c.id],
                          !.tenants = principalTenants[c.id]]
           n == [m EXCEPT !.pc = "watched"]
<1>1. CASE Returns(p)
  BY <1>1, ReturnsStep
<1>2. CASE groups[c.id] # NoGroup /\ Watches(p, m)
  <2>1. c \in Call /\ c.op = "deleteGroup" /\ c.id \in Groups /\ Shape(c)
    BY DEF IsRequest, Shape
  <2>2. /\ groups[c.id].name \in Names /\ members[c.id] \in SUBSET Principals
        /\ principalTenants[c.id] \in SUBSET Tenants
    BY <2>1, <1>2 DEF DirectoryInv, TypeOK, Group, Principals
  <2>3. m \in Call /\ m.op = c.op /\ m.id = c.id /\ m.user = c.user /\ m.pc = c.pc
    BY ZenonT(60), <2>1, <2>2 DEF Call
  <2>4. /\ m.tenant = c.tenant /\ m.name = c.name /\ m.roles = c.roles /\ m.etag = c.etag
    BY <2>1 DEF Call
  <2>5. /\ m.old = groups[c.id].name /\ m.links = members[c.id] /\ m.tenants = principalTenants[c.id]
    BY <2>1 DEF Call
  <2> HIDE DEF m
  <2>6. Shape(m)
    BY <2>1, <2>3, <2>4, SameShape DEF Shape
  <2>7. /\ n.op = m.op /\ n.id = m.id /\ n.old = m.old /\ n.links = m.links /\ n.tenants = m.tenants
    BY <2>3 DEF Call
  <2>8. Fresh(n)
    <3> HIDE DEF n
    <3> QED BY <2>1, <2>3, <2>5, <2>7, <1>2 DEF Fresh, FreshDelete
  <2> QED BY <2>1, <2>3, <2>6, <2>8, <1>2, WatchesStep DEF WatchOps
<1> QED BY <1>1, <1>2 DEF WatchDeleteGroup

LEMMA WatchMemberStep ==
    ASSUME DirectoryInv, NEW p \in Procs, NEW op \in {"putMember", "deleteMember"},
           NEW c, IsRequest(c, op), call[p].op # "createGroup", WatchMember(p, c)
    PROVE  DirectoryInv'
<1> DEFINE r == groups[c.id]
           new == [r EXCEPT !.version = @ + 1]
           m == [c EXCEPT !.plan[c.id] = new]
           n == [m EXCEPT !.pc = "watched"]
<1>1. CASE Returns(p)
  BY <1>1, ReturnsStep
<1>2. CASE /\ r # NoGroup /\ Watches(p, m)
           /\ c.op = "putMember" => c.user \in accounts /\ HasRoom(c.id)
  <2>1. c \in Call /\ c.op = op /\ c.id \in Groups /\ Shape(c)
    BY DEF IsRequest, Shape
  <2>2. r \in Group
    BY <2>1, <1>2 DEF DirectoryInv, TypeOK
  <2>3. new \in Group
    BY <2>2 DEF Group
  <2> HIDE DEF new
  <2>4. [c.plan EXCEPT ![c.id] = new] \in [Groups -> Group \cup {NoGroup}]
    BY <2>1, <2>3 DEF Call
  <2>5. m \in Call /\ m.op = c.op /\ m.id = c.id /\ m.user = c.user /\ m.pc = c.pc
    BY <2>1, <2>4 DEF Call
  <2>6. /\ m.tenant = c.tenant /\ m.name = c.name /\ m.roles = c.roles /\ m.etag = c.etag
        /\ m.plan[c.id] = new
    BY <2>1 DEF Call
  <2> HIDE DEF m
  <2>7. Shape(m)
    BY <2>1, <2>5, <2>6, SameShape DEF Shape
  <2>8. n.op = m.op /\ n.id = m.id /\ n.plan[c.id] = m.plan[c.id] /\ n.user = m.user
    BY <2>5 DEF Call
  <2>9. Fresh(n)
    <3> HIDE DEF n
    <3>1. n.op = op /\ n.id = c.id /\ n.user = c.user /\ n.plan[n.id] = new
      BY <2>1, <2>5, <2>6, <2>8
    <3>2. n.plan[n.id] = [groups[n.id] EXCEPT !.version = @ + 1]
      BY <3>1 DEF new
    <3> QED BY <2>1, <3>1, <3>2, <1>2 DEF Fresh, FreshMember
  <2> QED BY <2>1, <2>5, <2>7, <2>9, <1>2, WatchesStep DEF WatchOps
<1> QED BY <1>1, <1>2 DEF WatchMember

LEMMA WatchPutStep ==
    ASSUME DirectoryInv, NEW p \in Procs, NEW op \in {"putAssignment", "addExactRole"},
           NEW c, IsRequest(c, op), call[p].op # "createGroup", WatchPut(p, c)
    PROVE  DirectoryInv'
<1> DEFINE current == assignments[c.tenant][c.id]
           v == IF current = NoAssignment THEN 1 ELSE current.version + 1
           e == [roles |-> c.roles, version |-> v]
           m == [c EXCEPT !.entry = e]
           n == [m EXCEPT !.pc = "watched"]
<1>1. CASE Returns(p)
  BY <1>1, ReturnsStep
<1>2. CASE /\ PrincipalExists(c.id) /\ Watches(p, m)
           /\ current # NoAssignment => Matches(c.etag, current.version)
  <2>1. /\ c \in Call /\ c.op = op /\ c.id \in Principals /\ c.tenant \in Tenants /\ Shape(c)
        /\ c.roles \in (SUBSET Roles) \ {{}}
    BY DEF IsRequest, Shape, Call
  <2>2. v \in Nat \ {0}
    BY <2>1 DEF DirectoryInv, TypeOK, Assignment
  <2>3. e \in Assignment
    BY <2>1, <2>2 DEF Assignment
  <2> HIDE DEF v
  <2>4. m \in Call /\ m.op = c.op /\ m.id = c.id /\ m.user = c.user /\ m.pc = c.pc
    BY <2>1, <2>3 DEF Call
  <2>5. /\ m.tenant = c.tenant /\ m.name = c.name /\ m.roles = c.roles /\ m.etag = c.etag
        /\ m.entry = e
    BY <2>1 DEF Call
  <2> HIDE DEF m
  <2>6. Shape(m)
    BY <2>1, <2>4, <2>5, SameShape DEF Shape
  <2>7. /\ n.op = m.op /\ n.id = m.id /\ n.tenant = m.tenant /\ n.roles = m.roles
        /\ n.etag = m.etag /\ n.entry = m.entry
    BY <2>4 DEF Call
  <2>8. Fresh(n)
    <3> HIDE DEF n
    <3> QED BY <2>1, <2>4, <2>5, <2>7, <1>2 DEF Fresh, FreshPut, v
  <2> QED BY <2>1, <2>4, <2>6, <2>8, <1>2, WatchesStep DEF WatchOps
<1> QED BY <1>1, <1>2 DEF WatchPut

LEMMA WatchDropStep ==
    ASSUME DirectoryInv, NEW p \in Procs, NEW c, IsRequest(c, "deleteAssignment"),
           call[p].op # "createGroup", WatchDrop(p, c)
    PROVE  DirectoryInv'
<1>1. CASE Returns(p)
  BY <1>1, ReturnsStep
<1>2. CASE Watches(p, c)
  <2>1. c \in Call /\ c.op = "deleteAssignment" /\ Shape(c)
    BY DEF IsRequest
  <2>2. [c EXCEPT !.pc = "watched"].op = "deleteAssignment"
    BY <2>1 DEF Call
  <2>3. Fresh([c EXCEPT !.pc = "watched"])
    BY <2>2 DEF Fresh
  <2> QED BY <2>1, <2>3, <1>2, WatchesStep DEF WatchOps
<1> QED BY <1>1, <1>2 DEF WatchDrop

LEMMA ObserveSelfStep ==
    ASSUME DirectoryInv, NEW p \in Procs, NEW c, IsRequest(c, "selfDelete"),
           call[p].op # "createGroup", ObserveSelf(p, c)
    PROVE  DirectoryInv'
<1> DEFINE n == [c EXCEPT !.pc = "observed", !.seen = userGroups[c.id],
                          !.seenTenants = principalTenants[c.id]]
<1>1. CASE Returns(p)
  BY <1>1, ReturnsStep
<1>2. CASE Goes(p, n) /\ UNCHANGED <<graph, issued, dirty>> /\ Observe
  <2>1. c \in Call /\ c.op = "selfDelete" /\ c.id \in Users /\ c.id \in Principals /\ Shape(c)
    BY DEF IsRequest, Shape, Principals
  <2>2. userGroups[c.id] \in SUBSET Groups /\ principalTenants[c.id] \in SUBSET Tenants
    BY <2>1 DEF DirectoryInv, TypeOK
  <2>3. n \in Call /\ n.op = c.op /\ n.id = c.id /\ n.user = c.user /\ n.pc = "observed"
    BY ZenonT(60), <2>1, <2>2 DEF Call
  <2>4. n.tenant = c.tenant /\ n.name = c.name /\ n.roles = c.roles /\ n.etag = c.etag
    BY <2>1 DEF Call
  <2> HIDE DEF n
  <2>5. Shape(n)
    BY <2>1, <2>3, <2>4, SameShape
  <2>6. UNCHANGED <<graph, issued>> /\ dirty' = dirty
    BY <1>2
  <2> QED BY <1>2, <2>1, <2>3, <2>5, <2>6, QuietStep
<1> QED BY <1>1, <1>2 DEF ObserveSelf

\* The payloads of a user's deletion.
LEMMA PlannedFields ==
    ASSUME DirectoryInv, NEW c \in Call, Shape(c), c.op \in {"selfDelete", "adminDelete"},
           GroupsReadable(userGroups[c.id])
    PROVE  LET m == Planned(c) IN
           /\ m \in Call /\ Shape(m) /\ m.op = c.op /\ m.id = c.id
           /\ m.links = userGroups[c.id] /\ m.tenants = principalTenants[c.id]
           /\ \A g \in m.links : /\ groups[g] # NoGroup
                                 /\ m.plan[g] = [groups[g] EXCEPT !.version = @ + 1]
<1> DEFINE gs == userGroups[c.id]
           plan == Advanced(gs)
           m == [c EXCEPT !.plan = plan, !.links = gs, !.tenants = principalTenants[c.id]]
<1>1. c.id \in Users /\ c.id \in Principals
  BY DEF Shape, Principals
<1>2. /\ gs \in SUBSET Groups /\ gs \in SUBSET Principals
      /\ principalTenants[c.id] \in SUBSET Tenants
  BY <1>1 DEF DirectoryInv, TypeOK, Principals
<1>3. \A g \in gs : groups[g] \in Group /\ groups[g] # NoGroup
  BY <1>2 DEF DirectoryInv, TypeOK, GroupsReadable
<1>4. \A g \in gs : [groups[g] EXCEPT !.version = @ + 1] \in Group
  <2>1. ASSUME NEW r \in Group PROVE [r EXCEPT !.version = @ + 1] \in Group
    BY DEF Group
  <2> QED BY <1>3, <2>1
<1>5. plan \in [Groups -> Group \cup {NoGroup}]
  BY <1>4 DEF Advanced
<1>6. \A g \in gs : plan[g] = [groups[g] EXCEPT !.version = @ + 1]
  BY <1>2 DEF Advanced
<1> HIDE DEF plan, gs
<1>7. m \in Call /\ m.op = c.op /\ m.id = c.id /\ m.user = c.user /\ m.pc = c.pc
  BY ZenonT(60), <1>2, <1>5 DEF Call
<1>8. m.tenant = c.tenant /\ m.name = c.name /\ m.roles = c.roles /\ m.etag = c.etag
  BY DEF Call
<1>9. m.plan = plan /\ m.links = gs /\ m.tenants = principalTenants[c.id]
  BY DEF Call
<1>10. Planned(c) = m
  BY DEF Planned, plan, gs
<1> HIDE DEF m
<1>11. Shape(m)
  BY <1>7, <1>8, SameShape DEF Shape
<1>12. \A g \in m.links : /\ groups[g] # NoGroup
                          /\ m.plan[g] = [groups[g] EXCEPT !.version = @ + 1]
  BY <1>3, <1>6, <1>9
<1> QED BY <1>7, <1>9, <1>10, <1>11, <1>12 DEF gs

LEMMA WatchSelfDeleteStep ==
    ASSUME DirectoryInv, NEW p \in Procs, WatchSelfDelete(p)
    PROVE  DirectoryInv'
<1>1. PICK c : c = call[p]
  OBVIOUS
<1>2. c \in Call /\ Shape(c) /\ c.op = "selfDelete"
  BY <1>1 DEF DirectoryInv, TypeOK, Shapes, WatchSelfDelete
<1>3. CASE Returns(p)
  BY <1>1, <1>2, <1>3, ReturnsStep
<1>4. CASE GroupsReadable(userGroups[c.id]) /\ Watches(p, Planned(c))
  <2>1. PICK m : m = Planned(c)
    OBVIOUS
  <2>2. /\ m \in Call /\ Shape(m) /\ m.op = c.op /\ m.id = c.id
        /\ m.links = userGroups[c.id] /\ m.tenants = principalTenants[c.id]
        /\ \A g \in m.links : /\ groups[g] # NoGroup
                              /\ m.plan[g] = [groups[g] EXCEPT !.version = @ + 1]
    BY <1>2, <1>4, <2>1, PlannedFields
  <2> DEFINE n == [m EXCEPT !.pc = "watched"]
  <2>3. n.op = m.op /\ n.id = m.id /\ n.links = m.links /\ n.tenants = m.tenants /\ n.plan = m.plan
    BY <2>2 DEF Call
  <2>4. Fresh(n)
    <3> HIDE DEF n
    <3> QED BY <1>2, <2>2, <2>3 DEF Fresh, FreshUserDelete
  <2> QED BY <1>1, <1>2, <1>4, <2>1, <2>2, <2>4, WatchesStep DEF WatchOps
<1> QED BY <1>1, <1>3, <1>4 DEF WatchSelfDelete

LEMMA WatchAdminDeleteStep ==
    ASSUME DirectoryInv, NEW p \in Procs, NEW c, IsRequest(c, "adminDelete"),
           call[p].op # "createGroup", WatchAdminDelete(p, c)
    PROVE  DirectoryInv'
<1>2. c \in Call /\ Shape(c) /\ c.op = "adminDelete" /\ c.id \in Users
  BY DEF IsRequest, Shape
<1> DEFINE gs == userGroups[c.id]
           ts == principalTenants[c.id]
<1>3. CASE Returns(p)
  BY <1>3, ReturnsStep
<1>4. CASE GroupsReadable(gs) /\ Watches(p, [Planned(c) EXCEPT !.seen = gs, !.seenTenants = ts])
  <2>1. PICK m : m = Planned(c)
    OBVIOUS
  <2>2. /\ m \in Call /\ Shape(m) /\ m.op = c.op /\ m.id = c.id
        /\ m.links = userGroups[c.id] /\ m.tenants = principalTenants[c.id]
        /\ \A g \in m.links : /\ groups[g] # NoGroup
                              /\ m.plan[g] = [groups[g] EXCEPT !.version = @ + 1]
    BY <1>2, <1>4, <2>1, PlannedFields
  <2>3. gs \in SUBSET Groups /\ ts \in SUBSET Tenants
    BY <1>2 DEF DirectoryInv, TypeOK, Principals
  <2> HIDE DEF gs, ts
  <2> DEFINE s == [m EXCEPT !.seen = gs, !.seenTenants = ts]
             n == [s EXCEPT !.pc = "watched"]
  <2>4. s \in Call /\ s.op = m.op /\ s.id = m.id /\ s.user = m.user /\ s.pc = m.pc
    BY ZenonT(60), <2>2, <2>3 DEF Call
  <2>5. s.tenant = m.tenant /\ s.name = m.name /\ s.roles = m.roles /\ s.etag = m.etag
    BY <2>2 DEF Call
  <2>6. s.links = m.links /\ s.tenants = m.tenants /\ s.plan = m.plan
    BY <2>2 DEF Call
  <2>7. Watches(p, s)
    BY <1>4, <2>1
  <2> HIDE DEF s
  <2>8. Shape(s)
    BY <2>2, <2>4, <2>5, SameShape DEF Shape
  <2>9. n.op = s.op /\ n.id = s.id /\ n.links = s.links /\ n.tenants = s.tenants /\ n.plan = s.plan
    BY <2>4 DEF Call
  <2>10. Fresh(n)
    <3> HIDE DEF n
    <3> QED BY <1>2, <2>2, <2>4, <2>6, <2>9 DEF Fresh, FreshUserDelete
  <2> QED BY <1>2, <2>2, <2>4, <2>7, <2>8, <2>10, WatchesStep DEF WatchOps
<1> QED BY <1>3, <1>4 DEF WatchAdminDelete

----------------------------------------------------------------------------
(* Reads without WATCH *)

LEMMA ReadForRoleStep ==
    ASSUME DirectoryInv, NEW p \in Procs, NEW u \in Users, NEW t \in Tenants, NEW r \in Roles,
           ReadForRole(p, u, t, r)
    PROVE  DirectoryInv'
<1> DEFINE current == assignments[t][u]
           rs == RolesOf(current) \cup {r}
           e == IF current = NoAssignment THEN NoETag ELSE current.version
           n == [Idle EXCEPT !.op = "addExactRole", !.pc = "prepared", !.id = u, !.tenant = t,
                             !.roles = rs, !.etag = e]
<1>1. current \in Assignment \cup {NoAssignment} /\ u \in Principals
  BY DEF DirectoryInv, TypeOK, Principals
<1>2. rs \in SUBSET Roles /\ rs # {} /\ e \in Nat \cup {NoETag}
  BY <1>1 DEF RolesOf, Assignment
<1>3. Goes(p, n) /\ UNCHANGED <<graph, issued>> /\ dirty' = dirty /\ Observe /\ call[p] = Idle
  BY DEF ReadForRole, Starts
<1> HIDE DEF rs, e
<1>4. n \in Call
  <2>1. ASSUME NEW i \in Call
        PROVE  [i EXCEPT !.op = "addExactRole", !.pc = "prepared", !.id = u, !.tenant = t,
                         !.roles = rs, !.etag = e] \in Call
    BY ZenonT(60), <1>1, <1>2 DEF Call, OpNames
  <2> QED BY <2>1, IdleIsCall
<1>5. /\ n.op = "addExactRole" /\ n.pc = "prepared" /\ n.id = u /\ n.tenant = t
      /\ n.roles = rs /\ n.etag = e
  BY IdleIsCall DEF Call
<1> HIDE DEF n
<1>6. Shape(n)
  BY <1>1, <1>2, <1>5 DEF Shape
<1> QED BY <1>3, <1>4, <1>5, <1>6, IdleIsCall, QuietStep

\* A reader that stands at n, in the request of the reader c.
Continues(c, n) ==
    /\ n \in Call
    /\ n.op = c.op /\ n.id = c.id /\ n.user = c.user /\ n.tenant = c.tenant
    /\ n.name = c.name /\ n.etag = c.etag
    /\ n.pc \in {"direct", "groups", "group", "assignment", "answered"}

LEMMA ReaderGoes ==
    ASSUME DirectoryInv, NEW p \in Procs, call[p].op = "effectiveRoles",
           NEW n, Continues(call[p], n),
           Goes(p, n), UNCHANGED <<graph, issued, dirty>>, Observe
    PROVE  DirectoryInv'
<1>1. Shape(call[p])
  BY DEF DirectoryInv, Shapes
<1>2. n \in Call /\ n.op = "effectiveRoles" /\ n.pc # "watched"
  BY DEF Continues
<1>3. Shape(n)
  BY <1>1, SameShape DEF Continues
<1>4. UNCHANGED <<graph, issued>> /\ dirty' = dirty
  OBVIOUS
<1> QED BY <1>2, <1>3, <1>4, QuietStep

LEMMA AfterGroupFields ==
    ASSUME NEW c \in Call, NEW rest \in SUBSET Principals
    PROVE  LET n == AfterGroup(c, rest) IN
           /\ Continues(c, n) /\ n.links = rest /\ n.roles = c.roles
           /\ n.pc = IF rest = {} THEN "answered" ELSE "group"
<1> DEFINE pc == IF rest = {} THEN "answered" ELSE "group"
           n == [c EXCEPT !.links = rest, !.seen = {}, !.pc = pc]
<1>1. pc \in {"answered", "group"}
  OBVIOUS
<1>2. AfterGroup(c, rest) = n
  BY DEF AfterGroup
<1> HIDE DEF pc
<1>3. n \in Call
  BY <1>1 DEF Call
<1>4. n.op = c.op /\ n.id = c.id /\ n.user = c.user /\ n.tenant = c.tenant
  BY DEF Call
<1>5. n.name = c.name /\ n.etag = c.etag /\ n.pc = pc /\ n.links = rest /\ n.roles = c.roles
  BY DEF Call
<1> HIDE DEF n
<1>6. Continues(c, n)
  BY <1>1, <1>3, <1>4, <1>5 DEF Continues
<1> QED BY <1>2, <1>5, <1>6 DEF pc

\* The first step of a reader.
NewReader(u, t) == [Idle EXCEPT !.op = "effectiveRoles", !.pc = "direct", !.id = u, !.tenant = t]

LEMMA ReadUserCall ==
    ASSUME NEW u \in Users, NEW t \in Tenants
    PROVE  LET n == NewReader(u, t) IN
           /\ n \in Call /\ Shape(n)
           /\ n.op = "effectiveRoles" /\ n.pc = "direct" /\ n.id = u /\ n.tenant = t
<1> DEFINE n == [Idle EXCEPT !.op = "effectiveRoles", !.pc = "direct", !.id = u, !.tenant = t]
<1>1. n \in Call
  <2>1. ASSUME NEW i \in Call
        PROVE  [i EXCEPT !.op = "effectiveRoles", !.pc = "direct", !.id = u, !.tenant = t] \in Call
    BY DEF Call, OpNames, Principals
  <2> QED BY <2>1, IdleIsCall
<1>2. n.op = "effectiveRoles" /\ n.pc = "direct" /\ n.id = u /\ n.tenant = t
  BY IdleIsCall DEF Call
<1> HIDE DEF n
<1>3. Shape(n)
  BY <1>2 DEF Shape
<1>4. NewReader(u, t) = n
  BY DEF NewReader, n
<1> QED BY <1>1, <1>2, <1>3, <1>4

LEMMA DirectFields ==
    ASSUME NEW c \in Call, NEW rs \in SUBSET Roles
    PROVE  LET n == [c EXCEPT !.pc = "groups", !.roles = rs] IN
           Continues(c, n) /\ n.pc = "groups" /\ n.roles = rs
<1> DEFINE n == [c EXCEPT !.pc = "groups", !.roles = rs]
<1>1. n \in Call /\ n.op = c.op /\ n.id = c.id /\ n.user = c.user /\ n.tenant = c.tenant
  BY ZenonT(60) DEF Call
<1>2. n.name = c.name /\ n.etag = c.etag /\ n.pc = "groups" /\ n.roles = rs
  BY DEF Call
<1> QED BY <1>1, <1>2 DEF Continues

LEMMA SeenFields ==
    ASSUME NEW c \in Call, NEW g \in Groups
    PROVE  LET n == [c EXCEPT !.pc = "assignment", !.seen = {g}] IN
           /\ Continues(c, n) /\ n.pc = "assignment" /\ n.seen = {g} /\ n.links = c.links
           /\ n.roles = c.roles
<1> DEFINE n == [c EXCEPT !.pc = "assignment", !.seen = {g}]
<1>1. n \in Call /\ n.op = c.op /\ n.id = c.id /\ n.user = c.user /\ n.tenant = c.tenant
  BY ZenonT(60) DEF Call
<1>2. n.name = c.name /\ n.etag = c.etag /\ n.pc = "assignment" /\ n.seen = {g} /\ n.links = c.links
      /\ n.roles = c.roles
  BY DEF Call
<1> QED BY <1>1, <1>2 DEF Continues

\* The roles read from a group's assignment are added, and the group is done.
Adding(c, rs) == [c EXCEPT !.roles = @ \cup rs]

LEMMA DoneFields ==
    ASSUME NEW c \in Call, NEW rs \in SUBSET Roles, NEW rest \in SUBSET Principals
    PROVE  LET n == AfterGroup(Adding(c, rs), rest) IN
           /\ Continues(c, n) /\ n.links = rest /\ n.roles = c.roles \cup rs
           /\ n.pc = IF rest = {} THEN "answered" ELSE "group"
<1> DEFINE m == [c EXCEPT !.roles = @ \cup rs]
<1>1. m \in Call /\ m.op = c.op /\ m.id = c.id /\ m.user = c.user /\ m.tenant = c.tenant
  BY DEF Call
<1>2. m.name = c.name /\ m.etag = c.etag /\ m.roles = c.roles \cup rs
  BY DEF Call
<1> HIDE DEF m
<1>3. LET n == AfterGroup(m, rest) IN
      /\ Continues(m, n) /\ n.links = rest /\ n.roles = m.roles
      /\ n.pc = IF rest = {} THEN "answered" ELSE "group"
  BY <1>1, AfterGroupFields
<1>4. Continues(c, AfterGroup(m, rest))
  BY <1>1, <1>2, <1>3 DEF Continues
<1> QED BY <1>2, <1>3, <1>4 DEF m, Adding

LEMMA RolesOfTyped ==
    ASSUME DirectoryInv, NEW t \in Tenants, NEW pr \in Principals
    PROVE  RolesOf(assignments[t][pr]) \in SUBSET Roles
BY DEF DirectoryInv, TypeOK, RolesOf, Assignment

LEMMA ReaderSteps ==
    ASSUME DirectoryInv, NEW p \in Procs, ReaderStep(p)
    PROVE  DirectoryInv'
<1> DEFINE c == call[p]
<1>1. c \in Call /\ Shape(c)
  BY DEF DirectoryInv, TypeOK, Shapes
<1>2. ASSUME NEW u \in Users, NEW t \in Tenants, ReadUser(p, u, t)
      PROVE  DirectoryInv'
  <2> DEFINE n == NewReader(u, t)
  <2>1. Goes(p, n) /\ UNCHANGED <<graph, issued>> /\ dirty' = dirty /\ Observe /\ call[p] = Idle
    BY <1>2 DEF ReadUser, Starts, NewReader
  <2>2. n \in Call /\ Shape(n) /\ n.op = "effectiveRoles" /\ n.pc = "direct"
    BY ReadUserCall
  <2> HIDE DEF n
  <2> QED BY <2>1, <2>2, IdleIsCall, QuietStep
<1>3. ASSUME c.op = "effectiveRoles" PROVE c.id \in Users /\ c.tenant \in Tenants /\ c.id \in Principals
  BY <1>1, <1>3 DEF Shape, Principals
<1>4. CASE ReadDirect(p)
  <2> DEFINE rs == RolesOf(assignments[c.tenant][c.id])
  <2>1. /\ c.op = "effectiveRoles" /\ Goes(p, [c EXCEPT !.pc = "groups", !.roles = rs])
        /\ UNCHANGED <<graph, issued, dirty>> /\ Observe
    BY <1>4 DEF ReadDirect, Reads
  <2>2. rs \in SUBSET Roles
    BY <2>1, <1>3, RolesOfTyped
  <2> HIDE DEF rs
  <2>3. PICK n : n = [c EXCEPT !.pc = "groups", !.roles = rs]
    OBVIOUS
  <2>4. Continues(c, n)
    BY <1>1, <2>2, <2>3, DirectFields
  <2> QED BY <2>1, <2>3, <2>4, ReaderGoes
<1>5. CASE ReadGroups(p)
  <2>1. c.op = "effectiveRoles" /\ UNCHANGED <<graph, issued, dirty>> /\ Observe
    BY <1>5 DEF ReadGroups, Reads
  <2>2. userGroups[c.id] \in SUBSET Principals
    BY <2>1, <1>3 DEF DirectoryInv, TypeOK, Principals
  <2>3. CASE Goes(p, AfterGroup(c, userGroups[c.id]))
    <3>1. Continues(c, AfterGroup(c, userGroups[c.id]))
      BY <1>1, <2>2, AfterGroupFields
    <3> QED BY <2>1, <2>3, <3>1, ReaderGoes
  <2>4. CASE Goes(p, Idle)
    BY <2>1, <2>4, ReturnsStep DEF Returns, Finish
  <2> QED BY <1>5, <2>3, <2>4 DEF ReadGroups
<1>6. ASSUME NEW g \in Groups, ReadGroup(p, g)
      PROVE  DirectoryInv'
  <2>1. c.op = "effectiveRoles" /\ UNCHANGED <<graph, issued, dirty>> /\ Observe
    BY <1>6 DEF ReadGroup, Reads
  <2>2. CASE Goes(p, Idle)
    BY <2>1, <2>2, ReturnsStep DEF Returns, Finish
  <2>3. CASE Goes(p, [c EXCEPT !.pc = "assignment", !.seen = {g}])
    <3>1. Continues(c, [c EXCEPT !.pc = "assignment", !.seen = {g}])
      BY <1>1, SeenFields
    <3> QED BY <2>1, <2>3, <3>1, ReaderGoes
  <2>4. CASE Goes(p, AfterGroup(c, c.links \ {g}))
    <3>1. c.links \ {g} \in SUBSET Principals
      BY <1>1 DEF Call
    <3>2. Continues(c, AfterGroup(c, c.links \ {g}))
      BY <1>1, <3>1, AfterGroupFields
    <3> QED BY <2>1, <2>4, <3>2, ReaderGoes
  <2> QED BY <1>6, <2>2, <2>3, <2>4 DEF ReadGroup
<1>7. CASE ReadGroupAssignment(p)
  <2>1. c.op = "effectiveRoles" /\ UNCHANGED <<graph, issued, dirty>> /\ Observe
    BY <1>7 DEF ReadGroupAssignment, Reads
  <2>2. PICK g \in c.seen :
            Goes(p, AfterGroup([c EXCEPT !.roles = @ \cup RolesOf(assignments[c.tenant][g])],
                               c.links \ {g}))
    BY <1>7 DEF ReadGroupAssignment
  <2> DEFINE rs == RolesOf(assignments[c.tenant][g])
  <2>3. g \in Principals /\ c.links \ {g} \in SUBSET Principals
    BY <1>1 DEF Call, Principals
  <2>4. rs \in SUBSET Roles
    BY <2>1, <2>3, <1>3, RolesOfTyped
  <2>5. Goes(p, AfterGroup(Adding(c, rs), c.links \ {g}))
    BY <2>2 DEF Adding
  <2> HIDE DEF rs
  <2>6. Continues(c, AfterGroup(Adding(c, rs), c.links \ {g}))
    BY <1>1, <2>3, <2>4, DoneFields
  <2> QED BY <2>1, <2>5, <2>6, ReaderGoes
<1>8. CASE Answer(p)
  BY <1>8, ReturnsStep DEF Answer, Reads, Returns
<1> QED BY <1>2, <1>4, <1>5, <1>6, <1>7, <1>8 DEF ReaderStep

----------------------------------------------------------------------------
(* Steps that write.  Each has the keys it writes, and keeps each part of  *)
(* the invariant.                                                          *)

StoreTypeOK ==
    /\ deployment \in Deployment
    /\ accounts \subseteq Users
    /\ groups \in [Groups -> Group \cup {NoGroup}]
    /\ nameOwner \in [Keys -> Groups \cup {NoId}]
    /\ order \subseteq Keys \X Groups
    /\ members \in [Groups -> SUBSET Users]
    /\ userGroups \in [Users -> SUBSET Groups]
    /\ assignments \in [Tenants -> [Principals -> Assignment \cup {NoAssignment}]]
    /\ principalTenants \in [Principals -> SUBSET Tenants]
    /\ issued \subseteq Principals

LEMMA TypeOKSplits == TypeOK <=> StoreTypeOK /\ RequestTypeOK
BY DEF TypeOK, StoreTypeOK, RequestTypeOK

\* Process p goes to request n, which watches nothing.
LEMMA GoesFields ==
    ASSUME DirectoryInv, NEW p \in Procs, NEW n \in Call, Shape(n), n.pc # "watched", Goes(p, n)
    PROVE  /\ call' \in [Procs -> Call] /\ call'[p] = n
           /\ \A q \in Procs : q # p => call'[q] = call[q]
           /\ \A q \in Procs : \/ call'[q] = call[q] /\ q \notin {p}
                               \/ Shape(call'[q]) /\ call'[q].pc # "watched"
           /\ \A q \in Procs : \/ call'[q] = call[q] /\ q \notin {}
                               \/ Shape(call'[q]) /\ call'[q].pc # "watched"
BY DEF DirectoryInv, TypeOK, Goes

LEMMA CommitFields ==
    ASSUME DirectoryInv, NEW p \in Procs, NEW ops, Committing(p, ops)
    PROVE  /\ call[p] \in Call /\ Shape(call[p]) /\ Fresh(call[p]) /\ call[p].op \in ops
           /\ call' \in [Procs -> Call] /\ call'[p] = Idle
           /\ \A q \in Procs : q # p => call'[q] = call[q]
           /\ \A q \in Procs : \/ call'[q] = call[q] /\ q \notin {p}
                               \/ Shape(call'[q]) /\ call'[q].pc # "watched"
           /\ call[p].op # "createGroup" /\ Idle.op # "createGroup"
<1>1. /\ call[p] \in Call /\ Shape(call[p]) /\ Fresh(call[p]) /\ call[p].op \in ops
      /\ call[p].pc = "watched"
  BY DEF DirectoryInv, TypeOK, Shapes, RequestsFresh, Committing
<1>2. call[p].op # "createGroup"
  BY <1>1 DEF Shape, WatchOps
<1>3. Goes(p, Idle)
  BY DEF Committing, Finish
<1> QED BY <1>1, <1>2, <1>3, IdleIsCall, GoesFields

\* The parts of the invariant that are not about names, when names do not move.
NamesUnmoved ==
    /\ nameOwner' = nameOwner /\ order' = order /\ issued' = issued /\ deployment' = deployment
    /\ groups' \in [Groups -> Group \cup {NoGroup}]
    /\ \A g \in Groups : groups[g] = NoGroup <=> groups'[g] = NoGroup
    /\ \A g \in Groups : groups[g] # NoGroup => groups'[g].name = groups[g].name

LEMMA NamesKept ==
    ASSUME DirectoryInv, NamesUnmoved, NEW p \in Procs, call[p].op # "createGroup",
           call'[p].op # "createGroup", \A q \in Procs : q # p => call'[q] = call[q]
    PROVE  NamesIndexed' /\ NamesHeld' /\ Reserving'
<1>1. NamesIndexed'
  <2>1. SUFFICES ASSUME "lostReply" \notin deployment.clients
                 PROVE  /\ order = {<<Lower[groups'[g].name], g>> : g \in {h \in Groups : groups'[h] # NoGroup}}
                        /\ \A g \in Groups : groups'[g] # NoGroup => nameOwner[Lower[groups'[g].name]] = g
    BY DEF NamesUnmoved, NamesIndexed
  <2>2. /\ order = {<<Lower[groups[g].name], g>> : g \in {h \in Groups : groups[h] # NoGroup}}
        /\ \A g \in Groups : groups[g] # NoGroup => nameOwner[Lower[groups[g].name]] = g
    BY <2>1 DEF DirectoryInv, Indexed, NamesIndexed
  <2> QED BY <2>2 DEF NamesUnmoved
<1>2. NamesHeld'
  <2>1. SUFFICES ASSUME Reliable, NEW k \in Keys, nameOwner[k] # NoId
                 PROVE  \/ /\ groups'[nameOwner[k]] # NoGroup
                           /\ Lower[groups'[nameOwner[k]].name] = k
                        \/ \E q \in Procs : /\ call'[q].op = "createGroup"
                                            /\ call'[q].id = nameOwner[k]
                                            /\ Lower[call'[q].name] = k
    BY DEF NamesUnmoved, NamesHeld
  <2>2. nameOwner[k] \in Groups
    BY <2>1 DEF DirectoryInv, TypeOK
  <2> QED BY <2>1, <2>2 DEF NamesUnmoved, DirectoryInv, NamesHeld
<1>3. Reserving'
  <2>1. \A q \in Procs : call'[q].op = "createGroup" =>
            call'[q] = call[q] /\ call[q].id \in Groups
    BY DEF DirectoryInv, Shapes, Shape
  <2> QED BY <2>1 DEF NamesUnmoved, DirectoryInv, Reserving
<1> QED BY <1>1, <1>2, <1>3

LEMMA CreateUserStep ==
    ASSUME DirectoryInv, NEW u \in Users, CreateUser(u)
    PROVE  DirectoryInv'
<1>1. /\ accounts' = accounts \cup {u} /\ issued' = issued \cup {u}
      /\ groups' = groups /\ nameOwner' = nameOwner /\ order' = order
      /\ members' = members /\ userGroups' = userGroups /\ assignments' = assignments
      /\ principalTenants' = principalTenants /\ deployment' = deployment /\ call' = call
      /\ Touch({}, {UsersKey}) /\ Observe
  BY DEF CreateUser, groupStore, memberStore, assignmentStore, Observe
<1>2. StoreTypeOK'
  BY <1>1, TypeOKSplits DEF DirectoryInv, StoreTypeOK, Principals
<1>3. Written({UsersKey})
  BY <1>1 DEF Written
<1>4. RequestTypeOK' /\ Shapes' /\ RequestsFresh'
  <2>1. call' \in [Procs -> Call] /\ \A q \in Procs : call'[q] = call[q] /\ q \notin {}
    BY <1>1 DEF DirectoryInv, TypeOK
  <2> QED BY <1>1, <1>3, <2>1, WritesKeepRequests DEF DirectoryInv
<1>5. Indexed' /\ MembersCounted'
  BY <1>1 DEF DirectoryInv, Indexed, MembershipIndexed, AssignmentsIndexed, NamesIndexed,
              PrincipalExists, MembersCounted, MaxRelationships
<1>6. NamesHeld' /\ Reserving'
  BY <1>1 DEF DirectoryInv, NamesHeld, Reserving
<1> QED BY <1>2, <1>4, <1>5, <1>6, TypeOKSplits DEF DirectoryInv, TypeOK, StoreTypeOK, RequestTypeOK

LEMMA UpdateUserStep ==
    ASSUME DirectoryInv, UpdateUser
    PROVE  DirectoryInv'
<1>1. /\ accounts' = accounts /\ issued' = issued
      /\ groups' = groups /\ nameOwner' = nameOwner /\ order' = order
      /\ members' = members /\ userGroups' = userGroups /\ assignments' = assignments
      /\ principalTenants' = principalTenants /\ deployment' = deployment /\ call' = call
      /\ Touch({}, {UsersKey}) /\ Observe
  BY DEF UpdateUser, graph, groupStore, memberStore, assignmentStore, Observe
<1>2. StoreTypeOK'
  BY <1>1, TypeOKSplits DEF DirectoryInv, StoreTypeOK
<1>3. Written({UsersKey})
  BY <1>1 DEF Written
<1>4. RequestTypeOK' /\ Shapes' /\ RequestsFresh'
  <2>1. call' \in [Procs -> Call] /\ \A q \in Procs : call'[q] = call[q] /\ q \notin {}
    BY <1>1 DEF DirectoryInv, TypeOK
  <2> QED BY <1>1, <1>3, <2>1, WritesKeepRequests DEF DirectoryInv
<1>5. Indexed' /\ MembersCounted'
  BY <1>1 DEF DirectoryInv, Indexed, MembershipIndexed, AssignmentsIndexed, NamesIndexed,
              PrincipalExists, MembersCounted, MaxRelationships
<1>6. NamesHeld' /\ Reserving'
  BY <1>1 DEF DirectoryInv, NamesHeld, Reserving
<1> QED BY <1>2, <1>4, <1>5, <1>6, TypeOKSplits DEF DirectoryInv, TypeOK, StoreTypeOK, RequestTypeOK

\* The call of CreateGroup after its SETNX.
NewGroupCall(g, n) == [Idle EXCEPT !.op = "createGroup", !.pc = "reserved", !.id = g, !.name = n]

LEMMA NewGroupCallFields ==
    ASSUME NEW g \in Groups, NEW n \in Names
    PROVE  LET c == NewGroupCall(g, n) IN
           /\ c \in Call /\ Shape(c) /\ c.op = "createGroup" /\ c.pc = "reserved"
           /\ c.id = g /\ c.name = n
<1> DEFINE c == [Idle EXCEPT !.op = "createGroup", !.pc = "reserved", !.id = g, !.name = n]
<1>1. c \in Call
  <2>1. ASSUME NEW i \in Call
        PROVE  [i EXCEPT !.op = "createGroup", !.pc = "reserved", !.id = g, !.name = n] \in Call
    BY DEF Call, OpNames, Principals
  <2> QED BY <2>1, IdleIsCall
<1>2. c.op = "createGroup" /\ c.pc = "reserved" /\ c.id = g /\ c.name = n
  BY IdleIsCall DEF Call
<1>3. NewGroupCall(g, n) = c
  BY DEF NewGroupCall
<1> HIDE DEF c
<1>4. Shape(c)
  BY <1>2 DEF Shape
<1> QED BY <1>1, <1>2, <1>3, <1>4

\* NoId stands for no owner.
LEMMA NoIdIsNoGroup == NoId \notin Groups
BY AccessAssumption DEF Principals

LEMMA ReserveNameStep ==
    ASSUME DirectoryInv, NEW p \in Procs, NEW g \in Groups, NEW n \in Names, ReserveName(p, g, n)
    PROVE  DirectoryInv'
<1> DEFINE k0 == Lower[n]
<1>0. PICK m : /\ Goes(p, m)
               /\ m = NewGroupCall(g, n) \/ (m = Idle /\ "lostReply" \in deployment.clients)
  BY DEF ReserveName, NewGroupCall, Finish
<1>1. /\ accounts' = accounts /\ issued' = issued \cup {g} /\ g \notin issued
      /\ groups' = groups /\ nameOwner' = [nameOwner EXCEPT ![k0] = g] /\ order' = order
      /\ members' = members /\ userGroups' = userGroups /\ assignments' = assignments
      /\ principalTenants' = principalTenants /\ deployment' = deployment
      /\ nameOwner[k0] = NoId /\ call[p] = Idle
      /\ Goes(p, m) /\ Touch({}, {NameKey(k0)}) /\ Observe
  BY <1>0 DEF ReserveName, Starts, memberStore, assignmentStore, Observe
<1>2. /\ m \in Call /\ Shape(m) /\ m.pc # "watched"
      /\ \/ m.op = "createGroup" /\ m.pc = "reserved" /\ m.id = g /\ m.name = n
         \/ m.op # "createGroup" /\ "lostReply" \in deployment.clients
  BY <1>0, NewGroupCallFields, IdleIsCall
<1>3. k0 \in Keys
  BY AccessAssumption
<1>4. nameOwner'[k0] = g /\ \A k \in Keys : k # k0 => nameOwner'[k] = nameOwner[k]
  BY <1>1, <1>3 DEF DirectoryInv, TypeOK
<1>5. StoreTypeOK'
  BY <1>1, TypeOKSplits DEF DirectoryInv, StoreTypeOK, Principals
<1>6. Written({NameKey(k0)})
  BY <1>1, <1>4 DEF Written
<1>7. /\ call' \in [Procs -> Call] /\ call'[p] = m
      /\ \A q \in Procs : q # p => call'[q] = call[q]
      /\ \A q \in Procs : \/ call'[q] = call[q] /\ q \notin {}
                          \/ Shape(call'[q]) /\ call'[q].pc # "watched"
  BY <1>1, <1>2, GoesFields
<1>8. RequestTypeOK' /\ Shapes' /\ RequestsFresh'
  BY <1>1, <1>6, <1>7, WritesKeepRequests DEF DirectoryInv
<1>9. MembershipIndexed' /\ AssignmentsIndexed' /\ MembersCounted'
  BY <1>1 DEF DirectoryInv, Indexed, MembershipIndexed, AssignmentsIndexed,
              PrincipalExists, MembersCounted, MaxRelationships
<1>10. NamesIndexed'
  <2>1. ASSUME "lostReply" \notin deployment.clients, NEW h \in Groups, groups[h] # NoGroup
        PROVE  nameOwner'[Lower[groups[h].name]] = h
    <3>1. nameOwner[Lower[groups[h].name]] = h
      BY <2>1 DEF DirectoryInv, Indexed, NamesIndexed
    <3>2. groups[h].name \in Names /\ Lower[groups[h].name] \in Keys
      BY <2>1, AccessAssumption DEF DirectoryInv, TypeOK, Group
    <3> QED BY <3>1, <3>2, <1>1, <1>4, NoIdIsNoGroup
  <2> QED BY <2>1, <1>1 DEF DirectoryInv, Indexed, NamesIndexed
<1>11. NamesHeld'
  <2>1. ASSUME Reliable, NEW k \in Keys, nameOwner'[k] # NoId
        PROVE  \/ /\ groups'[nameOwner'[k]] # NoGroup
                  /\ Lower[groups'[nameOwner'[k]].name] = k
               \/ \E q \in Procs : /\ call'[q].op = "createGroup"
                                   /\ call'[q].id = nameOwner'[k]
                                   /\ Lower[call'[q].name] = k
    <3>1. CASE k = k0
      BY <2>1, <3>1, <1>2, <1>4, <1>7
    <3>2. CASE k # k0
      <4>1. nameOwner'[k] = nameOwner[k]
        BY <3>2, <1>4
      <4>2. \/ /\ groups[nameOwner[k]] # NoGroup
               /\ Lower[groups[nameOwner[k]].name] = k
            \/ \E q \in Procs : /\ call[q].op = "createGroup"
                                /\ call[q].id = nameOwner[k]
                                /\ Lower[call[q].name] = k
        BY <2>1, <4>1 DEF DirectoryInv, NamesHeld
      <4> QED BY <4>1, <4>2, <1>1, <1>7, IdleIsCall
    <3> QED BY <3>1, <3>2
  <2> QED BY <2>1, <1>1 DEF NamesHeld
<1>12. Reserving'
  <2>1. groups[g] = NoGroup
    BY <1>1 DEF DirectoryInv, Reserving
  <2>2. ASSUME NEW q \in Procs, call'[q].op = "createGroup"
        PROVE  /\ call'[q].id \in issued'
               /\ call'[q].pc = "reserved" => groups'[call'[q].id] = NoGroup
               /\ "lostReply" \notin deployment.clients =>
                      /\ groups'[call'[q].id] = NoGroup
                      /\ nameOwner'[Lower[call'[q].name]] = call'[q].id
    <3>1. CASE q = p
      BY <3>1, <2>1, <2>2, <1>1, <1>2, <1>4, <1>7
    <3>2. CASE q # p
      <4>1. call'[q] = call[q] /\ call[q].id \in Groups /\ call[q].name \in Names
        BY <2>2, <3>2, <1>7 DEF DirectoryInv, Shapes, Shape
      <4>2. Lower[call[q].name] \in Keys
        BY <4>1, AccessAssumption
      <4> QED BY <2>2, <4>1, <4>2, <1>1, <1>4, NoIdIsNoGroup DEF DirectoryInv, Reserving
    <3> QED BY <3>1, <3>2
  <2>3. ASSUME NEW q \in Procs, NEW r \in Procs, call'[q].op = "createGroup",
               call'[r].op = "createGroup", call'[q].id = call'[r].id
        PROVE  q = r
    BY <2>3, <1>1, <1>2, <1>7 DEF DirectoryInv, Reserving
  <2>4. \A h \in Groups : groups'[h] # NoGroup => h \in issued'
    BY <1>1 DEF DirectoryInv, Reserving
  <2> QED BY <2>2, <2>3, <2>4, <1>1 DEF Reserving
<1> QED BY <1>5, <1>8, <1>9, <1>10, <1>11, <1>12
        DEF DirectoryInv, Indexed, TypeOK, StoreTypeOK, RequestTypeOK

\* The record of a reserved group is stored; the request ends, or it lost the
\* reply and goes on to release the name.
LEMMA StoreGroupStep ==
    ASSUME DirectoryInv, NEW p \in Procs, call[p].pc = "reserved",
           NEW m \in Call, Shape(m), m.pc # "watched", Goes(p, m),
           \/ m.op = "none"
           \/ /\ "lostReply" \in deployment.clients /\ m.op = "createGroup" /\ m.pc = "undo"
              /\ m.id = call[p].id /\ m.name = call[p].name,
           StoreGroup(call[p].id, call[p].name), Touch({}, {GroupsKey, OrderKey}),
           UNCHANGED <<accounts, nameOwner, memberStore, assignmentStore, issued>>, Observe
    PROVE  DirectoryInv'
<1>0. PICK g, n : g = call[p].id /\ n = call[p].name
  OBVIOUS
<1> DEFINE r == [name |-> n, active |-> TRUE, version |-> 1]
<1>1. /\ accounts' = accounts /\ issued' = issued
      /\ groups' = [groups EXCEPT ![g] = r] /\ nameOwner' = nameOwner
      /\ order' = order \cup {<<Lower[n], g>>}
      /\ members' = members /\ userGroups' = userGroups /\ assignments' = assignments
      /\ principalTenants' = principalTenants /\ deployment' = deployment
  BY <1>0 DEF StoreGroup, memberStore, assignmentStore, Observe
<1>2. /\ call[p].op = "createGroup" /\ g \in Groups /\ n \in Names /\ g \in issued
      /\ groups[g] = NoGroup
      /\ "lostReply" \notin deployment.clients => nameOwner[Lower[n]] = g
  BY <1>0 DEF DirectoryInv, Shapes, Shape, Reserving
<1>3. r \in Group /\ r # NoGroup /\ r.name = n /\ Lower[n] \in Keys
  <2>1. r \in Group
    BY <1>2 DEF Group
  <2> QED BY <1>2, <2>1, AccessAssumption
<1> HIDE DEF r
<1>4. groups'[g] = r /\ \A h \in Groups : h # g => groups'[h] = groups[h]
  BY <1>1, <1>2 DEF DirectoryInv, TypeOK
<1>5. StoreTypeOK'
  BY <1>1, <1>2, <1>3, TypeOKSplits DEF DirectoryInv, StoreTypeOK
<1>6. Written({GroupsKey, OrderKey})
  BY <1>1 DEF Written
<1>7. /\ call' \in [Procs -> Call] /\ call'[p] = m
      /\ \A q \in Procs : q # p => call'[q] = call[q]
      /\ \A q \in Procs : \/ call'[q] = call[q] /\ q \notin {}
                          \/ Shape(call'[q]) /\ call'[q].pc # "watched"
  BY GoesFields
<1>8. RequestTypeOK' /\ Shapes' /\ RequestsFresh'
  BY <1>6, <1>7, WritesKeepRequests DEF DirectoryInv
<1>9. MembershipIndexed' /\ AssignmentsIndexed' /\ MembersCounted'
  <2>1. MembershipIndexed' /\ MembersCounted'
    BY <1>1, <1>2, <1>4 DEF DirectoryInv, Indexed, MembershipIndexed, MembersCounted, MaxRelationships
  <2>2. \A pr \in Principals : PrincipalExists(pr) => PrincipalExists(pr)'
    BY <1>1, <1>2, <1>3, <1>4 DEF PrincipalExists, Principals
  <2> QED BY <1>1, <2>1, <2>2 DEF DirectoryInv, Indexed, AssignmentsIndexed
<1>10. NamesIndexed'
  <2>1. SUFFICES ASSUME "lostReply" \notin deployment.clients
                 PROVE  /\ order' = {<<Lower[groups'[h].name], h>> : h \in {x \in Groups : groups'[x] # NoGroup}}
                        /\ \A h \in Groups : groups'[h] # NoGroup => nameOwner'[Lower[groups'[h].name]] = h
    BY <1>1 DEF NamesIndexed
  <2>2. /\ order = {<<Lower[groups[h].name], h>> : h \in {x \in Groups : groups[x] # NoGroup}}
        /\ \A h \in Groups : groups[h] # NoGroup => nameOwner[Lower[groups[h].name]] = h
    BY <2>1 DEF DirectoryInv, Indexed, NamesIndexed
  <2>3. order' = {<<Lower[groups'[h].name], h>> : h \in {x \in Groups : groups'[x] # NoGroup}}
    BY <2>2, <1>1, <1>2, <1>3, <1>4
  <2> QED BY <2>1, <2>2, <2>3, <1>1, <1>2, <1>3, <1>4
<1>11. NamesHeld'
  <2>1. ASSUME Reliable, NEW k \in Keys, nameOwner[k] # NoId
        PROVE  \/ /\ groups'[nameOwner[k]] # NoGroup
                  /\ Lower[groups'[nameOwner[k]].name] = k
               \/ \E q \in Procs : /\ call'[q].op = "createGroup"
                                   /\ call'[q].id = nameOwner[k]
                                   /\ Lower[call'[q].name] = k
    <3>1. nameOwner[k] \in Groups
      BY <2>1 DEF DirectoryInv, TypeOK
    <3>2. CASE /\ groups[nameOwner[k]] # NoGroup
               /\ Lower[groups[nameOwner[k]].name] = k
      BY <3>1, <3>2, <1>2, <1>4
    <3>3. CASE \E q \in Procs : /\ call[q].op = "createGroup"
                                /\ call[q].id = nameOwner[k]
                                /\ Lower[call[q].name] = k
      <4>1. PICK q \in Procs : /\ call[q].op = "createGroup"
                               /\ call[q].id = nameOwner[k]
                               /\ Lower[call[q].name] = k
        BY <3>3
      <4>2. CASE q = p
        BY <4>1, <4>2, <1>0, <1>3, <1>4
      <4>3. CASE q # p
        BY <4>1, <4>3, <1>7
      <4> QED BY <4>2, <4>3
    <3> QED BY <2>1, <3>2, <3>3 DEF DirectoryInv, NamesHeld
  <2> QED BY <2>1, <1>1 DEF NamesHeld
<1>12. Reserving'
  <2>2. ASSUME NEW q \in Procs, call'[q].op = "createGroup"
        PROVE  /\ call'[q].id \in issued'
               /\ call'[q].pc = "reserved" => groups'[call'[q].id] = NoGroup
               /\ "lostReply" \notin deployment.clients =>
                      /\ groups'[call'[q].id] = NoGroup
                      /\ nameOwner'[Lower[call'[q].name]] = call'[q].id
    <3>1. CASE q = p
      BY <3>1, <2>2, <1>0, <1>1, <1>2, <1>7
    <3>2. CASE q # p
      <4>1. call'[q] = call[q] /\ call[q].id \in Groups /\ call[q].id # g
        BY <2>2, <3>2, <1>0, <1>2, <1>7 DEF DirectoryInv, Shapes, Shape, Reserving
      <4> QED BY <2>2, <4>1, <1>1, <1>4 DEF DirectoryInv, Reserving
    <3> QED BY <3>1, <3>2
  <2>3. ASSUME NEW q \in Procs, NEW s \in Procs, call'[q].op = "createGroup",
               call'[s].op = "createGroup", call'[q].id = call'[s].id
        PROVE  q = s
    BY <2>3, <1>2, <1>7 DEF DirectoryInv, Reserving
  <2>4. \A h \in Groups : groups'[h] # NoGroup => h \in issued'
    BY <1>1, <1>2, <1>4 DEF DirectoryInv, Reserving
  <2> QED BY <2>2, <2>3, <2>4, <1>1 DEF Reserving
<1> QED BY <1>5, <1>8, <1>9, <1>10, <1>11, <1>12
        DEF DirectoryInv, Indexed, TypeOK, StoreTypeOK, RequestTypeOK

LEMMA CreateGroupStep ==
    ASSUME DirectoryInv, NEW p \in Procs, CreateGroup(p)
    PROVE  DirectoryInv'
<1>1. /\ call[p].pc = "reserved" /\ StoreGroup(call[p].id, call[p].name)
      /\ Goes(p, Idle) /\ Touch({}, {GroupsKey, OrderKey})
      /\ UNCHANGED <<accounts, nameOwner, memberStore, assignmentStore, issued>> /\ Observe
  BY DEF CreateGroup, Finish
<1> QED BY <1>1, IdleIsCall, StoreGroupStep

\* A request of CreateGroup that goes on to release its name.
LEMMA UndoFields ==
    ASSUME DirectoryInv, NEW p \in Procs, call[p].pc = "reserved"
    PROVE  LET m == [call[p] EXCEPT !.pc = "undo"] IN
           /\ m \in Call /\ Shape(m) /\ m.op = "createGroup" /\ m.pc = "undo"
           /\ m.id = call[p].id /\ m.name = call[p].name
<1>1. PICK c : c = call[p]
  OBVIOUS
<1> DEFINE m == [c EXCEPT !.pc = "undo"]
<1>2. c \in Call /\ Shape(c) /\ c.op = "createGroup"
  BY <1>1 DEF DirectoryInv, TypeOK, Shapes, Shape
<1>3. m \in Call /\ m.op = c.op /\ m.pc = "undo" /\ m.id = c.id /\ m.name = c.name
  BY <1>2 DEF Call
<1>4. m.user = c.user /\ m.tenant = c.tenant /\ m.roles = c.roles /\ m.etag = c.etag
  BY <1>2 DEF Call
<1> HIDE DEF m
<1>5. Shape(m)
  BY <1>2, <1>3, <1>4, SameShape
<1> QED BY <1>1, <1>2, <1>3, <1>5 DEF m

LEMMA CreateGroupFailsStep ==
    ASSUME DirectoryInv, NEW p \in Procs, NEW applied \in BOOLEAN, CreateGroupFails(p, applied)
    PROVE  DirectoryInv'
<1>0. PICK m : m = [call[p] EXCEPT !.pc = "undo"]
  OBVIOUS
<1>1. /\ call[p].pc = "reserved" /\ Goes(p, m) /\ Observe
      /\ UNCHANGED <<accounts, nameOwner, memberStore, assignmentStore, issued>>
  BY <1>0 DEF CreateGroupFails
<1>2. /\ m \in Call /\ Shape(m) /\ m.op = "createGroup" /\ m.pc = "undo"
      /\ m.id = call[p].id /\ m.name = call[p].name
  BY <1>0, <1>1, UndoFields
<1>3. CASE applied
  <2>1. /\ "lostReply" \in deployment.clients
        /\ StoreGroup(call[p].id, call[p].name) /\ Touch({}, {GroupsKey, OrderKey})
    BY <1>3 DEF CreateGroupFails
  <2> QED BY <2>1, <1>1, <1>2, StoreGroupStep
<1>4. CASE ~applied
  <2>1. /\ accounts' = accounts /\ groups' = groups /\ nameOwner' = nameOwner /\ order' = order
        /\ members' = members /\ userGroups' = userGroups /\ assignments' = assignments
        /\ principalTenants' = principalTenants /\ issued' = issued /\ deployment' = deployment
        /\ dirty' = dirty
    BY <1>4, <1>1 DEF CreateGroupFails, memberStore, assignmentStore, Observe
  <2>2. /\ call' \in [Procs -> Call] /\ call'[p] = m
        /\ \A q \in Procs : q # p => call'[q] = call[q]
    BY <1>1, <1>2, GoesFields
  <2>3. TypeOK'
    BY <2>1, <2>2, <1>1, WindowType DEF DirectoryInv, TypeOK
  <2>4. Indexed' /\ MembersCounted'
    BY <2>1 DEF DirectoryInv, Indexed, MembershipIndexed, AssignmentsIndexed, NamesIndexed,
                PrincipalExists, MembersCounted, MaxRelationships
  <2>5. call[p].op = "createGroup"
    BY <1>1 DEF DirectoryInv, Shapes, Shape
  <2>6. NamesHeld'
    BY <2>1, <2>2, <1>2 DEF DirectoryInv, NamesHeld
  <2>7. Reserving'
    BY <2>1, <2>2, <2>5, <1>2 DEF DirectoryInv, Reserving
  <2>8. Shapes'
    <3>1. ASSUME NEW q \in Procs PROVE Shape(call[q])'
      BY <2>2, <1>2 DEF DirectoryInv, Shapes, Shape
    <3> QED BY <3>1 DEF Shapes
  <2>9. RequestsFresh'
    <3>1. ASSUME NEW q \in Procs, call'[q].pc = "watched", ~dirty'[q]
          PROVE  Fresh(call[q])'
      <4>1. Fresh(call'[q])
        BY <3>1, <2>1, <2>2, <1>2 DEF DirectoryInv, RequestsFresh
      <4> QED BY <4>1, <2>1 DEF Fresh, FreshPatch, FreshDelete, FreshMember, FreshPut,
                               FreshUserDelete, NameAvailable, HasRoom, MaxRelationships,
                               PrincipalExists
    <3> QED BY SMTT(60), <3>1 DEF RequestsFresh
  <2> QED BY <2>3, <2>4, <2>6, <2>7, <2>8, <2>9 DEF DirectoryInv
<1> QED BY <1>3, <1>4

\* The name of a failed creation is released.
Released(p) ==
    LET k == Lower[call[p].name] IN
    /\ nameOwner' = [nameOwner EXCEPT ![k] = NoId]
    /\ Touch({}, IF nameOwner[k] = NoId THEN {} ELSE {NameKey(k)})

LEMMA ReleaseStep ==
    ASSUME DirectoryInv, NEW p \in Procs, UndoName(p), Released(p)
    PROVE  DirectoryInv'
<1>0. PICK g, n : g = call[p].id /\ n = call[p].name
  OBVIOUS
<1> DEFINE k0 == Lower[n]
           K == IF nameOwner[k0] = NoId THEN {} ELSE {NameKey(k0)}
<1>1. /\ accounts' = accounts /\ issued' = issued
      /\ groups' = groups /\ nameOwner' = [nameOwner EXCEPT ![k0] = NoId] /\ order' = order
      /\ members' = members /\ userGroups' = userGroups /\ assignments' = assignments
      /\ principalTenants' = principalTenants /\ deployment' = deployment
      /\ Goes(p, Idle) /\ Touch({}, K) /\ Observe /\ call[p].pc = "undo"
  BY <1>0 DEF UndoName, Released, memberStore, assignmentStore, Observe, Finish
<1>2. /\ call[p].op = "createGroup" /\ g \in Groups /\ n \in Names
      /\ "lostReply" \notin deployment.clients => nameOwner[k0] = g /\ groups[g] = NoGroup
  BY <1>0, <1>1 DEF DirectoryInv, Shapes, Shape, Reserving
<1>3. k0 \in Keys
  BY <1>2, AccessAssumption
<1>4. nameOwner'[k0] = NoId /\ \A k \in Keys : k # k0 => nameOwner'[k] = nameOwner[k]
  BY <1>1, <1>3 DEF DirectoryInv, TypeOK
<1>5. StoreTypeOK'
  BY <1>1, TypeOKSplits DEF DirectoryInv, StoreTypeOK
<1>6. Written(K)
  BY <1>1, <1>4 DEF Written
<1> HIDE DEF K
<1>7. /\ call' \in [Procs -> Call] /\ call'[p] = Idle
      /\ \A q \in Procs : q # p => call'[q] = call[q]
      /\ \A q \in Procs : \/ call'[q] = call[q] /\ q \notin {}
                          \/ Shape(call'[q]) /\ call'[q].pc # "watched"
  BY <1>1, IdleIsCall, GoesFields
<1>8. RequestTypeOK' /\ Shapes' /\ RequestsFresh'
  BY <1>1, <1>6, <1>7, WritesKeepRequests DEF DirectoryInv
<1>9. MembershipIndexed' /\ AssignmentsIndexed' /\ MembersCounted'
  BY <1>1 DEF DirectoryInv, Indexed, MembershipIndexed, AssignmentsIndexed,
              PrincipalExists, MembersCounted, MaxRelationships
<1>10. NamesIndexed'
  <2>1. ASSUME "lostReply" \notin deployment.clients, NEW h \in Groups, groups[h] # NoGroup
        PROVE  nameOwner'[Lower[groups[h].name]] = h
    <3>1. nameOwner[Lower[groups[h].name]] = h
      BY <2>1 DEF DirectoryInv, Indexed, NamesIndexed
    <3>2. groups[h].name \in Names /\ Lower[groups[h].name] \in Keys
      BY <2>1, AccessAssumption DEF DirectoryInv, TypeOK, Group
    <3> QED BY <2>1, <3>1, <3>2, <1>2, <1>4
  <2> QED BY <2>1, <1>1 DEF DirectoryInv, Indexed, NamesIndexed
<1>11. NamesHeld'
  <2>1. ASSUME Reliable, NEW k \in Keys, nameOwner'[k] # NoId
        PROVE  \/ /\ groups'[nameOwner'[k]] # NoGroup
                  /\ Lower[groups'[nameOwner'[k]].name] = k
               \/ \E q \in Procs : /\ call'[q].op = "createGroup"
                                   /\ call'[q].id = nameOwner'[k]
                                   /\ Lower[call'[q].name] = k
    <3>1. k # k0 /\ nameOwner'[k] = nameOwner[k]
      BY <2>1, <1>4
    <3>2. \/ /\ groups[nameOwner[k]] # NoGroup
             /\ Lower[groups[nameOwner[k]].name] = k
          \/ \E q \in Procs : /\ call[q].op = "createGroup"
                              /\ call[q].id = nameOwner[k]
                              /\ Lower[call[q].name] = k
      BY <2>1, <3>1 DEF DirectoryInv, NamesHeld
    <3> QED BY <3>1, <3>2, <1>0, <1>1, <1>7
  <2> QED BY <2>1, <1>1 DEF NamesHeld
<1>12. Reserving'
  <2>1. \A q \in Procs : call'[q].op = "createGroup" => q # p /\ call'[q] = call[q]
    BY <1>7, IdleIsCall
  <2>2. ASSUME NEW q \in Procs, call'[q].op = "createGroup", "lostReply" \notin deployment.clients
        PROVE  nameOwner'[Lower[call'[q].name]] = call'[q].id
    <3>1. /\ call'[q] = call[q] /\ call[q].name \in Names /\ call[q].id # g
          /\ nameOwner[Lower[call[q].name]] = call[q].id
      BY <2>1, <2>2, <1>0, <1>2 DEF DirectoryInv, Shapes, Shape, Reserving
    <3>2. Lower[call[q].name] \in Keys
      BY <3>1, AccessAssumption
    <3> QED BY <2>2, <3>1, <3>2, <1>2, <1>4
  <2> QED BY <2>1, <2>2, <1>1 DEF DirectoryInv, Reserving
<1> QED BY <1>5, <1>8, <1>9, <1>10, <1>11, <1>12
        DEF DirectoryInv, Indexed, TypeOK, StoreTypeOK, RequestTypeOK

LEMMA UndoNameStep ==
    ASSUME DirectoryInv, NEW p \in Procs, UndoName(p)
    PROVE  DirectoryInv'
<1>1. CASE UNCHANGED <<nameOwner, dirty>> /\ "lostReply" \in deployment.clients
  <2>1. Goes(p, Idle) /\ UNCHANGED <<graph, issued>> /\ dirty' = dirty /\ Observe
    BY <1>1 DEF UndoName, Finish, graph, groupStore
  <2> QED BY <1>1, <2>1, QuietStep, IdleIsCall
<1>2. CASE Released(p)
  BY <1>2, ReleaseStep
<1> QED BY <1>1, <1>2 DEF UndoName, Released

LEMMA PatchGroupStep ==
    ASSUME DirectoryInv, NEW p \in Procs, PatchGroup(p)
    PROVE  DirectoryInv'
<1>0. PICK c : c = call[p]
  OBVIOUS
<1> DEFINE g == c.id
           r == groups[g]
           new == c.plan[g]
           K == {GroupsKey} \cup IF new.name = c.old THEN {}
                                 ELSE {OrderKey, NameKey(Lower[c.old]), NameKey(Lower[new.name])}
<1>1. /\ accounts' = accounts /\ issued' = issued
      /\ groups' = [groups EXCEPT ![g] = new]
      /\ IF new.name = c.old THEN nameOwner' = nameOwner /\ order' = order
         ELSE MoveName(g, c.old, new.name)
      /\ members' = members /\ userGroups' = userGroups /\ assignments' = assignments
      /\ principalTenants' = principalTenants /\ deployment' = deployment
      /\ Committing(p, {"patchGroup"}) /\ Touch({p}, K) /\ Observe
  BY <1>0 DEF PatchGroup, memberStore, assignmentStore, Observe
<1>2. /\ c \in Call /\ Shape(c) /\ Fresh(c) /\ c.op = "patchGroup"
      /\ call' \in [Procs -> Call] /\ call'[p] = Idle
      /\ \A q \in Procs : q # p => call'[q] = call[q]
      /\ \A q \in Procs : \/ call'[q] = call[q] /\ q \notin {p}
                          \/ Shape(call'[q]) /\ call'[q].pc # "watched"
      /\ call[p].op # "createGroup" /\ call'[p].op # "createGroup"
  BY <1>0, <1>1, CommitFields
<1>3. g \in Groups /\ FreshPatch(c)
  BY <1>2 DEF Shape, Fresh
<1>4. /\ r \in Group /\ r # NoGroup /\ c.old = r.name
      /\ new.name # c.old => NameAvailable(new.name, g)
  BY <1>3 DEF FreshPatch, DirectoryInv, TypeOK
<1>5. new \in Group /\ new # NoGroup
  <2>1. new = Patched(c, r)
    BY <1>3 DEF FreshPatch
  <2>2. Patched(c, r) \in Group
    BY <1>2, <1>4 DEF Patched, Group, Call
  <2> QED BY <2>1, <2>2, AccessAssumption
<1> DEFINE k0 == Lower[c.old]
           k1 == Lower[new.name]
<1>6. c.old \in Names /\ new.name \in Names /\ k0 \in Keys /\ k1 \in Keys
  BY <1>4, <1>5, AccessAssumption DEF Group
<1>7. groups'[g] = new /\ \A h \in Groups : h # g => groups'[h] = groups[h]
  BY <1>1, <1>3 DEF DirectoryInv, TypeOK
<1>8. groups' \in [Groups -> Group \cup {NoGroup}]
  BY <1>1, <1>5 DEF DirectoryInv, TypeOK
<1>9. ASSUME new.name # c.old
      PROVE  /\ nameOwner' \in [Keys -> Groups \cup {NoId}]
             /\ nameOwner'[k1] = g
             /\ k0 # k1 => nameOwner'[k0] = NoId
             /\ \A k \in Keys : k # k0 /\ k # k1 => nameOwner'[k] = nameOwner[k]
             /\ order' = (order \ {<<k0, g>>}) \cup {<<k1, g>>}
  BY <1>9, <1>1, <1>3, <1>6 DEF MoveName, DirectoryInv, TypeOK
<1> HIDE DEF new, r, k0, k1
<1>10. StoreTypeOK'
  <2>1. nameOwner' \in [Keys -> Groups \cup {NoId}] /\ order' \subseteq Keys \X Groups
    <3>1. CASE new.name = c.old
      BY <3>1, <1>1 DEF DirectoryInv, TypeOK
    <3>2. CASE new.name # c.old
      BY <3>2, <1>3, <1>6, <1>9 DEF DirectoryInv, TypeOK
    <3> QED BY <3>1, <3>2
  <2> QED BY <1>1, <1>8, <2>1, TypeOKSplits DEF DirectoryInv, StoreTypeOK
<1>11. Written(K)
  <2>1. CASE new.name = c.old
    BY <2>1, <1>1 DEF Written
  <2>2. CASE new.name # c.old
    BY <2>2, <1>1, <1>9 DEF Written, k0, k1
  <2> QED BY <2>1, <2>2
<1> HIDE DEF K
<1>12. RequestTypeOK' /\ Shapes' /\ RequestsFresh'
  BY <1>1, <1>2, <1>11, WritesKeepRequests DEF DirectoryInv
<1>13. MembershipIndexed' /\ AssignmentsIndexed' /\ MembersCounted'
  <2>1. MembershipIndexed' /\ MembersCounted'
    BY <1>1, <1>3, <1>5, <1>7 DEF DirectoryInv, Indexed, MembershipIndexed, MembersCounted, MaxRelationships
  <2>2. \A pr \in Principals : PrincipalExists(pr) => PrincipalExists(pr)'
    BY <1>1, <1>3, <1>5, <1>7 DEF PrincipalExists, Principals
  <2> QED BY <1>1, <2>1, <2>2 DEF DirectoryInv, Indexed, AssignmentsIndexed
<1>14. NamesIndexed' /\ NamesHeld' /\ Reserving'
  <2>1. CASE new.name = c.old
    <3>1. NamesUnmoved
      BY <2>1, <1>1, <1>3, <1>4, <1>5, <1>7, <1>8 DEF NamesUnmoved, r
    <3> QED BY <3>1, <1>2, NamesKept
  <2>2. CASE new.name # c.old
    <3>0. nameOwner[k1] \in {NoId, g}
      BY <2>2, <1>4 DEF NameAvailable, k1
    <3>1. NamesIndexed'
      <4>1. SUFFICES ASSUME "lostReply" \notin deployment.clients
                     PROVE  /\ order' = {<<Lower[groups'[h].name], h>> : h \in {x \in Groups : groups'[x] # NoGroup}}
                            /\ \A h \in Groups : groups'[h] # NoGroup => nameOwner'[Lower[groups'[h].name]] = h
        BY <1>1 DEF NamesIndexed
      <4>2. /\ order = {<<Lower[groups[h].name], h>> : h \in {x \in Groups : groups[x] # NoGroup}}
            /\ \A h \in Groups : groups[h] # NoGroup => nameOwner[Lower[groups[h].name]] = h
        BY <4>1 DEF DirectoryInv, Indexed, NamesIndexed
      <4>3. order' = {<<Lower[groups'[h].name], h>> : h \in {x \in Groups : groups'[x] # NoGroup}}
        <5>1. \A x : x \in order' <=> \E h \in Groups : groups'[h] # NoGroup /\ x = <<Lower[groups'[h].name], h>>
          <6>1. \A x : x \in order <=> \E h \in Groups : groups[h] # NoGroup /\ x = <<Lower[groups[h].name], h>>
            BY <4>2
          <6>2. order' = (order \ {<<k0, g>>}) \cup {<<k1, g>>}
            BY <2>2, <1>9
          <6>3. \A h \in Groups : h # g => groups'[h] = groups[h]
            BY <1>7
          <6>4. Lower[groups[g].name] = k0 /\ Lower[groups'[g].name] = k1 /\ groups'[g] # NoGroup /\ groups[g] # NoGroup
            BY <1>4, <1>5, <1>7 DEF k0, k1, r
          <6> QED BY <6>1, <6>2, <6>3, <6>4, <1>3
        <5> QED BY <5>1
      <4>4. ASSUME NEW h \in Groups, groups'[h] # NoGroup
            PROVE  nameOwner'[Lower[groups'[h].name]] = h
        <5>1. CASE h = g
          BY <5>1, <2>2, <1>7, <1>9 DEF k1
        <5>2. CASE h # g
          <6>1. groups'[h] = groups[h] /\ groups[h] \in Group
            BY <4>4, <5>2, <1>7 DEF DirectoryInv, TypeOK
          <6>2. groups[h].name \in Names /\ Lower[groups[h].name] \in Keys
            BY <6>1, AccessAssumption DEF Group
          <6>3. nameOwner[Lower[groups[h].name]] = h /\ nameOwner[k0] = g
            BY <4>2, <4>4, <6>1, <1>3, <1>4 DEF k0, r
          <6> QED BY <5>2, <6>1, <6>2, <6>3, <3>0, <2>2, <1>9, NoIdIsNoGroup
        <5> QED BY <5>1, <5>2
      <4> QED BY <4>3, <4>4
    <3>2. NamesHeld'
      <4>1. ASSUME Reliable, NEW k \in Keys, nameOwner'[k] # NoId
            PROVE  \/ /\ groups'[nameOwner'[k]] # NoGroup
                      /\ Lower[groups'[nameOwner'[k]].name] = k
                   \/ \E q \in Procs : /\ call'[q].op = "createGroup"
                                       /\ call'[q].id = nameOwner'[k]
                                       /\ Lower[call'[q].name] = k
        <5>1. CASE k = k1
          BY <5>1, <2>2, <1>5, <1>7, <1>9 DEF k1
        <5>2. CASE k # k1
          <6>1. k # k0 /\ nameOwner'[k] = nameOwner[k] /\ nameOwner[k] \in Groups
            BY <4>1, <5>2, <2>2, <1>9 DEF DirectoryInv, TypeOK
          <6>2. CASE /\ groups[nameOwner[k]] # NoGroup
                     /\ Lower[groups[nameOwner[k]].name] = k
            <7>1. nameOwner[k] # g
              BY <6>1, <6>2, <1>4 DEF k0, r
            <7> QED BY <6>1, <6>2, <7>1, <1>7
          <6>3. CASE \E q \in Procs : /\ call[q].op = "createGroup"
                                      /\ call[q].id = nameOwner[k]
                                      /\ Lower[call[q].name] = k
            BY <6>1, <6>3, <1>2
          <6> QED BY <4>1, <6>1, <6>2, <6>3 DEF DirectoryInv, NamesHeld
        <5> QED BY <5>1, <5>2
      <4> QED BY <4>1, <1>1 DEF NamesHeld
    <3>3. Reserving'
      <4>1. \A q \in Procs : call'[q].op = "createGroup" => q # p /\ call'[q] = call[q]
        BY <1>2
      <4>2. ASSUME NEW q \in Procs, call[q].op = "createGroup"
            PROVE  /\ call[q].pc = "reserved" => groups'[call[q].id] = NoGroup
                   /\ "lostReply" \notin deployment.clients =>
                          /\ groups'[call[q].id] = NoGroup
                          /\ nameOwner'[Lower[call[q].name]] = call[q].id
        <5>1. call[q].id \in Groups /\ call[q].name \in Names /\ Lower[call[q].name] \in Keys
          BY <4>2, AccessAssumption DEF DirectoryInv, Shapes, Shape
        <5>2. groups[call[q].id] = NoGroup => call[q].id # g /\ groups'[call[q].id] = NoGroup
          BY <5>1, <1>4, <1>7 DEF r
        <5>3. ASSUME "lostReply" \notin deployment.clients
              PROVE  nameOwner'[Lower[call[q].name]] = call[q].id
          <6>1. nameOwner[Lower[call[q].name]] = call[q].id /\ groups[call[q].id] = NoGroup
            BY <4>2, <5>3 DEF DirectoryInv, Reserving
          <6>2. nameOwner[k0] = g
            BY <5>3, <1>3, <1>4 DEF DirectoryInv, Indexed, NamesIndexed, k0, r
          <6> QED BY <5>1, <5>2, <6>1, <6>2, <3>0, <2>2, <1>9, NoIdIsNoGroup
        <5> QED BY <4>2, <5>2, <5>3 DEF DirectoryInv, Reserving
      <4>3. \A h \in Groups : groups'[h] # NoGroup => h \in issued'
        BY <1>1, <1>3, <1>4, <1>7 DEF DirectoryInv, Reserving, r
      <4> QED BY <4>1, <4>2, <4>3, <1>1 DEF DirectoryInv, Reserving
    <3> QED BY <3>1, <3>2, <3>3
  <2> QED BY <2>1, <2>2
<1> QED BY SMTT(60), <1>10, <1>12, <1>13, <1>14
        DEF DirectoryInv, Indexed, TypeOK, StoreTypeOK, RequestTypeOK

\* A principal's fields leave the assignments of all its tenants.
LEMMA UnassignFields ==
    ASSUME DirectoryInv, NEW pr \in Principals, NEW ts, Unassign(pr, ts)
    PROVE  /\ assignments' \in [Tenants -> [Principals -> Assignment \cup {NoAssignment}]]
           /\ \A t \in Tenants : t \notin ts => assignments'[t] = assignments[t]
           /\ \A t \in Tenants, q \in Principals : q # pr => assignments'[t][q] = assignments[t][q]
           /\ \A t \in Tenants : t \in ts => assignments'[t][pr] = NoAssignment
BY DEF Unassign, DirectoryInv, TypeOK

LEMMA DeleteGroupStep ==
    ASSUME DirectoryInv, NEW p \in Procs, DeleteGroup(p)
    PROVE  DirectoryInv'
<1>0. PICK c : c = call[p]
  OBVIOUS
<1> DEFINE g == c.id
           k0 == Lower[c.old]
           K == {GroupsKey, OrderKey, NameKey(Lower[c.old])}
                         \cup If(c.links, MembersKey(g)) \cup If(c.tenants, TenantsKey(g))
                         \cup {UserGroupsKey(u) : u \in c.links}
                         \cup {AssignmentsKey(t) : t \in c.tenants}
<1>1. /\ accounts' = accounts /\ issued' = issued /\ deployment' = deployment
      /\ groups' = [groups EXCEPT ![g] = NoGroup]
      /\ nameOwner' = [nameOwner EXCEPT ![k0] = NoId]
      /\ order' = order \ {<<k0, g>>}
      /\ members' = [members EXCEPT ![g] = {}]
      /\ userGroups' = [u \in Users |-> IF u \in c.links THEN userGroups[u] \ {g} ELSE userGroups[u]]
      /\ Unassign(g, c.tenants)
      /\ principalTenants' = [principalTenants EXCEPT ![g] = {}]
      /\ Committing(p, {"deleteGroup"}) /\ Touch({p}, K) /\ Observe
  BY <1>0 DEF DeleteGroup, Observe
<1>2. /\ c \in Call /\ Shape(c) /\ Fresh(c) /\ c.op = "deleteGroup"
      /\ call' \in [Procs -> Call] /\ call'[p] = Idle
      /\ \A q \in Procs : q # p => call'[q] = call[q]
      /\ \A q \in Procs : \/ call'[q] = call[q] /\ q \notin {p}
                          \/ Shape(call'[q]) /\ call'[q].pc # "watched"
      /\ call[p].op # "createGroup" /\ call'[p].op # "createGroup"
  BY <1>0, <1>1, CommitFields
<1>3. /\ g \in Groups /\ g \in Principals /\ groups[g] \in Group /\ groups[g] # NoGroup
      /\ c.old = groups[g].name /\ c.links = members[g] /\ c.tenants = principalTenants[g]
  BY <1>2 DEF Shape, Fresh, FreshDelete, Principals, DirectoryInv, TypeOK
<1>4. c.old \in Names /\ k0 \in Keys
  BY <1>3, AccessAssumption DEF Group
<1>5. /\ groups' \in [Groups -> Group \cup {NoGroup}] /\ groups'[g] = NoGroup
      /\ \A h \in Groups : h # g => groups'[h] = groups[h]
  BY <1>1, <1>3 DEF DirectoryInv, TypeOK
<1>6. /\ nameOwner' \in [Keys -> Groups \cup {NoId}] /\ nameOwner'[k0] = NoId
      /\ \A k \in Keys : k # k0 => nameOwner'[k] = nameOwner[k]
  BY <1>1, <1>4 DEF DirectoryInv, TypeOK
<1>7. /\ members' \in [Groups -> SUBSET Users] /\ members'[g] = {}
      /\ \A h \in Groups : h # g => members'[h] = members[h]
  BY <1>1, <1>3 DEF DirectoryInv, TypeOK
<1>8. /\ userGroups' \in [Users -> SUBSET Groups]
      /\ \A u \in Users : u \notin members[g] => userGroups'[u] = userGroups[u]
      /\ \A u \in Users : userGroups'[u] = userGroups[u] \ {g}
  <2>1. \A u \in Users : u \notin members[g] => g \notin userGroups[u]
    BY <1>3 DEF DirectoryInv, Indexed, MembershipIndexed
  <2> QED BY <2>1, <1>1, <1>3 DEF DirectoryInv, TypeOK
<1>9. /\ principalTenants' \in [Principals -> SUBSET Tenants] /\ principalTenants'[g] = {}
      /\ \A q \in Principals : q # g => principalTenants'[q] = principalTenants[q]
  BY <1>1, <1>3 DEF DirectoryInv, TypeOK
<1>10. /\ assignments' \in [Tenants -> [Principals -> Assignment \cup {NoAssignment}]]
       /\ \A t \in Tenants : t \notin c.tenants => assignments'[t] = assignments[t]
       /\ \A t \in Tenants, q \in Principals : q # g => assignments'[t][q] = assignments[t][q]
       /\ \A t \in Tenants : t \in c.tenants => assignments'[t][g] = NoAssignment
  BY <1>1, <1>3, UnassignFields
<1>11. \A t \in Tenants : assignments'[t][g] = NoAssignment
  BY <1>3, <1>10 DEF DirectoryInv, Indexed, AssignmentsIndexed
<1>12. StoreTypeOK'
  BY <1>1, <1>5, <1>6, <1>7, <1>8, <1>9, <1>10, TypeOKSplits DEF DirectoryInv, StoreTypeOK
<1>13. Written(K)
  <2>1. GroupsKey \in K /\ NameKey(k0) \in K
    OBVIOUS
  <2>2. members[g] # {} => MembersKey(g) \in K
    BY <1>3 DEF If
  <2>3. principalTenants[g] # {} => TenantsKey(g) \in K
    BY <1>3 DEF If
  <2>4. \A u \in members[g] : UserGroupsKey(u) \in K
    BY <1>3
  <2>5. \A t \in c.tenants : AssignmentsKey(t) \in K
    OBVIOUS
  <2> HIDE DEF K, k0
  <2> QED BY <2>1, <2>2, <2>3, <2>4, <2>5, <1>1, <1>6, <1>7, <1>8, <1>9, <1>10 DEF Written
<1> HIDE DEF K
<1>14. RequestTypeOK' /\ Shapes' /\ RequestsFresh'
  BY <1>1, <1>2, <1>13, WritesKeepRequests DEF DirectoryInv
<1>15. MembershipIndexed'
  BY <1>1, <1>5, <1>7, <1>8 DEF DirectoryInv, Indexed, MembershipIndexed
<1>16. MembersCounted'
  <2>1. MaxRelationships \in Nat /\ MaxRelationships' = MaxRelationships
    BY <1>1, DeploymentTyped DEF MaxRelationships
  <2>2. IsFiniteSet(members'[g]) /\ Cardinality(members'[g]) <= MaxRelationships
    BY <2>1, <1>7, FS_EmptySet
  <2>3. MembersCounted
    BY DEF DirectoryInv
  <2>4. ASSUME NEW h \in Groups, h # g
        PROVE  IsFiniteSet(members'[h]) /\ Cardinality(members'[h]) <= MaxRelationships
    <3>1. members'[h] = members[h]
      BY <1>7, <2>4
    <3> QED BY <2>3, <3>1 DEF MembersCounted
  <2> QED BY <2>1, <2>2, <2>4 DEF MembersCounted
<1>17. AssignmentsIndexed'
  <2>1. ASSUME NEW t \in Tenants, NEW pr \in Principals
        PROVE  /\ (assignments'[t][pr] # NoAssignment) <=> (t \in principalTenants'[pr])
               /\ assignments'[t][pr] # NoAssignment => PrincipalExists(pr)'
    <3>1. CASE pr = g
      BY <3>1, <1>9, <1>11
    <3>2. CASE pr # g
      <4>1. PrincipalExists(pr) => PrincipalExists(pr)'
        BY <3>2, <1>1, <1>5 DEF PrincipalExists, Principals
      <4> QED BY <3>2, <4>1, <1>9, <1>10 DEF DirectoryInv, Indexed, AssignmentsIndexed
    <3> QED BY <3>1, <3>2
  <2> QED BY <2>1 DEF AssignmentsIndexed
<1> HIDE DEF k0
<1>18. NamesIndexed'
  <2>1. SUFFICES ASSUME "lostReply" \notin deployment.clients
                 PROVE  /\ order' = {<<Lower[groups'[h].name], h>> : h \in {x \in Groups : groups'[x] # NoGroup}}
                        /\ \A h \in Groups : groups'[h] # NoGroup => nameOwner'[Lower[groups'[h].name]] = h
    BY <1>1 DEF NamesIndexed
  <2>2. /\ order = {<<Lower[groups[h].name], h>> : h \in {x \in Groups : groups[x] # NoGroup}}
        /\ \A h \in Groups : groups[h] # NoGroup => nameOwner[Lower[groups[h].name]] = h
    BY <2>1 DEF DirectoryInv, Indexed, NamesIndexed
  <2>3. Lower[groups[g].name] = k0 /\ nameOwner[k0] = g
    BY <2>2, <1>3 DEF k0
  <2>4. order' = {<<Lower[groups'[h].name], h>> : h \in {x \in Groups : groups'[x] # NoGroup}}
    <3>1. \A x : x \in order' <=> \E h \in Groups : groups'[h] # NoGroup /\ x = <<Lower[groups'[h].name], h>>
      <4>1. \A x : x \in order <=> \E h \in Groups : groups[h] # NoGroup /\ x = <<Lower[groups[h].name], h>>
        BY <2>2
      <4> QED BY <4>1, <2>3, <1>1, <1>3, <1>5
    <3> QED BY <3>1
  <2>5. ASSUME NEW h \in Groups, groups'[h] # NoGroup
        PROVE  nameOwner'[Lower[groups'[h].name]] = h
    <3>1. h # g /\ groups'[h] = groups[h] /\ groups[h] \in Group
      BY <2>5, <1>5 DEF DirectoryInv, TypeOK
    <3>2. groups[h].name \in Names /\ Lower[groups[h].name] \in Keys
      BY <3>1, AccessAssumption DEF Group
    <3> QED BY <2>2, <2>3, <2>5, <3>1, <3>2, <1>6
  <2> QED BY <2>4, <2>5
<1>19. NamesHeld'
  <2>1. ASSUME Reliable, NEW k \in Keys, nameOwner'[k] # NoId
        PROVE  \/ /\ groups'[nameOwner'[k]] # NoGroup
                  /\ Lower[groups'[nameOwner'[k]].name] = k
               \/ \E q \in Procs : /\ call'[q].op = "createGroup"
                                   /\ call'[q].id = nameOwner'[k]
                                   /\ Lower[call'[q].name] = k
    <3>1. k # k0 /\ nameOwner'[k] = nameOwner[k] /\ nameOwner[k] \in Groups
      BY <2>1, <1>6 DEF DirectoryInv, TypeOK
    <3>2. CASE /\ groups[nameOwner[k]] # NoGroup
               /\ Lower[groups[nameOwner[k]].name] = k
      <4>1. nameOwner[k] # g
        BY <3>1, <3>2, <1>3 DEF k0
      <4> QED BY <3>1, <3>2, <4>1, <1>5
    <3>3. CASE \E q \in Procs : /\ call[q].op = "createGroup"
                                /\ call[q].id = nameOwner[k]
                                /\ Lower[call[q].name] = k
      BY <3>1, <3>3, <1>2
    <3> QED BY <2>1, <3>1, <3>2, <3>3 DEF DirectoryInv, NamesHeld
  <2> QED BY <2>1, <1>1 DEF NamesHeld
<1>20. Reserving'
  <2>1. \A q \in Procs : call'[q].op = "createGroup" => q # p /\ call'[q] = call[q]
    BY <1>2
  <2>2. ASSUME NEW q \in Procs, call[q].op = "createGroup"
        PROVE  /\ call[q].pc = "reserved" => groups'[call[q].id] = NoGroup
               /\ "lostReply" \notin deployment.clients =>
                      /\ groups'[call[q].id] = NoGroup
                      /\ nameOwner'[Lower[call[q].name]] = call[q].id
    <3>1. call[q].id \in Groups /\ call[q].name \in Names /\ Lower[call[q].name] \in Keys
      BY <2>2, AccessAssumption DEF DirectoryInv, Shapes, Shape
    <3>2. groups[call[q].id] = NoGroup => call[q].id # g /\ groups'[call[q].id] = NoGroup
      BY <3>1, <1>3, <1>5
    <3>3. ASSUME "lostReply" \notin deployment.clients
          PROVE  nameOwner'[Lower[call[q].name]] = call[q].id
      <4>1. nameOwner[Lower[call[q].name]] = call[q].id /\ groups[call[q].id] = NoGroup
        BY <2>2, <3>3 DEF DirectoryInv, Reserving
      <4>2. nameOwner[k0] = g
        BY <3>3, <1>3 DEF DirectoryInv, Indexed, NamesIndexed, k0
      <4> QED BY <3>1, <3>2, <4>1, <4>2, <1>6
    <3> QED BY <2>2, <3>2, <3>3 DEF DirectoryInv, Reserving
  <2>3. \A h \in Groups : groups'[h] # NoGroup => h \in issued'
    BY <1>1, <1>5 DEF DirectoryInv, Reserving
  <2> QED BY <2>1, <2>2, <2>3, <1>1 DEF DirectoryInv, Reserving
<1> QED BY <1>12, <1>14, <1>15, <1>16, <1>17, <1>18, <1>19, <1>20
        DEF DirectoryInv, Indexed, TypeOK, StoreTypeOK, RequestTypeOK

LEMMA ChangeGroupMemberStep ==
    ASSUME DirectoryInv, NEW p \in Procs, ChangeGroupMember(p)
    PROVE  DirectoryInv'
<1>0. PICK c : c = call[p]
  OBVIOUS
<1> DEFINE g == c.id
           u == c.user
           add == c.op = "putMember"
           K == {GroupsKey, MembersKey(g), UserGroupsKey(u)}
<1>1. /\ accounts' = accounts /\ issued' = issued /\ deployment' = deployment
      /\ nameOwner' = nameOwner /\ order' = order
      /\ assignments' = assignments /\ principalTenants' = principalTenants
      /\ groups' = [groups EXCEPT ![g] = c.plan[g]]
      /\ members' = [members EXCEPT ![g] = IF add THEN @ \cup {u} ELSE @ \ {u}]
      /\ userGroups' = [userGroups EXCEPT ![u] = IF add THEN @ \cup {g} ELSE @ \ {g}]
      /\ Committing(p, {"putMember", "deleteMember"}) /\ Touch({p}, K) /\ Observe
  BY <1>0 DEF ChangeGroupMember, Observe, assignmentStore
<1>2. /\ c \in Call /\ Shape(c) /\ Fresh(c) /\ c.op \in {"putMember", "deleteMember"}
      /\ call' \in [Procs -> Call] /\ call'[p] = Idle
      /\ \A q \in Procs : q # p => call'[q] = call[q]
      /\ \A q \in Procs : \/ call'[q] = call[q] /\ q \notin {p}
                          \/ Shape(call'[q]) /\ call'[q].pc # "watched"
      /\ call[p].op # "createGroup" /\ call'[p].op # "createGroup"
  BY <1>0, <1>1, CommitFields
<1>3. /\ g \in Groups /\ u \in Users /\ groups[g] \in Group /\ groups[g] # NoGroup
      /\ c.plan[g] = [groups[g] EXCEPT !.version = @ + 1]
      /\ add => u \in accounts /\ HasRoom(g)
  BY <1>2 DEF Shape, Fresh, FreshMember, DirectoryInv, TypeOK
<1>4. c.plan[g] \in Group /\ c.plan[g].name = groups[g].name /\ c.plan[g] # NoGroup
  <2>1. c.plan[g] \in Group /\ c.plan[g].name = groups[g].name
    BY <1>3 DEF Group
  <2> QED BY <2>1, AccessAssumption
<1>5. /\ groups' \in [Groups -> Group \cup {NoGroup}] /\ groups'[g] = c.plan[g]
      /\ \A h \in Groups : h # g => groups'[h] = groups[h]
  BY <1>1, <1>3, <1>4 DEF DirectoryInv, TypeOK
<1>6. /\ members' \in [Groups -> SUBSET Users]
      /\ members'[g] = IF add THEN members[g] \cup {u} ELSE members[g] \ {u}
      /\ \A h \in Groups : h # g => members'[h] = members[h]
  BY <1>1, <1>3 DEF DirectoryInv, TypeOK
<1>7. /\ userGroups' \in [Users -> SUBSET Groups]
      /\ userGroups'[u] = IF add THEN userGroups[u] \cup {g} ELSE userGroups[u] \ {g}
      /\ \A v \in Users : v # u => userGroups'[v] = userGroups[v]
  BY <1>1, <1>3 DEF DirectoryInv, TypeOK
<1>8. StoreTypeOK'
  BY <1>1, <1>5, <1>6, <1>7, TypeOKSplits DEF DirectoryInv, StoreTypeOK
<1>9. Written(K)
  <2>1. GroupsKey \in K /\ MembersKey(g) \in K /\ UserGroupsKey(u) \in K
    OBVIOUS
  <2> HIDE DEF K
  <2> QED BY <2>1, <1>1, <1>6, <1>7 DEF Written
<1> HIDE DEF K
<1>10. RequestTypeOK' /\ Shapes' /\ RequestsFresh'
  BY <1>1, <1>2, <1>9, WritesKeepRequests DEF DirectoryInv
<1>11. MembershipIndexed'
  <2>1. ASSUME NEW h \in Groups, NEW v \in Users
        PROVE  v \in members'[h] <=> h \in userGroups'[v]
    BY <1>3, <1>6, <1>7 DEF DirectoryInv, Indexed, MembershipIndexed
  <2>2. \A h \in Groups : groups'[h] = NoGroup => members'[h] = {}
    BY <1>4, <1>5, <1>6 DEF DirectoryInv, Indexed, MembershipIndexed
  <2>3. \A v \in Users \ accounts : userGroups'[v] = {}
    BY <1>3, <1>7 DEF DirectoryInv, Indexed, MembershipIndexed
  <2> QED BY <2>1, <2>2, <2>3, <1>1 DEF MembershipIndexed
<1>12. MembersCounted'
  <2>1. MaxRelationships \in Nat /\ MaxRelationships' = MaxRelationships
    BY <1>1, DeploymentTyped DEF MaxRelationships
  <2>2. IsFiniteSet(members[g]) /\ Cardinality(members[g]) <= MaxRelationships
    BY <1>3 DEF DirectoryInv, MembersCounted
  <2>3. Cardinality(members[g]) \in Nat
    BY <2>2, FS_CardinalityType
  <2>4. CASE add
    <3>1. Cardinality(members[g]) < MaxRelationships
      BY <2>4, <1>3 DEF HasRoom
    <3>2. /\ IsFiniteSet(members[g] \cup {u})
          /\ Cardinality(members[g] \cup {u}) \in {Cardinality(members[g]), Cardinality(members[g]) + 1}
      BY <2>2, FS_AddElement
    <3>3. IsFiniteSet(members'[g]) /\ Cardinality(members'[g]) <= MaxRelationships
      BY <2>1, <2>3, <2>4, <3>1, <3>2, <1>6
    <3> QED BY <2>1, <3>3, <1>6 DEF DirectoryInv, MembersCounted
  <2>5. CASE ~add
    <3>2. /\ IsFiniteSet(members[g] \ {u})
          /\ Cardinality(members[g] \ {u}) \in {Cardinality(members[g]), Cardinality(members[g]) - 1}
      BY <2>2, FS_RemoveElement
    <3>3. IsFiniteSet(members'[g]) /\ Cardinality(members'[g]) <= MaxRelationships
      BY <2>1, <2>2, <2>3, <2>5, <3>2, <1>6
    <3> QED BY <2>1, <3>3, <1>6 DEF DirectoryInv, MembersCounted
  <2> QED BY <2>4, <2>5
<1>13. AssignmentsIndexed'
  <2>1. \A pr \in Principals : PrincipalExists(pr) => PrincipalExists(pr)'
    BY <1>1, <1>3, <1>4, <1>5 DEF PrincipalExists, Principals
  <2> QED BY <1>1, <2>1 DEF DirectoryInv, Indexed, AssignmentsIndexed
<1>14. NamesIndexed' /\ NamesHeld' /\ Reserving'
  <2>1. NamesUnmoved
    BY <1>1, <1>3, <1>4, <1>5 DEF NamesUnmoved
  <2> QED BY <2>1, <1>2, NamesKept
<1> QED BY <1>8, <1>10, <1>11, <1>12, <1>13, <1>14
        DEF DirectoryInv, Indexed, TypeOK, StoreTypeOK, RequestTypeOK

LEMMA PutAccessAssignmentStep ==
    ASSUME DirectoryInv, NEW p \in Procs, PutAccessAssignment(p)
    PROVE  DirectoryInv'
<1>0. PICK c : c = call[p]
  OBVIOUS
<1> DEFINE pr == c.id
           t == c.tenant
           K == {AssignmentsKey(t)} \cup IF t \in principalTenants[pr] THEN {} ELSE {TenantsKey(pr)}
<1>1. /\ accounts' = accounts /\ issued' = issued /\ deployment' = deployment
      /\ nameOwner' = nameOwner /\ order' = order /\ groups' = groups
      /\ members' = members /\ userGroups' = userGroups
      /\ assignments' = [assignments EXCEPT ![t][pr] = c.entry]
      /\ principalTenants' = [principalTenants EXCEPT ![pr] = @ \cup {t}]
      /\ Committing(p, {"putAssignment", "addExactRole"}) /\ Touch({p}, K) /\ Observe
  BY <1>0 DEF PutAccessAssignment, Observe, groupStore, memberStore
<1>2. /\ c \in Call /\ Shape(c) /\ Fresh(c) /\ c.op \in {"putAssignment", "addExactRole"}
      /\ call' \in [Procs -> Call] /\ call'[p] = Idle
      /\ \A q \in Procs : q # p => call'[q] = call[q]
      /\ \A q \in Procs : \/ call'[q] = call[q] /\ q \notin {p}
                          \/ Shape(call'[q]) /\ call'[q].pc # "watched"
      /\ call[p].op # "createGroup" /\ call'[p].op # "createGroup"
  BY <1>0, <1>1, CommitFields
<1>3. /\ pr \in Principals /\ t \in Tenants /\ FreshPut(c) /\ PrincipalExists(pr)
      /\ c.roles \in (SUBSET Roles) \ {{}}
  BY <1>2 DEF Shape, Fresh, FreshPut, Call
<1>4. c.entry \in Assignment /\ c.entry # NoAssignment
  <2>1. c.entry \in Assignment
    BY <1>3 DEF FreshPut, Assignment, DirectoryInv, TypeOK
  <2> QED BY <2>1, AccessAssumption
<1>5. /\ assignments' \in [Tenants -> [Principals -> Assignment \cup {NoAssignment}]]
      /\ assignments'[t][pr] = c.entry
      /\ \A s \in Tenants : s # t => assignments'[s] = assignments[s]
      /\ \A s \in Tenants, q \in Principals : s # t \/ q # pr => assignments'[s][q] = assignments[s][q]
  BY <1>1, <1>3, <1>4 DEF DirectoryInv, TypeOK
<1>6. /\ principalTenants' \in [Principals -> SUBSET Tenants]
      /\ principalTenants'[pr] = principalTenants[pr] \cup {t}
      /\ \A q \in Principals : q # pr => principalTenants'[q] = principalTenants[q]
  BY <1>1, <1>3 DEF DirectoryInv, TypeOK
<1>7. StoreTypeOK'
  BY <1>1, <1>5, <1>6, TypeOKSplits DEF DirectoryInv, StoreTypeOK
<1>8. Written(K)
  <2>1. AssignmentsKey(t) \in K /\ (t \notin principalTenants[pr] => TenantsKey(pr) \in K)
    OBVIOUS
  <2> HIDE DEF K
  <2>2. t \in principalTenants[pr] => principalTenants'[pr] = principalTenants[pr]
    BY <1>6
  <2> QED BY <2>1, <2>2, <1>1, <1>5, <1>6 DEF Written
<1> HIDE DEF K
<1>9. RequestTypeOK' /\ Shapes' /\ RequestsFresh'
  BY <1>1, <1>2, <1>8, WritesKeepRequests DEF DirectoryInv
<1>10. MembershipIndexed' /\ MembersCounted'
  BY <1>1 DEF DirectoryInv, Indexed, MembershipIndexed, MembersCounted, MaxRelationships
<1>11. AssignmentsIndexed'
  <2>1. \A q \in Principals : PrincipalExists(q) => PrincipalExists(q)'
    BY <1>1 DEF PrincipalExists
  <2>2. ASSUME NEW s \in Tenants, NEW q \in Principals
        PROVE  /\ (assignments'[s][q] # NoAssignment) <=> (s \in principalTenants'[q])
               /\ assignments'[s][q] # NoAssignment => PrincipalExists(q)'
    <3>1. /\ (assignments[s][q] # NoAssignment) <=> (s \in principalTenants[q])
          /\ assignments[s][q] # NoAssignment => PrincipalExists(q)
      BY DEF DirectoryInv, Indexed, AssignmentsIndexed
    <3> QED BY <3>1, <2>1, <1>3, <1>4, <1>5, <1>6
  <2> QED BY <2>2 DEF AssignmentsIndexed
<1>12. NamesIndexed' /\ NamesHeld' /\ Reserving'
  <2>1. NamesUnmoved
    BY <1>1 DEF NamesUnmoved, DirectoryInv, TypeOK
  <2> QED BY <2>1, <1>2, NamesKept
<1> QED BY <1>7, <1>9, <1>10, <1>11, <1>12
        DEF DirectoryInv, Indexed, TypeOK, StoreTypeOK, RequestTypeOK

LEMMA DeleteAccessAssignmentStep ==
    ASSUME DirectoryInv, NEW p \in Procs, DeleteAccessAssignment(p)
    PROVE  DirectoryInv'
<1>0. PICK c : c = call[p]
  OBVIOUS
<1> DEFINE pr == c.id
           t == c.tenant
           K == {AssignmentsKey(t), TenantsKey(pr)}
<1>1. /\ accounts' = accounts /\ issued' = issued /\ deployment' = deployment
      /\ nameOwner' = nameOwner /\ order' = order /\ groups' = groups
      /\ members' = members /\ userGroups' = userGroups
      /\ Unassign(pr, {t})
      /\ principalTenants' = [principalTenants EXCEPT ![pr] = @ \ {t}]
      /\ Committing(p, {"deleteAssignment"}) /\ Touch({p}, K) /\ Observe
  BY <1>0 DEF DeleteAccessAssignment, Observe, groupStore, memberStore
<1>2. /\ c \in Call /\ Shape(c) /\ c.op = "deleteAssignment"
      /\ call' \in [Procs -> Call] /\ call'[p] = Idle
      /\ \A q \in Procs : q # p => call'[q] = call[q]
      /\ \A q \in Procs : \/ call'[q] = call[q] /\ q \notin {p}
                          \/ Shape(call'[q]) /\ call'[q].pc # "watched"
      /\ call[p].op # "createGroup" /\ call'[p].op # "createGroup"
  BY <1>0, <1>1, CommitFields
<1>3. pr \in Principals /\ t \in Tenants
  BY <1>2 DEF Shape
<1>4. /\ assignments' \in [Tenants -> [Principals -> Assignment \cup {NoAssignment}]]
      /\ \A s \in Tenants : s # t => assignments'[s] = assignments[s]
      /\ \A s \in Tenants, q \in Principals : q # pr => assignments'[s][q] = assignments[s][q]
      /\ assignments'[t][pr] = NoAssignment
  BY <1>1, <1>3, UnassignFields
<1>5. /\ principalTenants' \in [Principals -> SUBSET Tenants]
      /\ principalTenants'[pr] = principalTenants[pr] \ {t}
      /\ \A q \in Principals : q # pr => principalTenants'[q] = principalTenants[q]
  BY <1>1, <1>3 DEF DirectoryInv, TypeOK
<1>6. StoreTypeOK'
  BY <1>1, <1>4, <1>5, TypeOKSplits DEF DirectoryInv, StoreTypeOK
<1>7. Written(K)
  <2>1. AssignmentsKey(t) \in K /\ TenantsKey(pr) \in K
    OBVIOUS
  <2> HIDE DEF K
  <2> QED BY <2>1, <1>1, <1>4, <1>5 DEF Written
<1> HIDE DEF K
<1>8. RequestTypeOK' /\ Shapes' /\ RequestsFresh'
  BY <1>1, <1>2, <1>7, WritesKeepRequests DEF DirectoryInv
<1>9. MembershipIndexed' /\ MembersCounted'
  BY <1>1 DEF DirectoryInv, Indexed, MembershipIndexed, MembersCounted, MaxRelationships
<1>10. AssignmentsIndexed'
  <2>1. \A q \in Principals : PrincipalExists(q) => PrincipalExists(q)'
    BY <1>1 DEF PrincipalExists
  <2>2. ASSUME NEW s \in Tenants, NEW q \in Principals
        PROVE  /\ (assignments'[s][q] # NoAssignment) <=> (s \in principalTenants'[q])
               /\ assignments'[s][q] # NoAssignment => PrincipalExists(q)'
    <3>1. /\ (assignments[s][q] # NoAssignment) <=> (s \in principalTenants[q])
          /\ assignments[s][q] # NoAssignment => PrincipalExists(q)
      BY DEF DirectoryInv, Indexed, AssignmentsIndexed
    <3> QED BY <3>1, <2>1, <1>3, <1>4, <1>5
  <2> QED BY <2>2 DEF AssignmentsIndexed
<1>11. NamesIndexed' /\ NamesHeld' /\ Reserving'
  <2>1. NamesUnmoved
    BY <1>1 DEF NamesUnmoved, DirectoryInv, TypeOK
  <2> QED BY <2>1, <1>2, NamesKept
<1> QED BY <1>6, <1>8, <1>9, <1>10, <1>11
        DEF DirectoryInv, Indexed, TypeOK, StoreTypeOK, RequestTypeOK

LEMMA DeleteUserStep ==
    ASSUME DirectoryInv, NEW p \in Procs, DeleteUser(p)
    PROVE  DirectoryInv'
<1>0. PICK c : c = call[p]
  OBVIOUS
<1> DEFINE u == c.id
           K == {UsersKey} \cup If(c.links, GroupsKey)
                         \cup If(c.links, UserGroupsKey(u)) \cup If(c.tenants, TenantsKey(u))
                         \cup {MembersKey(g) : g \in c.links}
                         \cup {AssignmentsKey(t) : t \in c.tenants}
<1>1. /\ issued' = issued /\ deployment' = deployment
      /\ nameOwner' = nameOwner /\ order' = order
      /\ accounts' = accounts \ {u}
      /\ groups' = [g \in Groups |-> IF g \in c.links THEN c.plan[g] ELSE groups[g]]
      /\ members' = [g \in Groups |-> IF g \in c.links THEN members[g] \ {u} ELSE members[g]]
      /\ userGroups' = [userGroups EXCEPT ![u] = {}]
      /\ Unassign(u, c.tenants)
      /\ principalTenants' = [principalTenants EXCEPT ![u] = {}]
      /\ Committing(p, {"selfDelete", "adminDelete"}) /\ Touch({p}, K) /\ Observe
  BY <1>0 DEF DeleteUser, Observe
<1>2. /\ c \in Call /\ Shape(c) /\ Fresh(c) /\ c.op \in {"selfDelete", "adminDelete"}
      /\ call' \in [Procs -> Call] /\ call'[p] = Idle
      /\ \A q \in Procs : q # p => call'[q] = call[q]
      /\ \A q \in Procs : \/ call'[q] = call[q] /\ q \notin {p}
                          \/ Shape(call'[q]) /\ call'[q].pc # "watched"
      /\ call[p].op # "createGroup" /\ call'[p].op # "createGroup"
  BY <1>0, <1>1, CommitFields
<1>3. /\ u \in Users /\ u \in Principals /\ c.links = userGroups[u] /\ c.tenants = principalTenants[u]
      /\ c.links \subseteq Groups
      /\ \A g \in c.links : /\ groups[g] # NoGroup
                            /\ c.plan[g] = [groups[g] EXCEPT !.version = @ + 1]
  BY <1>2 DEF Shape, Fresh, FreshUserDelete, Principals, DirectoryInv, TypeOK
<1>4. \A g \in c.links : /\ groups[g] # NoGroup
                         /\ c.plan[g] \in Group /\ c.plan[g].name = groups[g].name /\ c.plan[g] # NoGroup
  <2>2. \A g \in c.links : groups[g] \in Group
    BY ZenonT(60), <1>3 DEF DirectoryInv, TypeOK
  <2>3. ASSUME NEW g \in c.links
        PROVE  c.plan[g] \in Group /\ c.plan[g].name = groups[g].name
    <3>1. PICK r : r = groups[g]
      OBVIOUS
    <3>2. r \in Group /\ c.plan[g] = [r EXCEPT !.version = @ + 1]
      BY <2>2, <3>1, <1>3
    <3> QED BY <3>1, <3>2 DEF Group
  <2> QED BY ZenonT(60), <2>3, <1>3, AccessAssumption
<1>5. /\ groups' \in [Groups -> Group \cup {NoGroup}]
      /\ \A g \in Groups : g \in c.links => groups'[g] = c.plan[g]
      /\ \A g \in Groups : g \notin c.links => groups'[g] = groups[g]
  BY <1>1, <1>4 DEF DirectoryInv, TypeOK
<1>6. /\ members' \in [Groups -> SUBSET Users]
      /\ \A g \in Groups : g \notin c.links => members'[g] = members[g]
      /\ \A g \in Groups : members'[g] = members[g] \ {u}
  <2>1. \A g \in Groups : g \notin c.links => u \notin members[g]
    BY <1>3 DEF DirectoryInv, Indexed, MembershipIndexed
  <2> QED BY <2>1, <1>1 DEF DirectoryInv, TypeOK
<1>7. /\ userGroups' \in [Users -> SUBSET Groups] /\ userGroups'[u] = {}
      /\ \A v \in Users : v # u => userGroups'[v] = userGroups[v]
  BY <1>1, <1>3 DEF DirectoryInv, TypeOK
<1>8. /\ principalTenants' \in [Principals -> SUBSET Tenants] /\ principalTenants'[u] = {}
      /\ \A q \in Principals : q # u => principalTenants'[q] = principalTenants[q]
  BY <1>1, <1>3 DEF DirectoryInv, TypeOK
<1>9. /\ assignments' \in [Tenants -> [Principals -> Assignment \cup {NoAssignment}]]
      /\ \A t \in Tenants : t \notin c.tenants => assignments'[t] = assignments[t]
      /\ \A t \in Tenants, q \in Principals : q # u => assignments'[t][q] = assignments[t][q]
      /\ \A t \in Tenants : t \in c.tenants => assignments'[t][u] = NoAssignment
  BY <1>1, <1>3, UnassignFields
<1>10. \A t \in Tenants : assignments'[t][u] = NoAssignment
  BY <1>3, <1>9 DEF DirectoryInv, Indexed, AssignmentsIndexed
<1>11. StoreTypeOK'
  BY <1>1, <1>5, <1>6, <1>7, <1>8, <1>9, TypeOKSplits DEF DirectoryInv, StoreTypeOK
<1>12. Written(K)
  <2>1. UsersKey \in K /\ (c.links # {} => GroupsKey \in K /\ UserGroupsKey(u) \in K)
    BY DEF If
  <2>2. c.tenants # {} => TenantsKey(u) \in K
    BY DEF If
  <2>3. \A g \in c.links : MembersKey(g) \in K
    OBVIOUS
  <2>4. \A t \in c.tenants : AssignmentsKey(t) \in K
    OBVIOUS
  <2> HIDE DEF K
  <2>5. c.links = {} => groups' = groups
    BY <1>1 DEF DirectoryInv, TypeOK
  <2>6. \A v \in Users : UserGroupsKey(v) \notin K => userGroups'[v] = userGroups[v]
    BY <2>1, <1>3, <1>7
  <2>7. \A q \in Principals : TenantsKey(q) \notin K => principalTenants'[q] = principalTenants[q]
    BY <2>2, <1>3, <1>8
  <2>8. /\ \A g \in Groups : MembersKey(g) \notin K => members'[g] = members[g]
        /\ \A t \in Tenants : AssignmentsKey(t) \notin K => assignments'[t] = assignments[t]
    BY <2>3, <2>4, <1>6, <1>9
  <2> QED BY <2>1, <2>5, <2>6, <2>7, <2>8, <1>1 DEF Written
<1> HIDE DEF K
<1>13. RequestTypeOK' /\ Shapes' /\ RequestsFresh'
  BY <1>1, <1>2, <1>12, WritesKeepRequests DEF DirectoryInv
<1>14. MembershipIndexed'
  <2>1. ASSUME NEW h \in Groups, NEW v \in Users
        PROVE  v \in members'[h] <=> h \in userGroups'[v]
    BY <1>3, <1>6, <1>7 DEF DirectoryInv, Indexed, MembershipIndexed
  <2>2. \A h \in Groups : groups'[h] = NoGroup => members'[h] = {}
    BY <1>4, <1>5, <1>6 DEF DirectoryInv, Indexed, MembershipIndexed
  <2>3. \A v \in Users \ accounts' : userGroups'[v] = {}
    BY <1>1, <1>3, <1>7 DEF DirectoryInv, Indexed, MembershipIndexed
  <2> QED BY <2>1, <2>2, <2>3 DEF MembershipIndexed
<1>15. MembersCounted'
  <2>1. MaxRelationships \in Nat /\ MaxRelationships' = MaxRelationships
    BY <1>1, DeploymentTyped DEF MaxRelationships
  <2>2. ASSUME NEW g \in Groups
        PROVE  IsFiniteSet(members'[g]) /\ Cardinality(members'[g]) <= MaxRelationships
    <3>1. IsFiniteSet(members[g]) /\ Cardinality(members[g]) <= MaxRelationships
      BY DEF DirectoryInv, MembersCounted
    <3>2. Cardinality(members[g]) \in Nat
      BY <3>1, FS_CardinalityType
    <3>3. /\ IsFiniteSet(members[g] \ {u})
          /\ Cardinality(members[g] \ {u}) \in {Cardinality(members[g]), Cardinality(members[g]) - 1}
      BY <3>1, FS_RemoveElement
    <3> QED BY <2>1, <3>1, <3>2, <3>3, <1>6
  <2> QED BY <2>1, <2>2 DEF MembersCounted
<1>16. AssignmentsIndexed'
  <2>1. ASSUME NEW t \in Tenants, NEW pr \in Principals
        PROVE  /\ (assignments'[t][pr] # NoAssignment) <=> (t \in principalTenants'[pr])
               /\ assignments'[t][pr] # NoAssignment => PrincipalExists(pr)'
    <3>1. CASE pr = u
      BY <3>1, <1>8, <1>10
    <3>2. CASE pr # u
      <4>1. PrincipalExists(pr) => PrincipalExists(pr)'
        BY <3>2, <1>1, <1>4, <1>5 DEF PrincipalExists, Principals
      <4> QED BY <3>2, <4>1, <1>8, <1>9 DEF DirectoryInv, Indexed, AssignmentsIndexed
    <3> QED BY <3>1, <3>2
  <2> QED BY <2>1 DEF AssignmentsIndexed
<1>17. NamesIndexed' /\ NamesHeld' /\ Reserving'
  <2>1. NamesUnmoved
    BY <1>1, <1>3, <1>4, <1>5 DEF NamesUnmoved
  <2> QED BY <2>1, <1>2, NamesKept
<1> QED BY <1>11, <1>13, <1>14, <1>15, <1>16, <1>17
        DEF DirectoryInv, Indexed, TypeOK, StoreTypeOK, RequestTypeOK

----------------------------------------------------------------------------
(* The directory is consistent *)

LEMMA InitDirectory == Init => DirectoryInv
<1> SUFFICES ASSUME Init PROVE DirectoryInv
  OBVIOUS
<1>1. deployment \in Deployment /\ deployment.limit \in Nat
  BY DeploymentAssumption DEF Init, Deployment
<1>2. StoreTypeOK
  <2>1. NoPlan \in [Groups -> Group \cup {NoGroup}]
    BY DEF NoPlan
  <2> QED BY <1>1, <2>1 DEF Init, StoreTypeOK, Deployment, Principals
<1>3. RequestTypeOK
  BY IdleIsCall DEF Init, RequestTypeOK, Closed
<1>4. \A g \in Groups : groups[g] = NoGroup
  BY DEF Init, NoPlan
<1>5. Indexed
  <2>1. MembershipIndexed /\ AssignmentsIndexed
    BY DEF Init, MembershipIndexed, AssignmentsIndexed
  <2>2. NamesIndexed
    BY <1>4 DEF Init, NamesIndexed
  <2> QED BY <2>1, <2>2 DEF Indexed
<1>6. NamesHeld /\ Reserving
  BY <1>4, IdleIsCall DEF Init, NamesHeld, Reserving
<1>7. MembersCounted
  BY <1>1, FS_EmptySet DEF Init, MembersCounted, MaxRelationships
<1>8. Shapes /\ RequestsFresh
  BY IdleIsCall DEF Init, Shapes, RequestsFresh
<1> QED BY <1>2, <1>3, <1>5, <1>6, <1>7, <1>8, TypeOKSplits DEF DirectoryInv

LEMMA GroupSteps ==
    ASSUME DirectoryInv, NEW p \in Procs, GroupStep(p)
    PROVE  DirectoryInv'
<1>0. /\ \A c \in PatchRequests : IsRequest(c, "patchGroup")
      /\ \A c \in DeleteGroupRequests : IsRequest(c, "deleteGroup")
      /\ \A op \in {"putMember", "deleteMember"} : \A c \in MemberRequests(op) : IsRequest(c, op)
  BY RequestsTyped
<1>1. ASSUME NEW g \in Groups, NEW n \in Names, ReserveName(p, g, n) PROVE DirectoryInv'
  BY <1>1, ReserveNameStep
<1>2. CASE CreateGroup(p)
  BY <1>2, CreateGroupStep
<1>3. ASSUME NEW applied \in BOOLEAN, CreateGroupFails(p, applied) PROVE DirectoryInv'
  BY <1>3, CreateGroupFailsStep
<1>4. CASE UndoName(p)
  BY <1>4, UndoNameStep
<1>5. ASSUME NEW c \in Pending(p, "patchGroup", PatchRequests), WatchPatch(p, c) PROVE DirectoryInv'
  <2>1. IsRequest(c, "patchGroup") /\ call[p].op # "createGroup"
    BY <1>0, PendingRequest DEF WatchOps
  <2> QED BY <1>5, <2>1, WatchPatchStep
<1>6. CASE PatchGroup(p)
  BY <1>6, PatchGroupStep
<1>7. ASSUME NEW c \in Pending(p, "deleteGroup", DeleteGroupRequests), WatchDeleteGroup(p, c)
      PROVE  DirectoryInv'
  <2>1. IsRequest(c, "deleteGroup") /\ call[p].op # "createGroup"
    BY <1>0, PendingRequest DEF WatchOps
  <2> QED BY <1>7, <2>1, WatchDeleteGroupStep
<1>8. CASE DeleteGroup(p)
  BY <1>8, DeleteGroupStep
<1>9. ASSUME NEW op \in {"putMember", "deleteMember"},
             NEW c \in Pending(p, op, MemberRequests(op)), WatchMember(p, c)
      PROVE  DirectoryInv'
  <2>1. op \in WatchOps /\ \A d \in MemberRequests(op) : IsRequest(d, op)
    BY <1>0 DEF WatchOps
  <2>2. IsRequest(c, op) /\ call[p].op # "createGroup"
    BY <2>1, PendingRequest
  <2> QED BY <1>9, <2>2, WatchMemberStep
<1>10. CASE ChangeGroupMember(p)
  BY <1>10, ChangeGroupMemberStep
<1> QED BY <1>1, <1>2, <1>3, <1>4, <1>5, <1>6, <1>7, <1>8, <1>9, <1>10 DEF GroupStep

LEMMA AssignmentSteps ==
    ASSUME DirectoryInv, NEW p \in Procs, AssignmentStep(p)
    PROVE  DirectoryInv'
<1>0. /\ \A c \in PutRequests : IsRequest(c, "putAssignment")
      /\ \A c \in DropRequests : IsRequest(c, "deleteAssignment")
  BY RequestsTyped
<1>1. ASSUME NEW c \in Pending(p, "putAssignment", PutRequests), WatchPut(p, c) PROVE DirectoryInv'
  <2>1. IsRequest(c, "putAssignment") /\ call[p].op # "createGroup"
    BY <1>0, PendingRequest DEF WatchOps
  <2> QED BY <1>1, <2>1, WatchPutStep
<1>2. ASSUME NEW c \in Pending(p, "addExactRole", {}), WatchPut(p, c) PROVE DirectoryInv'
  <2>1. IsRequest(c, "addExactRole") /\ call[p].op # "createGroup"
    BY PendingRequest DEF WatchOps
  <2> QED BY <1>2, <2>1, WatchPutStep
<1>3. CASE PutAccessAssignment(p)
  BY <1>3, PutAccessAssignmentStep
<1>4. ASSUME NEW u \in Users, NEW t \in Tenants, NEW r \in Roles, ReadForRole(p, u, t, r)
      PROVE  DirectoryInv'
  BY <1>4, ReadForRoleStep
<1>5. ASSUME NEW c \in Pending(p, "deleteAssignment", DropRequests), WatchDrop(p, c) PROVE DirectoryInv'
  <2>1. IsRequest(c, "deleteAssignment") /\ call[p].op # "createGroup"
    BY <1>0, PendingRequest DEF WatchOps
  <2> QED BY <1>5, <2>1, WatchDropStep
<1>6. CASE DeleteAccessAssignment(p)
  BY <1>6, DeleteAccessAssignmentStep
<1> QED BY <1>1, <1>2, <1>3, <1>4, <1>5, <1>6 DEF AssignmentStep

LEMMA DeletionSteps ==
    ASSUME DirectoryInv, NEW p \in Procs, DeletionStep(p)
    PROVE  DirectoryInv'
<1>0. /\ \A c \in DeleteRequests("selfDelete") : IsRequest(c, "selfDelete")
      /\ \A c \in DeleteRequests("adminDelete") : IsRequest(c, "adminDelete")
  BY RequestsTyped
<1>1. ASSUME NEW c \in Pending(p, "selfDelete", DeleteRequests("selfDelete")), ObserveSelf(p, c)
      PROVE  DirectoryInv'
  <2>1. IsRequest(c, "selfDelete") /\ call[p].op # "createGroup"
    BY <1>0, PendingRequest DEF WatchOps
  <2> QED BY <1>1, <2>1, ObserveSelfStep
<1>2. CASE WatchSelfDelete(p)
  BY <1>2, WatchSelfDeleteStep
<1>3. ASSUME NEW c \in Pending(p, "adminDelete", DeleteRequests("adminDelete")), WatchAdminDelete(p, c)
      PROVE  DirectoryInv'
  <2>1. IsRequest(c, "adminDelete") /\ call[p].op # "createGroup"
    BY <1>0, PendingRequest DEF WatchOps
  <2> QED BY <1>3, <2>1, WatchAdminDeleteStep
<1>4. CASE DeleteUser(p)
  BY <1>4, DeleteUserStep
<1> QED BY <1>1, <1>2, <1>3, <1>4 DEF DeletionStep

LEMMA NextDirectory ==
    ASSUME DirectoryInv, [Next]_vars
    PROVE  DirectoryInv'
<1>1. ASSUME NEW u \in Users, CreateUser(u) PROVE DirectoryInv'
  BY <1>1, CreateUserStep
<1>2. CASE UpdateUser
  BY <1>2, UpdateUserStep
<1>3. ASSUME NEW p \in Procs, GroupStep(p) PROVE DirectoryInv'
  BY <1>3, GroupSteps
<1>4. ASSUME NEW p \in Procs, AssignmentStep(p) PROVE DirectoryInv'
  BY <1>4, AssignmentSteps
<1>5. ASSUME NEW p \in Procs, DeletionStep(p) PROVE DirectoryInv'
  BY <1>5, DeletionSteps
<1>6. ASSUME NEW p \in Procs, ReaderStep(p) PROVE DirectoryInv'
  BY <1>6, ReaderSteps
<1>7. ASSUME NEW p \in Procs, ExecFails(p) PROVE DirectoryInv'
  BY <1>7, ExecFailsStep
<1>8. ASSUME NEW p \in Procs, Crash(p) PROVE DirectoryInv'
  BY <1>8, CrashStep
<1>9. CASE UNCHANGED vars
  BY <1>9, StutterStep
<1> QED BY <1>1, <1>2, <1>3, <1>4, <1>5, <1>6, <1>7, <1>8, <1>9 DEF Next

\* Every reachable state of the directory satisfies the inductive invariant:
\* both copies of every relation agree, and what a request that is not
\* disturbed is about to write was computed from the state it will write to.
THEOREM DirectoryInvariant == Spec => []DirectoryInv
<1>1. DirectoryInv /\ [Next]_vars => DirectoryInv'
  BY NextDirectory
<1> QED BY <1>1, InitDirectory, PTL DEF Spec

\* Whatever requests, crashes and lost replies interleave, every record decodes,
\* memberships and assignments are indexed on both sides and name principals
\* that exist, group names are unique and not leaked, and no group outgrows the
\* limit of its readers.
THEOREM DirectoryStaysConsistent == Spec => []DirectoryConsistent
<1>1. DirectoryInv => DirectoryConsistent
  <2> SUFFICES ASSUME DirectoryInv PROVE DirectoryConsistent
    OBVIOUS
  <2>1. TypeOK /\ MembershipIndexed /\ AssignmentsIndexed /\ NamesIndexed /\ MembersBounded
    BY DEF DirectoryInv, Indexed, MembersCounted, MembersBounded
  <2>2. \A p \in Procs : call[p].op = "createGroup" => call[p].pc \in {"reserved", "undo"}
    BY DEF DirectoryInv, Shapes, Shape
  <2>3. RefusedNameIsOwned
    BY <2>2 DEF DirectoryInv, NamesHeld, RefusedNameIsOwned
  <2> QED BY <2>1, <2>3 DEF DirectoryConsistent
<1> QED BY <1>1, DirectoryInvariant, PTL

----------------------------------------------------------------------------
(* Who writes what *)

LEMMA WhoWrites ==
    ASSUME [Next]_vars
    PROVE  \/ UNCHANGED <<groups, members, assignments>>
           \/ \E q \in Procs :
                  \/ /\ call[q].pc = "reserved" /\ StoreGroup(call[q].id, call[q].name)
                     /\ UNCHANGED <<members, assignments>>
                  \/ PatchGroup(q) \/ DeleteGroup(q) \/ ChangeGroupMember(q)
                  \/ PutAccessAssignment(q) \/ DeleteAccessAssignment(q) \/ DeleteUser(q)
<1> USE DEF graph, groupStore, memberStore, assignmentStore
<1>1. ASSUME NEW p \in Procs, GroupStep(p)
      PROVE  \/ UNCHANGED <<groups, members, assignments>>
             \/ /\ call[p].pc = "reserved" /\ StoreGroup(call[p].id, call[p].name)
                /\ UNCHANGED <<members, assignments>>
             \/ PatchGroup(p) \/ DeleteGroup(p) \/ ChangeGroupMember(p)
  <2>1. ASSUME NEW g \in Groups, NEW n \in Names, ReserveName(p, g, n)
        PROVE  UNCHANGED <<groups, members, assignments>>
    BY <2>1 DEF ReserveName
  <2>2. CASE CreateGroup(p)
    BY <2>2 DEF CreateGroup
  <2>3. ASSUME NEW applied \in BOOLEAN, CreateGroupFails(p, applied)
        PROVE  \/ UNCHANGED <<groups, members, assignments>>
               \/ /\ call[p].pc = "reserved" /\ StoreGroup(call[p].id, call[p].name)
                  /\ UNCHANGED <<members, assignments>>
    BY <2>3 DEF CreateGroupFails
  <2>4. CASE UndoName(p)
    BY <2>4 DEF UndoName
  <2>5. ASSUME NEW c, WatchPatch(p, c) PROVE UNCHANGED <<groups, members, assignments>>
    BY <2>5 DEF WatchPatch, Watches, Returns
  <2>6. ASSUME NEW c, WatchDeleteGroup(p, c) PROVE UNCHANGED <<groups, members, assignments>>
    BY <2>6 DEF WatchDeleteGroup, Watches, Returns
  <2>7. ASSUME NEW c, WatchMember(p, c) PROVE UNCHANGED <<groups, members, assignments>>
    BY <2>7 DEF WatchMember, Watches, Returns
  <2> QED BY <1>1, <2>1, <2>2, <2>3, <2>4, <2>5, <2>6, <2>7 DEF GroupStep
<1>2. ASSUME NEW p \in Procs, AssignmentStep(p)
      PROVE  \/ UNCHANGED <<groups, members, assignments>>
             \/ PutAccessAssignment(p) \/ DeleteAccessAssignment(p)
  <2>1. ASSUME NEW c, WatchPut(p, c) PROVE UNCHANGED <<groups, members, assignments>>
    BY <2>1 DEF WatchPut, Watches, Returns
  <2>2. ASSUME NEW u, NEW t, NEW r, ReadForRole(p, u, t, r) PROVE UNCHANGED <<groups, members, assignments>>
    BY <2>2 DEF ReadForRole
  <2>3. ASSUME NEW c, WatchDrop(p, c) PROVE UNCHANGED <<groups, members, assignments>>
    BY <2>3 DEF WatchDrop, Watches, Returns
  <2> QED BY <1>2, <2>1, <2>2, <2>3 DEF AssignmentStep
<1>3. ASSUME NEW p \in Procs, DeletionStep(p)
      PROVE  UNCHANGED <<groups, members, assignments>> \/ DeleteUser(p)
  <2>1. ASSUME NEW c, ObserveSelf(p, c) PROVE UNCHANGED <<groups, members, assignments>>
    BY <2>1 DEF ObserveSelf, Returns
  <2>2. CASE WatchSelfDelete(p)
    BY <2>2 DEF WatchSelfDelete, Watches, Returns
  <2>3. ASSUME NEW c, WatchAdminDelete(p, c) PROVE UNCHANGED <<groups, members, assignments>>
    BY <2>3 DEF WatchAdminDelete, Watches, Returns
  <2> QED BY <1>3, <2>1, <2>2, <2>3 DEF DeletionStep
<1>4. ASSUME NEW p \in Procs, ReaderStep(p) PROVE UNCHANGED <<groups, members, assignments>>
  BY <1>4 DEF ReaderStep, ReadUser, ReadDirect, ReadGroups, ReadGroup, ReadGroupAssignment, Answer
<1>5. ASSUME NEW p \in Procs, ExecFails(p) \/ Crash(p) PROVE UNCHANGED <<groups, members, assignments>>
  BY <1>5 DEF ExecFails, Crash
<1>6. ASSUME NEW u \in Users, CreateUser(u) PROVE UNCHANGED <<groups, members, assignments>>
  BY <1>6 DEF CreateUser
<1>7. CASE UpdateUser
  BY <1>7 DEF UpdateUser
<1>8. CASE UNCHANGED vars
  BY <1>8 DEF vars
<1> QED BY <1>1, <1>2, <1>3, <1>4, <1>5, <1>6, <1>7, <1>8 DEF Next

\* The record of a commit's group, one version later.
LEMMA Advances ==
    ASSUME NEW r \in Group
    PROVE  [r EXCEPT !.version = @ + 1].version = r.version + 1
BY DEF Group

\* A step that changes a group that stays, or its members, advances its version
\* by one: an ETag identifies one state of the group.
THEOREM GroupETagsAdvance == Spec => GroupETagAdvances
<1> DEFINE Step == \A g \in Groups :
                       groups[g] # NoGroup /\ groups'[g] # NoGroup
                           /\ (groups'[g] # groups[g] \/ members'[g] # members[g])
                           => groups'[g].version = groups[g].version + 1
<1>1. ASSUME DirectoryInv, [Next]_vars
      PROVE  Step
  <2> SUFFICES ASSUME NEW g \in Groups, groups[g] # NoGroup, groups'[g] # NoGroup,
                      groups'[g] # groups[g] \/ members'[g] # members[g]
               PROVE  groups'[g].version = groups[g].version + 1
    OBVIOUS
  <2>0. groups[g] \in Group /\ groups = [h \in Groups |-> groups[h]] /\ members = [h \in Groups |-> members[h]]
    BY <1>1 DEF DirectoryInv, TypeOK
  <2>1. ASSUME NEW q \in Procs, call[q].pc = "reserved", StoreGroup(call[q].id, call[q].name),
               UNCHANGED <<members, assignments>>
        PROVE  groups'[g].version = groups[g].version + 1
    <3>1. call[q].id \in Groups /\ groups[call[q].id] = NoGroup
      BY <1>1, <2>1 DEF DirectoryInv, Shapes, Shape, Reserving
    <3> QED BY <2>0, <2>1, <3>1 DEF StoreGroup
  <2>2. ASSUME NEW q \in Procs, PatchGroup(q)
        PROVE  groups'[g].version = groups[g].version + 1
    <3>1. PICK c : c = call[q]
      OBVIOUS
    <3>2. groups' = [groups EXCEPT ![c.id] = c.plan[c.id]] /\ members' = members
          /\ Committing(q, {"patchGroup"})
      BY <2>2, <3>1 DEF PatchGroup, memberStore
    <3>3. c.op = "patchGroup" /\ c \in Call /\ Fresh(c)
      BY <1>1, <3>1, <3>2, CommitFields
    <3>4. c.plan[c.id] = Patched(c, groups[c.id])
      BY <3>3 DEF Fresh, FreshPatch
    <3> QED BY <2>0, <3>2, <3>4 DEF Patched
  <2>3. ASSUME NEW q \in Procs, DeleteGroup(q)
        PROVE  groups'[g].version = groups[g].version + 1
    <3>1. groups' = [groups EXCEPT ![call[q].id] = NoGroup] /\ members' = [members EXCEPT ![call[q].id] = {}]
      BY <2>3 DEF DeleteGroup
    <3> QED BY <2>0, <3>1
  <2>4. ASSUME NEW q \in Procs, ChangeGroupMember(q)
        PROVE  groups'[g].version = groups[g].version + 1
    <3>1. PICK c : c = call[q]
      OBVIOUS
    <3>2. /\ groups' = [groups EXCEPT ![c.id] = c.plan[c.id]]
          /\ \A h \in Groups : h # c.id => members'[h] = members[h]
          /\ Committing(q, {"putMember", "deleteMember"})
      BY <2>4, <2>0, <3>1 DEF ChangeGroupMember
    <3>3. c.op \in {"putMember", "deleteMember"} /\ Fresh(c)
      BY <1>1, <3>1, <3>2, CommitFields
    <3>4. c.plan[c.id] = [groups[c.id] EXCEPT !.version = @ + 1]
      BY <3>3 DEF Fresh, FreshMember
    <3>5. g = c.id /\ groups'[g] = c.plan[g]
      BY <2>0, <3>2
    <3> QED BY <2>0, <3>4, <3>5, Advances
  <2>5. ASSUME NEW q \in Procs, DeleteUser(q)
        PROVE  groups'[g].version = groups[g].version + 1
    <3>1. PICK c : c = call[q]
      OBVIOUS
    <3>2. /\ groups' = [h \in Groups |-> IF h \in c.links THEN c.plan[h] ELSE groups[h]]
          /\ members' = [h \in Groups |-> IF h \in c.links THEN members[h] \ {c.id} ELSE members[h]]
          /\ Committing(q, {"selfDelete", "adminDelete"})
      BY <2>5, <3>1 DEF DeleteUser
    <3>3. c.op \in {"selfDelete", "adminDelete"} /\ Fresh(c)
      BY <1>1, <3>1, <3>2, CommitFields
    <3>4. \A h \in c.links : c.plan[h] = [groups[h] EXCEPT !.version = @ + 1]
      BY <3>3 DEF Fresh, FreshUserDelete
    <3>5. g \in c.links /\ groups'[g] = c.plan[g]
      BY <3>2
    <3>6. groups'[g] = [groups[g] EXCEPT !.version = @ + 1]
      BY <3>4, <3>5
    <3> QED BY <2>0, <3>6, Advances
  <2>6. ASSUME NEW q \in Procs, PutAccessAssignment(q) \/ DeleteAccessAssignment(q)
        PROVE  groups' = groups /\ members' = members
    BY <2>6 DEF PutAccessAssignment, DeleteAccessAssignment, groupStore, memberStore
  <2> QED BY <1>1, <2>1, <2>2, <2>3, <2>4, <2>5, <2>6, WhoWrites
<1>2. ASSUME DirectoryInv, [Next]_vars
      PROVE  [Step]_vars
  BY <1>1, <1>2
<1> QED BY <1>2, DirectoryInvariant, PTL DEF Spec, GroupETagAdvances

----------------------------------------------------------------------------
(* The requests whose history is kept *)

\* Request "c" becomes "n": a request of AddExactUserRole goes on with what it
\* read, or the request is of neither kind that has a history.
Follows(c, n) ==
    \/ n = c
    \/ n.op \notin {"addExactRole", "effectiveRoles"}
    \/ /\ n.op = "addExactRole" /\ c.op = "addExactRole"
       /\ n.id = c.id /\ n.tenant = c.tenant /\ n.etag = c.etag

\* The first read of AddExactUserRole, and a step of a reader, begin or go on
\* with a history.
Begins(p) ==
    \/ \E u \in Users, t \in Tenants, r \in Roles : ReadForRole(p, u, t, r)
    \/ ReaderStep(p)

LEMMA IdleFollows == \A c : Follows(c, Idle)
BY IdleIsCall DEF Follows

LEMMA GoesOn ==
    ASSUME DirectoryInv, NEW p \in Procs, NEW n, Goes(p, n), Follows(call[p], n)
    PROVE  \A q \in Procs : Follows(call[q], call'[q])
<1>1. \A q \in Procs : call'[q] = IF q = p THEN n ELSE call[q]
  BY DEF DirectoryInv, TypeOK, Goes
<1> QED BY <1>1 DEF Follows

LEMMA FinishGoesOn ==
    ASSUME DirectoryInv, NEW p \in Procs, Finish(p)
    PROVE  \A q \in Procs : Follows(call[q], call'[q])
BY GoesOn, IdleFollows DEF Finish

LEMMA WatchGoesOn ==
    ASSUME DirectoryInv, NEW p \in Procs, NEW c \in Call, NEW m \in Call,
           c.op \notin {"addExactRole", "effectiveRoles"}, m.op = c.op, Watches(p, m)
    PROVE  \A q \in Procs : Follows(call[q], call'[q])
<1>1. [m EXCEPT !.pc = "watched"].op = m.op
  BY DEF Call
<1>2. PICK n : n = [m EXCEPT !.pc = "watched"]
  OBVIOUS
<1>3. Goes(p, n) /\ Follows(call[p], n)
  BY <1>1, <1>2 DEF Watches, Follows
<1> QED BY <1>3, GoesOn

LEMMA CallHistory ==
    ASSUME DirectoryInv, [Next]_vars
    PROVE  \/ \A q \in Procs : Follows(call[q], call'[q])
           \/ \E p \in Procs : Begins(p)
<1> DEFINE Goal == \A q \in Procs : Follows(call[q], call'[q])
<1>0. ASSUME call' = call PROVE Goal
  BY <1>0 DEF Follows
<1>1. ASSUME NEW p \in Procs, Returns(p) PROVE Goal
  BY <1>1, FinishGoesOn DEF Returns
<1>2. ASSUME NEW p \in Procs, NEW ops, Committing(p, ops) PROVE Goal
  BY <1>2, FinishGoesOn DEF Committing
<1> HIDE DEF Goal
<1>3. ASSUME NEW p \in Procs, GroupStep(p) PROVE Goal
  <2>0. /\ \A c \in PatchRequests : IsRequest(c, "patchGroup")
        /\ \A c \in DeleteGroupRequests : IsRequest(c, "deleteGroup")
        /\ \A op \in {"putMember", "deleteMember"} : \A c \in MemberRequests(op) : IsRequest(c, op)
    BY RequestsTyped
  <2>1. ASSUME NEW g \in Groups, NEW n \in Names, ReserveName(p, g, n) PROVE Goal
    <3>1. PICK m : m = NewGroupCall(g, n)
      OBVIOUS
    <3>2. CASE Goes(p, m)
      <4>1. m.op = "createGroup"
        BY <3>1, NewGroupCallFields
      <4> QED BY <3>2, <4>1, GoesOn DEF Goal, Follows
    <3>3. CASE Finish(p)
      BY <3>3, FinishGoesOn DEF Goal
    <3> QED BY <2>1, <3>1, <3>2, <3>3 DEF ReserveName, NewGroupCall
  <2>2. CASE CreateGroup(p)
    BY <2>2, FinishGoesOn DEF CreateGroup, Goal
  <2>3. ASSUME NEW applied \in BOOLEAN, CreateGroupFails(p, applied) PROVE Goal
    <3>1. PICK m : m = [call[p] EXCEPT !.pc = "undo"]
      OBVIOUS
    <3>2. Goes(p, m) /\ call[p].pc = "reserved"
      BY <2>3, <3>1 DEF CreateGroupFails
    <3>3. m.op = "createGroup"
      BY <3>1, <3>2, UndoFields
    <3> QED BY <3>2, <3>3, GoesOn DEF Goal, Follows
  <2>4. CASE UndoName(p)
    BY <2>4, FinishGoesOn DEF UndoName, Goal
  <2>5. ASSUME NEW c \in Pending(p, "patchGroup", PatchRequests), WatchPatch(p, c) PROVE Goal
    <3>1. c \in Call /\ c.op = "patchGroup" /\ c.id \in Groups
      BY <2>0, PendingRequest DEF WatchOps, IsRequest, Shape
    <3>2. CASE Returns(p)
      BY <3>2, <1>1
    <3> DEFINE r == groups[c.id]
               new == Patched(c, r)
               m == [c EXCEPT !.old = r.name, !.plan[c.id] = new]
    <3>3. CASE r # NoGroup /\ Watches(p, m)
      <4>1. r \in Group
        BY <3>1, <3>3 DEF DirectoryInv, TypeOK
      <4>2. new \in Group /\ r.name \in Names
        BY <3>1, <4>1 DEF Patched, Group, Call
      <4> HIDE DEF new
      <4>3. [c.plan EXCEPT ![c.id] = new] \in [Groups -> Group \cup {NoGroup}]
        BY <3>1, <4>2 DEF Call
      <4>4. m \in Call /\ m.op = c.op
        BY <3>1, <4>2, <4>3 DEF Call
      <4> HIDE DEF m
      <4> QED BY <3>1, <3>3, <4>4, WatchGoesOn DEF Goal
    <3> QED BY <2>5, <3>2, <3>3 DEF WatchPatch
  <2>6. CASE PatchGroup(p)
    BY <2>6, <1>2 DEF PatchGroup
  <2>7. ASSUME NEW c \in Pending(p, "deleteGroup", DeleteGroupRequests), WatchDeleteGroup(p, c)
        PROVE  Goal
    <3>1. c \in Call /\ c.op = "deleteGroup" /\ c.id \in Groups
      BY <2>0, PendingRequest DEF WatchOps, IsRequest, Shape
    <3>2. CASE Returns(p)
      BY <3>2, <1>1
    <3> DEFINE m == [c EXCEPT !.old = groups[c.id].name, !.links = members[c.id],
                              !.tenants = principalTenants[c.id]]
    <3>3. CASE groups[c.id] # NoGroup /\ Watches(p, m)
      <4>1. /\ groups[c.id].name \in Names /\ members[c.id] \in SUBSET Principals
            /\ principalTenants[c.id] \in SUBSET Tenants
        BY <3>1, <3>3 DEF DirectoryInv, TypeOK, Group, Principals
      <4>2. m \in Call /\ m.op = c.op
        BY ZenonT(60), <3>1, <4>1 DEF Call
      <4> HIDE DEF m
      <4> QED BY <3>1, <3>3, <4>2, WatchGoesOn DEF Goal
    <3> QED BY <2>7, <3>2, <3>3 DEF WatchDeleteGroup
  <2>8. CASE DeleteGroup(p)
    BY <2>8, <1>2 DEF DeleteGroup
  <2>9. ASSUME NEW op \in {"putMember", "deleteMember"},
               NEW c \in Pending(p, op, MemberRequests(op)), WatchMember(p, c)
        PROVE  Goal
    <3>0. op \in WatchOps /\ \A d \in MemberRequests(op) : IsRequest(d, op)
      BY <2>0 DEF WatchOps
    <3>1. IsRequest(c, op)
      BY <3>0, PendingRequest
    <3>2. c \in Call /\ c.op \in {"putMember", "deleteMember"} /\ c.id \in Groups
      BY <3>1 DEF IsRequest, Shape
    <3>3. CASE Returns(p)
      BY <3>3, <1>1
    <3> DEFINE new == [groups[c.id] EXCEPT !.version = @ + 1]
               m == [c EXCEPT !.plan[c.id] = new]
    <3>4. CASE groups[c.id] # NoGroup /\ Watches(p, m)
      <4>1. PICK r : r = groups[c.id]
        OBVIOUS
      <4>2. r \in Group
        BY <3>2, <3>4, <4>1 DEF DirectoryInv, TypeOK
      <4>3. new \in Group
        BY <4>1, <4>2 DEF Group
      <4> HIDE DEF new
      <4>4. [c.plan EXCEPT ![c.id] = new] \in [Groups -> Group \cup {NoGroup}]
        BY <3>2, <4>3 DEF Call
      <4>5. m \in Call /\ m.op = c.op
        BY <3>2, <4>4 DEF Call
      <4> HIDE DEF m
      <4> QED BY <3>2, <3>4, <4>5, WatchGoesOn DEF Goal
    <3> QED BY <2>9, <3>3, <3>4 DEF WatchMember
  <2>10. CASE ChangeGroupMember(p)
    BY <2>10, <1>2 DEF ChangeGroupMember
  <2> QED BY <1>3, <2>1, <2>2, <2>3, <2>4, <2>5, <2>6, <2>7, <2>8, <2>9, <2>10 DEF GroupStep
<1>4. ASSUME NEW p \in Procs, NEW op \in {"putAssignment", "addExactRole"}, NEW c,
             IsRequest(c, op), c = call[p] \/ op = "putAssignment", WatchPut(p, c)
      PROVE  Goal
  <2>1. c \in Call /\ c.op = op
    BY <1>4 DEF IsRequest
  <2>2. CASE Returns(p)
    BY <2>2, <1>1
  <2>3. ASSUME NEW e, Watches(p, [c EXCEPT !.entry = e]) PROVE Goal
    <3> DEFINE m == [c EXCEPT !.entry = e]
               n == [m EXCEPT !.pc = "watched"]
    <3>1. n.op = c.op /\ n.id = c.id /\ n.tenant = c.tenant /\ n.etag = c.etag
      BY <2>1 DEF Call
    <3>2. Goes(p, n)
      BY <2>3 DEF Watches
    <3> HIDE DEF n
    <3>3. Follows(call[p], n)
      BY <1>4, <2>1, <3>1 DEF Follows
    <3> QED BY <3>2, <3>3, GoesOn DEF Goal
  <2> QED BY <1>4, <2>2, <2>3 DEF WatchPut
<1>5. ASSUME NEW p \in Procs, AssignmentStep(p) PROVE Goal \/ Begins(p)
  <2>0. /\ \A c \in PutRequests : IsRequest(c, "putAssignment")
        /\ \A c \in DropRequests : IsRequest(c, "deleteAssignment")
    BY RequestsTyped
  <2>1. ASSUME NEW c \in Pending(p, "putAssignment", PutRequests), WatchPut(p, c) PROVE Goal
    <3>1. IsRequest(c, "putAssignment")
      BY <2>0, PendingRequest DEF WatchOps
    <3> QED BY <2>1, <3>1, <1>4
  <2>2. ASSUME NEW c \in Pending(p, "addExactRole", {}), WatchPut(p, c) PROVE Goal
    <3>1. IsRequest(c, "addExactRole")
      BY PendingRequest DEF WatchOps
    <3>2. c = call[p]
      BY DEF Pending
    <3> QED BY <2>2, <3>1, <3>2, <1>4
  <2>3. CASE PutAccessAssignment(p)
    BY <2>3, <1>2 DEF PutAccessAssignment
  <2>4. ASSUME NEW u \in Users, NEW t \in Tenants, NEW r \in Roles, ReadForRole(p, u, t, r)
        PROVE  Begins(p)
    BY <2>4 DEF Begins
  <2>5. ASSUME NEW c \in Pending(p, "deleteAssignment", DropRequests), WatchDrop(p, c) PROVE Goal
    <3>1. c \in Call /\ c.op = "deleteAssignment"
      BY <2>0, PendingRequest DEF WatchOps, IsRequest
    <3> QED BY <2>5, <3>1, <1>1, WatchGoesOn DEF WatchDrop, Goal
  <2>6. CASE DeleteAccessAssignment(p)
    BY <2>6, <1>2 DEF DeleteAccessAssignment
  <2> QED BY <1>5, <2>1, <2>2, <2>3, <2>4, <2>5, <2>6 DEF AssignmentStep
<1>6. ASSUME NEW p \in Procs, DeletionStep(p) PROVE Goal
  <2>0. /\ \A c \in DeleteRequests("selfDelete") : IsRequest(c, "selfDelete")
        /\ \A c \in DeleteRequests("adminDelete") : IsRequest(c, "adminDelete")
    BY RequestsTyped
  <2>1. ASSUME NEW c \in Pending(p, "selfDelete", DeleteRequests("selfDelete")), ObserveSelf(p, c)
        PROVE  Goal
    <3>1. c \in Call /\ c.op = "selfDelete"
      BY <2>0, PendingRequest DEF WatchOps, IsRequest
    <3> DEFINE n == [c EXCEPT !.pc = "observed", !.seen = userGroups[c.id],
                              !.seenTenants = principalTenants[c.id]]
    <3>2. n.op = c.op
      BY <3>1 DEF Call
    <3>3. CASE Returns(p)
      BY <3>3, <1>1
    <3>4. CASE Goes(p, n)
      <4> HIDE DEF n
      <4> QED BY <3>1, <3>2, <3>4, GoesOn DEF Goal, Follows
    <3> QED BY <2>1, <3>3, <3>4 DEF ObserveSelf
  <2>2. CASE WatchSelfDelete(p)
    <3>1. PICK c : c = call[p]
      OBVIOUS
    <3>2. c \in Call /\ Shape(c) /\ c.op = "selfDelete"
      BY <2>2, <3>1 DEF DirectoryInv, TypeOK, Shapes, WatchSelfDelete
    <3>3. CASE Returns(p)
      BY <3>3, <1>1
    <3>4. CASE GroupsReadable(userGroups[c.id]) /\ Watches(p, Planned(c))
      <4>1. Planned(c) \in Call /\ Planned(c).op = c.op
        BY <3>2, <3>4, PlannedFields
      <4> QED BY <3>2, <3>4, <4>1, WatchGoesOn DEF Goal
    <3> QED BY <2>2, <3>1, <3>3, <3>4 DEF WatchSelfDelete
  <2>3. ASSUME NEW c \in Pending(p, "adminDelete", DeleteRequests("adminDelete")), WatchAdminDelete(p, c)
        PROVE  Goal
    <3>1. c \in Call /\ c.op = "adminDelete" /\ Shape(c)
      BY <2>0, PendingRequest DEF WatchOps, IsRequest
    <3>2. CASE Returns(p)
      BY <3>2, <1>1
    <3> DEFINE gs == userGroups[c.id]
               ts == principalTenants[c.id]
    <3>3. CASE GroupsReadable(gs) /\ Watches(p, [Planned(c) EXCEPT !.seen = gs, !.seenTenants = ts])
      <4>1. PICK m : m = Planned(c)
        OBVIOUS
      <4>2. m \in Call /\ m.op = c.op
        BY <3>1, <3>3, <4>1, PlannedFields
      <4>3. gs \in SUBSET Groups /\ ts \in SUBSET Tenants
        BY <3>1 DEF DirectoryInv, TypeOK, Principals, Shape
      <4> HIDE DEF gs, ts
      <4>4. /\ [m EXCEPT !.seen = gs, !.seenTenants = ts] \in Call
            /\ [m EXCEPT !.seen = gs, !.seenTenants = ts].op = m.op
        BY ZenonT(60), <4>2, <4>3 DEF Call
      <4> QED BY <3>1, <3>3, <4>1, <4>2, <4>4, WatchGoesOn DEF Goal
    <3> QED BY <2>3, <3>2, <3>3 DEF WatchAdminDelete
  <2>4. CASE DeleteUser(p)
    BY <2>4, <1>2 DEF DeleteUser
  <2> QED BY <1>6, <2>1, <2>2, <2>3, <2>4 DEF DeletionStep
<1>7. ASSUME NEW p \in Procs, ExecFails(p) PROVE Goal
  <2>1. PICK n : n = Again(call[p])
    OBVIOUS
  <2>2. call[p] \in Call /\ Shape(call[p]) /\ call[p].pc = "watched" /\ Goes(p, n)
    BY <1>7, <2>1 DEF ExecFails, DirectoryInv, TypeOK, Shapes
  <2>3. call[p].op # "effectiveRoles"
    BY <2>2 DEF Shape, WatchOps
  <2>4. Follows(call[p], n)
    BY <2>1, <2>2, <2>3, AgainIsCall DEF Follows
  <2> QED BY <2>2, <2>4, GoesOn DEF Goal
<1>8. ASSUME NEW p \in Procs, Crash(p) PROVE Goal
  BY <1>8, FinishGoesOn DEF Crash, Goal
<1>9. ASSUME NEW u \in Users, CreateUser(u) PROVE Goal
  BY <1>9, <1>0 DEF CreateUser, Goal
<1>10. CASE UpdateUser
  BY <1>10, <1>0 DEF UpdateUser, Goal
<1>11. CASE UNCHANGED vars
  BY <1>11, <1>0 DEF vars, Goal
<1>12. ASSUME NEW p \in Procs, ReaderStep(p) PROVE Begins(p)
  BY <1>12 DEF Begins
<1> QED BY <1>3, <1>5, <1>6, <1>7, <1>8, <1>9, <1>10, <1>11, <1>12 DEF Next, Goal

LEMMA NextObserves == Next => Observe
<1> USE DEF Returns, Watches
<1>1. ASSUME NEW p \in Procs, GroupStep(p) PROVE Observe
  BY ZenonT(60), <1>1 DEF GroupStep, ReserveName, CreateGroup, CreateGroupFails, UndoName, WatchPatch, PatchGroup,
              WatchDeleteGroup, DeleteGroup, WatchMember, ChangeGroupMember
<1>2. ASSUME NEW p \in Procs, AssignmentStep(p) PROVE Observe
  BY ZenonT(60), <1>2 DEF AssignmentStep, WatchPut, PutAccessAssignment, ReadForRole, WatchDrop, DeleteAccessAssignment
<1>3. ASSUME NEW p \in Procs, DeletionStep(p) PROVE Observe
  BY <1>3 DEF DeletionStep, ObserveSelf, WatchSelfDelete, WatchAdminDelete, DeleteUser
<1>4. ASSUME NEW p \in Procs, ReaderStep(p) PROVE Observe
  BY <1>4 DEF ReaderStep, ReadUser, ReadDirect, ReadGroups, ReadGroup, ReadGroupAssignment, Answer
<1>5. ASSUME NEW p \in Procs, ExecFails(p) \/ Crash(p) PROVE Observe
  BY <1>5 DEF ExecFails, Crash
<1>6. ASSUME NEW u \in Users, CreateUser(u) PROVE Observe
  BY <1>6 DEF CreateUser
<1>7. CASE UpdateUser
  BY <1>7 DEF UpdateUser
<1> QED BY <1>1, <1>2, <1>3, <1>4, <1>5, <1>6, <1>7 DEF Next

\* What the history of a request becomes.
LEMMA WindowFields ==
    ASSUME DirectoryInv, Observe, NEW q \in Procs
    PROVE  LET c == call'[q]
               w == window[q]
           IN  /\ c.op = "effectiveRoles" =>
                      window'[q].moved = (w.moved \/ graph' # graph)
               /\ c.op = "addExactRole" =>
                      /\ window'[q].moved = (w.moved \/ assignments'[c.tenant][c.id] # assignments[c.tenant][c.id])
                      /\ window'[q].gone = (w.gone \/ assignments'[c.tenant][c.id] = NoAssignment)
               /\ c.op \notin {"effectiveRoles", "addExactRole"} =>
                      ~window'[q].moved /\ ~window'[q].gone
<1>1. window'[q] =
          (LET c == call'[q]
               w == window[q]
           IN  IF c.op = "effectiveRoles"
               THEN [moved |-> w.moved \/ graph' # graph, gone |-> FALSE]
               ELSE IF c.op = "addExactRole"
               THEN [moved |-> w.moved \/ assignments'[c.tenant][c.id] # assignments[c.tenant][c.id],
                     gone |-> w.gone \/ assignments'[c.tenant][c.id] = NoAssignment]
               ELSE Closed)
  BY Zenon DEF Observe
<1>2. CASE call'[q].op = "effectiveRoles"
  BY <1>1, <1>2
<1>3. CASE call'[q].op = "addExactRole"
  BY <1>1, <1>3
<1>4. CASE call'[q].op \notin {"effectiveRoles", "addExactRole"}
  <2>1. call'[q].op # "effectiveRoles" /\ call'[q].op # "addExactRole"
    BY <1>4
  <2> DEFINE r1 == [moved |-> window[q].moved \/ graph' # graph, gone |-> FALSE]
             r2 == [moved |-> window[q].moved
                                  \/ assignments'[call'[q].tenant][call'[q].id]
                                        # assignments[call'[q].tenant][call'[q].id],
                    gone |-> window[q].gone \/ assignments'[call'[q].tenant][call'[q].id] = NoAssignment]
  <2>a. window'[q] = IF call'[q].op = "effectiveRoles" THEN r1
                     ELSE IF call'[q].op = "addExactRole" THEN r2 ELSE Closed
    BY <1>1
  <2> HIDE DEF r1, r2
  <2>2. window'[q] = Closed
    BY <2>1, <2>a
  <2>3. ~window'[q].moved /\ ~window'[q].gone
    BY <2>2 DEF Closed
  <2> QED BY <2>1, <2>3
<1> QED BY <1>2, <1>3, <1>4

\* An assignment changes by one version, unless it is deleted or new.
LEMMA AssignmentsAdvance ==
    ASSUME DirectoryInv, [Next]_vars, NEW t \in Tenants, NEW pr \in Principals,
           assignments'[t][pr] # assignments[t][pr],
           assignments[t][pr] # NoAssignment
    PROVE  \E q \in Procs :
               \/ /\ PutAccessAssignment(q) /\ call[q].tenant = t /\ call[q].id = pr
                  /\ assignments'[t][pr] \in Assignment
                  /\ assignments'[t][pr].version = assignments[t][pr].version + 1
                  /\ Matches(call[q].etag, assignments[t][pr].version)
               \/ /\ DeleteAccessAssignment(q) \/ DeleteGroup(q) \/ DeleteUser(q)
                  /\ assignments'[t][pr] = NoAssignment
<1>0. assignments \in [Tenants -> [Principals -> Assignment \cup {NoAssignment}]]
  BY DEF DirectoryInv, TypeOK
<1>1. ASSUME NEW q \in Procs, PutAccessAssignment(q)
      PROVE  /\ call[q].tenant = t /\ call[q].id = pr
             /\ assignments'[t][pr] \in Assignment
             /\ assignments'[t][pr].version = assignments[t][pr].version + 1
             /\ Matches(call[q].etag, assignments[t][pr].version)
  <2>1. PICK c : c = call[q]
    OBVIOUS
  <2>2. /\ assignments' = [assignments EXCEPT ![c.tenant][c.id] = c.entry]
        /\ Committing(q, {"putAssignment", "addExactRole"})
    BY <1>1, <2>1 DEF PutAccessAssignment
  <2>3. c \in Call /\ Shape(c) /\ Fresh(c) /\ c.op \in {"putAssignment", "addExactRole"}
    BY <2>1, <2>2, CommitFields
  <2>4. c.tenant = t /\ c.id = pr /\ assignments'[t][pr] = c.entry
    BY <1>0, <2>2
  <2>5. FreshPut(c) /\ c.roles \in (SUBSET Roles) \ {{}}
    BY <2>3 DEF Fresh, Shape, Call
  <2>6. /\ c.entry = [roles |-> c.roles, version |-> assignments[t][pr].version + 1]
        /\ Matches(c.etag, assignments[t][pr].version)
    BY <2>4, <2>5 DEF FreshPut
  <2>7. assignments[t][pr].version \in Nat
    BY <1>0 DEF Assignment
  <2> QED BY <2>1, <2>4, <2>5, <2>6, <2>7 DEF Assignment
<1>2. ASSUME NEW q \in Procs, NEW ts, Unassign(call[q].id, ts)
      PROVE  assignments'[t][pr] = NoAssignment
  BY <1>0, <1>2 DEF Unassign
<1>3. ASSUME NEW q \in Procs, DeleteAccessAssignment(q) \/ DeleteGroup(q) \/ DeleteUser(q)
      PROVE  assignments'[t][pr] = NoAssignment
  BY <1>2, <1>3 DEF DeleteAccessAssignment, DeleteGroup, DeleteUser
<1>4. ASSUME NEW q \in Procs, PatchGroup(q) \/ ChangeGroupMember(q)
      PROVE  assignments' = assignments
  BY <1>4 DEF PatchGroup, ChangeGroupMember, assignmentStore
<1> QED BY <1>1, <1>3, <1>4, WhoWrites

\* What one read makes of the request "c" of a reader.
ReadOnce(c, n) ==
    LET after == IF n.links = {} THEN "answered" ELSE "group" IN
    \/ /\ c.pc = "direct" /\ n.pc = "groups"
       /\ n.roles = RolesOf(assignments[c.tenant][c.id])
    \/ /\ c.pc = "groups" /\ n.pc = after
       /\ n.links = userGroups[c.id] /\ n.roles = c.roles
    \/ \E g \in c.links :
           /\ c.pc = "group" /\ n.pc = "assignment" /\ groups[g].active
           /\ n.links = c.links /\ n.seen = {g} /\ n.roles = c.roles
    \/ \E g \in c.links :
           /\ c.pc = "group" /\ n.pc = after /\ ~groups[g].active
           /\ n.links = c.links \ {g} /\ n.roles = c.roles
    \/ \E g \in c.seen :
           /\ c.pc = "assignment" /\ n.pc = after
           /\ n.links = c.links \ {g} /\ n.roles = c.roles \cup RolesOf(assignments[c.tenant][g])

Started(c, n) == c = Idle /\ n.op = "effectiveRoles" /\ n.pc = "direct"
WentOn(c, n) == c.op = "effectiveRoles" /\ Continues(c, n) /\ ReadOnce(c, n)

LEMMA ReaderMoves ==
    ASSUME DirectoryInv, NEW p \in Procs, ReaderStep(p)
    PROVE  /\ UNCHANGED graph
           /\ call'[p] = Idle \/ Started(call[p], call'[p]) \/ WentOn(call[p], call'[p])
           /\ \A q \in Procs : q # p => call'[q] = call[q]
<1> DEFINE c == call[p]
           Goal == /\ call'[p] = Idle \/ Started(c, call'[p]) \/ WentOn(c, call'[p])
                   /\ \A q \in Procs : q # p => call'[q] = call[q]
<1>0. c \in Call /\ Shape(c)
  BY DEF DirectoryInv, TypeOK, Shapes
<1>1. UNCHANGED graph
  BY DEF ReaderStep, ReadUser, ReadDirect, ReadGroups, ReadGroup, ReadGroupAssignment, Answer
<1>2. ASSUME NEW n, Goes(p, n) PROVE call'[p] = n /\ \A q \in Procs : q # p => call'[q] = call[q]
  BY <1>2 DEF Goes, DirectoryInv, TypeOK
<1>3. ASSUME NEW n, Goes(p, n), Started(c, n) \/ WentOn(c, n) PROVE Goal
  BY <1>2, <1>3
<1>4. ASSUME Goes(p, Idle) PROVE Goal
  BY <1>2, <1>4
<1>5. ASSUME NEW u \in Users, NEW t \in Tenants, ReadUser(p, u, t) PROVE Goal
  <2>1. Goes(p, NewReader(u, t)) /\ c = Idle
    BY <1>5 DEF ReadUser, Starts, NewReader
  <2>2. Started(c, NewReader(u, t))
    BY <2>1, ReadUserCall DEF Started
  <2> QED BY <2>1, <2>2, <1>3
<1> HIDE DEF Goal
<1>6. ASSUME c.op = "effectiveRoles"
      PROVE  c.id \in Users /\ c.tenant \in Tenants /\ c.id \in Principals
  BY <1>0, <1>6 DEF Shape, Principals
<1>7. ASSUME ReadDirect(p) PROVE Goal
  <2> DEFINE rs == RolesOf(assignments[c.tenant][c.id])
  <2>1. /\ c.op = "effectiveRoles" /\ c.pc = "direct"
        /\ Goes(p, [c EXCEPT !.pc = "groups", !.roles = rs])
    BY <1>7 DEF ReadDirect, Reads
  <2>2. rs \in SUBSET Roles
    BY <2>1, <1>6, RolesOfTyped
  <2> HIDE DEF rs
  <2>3. PICK n : n = [c EXCEPT !.pc = "groups", !.roles = rs]
    OBVIOUS
  <2>4. Continues(c, n) /\ n.pc = "groups" /\ n.roles = rs
    BY <1>0, <2>2, <2>3, DirectFields
  <2>5. ReadOnce(c, n)
    BY <2>1, <2>4 DEF ReadOnce, rs
  <2>6. Goes(p, n) /\ WentOn(c, n)
    BY <2>1, <2>3, <2>4, <2>5 DEF WentOn
  <2> QED BY <2>6, <1>3
<1>8. ASSUME ReadGroups(p) PROVE Goal
  <2>1. c.op = "effectiveRoles" /\ c.pc = "groups"
    BY <1>8 DEF ReadGroups, Reads
  <2>2. userGroups[c.id] \in SUBSET Principals
    BY <2>1, <1>6 DEF DirectoryInv, TypeOK, Principals
  <2>3. CASE Goes(p, AfterGroup(c, userGroups[c.id]))
    <3>1. PICK n : n = AfterGroup(c, userGroups[c.id])
      OBVIOUS
    <3>2. /\ Continues(c, n) /\ n.links = userGroups[c.id] /\ n.roles = c.roles
          /\ n.pc = IF n.links = {} THEN "answered" ELSE "group"
      BY <1>0, <2>2, <3>1, AfterGroupFields
    <3>3. ReadOnce(c, n)
      BY <2>1, <3>2 DEF ReadOnce
    <3>4. Goes(p, n) /\ WentOn(c, n)
      BY <2>1, <2>3, <3>1, <3>2, <3>3 DEF WentOn
    <3> QED BY <3>4, <1>3
  <2>4. CASE Goes(p, Idle)
    BY <1>4, <2>4
  <2> QED BY <1>8, <2>3, <2>4 DEF ReadGroups
<1>9. ASSUME NEW g \in Groups, ReadGroup(p, g)
      PROVE  Goal
  <2>1. c.op = "effectiveRoles" /\ c.pc = "group" /\ g \in c.links
    BY <1>9 DEF ReadGroup, Reads
  <2>2. CASE groups[g] = NoGroup
    <3>1. Goes(p, Idle)
      BY <1>9, <2>2 DEF ReadGroup
    <3> QED BY <3>1, <1>4
  <2>3. CASE groups[g] # NoGroup /\ groups[g].active
    <3>1. Goes(p, [c EXCEPT !.pc = "assignment", !.seen = {g}])
      BY <1>9, <2>3 DEF ReadGroup
    <3>2. PICK n : n = [c EXCEPT !.pc = "assignment", !.seen = {g}]
      OBVIOUS
    <3>3. /\ Continues(c, n) /\ n.pc = "assignment" /\ n.seen = {g} /\ n.links = c.links
          /\ n.roles = c.roles
      BY <1>0, <3>2, SeenFields
    <3>4. ReadOnce(c, n)
      BY <2>1, <2>3, <3>3 DEF ReadOnce
    <3>5. Goes(p, n) /\ WentOn(c, n)
      BY <2>1, <3>1, <3>2, <3>3, <3>4 DEF WentOn
    <3> QED BY <3>5, <1>3
  <2>4. CASE groups[g] # NoGroup /\ ~groups[g].active
    <3>1. Goes(p, AfterGroup(c, c.links \ {g}))
      BY <1>9, <2>4 DEF ReadGroup
    <3>2. c.links \ {g} \in SUBSET Principals
      BY <1>0 DEF Call
    <3>3. PICK n : n = AfterGroup(c, c.links \ {g})
      OBVIOUS
    <3>4. /\ Continues(c, n) /\ n.links = c.links \ {g} /\ n.roles = c.roles
          /\ n.pc = IF n.links = {} THEN "answered" ELSE "group"
      BY <1>0, <3>2, <3>3, AfterGroupFields
    <3>5. ReadOnce(c, n)
      BY <2>1, <2>4, <3>4 DEF ReadOnce
    <3>6. Goes(p, n) /\ WentOn(c, n)
      BY <2>1, <3>1, <3>3, <3>4, <3>5 DEF WentOn
    <3> QED BY <3>6, <1>3
  <2> QED BY <2>2, <2>3, <2>4
<1>10. ASSUME ReadGroupAssignment(p) PROVE Goal
  <2>1. c.op = "effectiveRoles" /\ c.pc = "assignment"
    BY <1>10 DEF ReadGroupAssignment, Reads
  <2>2. PICK g \in c.seen :
            Goes(p, AfterGroup([c EXCEPT !.roles = @ \cup RolesOf(assignments[c.tenant][g])],
                               c.links \ {g}))
    BY <1>10 DEF ReadGroupAssignment
  <2> DEFINE rs == RolesOf(assignments[c.tenant][g])
  <2>3. g \in Principals /\ c.links \ {g} \in SUBSET Principals
    BY <1>0 DEF Call, Principals
  <2>4. rs \in SUBSET Roles
    BY <2>1, <2>3, <1>6, RolesOfTyped
  <2>5. Goes(p, AfterGroup(Adding(c, rs), c.links \ {g}))
    BY <2>2 DEF Adding
  <2> HIDE DEF rs
  <2>a. ASSUME NEW rest \in SUBSET Principals
        PROVE  LET n == AfterGroup(Adding(c, rs), rest) IN
               /\ Continues(c, n) /\ n.links = rest /\ n.roles = c.roles \cup rs
               /\ n.pc = IF rest = {} THEN "answered" ELSE "group"
    BY <1>0, <2>4, DoneFields
  <2>b. PICK rest : rest = c.links \ {g}
    OBVIOUS
  <2>6. PICK n : n = AfterGroup(Adding(c, rs), rest)
    OBVIOUS
  <2>7. /\ Continues(c, n) /\ n.links = rest /\ n.roles = c.roles \cup rs
        /\ n.pc = IF rest = {} THEN "answered" ELSE "group"
    BY <2>3, <2>a, <2>b, <2>6
  <2>8. ReadOnce(c, n)
    BY <2>1, <2>b, <2>7 DEF ReadOnce, rs
  <2>9. Goes(p, n) /\ WentOn(c, n)
    BY <2>1, <2>5, <2>b, <2>6, <2>7, <2>8 DEF WentOn
  <2> QED BY <2>9, <1>3
<1>11. ASSUME Answer(p) PROVE Goal
  BY <1>4, <1>11 DEF Answer, Finish
<1>12. Goal
  BY <1>5, <1>7, <1>8, <1>9, <1>10, <1>11 DEF ReaderStep
<1> QED BY <1>1, <1>12 DEF Goal

LEMMA NextAdds ==
    ASSUME DirectoryInv, AddsInOrder, [Next]_vars, DirectoryInv'
    PROVE  AddsInOrder'
<1>1. CASE UNCHANGED vars
  BY <1>1 DEF vars, graph, assignmentStore, AddsInOrder
<1>2. CASE Next
  <2>0. Observe
    BY <1>2, NextObserves
  <2> SUFFICES ASSUME NEW q \in Procs
               PROVE  LET c == call'[q] IN
                      /\ c.op = "addExactRole" /\ ~window'[q].gone =>
                             /\ assignments'[c.tenant][c.id] # NoAssignment
                             /\ c.etag \in Nat
                             /\ c.etag <= assignments'[c.tenant][c.id].version
                             /\ window'[q].moved => c.etag < assignments'[c.tenant][c.id].version
                      /\ c.op = "none" => ~window'[q].moved /\ ~window'[q].gone
    BY DEF AddsInOrder
  <2> DEFINE n == call'[q]
  <2>1. n.op = "none" => ~window'[q].moved /\ ~window'[q].gone
    BY <2>0, WindowFields
  <2>2. ASSUME n.op = "addExactRole", ~window'[q].gone
        PROVE  /\ assignments'[n.tenant][n.id] # NoAssignment
               /\ n.etag \in Nat
               /\ n.etag <= assignments'[n.tenant][n.id].version
               /\ window'[q].moved => n.etag < assignments'[n.tenant][n.id].version
    <3> DEFINE now == assignments[n.tenant][n.id]
               next == assignments'[n.tenant][n.id]
    <3>1. /\ n.tenant \in Tenants /\ n.id \in Principals
          /\ now \in Assignment \cup {NoAssignment} /\ next \in Assignment \cup {NoAssignment}
      BY <2>2 DEF DirectoryInv, TypeOK, Shapes, Shape
    <3>2. /\ window'[q].moved = (window[q].moved \/ next # now)
          /\ ~window[q].gone /\ next # NoAssignment
      BY <2>2, <2>0, WindowFields
    <3>m. window'[q].moved => window[q].moved \/ next # now
      BY Zenon, <3>2
    <3>3. /\ now \in Assignment => now.version \in Nat
          /\ next \in Assignment => next.version \in Nat
      BY DEF Assignment
    <3>4. now # next /\ now # NoAssignment => next.version = now.version + 1
      BY <3>1, <3>2, AssignmentsAdvance
    <3> HIDE DEF now, next
    <3>n. ASSUME now # NoAssignment, n.etag \in Nat, n.etag <= now.version,
                 window[q].moved => n.etag < now.version
          PROVE  /\ next # NoAssignment /\ n.etag \in Nat /\ n.etag <= next.version
                 /\ window'[q].moved => n.etag < next.version
      <4>1. now \in Assignment
        BY <3>1, <3>n
      <4>2. CASE next = now
        BY <3>2, <3>m, <3>n, <4>2
      <4>3. CASE next # now
        BY <3>2, <3>3, <3>4, <3>n, <4>1, <4>3
      <4> QED BY <4>2, <4>3
    <3>5. CASE \A p \in Procs : Follows(call[p], call'[p])
      <4>1. /\ call[q].op = "addExactRole"
            /\ call[q].id = n.id /\ call[q].tenant = n.tenant /\ call[q].etag = n.etag
        BY <3>5, <2>2 DEF Follows
      <4>2. /\ now # NoAssignment /\ n.etag \in Nat /\ n.etag <= now.version
            /\ window[q].moved => n.etag < now.version
        BY <4>1, <3>2 DEF AddsInOrder, now
      <4> QED BY <4>2, <3>n DEF next
    <3>6. ASSUME NEW p \in Procs, Begins(p), q # p
          PROVE  call'[q] = call[q]
      <4>1. ASSUME NEW u \in Users, NEW t \in Tenants, NEW r \in Roles, ReadForRole(p, u, t, r)
            PROVE  call'[q] = call[q]
        BY <4>1, <3>6 DEF ReadForRole, Goes, DirectoryInv, TypeOK
      <4> QED BY <4>1, <3>6, ReaderMoves DEF Begins
    <3>7. ASSUME ReaderStep(q) PROVE FALSE
      <4>1. call'[q].op \in {"effectiveRoles", "none"}
        BY <3>7, ReaderMoves, IdleIsCall DEF Started, WentOn, Continues
      <4> QED BY <4>1, <2>2
    <3>8. ASSUME NEW u \in Users, NEW t \in Tenants, NEW r \in Roles, ReadForRole(q, u, t, r)
          PROVE  /\ next # NoAssignment /\ n.etag \in Nat /\ n.etag <= next.version
                 /\ window'[q].moved => n.etag < next.version
      <4> DEFINE rs == RolesOf(assignments[t][u]) \cup {r}
                 e == IF assignments[t][u] = NoAssignment THEN NoETag ELSE assignments[t][u].version
                 m == [Idle EXCEPT !.op = "addExactRole", !.pc = "prepared", !.id = u, !.tenant = t,
                                   !.roles = rs, !.etag = e]
      <4>1. Goes(q, m) /\ UNCHANGED graph /\ call[q] = Idle
        BY <3>8 DEF ReadForRole, Starts
      <4> HIDE DEF rs, e
      <4>2. m.id = u /\ m.tenant = t /\ m.etag = e
        BY IdleIsCall DEF Call
      <4>3. n = m /\ assignments' = assignments
        BY <4>1 DEF Goes, DirectoryInv, TypeOK, graph, assignmentStore
      <4>4. next = now /\ now # NoAssignment /\ now = assignments[t][u]
        BY <4>2, <4>3, <3>2 DEF now, next
      <4>5. now \in Assignment /\ n.etag = now.version
        BY <4>2, <4>3, <4>4, <3>1 DEF e
      <4>6. ~window[q].moved
        BY <4>1, IdleIsCall DEF AddsInOrder
      <4> QED BY <4>4, <4>5, <4>6, <3>3, <3>n
    <3>9. ASSUME NEW p \in Procs, Begins(p)
          PROVE  /\ next # NoAssignment /\ n.etag \in Nat /\ n.etag <= next.version
                 /\ window'[q].moved => n.etag < next.version
      <4>1. CASE p = q
        BY <3>9, <4>1, <3>7, <3>8 DEF Begins
      <4>2. CASE p # q
        <5>1. call'[q] = call[q]
          BY <3>6, <3>9, <4>2
        <5>2. /\ now # NoAssignment /\ n.etag \in Nat /\ n.etag <= now.version
              /\ window[q].moved => n.etag < now.version
          BY <5>1, <2>2, <3>2 DEF AddsInOrder, now
        <5> QED BY <5>2, <3>n
      <4> QED BY <4>1, <4>2
    <3> QED BY <3>5, <3>9, CallHistory DEF next
  <2> QED BY <2>1, <2>2
<1> QED BY <1>1, <1>2

THEOREM AddsKeepOrder == Spec => []AddsInOrder
<1>1. Init => AddsInOrder
  BY IdleIsCall DEF Init, AddsInOrder, Closed
<1>2. DirectoryInv /\ DirectoryInv' /\ AddsInOrder /\ [Next]_vars => AddsInOrder'
  BY NextAdds
<1> QED BY <1>1, <1>2, DirectoryInvariant, PTL DEF Spec

\* AddExactUserRole, "a concurrent change is never overwritten" (repository,
\* AddExactUserRole): as long as the assignment it read is not deleted, every
\* change of it makes the version it read stale, and EXEC then writes nothing.
THEOREM StandingChangesNotOverwritten == Spec => StandingChangeNotOverwritten
<1> DEFINE Step == \A p \in Procs : OverwritesChange(p) => window[p].gone
<1>1. ASSUME DirectoryInv, AddsInOrder, Next
      PROVE  Step
  <2> SUFFICES ASSUME NEW p \in Procs, OverwritesChange(p), ~window[p].gone
               PROVE  FALSE
    OBVIOUS
  <2> DEFINE c == call[p]
             t == c.tenant
             pr == c.id
  <2>1. /\ c.op = "addExactRole" /\ call'[p] = Idle /\ window[p].moved
        /\ assignments[t][pr] # NoAssignment
        /\ assignments'[t][pr] # assignments[t][pr]
    BY DEF OverwritesChange
  <2>2. c.etag \in Nat /\ c.etag < assignments[t][pr].version
    BY <1>1, <2>1 DEF AddsInOrder
  <2>3. t \in Tenants /\ pr \in Principals /\ c \in Call
    BY <1>1, <2>1 DEF DirectoryInv, Shapes, Shape, TypeOK
  <2>4. \A q \in Procs : q # p => ~Finish(q)
    <3> SUFFICES ASSUME NEW q \in Procs, q # p, Finish(q) PROVE FALSE
      OBVIOUS
    <3>1. call'[p] = call[p]
      BY <1>1 DEF Finish, Goes, DirectoryInv, TypeOK
    <3> QED BY <2>1, <3>1, IdleIsCall
  <2>5. ASSUME NEW q \in Procs, DeleteAccessAssignment(q) \/ DeleteGroup(q) \/ DeleteUser(q)
        PROVE  FALSE
    <3>1. Finish(q) /\ call[q].op # "addExactRole"
      BY <2>5 DEF DeleteAccessAssignment, DeleteGroup, DeleteUser, Committing
    <3> QED BY <2>1, <2>4, <3>1
  <2>6. ASSUME NEW q \in Procs, PutAccessAssignment(q), Matches(call[q].etag, assignments[t][pr].version)
        PROVE  FALSE
    <3>1. q = p
      BY <2>4, <2>6 DEF PutAccessAssignment, Committing
    <3>2. assignments[t][pr].version \in Nat
      BY <1>1, <2>1, <2>3 DEF DirectoryInv, TypeOK, Assignment
    <3> QED BY <2>2, <2>6, <3>1, <3>2, AccessAssumption DEF Matches
  <2> QED BY <1>1, <2>1, <2>3, <2>5, <2>6, AssignmentsAdvance
<1>2. ASSUME DirectoryInv, AddsInOrder, [Next]_vars
      PROVE  [Step]_vars
  BY <1>1, <1>2
<1> QED BY <1>2, DirectoryInvariant, AddsKeepOrder, PTL DEF Spec, StandingChangeNotOverwritten

----------------------------------------------------------------------------
(* The effective roles of a user *)

LEMMA CollectedElements ==
    ASSUME NEW u, NEW t, NEW rest, NEW r
    PROVE  r \in Collected(u, t, rest) <=>
               \/ r \in RolesOf(assignments[t][u])
               \/ \E g \in ActiveGroups(u, rest) : r \in RolesOf(assignments[t][g])
BY DEF Collected

\* Nothing is collected from the groups before they are read.
LEMMA CollectedNone ==
    ASSUME NEW u, NEW t
    PROVE  Collected(u, t, userGroups[u]) = RolesOf(assignments[t][u])
<1>1. ActiveGroups(u, userGroups[u]) = {}
  BY DEF ActiveGroups
<1>2. \A r : r \in Collected(u, t, userGroups[u]) <=> r \in RolesOf(assignments[t][u])
  BY <1>1, CollectedElements
<1> QED BY <1>2 DEF Collected

\* One more group.
LEMMA CollectedOneMore ==
    ASSUME NEW u, NEW t, NEW rest \in SUBSET userGroups[u], NEW g \in rest
    PROVE  /\ ~groups[g].active => Collected(u, t, rest \ {g}) = Collected(u, t, rest)
           /\ groups[g].active =>
                  Collected(u, t, rest \ {g}) = Collected(u, t, rest) \cup RolesOf(assignments[t][g])
<1>1. ~groups[g].active => ActiveGroups(u, rest \ {g}) = ActiveGroups(u, rest)
  BY DEF ActiveGroups
<1>2. groups[g].active => ActiveGroups(u, rest \ {g}) = ActiveGroups(u, rest) \cup {g}
  BY DEF ActiveGroups
<1>3. ASSUME ~groups[g].active
      PROVE  Collected(u, t, rest \ {g}) = Collected(u, t, rest)
  BY <1>1, <1>3 DEF Collected
<1>4. ASSUME groups[g].active
      PROVE  Collected(u, t, rest \ {g}) = Collected(u, t, rest) \cup RolesOf(assignments[t][g])
  <2>1. \A r : (r \in Collected(u, t, rest \ {g}))
                  <=> (r \in Collected(u, t, rest) \/ r \in RolesOf(assignments[t][g]))
    <3> TAKE r
    <3>1. (r \in Collected(u, t, rest \ {g})) <=>
               \/ r \in RolesOf(assignments[t][u])
               \/ \E h \in ActiveGroups(u, rest) \cup {g} : r \in RolesOf(assignments[t][h])
      BY <1>2, <1>4, CollectedElements
    <3>2. (r \in Collected(u, t, rest)) <=>
               \/ r \in RolesOf(assignments[t][u])
               \/ \E h \in ActiveGroups(u, rest) : r \in RolesOf(assignments[t][h])
      BY CollectedElements
    <3> QED BY <3>1, <3>2
  <2> QED BY <2>1
<1> QED BY <1>3, <1>4

\* When every group is read, the union is the user's effective roles, because
\* the user's groups are the groups that list the user.
LEMMA CollectedAll ==
    ASSUME DirectoryInv, NEW u \in Users, NEW t \in Tenants
    PROVE  Collected(u, t, {}) = Effective(u, t)
<1>1. ActiveGroups(u, {}) = {g \in Groups : groups[g] # NoGroup /\ groups[g].active /\ u \in members[g]}
  <2>1. \A g \in Groups : u \in members[g] <=> g \in userGroups[u]
    BY DEF DirectoryInv, Indexed, MembershipIndexed
  <2>2. \A g \in Groups : u \in members[g] => groups[g] # NoGroup
    BY DEF DirectoryInv, Indexed, MembershipIndexed
  <2>3. userGroups[u] \subseteq Groups
    BY DEF DirectoryInv, TypeOK
  <2> QED BY <2>1, <2>2, <2>3 DEF ActiveGroups
<1> QED BY <1>1 DEF Collected, Effective

LEMMA OneReadExact ==
    ASSUME NEW c, NEW n, Continues(c, n), ReadOnce(c, n), ReadSoFar(c)
    PROVE  ReadSoFar(n)
<1> DEFINE u == c.id
           t == c.tenant
           After(k) == k.pc = IF k.links = {} THEN "answered" ELSE "group"
           Read(k) == k.links \subseteq userGroups[u] /\ k.roles = Collected(u, t, k.links)
<1>1. n.id = u /\ n.tenant = t
  BY DEF Continues
<1>2. ASSUME After(n), Read(n) PROVE ReadSoFar(n)
  BY <1>1, <1>2 DEF ReadSoFar
<1>3. CASE c.pc = "direct" /\ n.pc = "groups" /\ n.roles = RolesOf(assignments[t][u])
  BY <1>1, <1>3 DEF ReadSoFar
<1>4. CASE c.pc = "groups" /\ After(n) /\ n.links = userGroups[u] /\ n.roles = c.roles
  <2>1. Read(n)
    BY <1>4, CollectedNone DEF ReadSoFar
  <2> QED BY <1>2, <1>4, <2>1
<1>5. ASSUME NEW g \in c.links, c.pc = "group", n.pc = "assignment", groups[g].active,
             n.links = c.links, n.seen = {g}, n.roles = c.roles
      PROVE  ReadSoFar(n)
  BY <1>1, <1>5 DEF ReadSoFar
<1>6. ASSUME NEW g \in c.links, c.pc = "group", After(n), ~groups[g].active,
             n.links = c.links \ {g}, n.roles = c.roles
      PROVE  ReadSoFar(n)
  <2>1. Read(c)
    BY <1>6 DEF ReadSoFar
  <2>2. Read(n)
    BY <1>6, <2>1, CollectedOneMore
  <2> QED BY <1>2, <1>6, <2>2
<1>7. ASSUME NEW g \in c.seen, c.pc = "assignment", After(n), n.links = c.links \ {g},
             n.roles = c.roles \cup RolesOf(assignments[t][g])
      PROVE  ReadSoFar(n)
  <2>1. Read(c) /\ g \in c.links /\ groups[g].active
    BY <1>7 DEF ReadSoFar
  <2>2. Read(n)
    BY <1>7, <2>1, CollectedOneMore
  <2> QED BY <1>2, <1>7, <2>2
<1> QED BY <1>3, <1>4, <1>5, <1>6, <1>7 DEF ReadOnce

LEMMA NextReads ==
    ASSUME DirectoryInv, AddsInOrder, ReadsExact, [Next]_vars
    PROVE  ReadsExact'
<1>1. CASE UNCHANGED vars
  BY <1>1 DEF vars, graph, assignmentStore, groupStore, memberStore, ReadsExact, ReadSoFar, Collected,
              ActiveGroups, RolesOf
<1>2. CASE Next
  <2> SUFFICES ASSUME NEW q \in Procs, call'[q].op = "effectiveRoles", ~window'[q].moved
               PROVE  ReadSoFar(call[q])'
    BY DEF ReadsExact
  <2> PICK n : n = call'[q]
    OBVIOUS
  <2>1. ~window[q].moved /\ graph' = graph
    BY <1>2, NextObserves, WindowFields
  <2>2. groups' = groups /\ userGroups' = userGroups /\ assignments' = assignments
    BY <2>1 DEF graph, groupStore, memberStore, assignmentStore
  <2>3. ReadSoFar(n) => ReadSoFar(call[q])'
    BY <2>2 DEF ReadSoFar, Collected, ActiveGroups, RolesOf
  <2> SUFFICES ReadSoFar(n)
    BY <2>3
  <2>4. CASE call'[q] = call[q]
    BY <2>1, <2>4 DEF ReadsExact
  <2>5. ASSUME ReaderStep(q) PROVE ReadSoFar(n)
    <3>1. CASE call'[q] = Idle
      BY <3>1, IdleIsCall
    <3>2. CASE Started(call[q], call'[q])
      BY <3>2 DEF Started, ReadSoFar
    <3>3. CASE WentOn(call[q], call'[q])
      <4>1. ReadSoFar(call[q])
        BY <2>1, <3>3 DEF WentOn, ReadsExact
      <4> QED BY <3>3, <4>1, OneReadExact DEF WentOn
    <3> QED BY <2>5, <3>1, <3>2, <3>3, ReaderMoves
  <2>6. ASSUME NEW p \in Procs, NEW u \in Users, NEW t \in Tenants, NEW r \in Roles,
               ReadForRole(p, u, t, r)
        PROVE  call'[q] = call[q]
    <3>1. CASE p # q
      BY <2>6, <3>1 DEF ReadForRole, Goes, DirectoryInv, TypeOK
    <3>2. CASE p = q
      <4> DEFINE rs == RolesOf(assignments[t][u]) \cup {r}
                 e == IF assignments[t][u] = NoAssignment THEN NoETag ELSE assignments[t][u].version
                 m == [Idle EXCEPT !.op = "addExactRole", !.pc = "prepared", !.id = u, !.tenant = t,
                                   !.roles = rs, !.etag = e]
      <4>1. Goes(q, m)
        BY <2>6, <3>2 DEF ReadForRole
      <4> HIDE DEF rs, e
      <4>2. m.op = "addExactRole"
        BY IdleIsCall DEF Call
      <4>3. call'[q] = m
        BY <4>1 DEF Goes, DirectoryInv, TypeOK
      <4> QED BY <4>2, <4>3
    <3> QED BY <3>1, <3>2
  <2>7. CASE \A p \in Procs : Follows(call[p], call'[p])
    BY <2>4, <2>7 DEF Follows
  <2>8. ASSUME NEW p \in Procs, ReaderStep(p) PROVE ReadSoFar(n)
    BY <2>4, <2>5, <2>8, ReaderMoves
  <2> QED BY <2>4, <2>6, <2>7, <2>8, CallHistory DEF Begins
<1> QED BY <1>1, <1>2

THEOREM ReadersCollect == Spec => []ReadsExact
<1>1. Init => ReadsExact
  BY IdleIsCall DEF Init, ReadsExact
<1>2. DirectoryInv /\ AddsInOrder /\ ReadsExact /\ [Next]_vars => ReadsExact'
  BY NextReads
<1> QED BY <1>1, <1>2, DirectoryInvariant, AddsKeepOrder, PTL DEF Spec

\* The effective roles that GetEffectiveTenantRoles answers when nothing changed
\* while it read, command after command, are exactly the union it has to compute.
THEOREM QuietReadsExact == Spec => []QuietReadExact
<1>1. DirectoryInv /\ ReadsExact => QuietReadExact
  <2> SUFFICES ASSUME DirectoryInv, ReadsExact, NEW p \in Procs, Reads(p, "answered"), ~window[p].moved
               PROVE  call[p].roles = Effective(call[p].id, call[p].tenant)
    BY DEF QuietReadExact
  <2>1. call[p].op = "effectiveRoles" /\ call[p].pc = "answered"
    BY DEF Reads
  <2>2. call[p].id \in Users /\ call[p].tenant \in Tenants
    BY <2>1 DEF DirectoryInv, Shapes, Shape
  <2>3. call[p].links = {} /\ call[p].roles = Collected(call[p].id, call[p].tenant, call[p].links)
    BY <2>1 DEF ReadsExact, ReadSoFar
  <2> QED BY <2>2, <2>3, CollectedAll
<1> QED BY <1>1, DirectoryInvariant, ReadersCollect, PTL DEF Spec
=============================================================================
