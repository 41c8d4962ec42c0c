---------------------------- MODULE AccessGraph ----------------------------
(***************************************************************************)
(* Global groups, their members and the tenant access assignments of       *)
(* identity_directory_repository.go, with the user deletions that have to  *)
(* take a subject out of all of them.                                      *)
(*                                                                         *)
(* Each relation is stored twice in Redis (a group's members and a user's  *)
(* groups, a tenant's assignments and a principal's tenants, a group and   *)
(* its name key), so every operation has to change both copies whatever    *)
(* the other requests do.  One WATCH with the reads that follow it is one  *)
(* step, MULTI/EXEC is another; every key read in between is watched, so   *)
(* an EXEC that succeeds saw one state.  CreateGroup and the reader        *)
(* GetEffectiveTenantRoles have no WATCH and take one step per command.    *)
(*                                                                         *)
(* Of an account only its presence in users_v2 is kept (see Accounts.tla). *)
(* Accounts are password accounts: the foreign-tenant rules for SAML       *)
(* subjects never apply.                                                   *)
(***************************************************************************)
EXTENDS Naturals, FiniteSets

CONSTANTS
    Users, Groups, Tenants, Roles,
    Names,             \* spellings of group names
    Keys, Lower,       \* strings.ToLower: the spelling's key
    Procs,             \* concurrent request handlers
    Deployments,       \* situations the model starts from
    NoId, NoGroup, NoAssignment, NoName,
    AnyETag, NoETag,   \* If-Match: * and no If-Match at all
    MaxVersion,        \* bound of the model on versions
    MaxRetries         \* directoryMaximumRetries (8 in the code)

Principals == Users \cup Groups

\* decodeGroup and decodeAssignment refuse a version below 1 and an empty role list.
Group == [name: Names, active: BOOLEAN, version: Nat \ {0}]
Assignment == [roles: (SUBSET Roles) \ {{}}, version: Nat \ {0}]

ASSUME AccessAssumption ==
    /\ Users \cap Groups = {}
    /\ Lower \in [Names -> Keys]
    /\ NoId \notin Principals \cup Tenants
    /\ NoGroup \notin Group
    /\ NoAssignment \notin Assignment
    /\ NoName \notin Names
    /\ AnyETag \notin Nat /\ NoETag \notin Nat /\ AnyETag # NoETag
    /\ MaxVersion \in Nat /\ MaxRetries \in Nat \ {0}

\* Faults and writes of other components that a deployment may see.
Events == {"createUser", "updateUser", "crash", "lostReply"}

OpNames == {"none", "createGroup", "patchGroup", "deleteGroup", "putMember", "deleteMember",
            "putAssignment", "deleteAssignment", "addExactRole", "selfDelete", "adminDelete",
            "effectiveRoles"}

\* One request.  "id" is the group, principal or user it is about, "user" the
\* member it adds or removes, "old" the name it read.  The payloads it is about
\* to write are "plan" (group records), "entry" (an assignment), "links" (the
\* groups or members it unlinks) and "tenants"; "seen" and "seenTenants" are what
\* chose the keys to WATCH.
Call == [op: OpNames,
         pc: {"idle", "prepared", "observed", "watched", "reserved", "undo",
              "direct", "groups", "group", "assignment", "answered"},
         id: Principals \cup {NoId}, user: Users \cup {NoId}, tenant: Tenants \cup {NoId},
         name: Names \cup {NoName}, old: Names \cup {NoName}, active: BOOLEAN,
         roles: SUBSET Roles, etag: Nat \cup {AnyETag, NoETag},
         plan: [Groups -> Group \cup {NoGroup}], entry: Assignment \cup {NoAssignment},
         links: SUBSET Principals, tenants: SUBSET Tenants,
         seen: SUBSET Groups, seenTenants: SUBSET Tenants, attempt: Nat]

NoPlan == [g \in Groups |-> NoGroup]

Idle == [op |-> "none", pc |-> "idle", id |-> NoId, user |-> NoId, tenant |-> NoId,
         name |-> NoName, old |-> NoName, active |-> TRUE, roles |-> {}, etag |-> NoETag,
         plan |-> NoPlan, entry |-> NoAssignment, links |-> {}, tenants |-> {},
         seen |-> {}, seenTenants |-> {}, attempt |-> 0]

\* Which accounts exist, which uuids were used up before, which operations
\* clients invoke, and with which group names and If-Match values; "limit" is
\* directoryMaximumRelationships (500 in the code).
Deployment == [founders: SUBSET Users, retired: SUBSET Principals,
               clients: SUBSET (OpNames \cup Events), names: SUBSET Names,
               limit: Nat, etags: SUBSET (Nat \cup {AnyETag, NoETag})]

ASSUME DeploymentAssumption == \A d \in Deployments : d \in Deployment

----------------------------------------------------------------------------
VARIABLES
    deployment,        \* the situation this behaviour started from
    accounts,          \* subjects with a record in users_v2
    groups,            \* directoryGroupsHash: id -> record
    nameOwner,         \* groupNameKey -> group id
    order,             \* directoryGroupOrderIndex: (lower-cased name, id)
    members,           \* groupMembersKey: group -> users
    userGroups,        \* userGroupsKey: user -> groups
    assignments,       \* assignmentsKey: tenant -> principal -> assignment
    principalTenants,  \* principalTenantsKey: principal -> tenants
    issued,            \* uuids handed out so far
    call, dirty,       \* requests, and whether a key they WATCH was written
    window             \* history: what happened since a request's first read

groupStore == <<groups, nameOwner, order>>
memberStore == <<members, userGroups>>
assignmentStore == <<assignments, principalTenants>>
graph == <<accounts, groupStore, memberStore, assignmentStore>>
vars == <<deployment, graph, issued, call, dirty, window>>

MaxRelationships == deployment.limit

----------------------------------------------------------------------------
(* Redis keys and WATCH *)

UsersKey == <<"users_v2">>
GroupsKey == <<"groups">>
OrderKey == <<"groups:order">>
NameKey(k) == <<"groups:name", k>>
MembersKey(g) == <<"members", g>>
UserGroupsKey(u) == <<"userGroups", u>>
AssignmentsKey(t) == <<"assignments", t>>
TenantsKey(p) == <<"tenants", p>>

PatchWatch(c) ==
    {GroupsKey, OrderKey} \cup (IF c.name = NoName THEN {} ELSE {NameKey(Lower[c.name])})
DeleteGroupWatch(c) == {GroupsKey, OrderKey, MembersKey(c.id), TenantsKey(c.id)}
\* Mutant: the account may go while its membership is added.
MemberWatchGroup(c) == {GroupsKey, MembersKey(c.id), UserGroupsKey(c.user)}

MemberWatch(c) == {UsersKey, GroupsKey, MembersKey(c.id), UserGroupsKey(c.user)}
PutAssignmentWatch(c) ==
    {IF c.id \in Users THEN UsersKey ELSE GroupsKey, AssignmentsKey(c.tenant), TenantsKey(c.id)}
DeleteAssignmentWatch(c) == {AssignmentsKey(c.tenant), TenantsKey(c.id)}
UserDeleteWatch(c) ==
    {UsersKey, GroupsKey, UserGroupsKey(c.id), TenantsKey(c.id)}
        \cup {MembersKey(g) : g \in c.seen} \cup {AssignmentsKey(t) : t \in c.seenTenants}

Watching(c) ==
    IF c.pc # "watched" THEN {}
    ELSE CASE c.op = "patchGroup"                          -> PatchWatch(c)
           [] c.op = "deleteGroup"                         -> DeleteGroupWatch(c)
           [] c.op \in {"putMember", "deleteMember"}       -> MemberWatch(c)
           [] c.op \in {"putAssignment", "addExactRole"}   -> PutAssignmentWatch(c)
           [] c.op = "deleteAssignment"                    -> DeleteAssignmentWatch(c)
           [] OTHER                                        -> UserDeleteWatch(c)

\* A write to "keys" disturbs every other connection that watches one of them.
Touch(self, keys) ==
    dirty' = [q \in Procs |-> (q \notin self) /\ (dirty[q] \/ Watching(call[q]) \cap keys # {})]

\* DEL of an absent key and SREM of an absent element are no writes.
If(S, key) == IF S = {} THEN {} ELSE {key}

----------------------------------------------------------------------------
(* What a user may do in a tenant: the union the reader has to compute. *)

RolesOf(entry) == IF entry = NoAssignment THEN {} ELSE entry.roles

Effective(u, t) ==
    RolesOf(assignments[t][u]) \cup
        UNION {RolesOf(assignments[t][g]) :
                   g \in {h \in Groups : groups[h] # NoGroup /\ groups[h].active /\ u \in members[h]}}

----------------------------------------------------------------------------
Closed == [moved |-> FALSE, gone |-> FALSE]

Init ==
    /\ deployment \in Deployments
    /\ accounts = deployment.founders
    /\ groups = NoPlan
    /\ nameOwner = [k \in Keys |-> NoId]
    /\ order = {}
    /\ members = [g \in Groups |-> {}]
    /\ userGroups = [u \in Users |-> {}]
    /\ assignments = [t \in Tenants |-> [p \in Principals |-> NoAssignment]]
    /\ principalTenants = [p \in Principals |-> {}]
    /\ issued = deployment.founders \cup deployment.retired
    /\ call = [p \in Procs |-> Idle]
    /\ dirty = [p \in Procs |-> FALSE]
    /\ window = [p \in Procs |-> Closed]

\* History.  Since the first read of a reader: whether anything changed; since
\* the read of AddExactUserRole: whether the assignment changed, and whether it
\* was ever absent.
Observe ==
    /\ UNCHANGED deployment
    /\ window' = [p \in Procs |->
           LET c == call'[p]
               w == window[p]
           IN  IF c.op = "effectiveRoles"
               THEN [moved |-> w.moved \/ graph' # graph, gone |-> FALSE]
               ELSE IF c.op = "addExactRole"
               THEN [moved |-> w.moved \/ assignments'[c.tenant][c.id] # assignments[c.tenant][c.id],
                     gone |-> w.gone \/ assignments'[c.tenant][c.id] = NoAssignment]
               ELSE Closed]

----------------------------------------------------------------------------
Starts(p, op) == op \in deployment.clients /\ call[p] = Idle
Goes(p, c) == call' = [call EXCEPT ![p] = c]
Finish(p) == Goes(p, Idle)

\* redis.TxFailedErr: nothing was written, the loop reads everything again.
Again(c) ==
    IF c.attempt + 1 < MaxRetries
    THEN [c EXCEPT !.pc = "prepared", !.attempt = @ + 1, !.plan = NoPlan,
                   !.entry = NoAssignment, !.links = {}, !.tenants = {},
                   !.seen = {}, !.seenTenants = {}]
    ELSE Idle

ExecFails(p) ==
    /\ call[p].pc = "watched"
    /\ dirty[p]
    /\ Goes(p, Again(call[p]))
    /\ dirty' = [dirty EXCEPT ![p] = FALSE]
    /\ UNCHANGED <<graph, issued>>
    /\ Observe

\* WATCH and the reads behind it, which leave request "c" with its payloads.
Watches(p, c) ==
    /\ Goes(p, [c EXCEPT !.pc = "watched"])
    /\ UNCHANGED <<graph, issued, dirty>>
    /\ Observe

\* An early return of the transaction function: no EXEC.
Returns(p) == Finish(p) /\ UNCHANGED <<graph, issued, dirty>> /\ Observe

Committing(p, ops) == call[p].op \in ops /\ call[p].pc = "watched" /\ ~dirty[p] /\ Finish(p)

\* Mutant: the version is not compared.
MatchesAlways(etag, version) == TRUE

\* matchesVersion
Matches(etag, version) == etag \in {AnyETag, version}

----------------------------------------------------------------------------
(* Accounts, as far as they matter here: CreateDirectoryUser adds one, any *)
(* account update writes users_v2.                                         *)

CreateUser(u) ==
    /\ "createUser" \in deployment.clients
    /\ u \notin issued
    /\ accounts' = accounts \cup {u}
    /\ issued' = issued \cup {u}
    /\ Touch({}, {UsersKey})
    /\ UNCHANGED <<groupStore, memberStore, assignmentStore, call>>
    /\ Observe

UpdateUser ==
    /\ "updateUser" \in deployment.clients
    /\ Touch({}, {UsersKey})
    /\ dirty' # dirty
    /\ UNCHANGED <<graph, issued, call>>
    /\ Observe

----------------------------------------------------------------------------
(* CreateGroup: SETNX of the name, then the record and the order index.    *)

ReserveName(p, g, n) ==
    /\ Starts(p, "createGroup")
    /\ g \notin issued
    /\ n \in deployment.names
    /\ nameOwner[Lower[n]] = NoId                 \* otherwise ErrGroupExists
    /\ nameOwner' = [nameOwner EXCEPT ![Lower[n]] = g]
    /\ issued' = issued \cup {g}
    /\ \/ Goes(p, [Idle EXCEPT !.op = "createGroup", !.pc = "reserved", !.id = g, !.name = n])
       \/ "lostReply" \in deployment.clients /\ Finish(p)    \* the reply to SETNX is lost
    /\ Touch({}, {NameKey(Lower[n])})
    /\ UNCHANGED <<accounts, groups, order, memberStore, assignmentStore>>
    /\ Observe

\* The pipeline with HSET and ZADD.
StoreGroup(g, n) ==
    /\ groups' = [groups EXCEPT ![g] = [name |-> n, active |-> TRUE, version |-> 1]]
    /\ order' = order \cup {<<Lower[n], g>>}

CreateGroup(p) ==
    LET c == call[p] IN
    /\ c.pc = "reserved"
    /\ StoreGroup(c.id, c.name)
    /\ Finish(p)
    /\ Touch({}, {GroupsKey, OrderKey})
    /\ UNCHANGED <<accounts, nameOwner, memberStore, assignmentStore, issued>>
    /\ Observe

\* The pipeline failed, or it was applied and its reply was lost: the code
\* cannot tell which, and deletes the name key either way.
CreateGroupFails(p, applied) ==
    LET c == call[p] IN
    /\ c.pc = "reserved"
    /\ applied => "lostReply" \in deployment.clients
    /\ IF applied
       THEN StoreGroup(c.id, c.name) /\ Touch({}, {GroupsKey, OrderKey})
       ELSE UNCHANGED <<groups, order, dirty>>
    /\ Goes(p, [c EXCEPT !.pc = "undo"])
    /\ UNCHANGED <<accounts, nameOwner, memberStore, assignmentStore, issued>>
    /\ Observe

UndoName(p) ==
    LET k == Lower[call[p].name] IN
    /\ call[p].pc = "undo"
    /\ \/ /\ nameOwner' = [nameOwner EXCEPT ![k] = NoId]
          /\ Touch({}, IF nameOwner[k] = NoId THEN {} ELSE {NameKey(k)})
       \/ "lostReply" \in deployment.clients /\ UNCHANGED <<nameOwner, dirty>>    \* the DEL fails
    /\ Finish(p)
    /\ UNCHANGED <<accounts, groups, order, memberStore, assignmentStore, issued>>
    /\ Observe

----------------------------------------------------------------------------
(* Requests with a WATCH loop: "Pending" are the requests of operation     *)
(* "op" that process p may now run the transaction function for, new ones  *)
(* or the one whose last EXEC failed.                                      *)

Pending(p, op, fresh) ==
    IF Starts(p, op) THEN fresh
    ELSE IF call[p].op = op /\ call[p].pc = "prepared" THEN {call[p]} ELSE {}

(* PatchGroup *)

PatchRequest(g, n, a, e) ==
    [Idle EXCEPT !.op = "patchGroup", !.id = g, !.name = n, !.active = a, !.etag = e]

PatchRequests ==
    {PatchRequest(g, n, a, e) :
         g \in Groups, n \in deployment.names \cup {NoName}, a \in BOOLEAN, e \in deployment.etags}

Patched(c, current) ==
    [name |-> IF c.name = NoName THEN current.name ELSE c.name,
     active |-> c.active, version |-> current.version + 1]

NameAvailable(n, g) == nameOwner[Lower[n]] \in {NoId, g}

WatchPatch(p, c) ==
    LET current == groups[c.id]
        updated == Patched(c, current)
    IN  IF /\ current # NoGroup
           /\ updated.name # current.name \/ updated.active # current.active
           /\ Matches(c.etag, current.version)
           /\ updated.name # current.name => NameAvailable(updated.name, c.id)
        THEN /\ current.version < MaxVersion
             /\ Watches(p, [c EXCEPT !.old = current.name, !.plan[c.id] = updated])
        ELSE Returns(p)

\* Del of the old name key comes first: a change of case keeps the key.
MoveName(g, from, to) ==
    /\ nameOwner' = [nameOwner EXCEPT ![Lower[from]] = NoId, ![Lower[to]] = g]
    /\ order' = (order \ {<<Lower[from], g>>}) \cup {<<Lower[to], g>>}

PatchGroup(p) ==
    LET c == call[p]
        updated == c.plan[c.id]
    IN  /\ Committing(p, {"patchGroup"})
        /\ groups' = [groups EXCEPT ![c.id] = updated]
        /\ IF updated.name = c.old THEN UNCHANGED <<nameOwner, order>>
           ELSE MoveName(c.id, c.old, updated.name)
        /\ Touch({p}, {GroupsKey} \cup
                         IF updated.name = c.old THEN {}
                         ELSE {OrderKey, NameKey(Lower[c.old]), NameKey(Lower[updated.name])})
        /\ UNCHANGED <<accounts, memberStore, assignmentStore, issued>>
        /\ Observe

(* DeleteGroup *)

DeleteGroupRequest(g, e) == [Idle EXCEPT !.op = "deleteGroup", !.id = g, !.etag = e]

DeleteGroupRequests == {DeleteGroupRequest(g, e) : g \in Groups, e \in deployment.etags}

WatchDeleteGroup(p, c) ==
    IF /\ groups[c.id] # NoGroup
       /\ Matches(c.etag, groups[c.id].version)
       /\ Cardinality(members[c.id]) <= MaxRelationships
       /\ Cardinality(principalTenants[c.id]) <= MaxRelationships
    THEN Watches(p, [c EXCEPT !.old = groups[c.id].name, !.links = members[c.id],
                              !.tenants = principalTenants[c.id]])
    ELSE Returns(p)

\* HDEL of a principal's field in the assignments of "ts".
Unassign(pr, ts) ==
    assignments' = [t \in Tenants |->
                       IF t \in ts THEN [assignments[t] EXCEPT ![pr] = NoAssignment]
                       ELSE assignments[t]]

DeleteGroup(p) ==
    LET c == call[p]
        g == c.id
    IN  /\ Committing(p, {"deleteGroup"})
        /\ groups' = [groups EXCEPT ![g] = NoGroup]
        /\ nameOwner' = [nameOwner EXCEPT ![Lower[c.old]] = NoId]
        /\ order' = order \ {<<Lower[c.old], g>>}
        /\ members' = [members EXCEPT ![g] = {}]
        /\ userGroups' = [u \in Users |-> IF u \in c.links THEN userGroups[u] \ {g} ELSE userGroups[u]]
        /\ Unassign(g, c.tenants)
        /\ principalTenants' = [principalTenants EXCEPT ![g] = {}]
        /\ Touch({p}, {GroupsKey, OrderKey, NameKey(Lower[c.old])}
                         \cup If(c.links, MembersKey(g)) \cup If(c.tenants, TenantsKey(g))
                         \cup {UserGroupsKey(u) : u \in c.links}
                         \cup {AssignmentsKey(t) : t \in c.tenants})
        /\ UNCHANGED <<accounts, issued>>
        /\ Observe

(* changeGroupMember *)

MemberRequest(op, g, u, e) == [Idle EXCEPT !.op = op, !.id = g, !.user = u, !.etag = e]

MemberRequests(op) ==
    {MemberRequest(op, g, u, e) : g \in Groups, u \in Users, e \in deployment.etags}

HasRoom(g) == Cardinality(members[g]) < MaxRelationships

WatchMember(p, c) ==
    LET add == c.op = "putMember"
        current == groups[c.id]
    IN  IF /\ add => c.user \in accounts
           /\ current # NoGroup
           /\ (c.user \in members[c.id]) # add
           /\ Matches(c.etag, current.version)
           /\ add => HasRoom(c.id)
        THEN /\ current.version < MaxVersion
             /\ Watches(p, [c EXCEPT !.plan[c.id] = [current EXCEPT !.version = @ + 1]])
        ELSE Returns(p)

ChangeGroupMember(p) ==
    LET c == call[p]
        g == c.id
        u == c.user
        add == c.op = "putMember"
    IN  /\ Committing(p, {"putMember", "deleteMember"})
        /\ groups' = [groups EXCEPT ![g] = c.plan[g]]
        /\ members' = [members EXCEPT ![g] = IF add THEN @ \cup {u} ELSE @ \ {u}]
        /\ userGroups' = [userGroups EXCEPT ![u] = IF add THEN @ \cup {g} ELSE @ \ {g}]
        /\ Touch({p}, {GroupsKey, MembersKey(g), UserGroupsKey(u)})
        /\ UNCHANGED <<accounts, nameOwner, order, assignmentStore, issued>>
        /\ Observe

----------------------------------------------------------------------------
(* PutAccessAssignment, for an administrator and for AddExactUserRole *)

PutRequest(pr, t, rs, e) ==
    [Idle EXCEPT !.op = "putAssignment", !.id = pr, !.tenant = t, !.roles = rs, !.etag = e]

PutRequests ==
    {PutRequest(pr, t, rs, e) :
         pr \in Principals, t \in Tenants, rs \in (SUBSET Roles) \ {{}}, e \in deployment.etags}

PrincipalExists(pr) == IF pr \in Users THEN pr \in accounts ELSE groups[pr] # NoGroup

WatchPut(p, c) ==
    LET current == assignments[c.tenant][c.id]
        absent == current = NoAssignment
    IN  IF /\ PrincipalExists(c.id)
           /\ IF absent THEN c.etag \in {NoETag, AnyETag}
              ELSE current.roles # c.roles /\ Matches(c.etag, current.version)
        THEN /\ ~absent => current.version < MaxVersion
             /\ Watches(p, [c EXCEPT !.entry =
                               [roles |-> c.roles,
                                version |-> IF absent THEN 1 ELSE current.version + 1]])
        ELSE Returns(p)

PutAccessAssignment(p) ==
    LET c == call[p] IN
    /\ Committing(p, {"putAssignment", "addExactRole"})
    /\ assignments' = [assignments EXCEPT ![c.tenant][c.id] = c.entry]
    /\ principalTenants' = [principalTenants EXCEPT ![c.id] = @ \cup {c.tenant}]
    /\ Touch({p}, {AssignmentsKey(c.tenant)} \cup
                     IF c.tenant \in principalTenants[c.id] THEN {} ELSE {TenantsKey(c.id)})
    /\ UNCHANGED <<accounts, groupStore, memberStore, issued>>
    /\ Observe

\* AddExactUserRole reads the assignment and builds its write from what it read.
ReadForRole(p, u, t, r) ==
    LET current == assignments[t][u] IN
    /\ Starts(p, "addExactRole")
    /\ r \notin RolesOf(current)
    /\ Goes(p, [Idle EXCEPT !.op = "addExactRole", !.pc = "prepared", !.id = u, !.tenant = t,
                            !.roles = RolesOf(current) \cup {r},
                            !.etag = IF current = NoAssignment THEN NoETag ELSE current.version])
    /\ UNCHANGED <<graph, issued, dirty>>
    /\ Observe

(* DeleteAccessAssignment *)

DropRequest(pr, t, e) ==
    [Idle EXCEPT !.op = "deleteAssignment", !.id = pr, !.tenant = t, !.etag = e]

DropRequests ==
    {DropRequest(pr, t, e) : pr \in Principals, t \in Tenants, e \in deployment.etags}

WatchDrop(p, c) ==
    LET current == assignments[c.tenant][c.id] IN
    IF current # NoAssignment /\ Matches(c.etag, current.version)
    THEN Watches(p, c) ELSE Returns(p)

DeleteAccessAssignment(p) ==
    LET c == call[p] IN
    /\ Committing(p, {"deleteAssignment"})
    /\ Unassign(c.id, {c.tenant})
    /\ principalTenants' = [principalTenants EXCEPT ![c.id] = @ \ {c.tenant}]
    /\ Touch({p}, {AssignmentsKey(c.tenant), TenantsKey(c.id)})
    /\ UNCHANGED <<accounts, groupStore, memberStore, issued>>
    /\ Observe

----------------------------------------------------------------------------
(* User deletion: DeleteByEmail (by the user) and DeleteDirectoryUser (by  *)
(* an administrator; who may, and of which revision, is in Accounts.tla).  *)

\* Mutant: the group keeps its version.
NotAdvanced(gs) == [g \in Groups |-> IF g \in gs THEN groups[g] ELSE NoGroup]

\* Group records the deletion writes back: same record, next version.
Advanced(gs) == [g \in Groups |-> IF g \in gs THEN [groups[g] EXCEPT !.version = @ + 1] ELSE NoGroup]

GroupsReadable(gs) == \A g \in gs : groups[g] # NoGroup /\ groups[g].version < MaxVersion

\* DeleteByEmail chooses the keys to WATCH from reads made before WATCH.
ObserveSelf(p, c) ==
    IF c.id \in accounts
    THEN /\ Goes(p, [c EXCEPT !.pc = "observed", !.seen = userGroups[c.id],
                              !.seenTenants = principalTenants[c.id]])
         /\ UNCHANGED <<graph, issued, dirty>>
         /\ Observe
    ELSE Returns(p)

Planned(c) == [c EXCEPT !.plan = Advanced(userGroups[c.id]), !.links = userGroups[c.id],
                        !.tenants = principalTenants[c.id]]

WatchSelfDelete(p) ==
    LET c == call[p] IN
    /\ c.op = "selfDelete" /\ c.pc = "observed"
    /\ IF /\ c.id \in accounts
          /\ Cardinality(userGroups[c.id]) <= MaxRelationships
          /\ Cardinality(principalTenants[c.id]) <= MaxRelationships
          /\ GroupsReadable(userGroups[c.id])
       THEN Watches(p, Planned(c)) ELSE Returns(p)

\* DeleteDirectoryUser adds keys to its WATCH as it reads them, and checks
\* that the other side of each relation agrees.
WatchAdminDelete(p, c) ==
    LET gs == userGroups[c.id]
        ts == principalTenants[c.id]
    IN  IF /\ c.id \in accounts
           /\ Cardinality(gs) + Cardinality(ts) <= MaxRelationships
           /\ GroupsReadable(gs)
           /\ \A g \in gs : c.id \in members[g]
           /\ \A t \in ts : assignments[t][c.id] # NoAssignment
        THEN Watches(p, [Planned(c) EXCEPT !.seen = gs, !.seenTenants = ts])
        ELSE Returns(p)

DeleteRequests(op) == {[Idle EXCEPT !.op = op, !.id = u] : u \in Users}

DeleteUser(p) ==
    LET c == call[p]
        u == c.id
    IN  /\ Committing(p, {"selfDelete", "adminDelete"})
        /\ accounts' = accounts \ {u}
        /\ groups' = [g \in Groups |-> IF g \in c.links THEN c.plan[g] ELSE groups[g]]
        /\ members' = [g \in Groups |-> IF g \in c.links THEN members[g] \ {u} ELSE members[g]]
        /\ userGroups' = [userGroups EXCEPT ![u] = {}]
        /\ Unassign(u, c.tenants)
        /\ principalTenants' = [principalTenants EXCEPT ![u] = {}]
        /\ Touch({p}, {UsersKey} \cup If(c.links, GroupsKey)
                         \cup If(c.links, UserGroupsKey(u)) \cup If(c.tenants, TenantsKey(u))
                         \cup {MembersKey(g) : g \in c.links}
                         \cup {AssignmentsKey(t) : t \in c.tenants})
        /\ UNCHANGED <<nameOwner, order, issued>>
        /\ Observe

----------------------------------------------------------------------------
(* GetEffectiveTenantRoles: one Redis command after another, no WATCH.     *)

Reads(p, pc) == call[p].op = "effectiveRoles" /\ call[p].pc = pc

\* What is left to read after the groups in "rest".
AfterGroup(c, rest) ==
    [c EXCEPT !.links = rest, !.seen = {}, !.pc = IF rest = {} THEN "answered" ELSE "group"]

ReadUser(p, u, t) ==
    /\ Starts(p, "effectiveRoles")
    /\ u \in accounts                              \* otherwise ErrNotFound
    /\ Goes(p, [Idle EXCEPT !.op = "effectiveRoles", !.pc = "direct", !.id = u, !.tenant = t])
    /\ UNCHANGED <<graph, issued, dirty>>
    /\ Observe

ReadDirect(p) ==
    /\ Reads(p, "direct")
    /\ Goes(p, [call[p] EXCEPT !.pc = "groups",
                               !.roles = RolesOf(assignments[call[p].tenant][call[p].id])])
    /\ UNCHANGED <<graph, issued, dirty>>
    /\ Observe

ReadGroups(p) ==
    LET gs == userGroups[call[p].id] IN
    /\ Reads(p, "groups")
    /\ Goes(p, IF Cardinality(gs) <= MaxRelationships THEN AfterGroup(call[p], gs) ELSE Idle)
    /\ UNCHANGED <<graph, issued, dirty>>
    /\ Observe

\* Mutant: a disabled group counts.
ReadGroupAnyStatus(p, g) ==
    LET c == call[p] IN
    /\ Reads(p, "group")
    /\ g \in c.links
    /\ Goes(p, IF groups[g] = NoGroup THEN Idle ELSE [c EXCEPT !.pc = "assignment", !.seen = {g}])
    /\ UNCHANGED <<graph, issued, dirty>>
    /\ Observe

\* GetGroup; a group that is gone is ErrDirectoryInvariant.
ReadGroup(p, g) ==
    LET c == call[p] IN
    /\ Reads(p, "group")
    /\ g \in c.links
    /\ Goes(p, IF groups[g] = NoGroup THEN Idle
               ELSE IF groups[g].active THEN [c EXCEPT !.pc = "assignment", !.seen = {g}]
               ELSE AfterGroup(c, c.links \ {g}))
    /\ UNCHANGED <<graph, issued, dirty>>
    /\ Observe

ReadGroupAssignment(p) ==
    LET c == call[p] IN
    /\ Reads(p, "assignment")
    /\ \E g \in c.seen :
           Goes(p, AfterGroup([c EXCEPT !.roles = @ \cup RolesOf(assignments[c.tenant][g])],
                              c.links \ {g}))
    /\ UNCHANGED <<graph, issued, dirty>>
    /\ Observe

Answer(p) ==
    /\ Reads(p, "answered")
    /\ Finish(p)
    /\ UNCHANGED <<graph, issued, dirty>>
    /\ Observe

----------------------------------------------------------------------------
\* The server process dies in the middle of a request.
Crash(p) ==
    /\ "crash" \in deployment.clients
    /\ call[p] # Idle
    /\ Finish(p)
    /\ dirty' = [dirty EXCEPT ![p] = FALSE]
    /\ UNCHANGED <<graph, issued>>
    /\ Observe

GroupStep(p) ==
    \/ \E g \in Groups, n \in Names : ReserveName(p, g, n)
    \/ CreateGroup(p)
    \/ \E applied \in BOOLEAN : CreateGroupFails(p, applied)
    \/ UndoName(p)
    \/ \E c \in Pending(p, "patchGroup", PatchRequests) : WatchPatch(p, c)
    \/ PatchGroup(p)
    \/ \E c \in Pending(p, "deleteGroup", DeleteGroupRequests) : WatchDeleteGroup(p, c)
    \/ DeleteGroup(p)
    \/ \E op \in {"putMember", "deleteMember"} :
           \E c \in Pending(p, op, MemberRequests(op)) : WatchMember(p, c)
    \/ ChangeGroupMember(p)

AssignmentStep(p) ==
    \/ \E c \in Pending(p, "putAssignment", PutRequests)
                \cup Pending(p, "addExactRole", {}) : WatchPut(p, c)
    \/ PutAccessAssignment(p)
    \/ \E u \in Users, t \in Tenants, r \in Roles : ReadForRole(p, u, t, r)
    \/ \E c \in Pending(p, "deleteAssignment", DropRequests) : WatchDrop(p, c)
    \/ DeleteAccessAssignment(p)

DeletionStep(p) ==
    \/ \E c \in Pending(p, "selfDelete", DeleteRequests("selfDelete")) : ObserveSelf(p, c)
    \/ WatchSelfDelete(p)
    \/ \E c \in Pending(p, "adminDelete", DeleteRequests("adminDelete")) : WatchAdminDelete(p, c)
    \/ DeleteUser(p)

ReaderStep(p) ==
    \/ \E u \in Users, t \in Tenants : ReadUser(p, u, t)
    \/ ReadDirect(p)
    \/ ReadGroups(p)
    \/ \E g \in Groups : ReadGroup(p, g)
    \/ ReadGroupAssignment(p)
    \/ Answer(p)

Next ==
    \/ \E u \in Users : CreateUser(u)
    \/ UpdateUser
    \/ \E p \in Procs : \/ GroupStep(p) \/ AssignmentStep(p) \/ DeletionStep(p)
                        \/ ReaderStep(p) \/ ExecFails(p) \/ Crash(p)

Spec == Init /\ [][Next]_vars

----------------------------------------------------------------------------
(* Properties *)

\* Every variable keeps its type; in particular no write stores a group or an
\* assignment that decodeGroup or decodeAssignment would refuse to read back.
TypeOK ==
    /\ deployment \in Deployment
    /\ accounts \subseteq Users
    /\ groups \in [Groups -> Group \cup {NoGroup}]
    /\ nameOwner \in [Keys -> Groups \cup {NoId}]
    /\ order \subseteq Keys \X Groups
    /\ members \in [Groups -> SUBSET Users]
    /\ userGroups \in [Users -> SUBSET Groups]
    /\ assignments \in [Tenants -> [Principals -> Assignment \cup {NoAssignment}]]
    /\ principalTenants \in [Principals -> SUBSET Tenants]
    /\ issued \subseteq Principals
    /\ call \in [Procs -> Call]
    /\ dirty \in [Procs -> BOOLEAN]
    /\ window \in [Procs -> [moved: BOOLEAN, gone: BOOLEAN]]

\* A group's member set and its members' group sets are one relation between
\* accounts and groups that exist: no deletion leaves a member behind, and no
\* member is added to a group, or of an account, that is being deleted.
MembershipIndexed ==
    /\ \A g \in Groups, u \in Users : u \in members[g] <=> g \in userGroups[u]
    /\ \A g \in Groups : groups[g] = NoGroup => members[g] = {}
    /\ \A u \in Users \ accounts : userGroups[u] = {}

\* A tenant's assignments and a principal's tenants agree, and only accounts
\* and groups that exist are assigned: deleting a principal revokes all it had.
AssignmentsIndexed ==
    \A t \in Tenants, pr \in Principals :
        /\ (assignments[t][pr] # NoAssignment) <=> (t \in principalTenants[pr])
        /\ assignments[t][pr] # NoAssignment => PrincipalExists(pr)

\* Every group is listed under its name, nothing else is listed, and the group
\* owns its name key: hence no two groups have names that differ in case only.
\* (The key is released under a group that stands when the reply to its
\* creation is lost.)
NamesIndexed ==
    "lostReply" \notin deployment.clients =>
    /\ order = {<<Lower[groups[g].name], g>> : g \in {h \in Groups : groups[h] # NoGroup}}
    /\ \A g \in Groups : groups[g] # NoGroup => nameOwner[Lower[groups[g].name]] = g

\* No process dies in the middle of a request, and no reply is lost.
Reliable == "crash" \notin deployment.clients /\ "lostReply" \notin deployment.clients

\* ErrGroupExists "indicates another global group owns the normalized name":
\* a name CreateGroup refuses is the name of a group, or of one being created.
\* (A process that dies after SETNX, a lost reply to it and a DEL that fails
\* each leave a name nobody owns.)
RefusedNameIsOwned ==
    Reliable =>
    \A k \in Keys : nameOwner[k] # NoId =>
        \/ /\ groups[nameOwner[k]] # NoGroup
           /\ Lower[groups[nameOwner[k]].name] = k
        \/ \E p \in Procs : /\ call[p].pc \in {"reserved", "undo"}
                            /\ call[p].id = nameOwner[k]

\* A group never has more members than its readers accept, however many
\* requests add one at the same time.
MembersBounded == \A g \in Groups : Cardinality(members[g]) <= MaxRelationships

\* The directory is consistent whatever requests, crashes and lost replies
\* interleave: every record decodes, both copies of each relation agree and name
\* only principals that exist, and the group names are unique and not leaked.
DirectoryConsistent ==
    /\ TypeOK
    /\ MembershipIndexed
    /\ AssignmentsIndexed
    /\ NamesIndexed
    /\ RefusedNameIsOwned
    /\ MembersBounded

\* The group's ETag identifies what it was computed from: a step that changes
\* the record or the members of a group that stays advances its version.
GroupETagAdvances ==
    [][\A g \in Groups :
          groups[g] # NoGroup /\ groups'[g] # NoGroup
              /\ (groups'[g] # groups[g] \/ members'[g] # members[g])
              => groups'[g].version = groups[g].version + 1]_vars

\* AddExactUserRole replaces an assignment that changed after it read it.
OverwritesChange(p) ==
    /\ call[p].op = "addExactRole" /\ call'[p] = Idle
    /\ assignments[call[p].tenant][call[p].id] # NoAssignment
    /\ assignments'[call[p].tenant][call[p].id] # assignments[call[p].tenant][call[p].id]
    /\ window[p].moved

\* "a concurrent change is never overwritten", as AddExactUserRole promises.
ConcurrentChangeNotOverwritten == [][\A p \in Procs : ~OverwritesChange(p)]_vars

\* The promise holds as long as the assignment is not deleted in between:
\* every change of an assignment that stays makes the observed version stale.
StandingChangeNotOverwritten ==
    [][\A p \in Procs : OverwritesChange(p) => window[p].gone]_vars

\* A read during which nothing changed returns exactly the union of the direct
\* roles and the roles of the user's active groups.
QuietReadExact ==
    \A p \in Procs : Reads(p, "answered") /\ ~window[p].moved =>
        call[p].roles = Effective(call[p].id, call[p].tenant)

=============================================================================
