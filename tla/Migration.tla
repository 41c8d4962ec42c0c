----------------------------- MODULE Migration -----------------------------
(***************************************************************************)
(* The startup migration to the V2 directory: identityDirectoryRepo.       *)
(* Backfill, run by every server replica before it serves, and the legacy  *)
(* import of FindByEmail that the bootstrap job may run meanwhile.         *)
(*                                                                         *)
(* A replica holds the migration under a lease in Redis that a goroutine   *)
(* renews.  The writes of the migration do not check the lease, so what a  *)
(* replica does after it lost the lease without noticing is part of the    *)
(* model ("stalls").  Every Redis command, script and transaction is one   *)
(* step; a HSCAN or SCAN loop is one step.                                 *)
(*                                                                         *)
(* There is one tenant; an account's content is a number that every edit   *)
(* advances, and the legacy content is 0.  Accounts are password accounts: *)
(* a SAML subject of another tenant, whose membership the code skips, and  *)
(* the retired default tenant do not occur.                                *)
(***************************************************************************)
EXTENDS Naturals, FiniteSets

CONSTANTS
    Uids, Replicas,
    EmailOf,           \* the address in an account's record
    Roles,
    Inputs,            \* deployments, and what their Redis holds at first
    BootUser,          \* the administrator the bootstrap job reconciles
    BootRole,          \* ADMIN, the role the job assigns
    NoUid, NoRecord, NoRole,
    Edited,            \* roles an administrator wrote after the cutover
    NoOwner, Orphan,   \* the lease is free, or of a process that is gone
    MaxContent         \* bound of the model on edits

Emails == {EmailOf[u] : u \in Uids}
Content == Nat

\* users (legacy hash), users_v2, the two copies of the memberships, the
\* replicas of the deployment, whether its bootstrap job runs, whether a lease may
\* expire while its owner still runs, and a bound of the model on the crashes and
\* lost connections it goes through.
Input == [legacy: SUBSET Uids, current: SUBSET Uids,
          legacyRole: [Uids -> Roles \cup {NoRole}], guardedRole: [Uids -> Roles \cup {NoRole}],
          replicas: SUBSET Replicas, bootstraps: BOOLEAN, stalls: BOOLEAN,
          maxFaults: Nat]

ASSUME MigrationAssumption ==
    /\ DOMAIN EmailOf = Uids
    /\ Inputs \subseteq Input
    /\ BootUser \in Uids /\ BootRole \in Roles
    /\ NoUid \notin Uids /\ NoRecord \notin Content /\ NoRole \notin Roles
    /\ Edited \notin Roles \cup {NoRole}
    /\ {NoOwner, Orphan} \cap Replicas = {} /\ NoOwner # Orphan
    /\ MaxContent \in Nat

VARIABLES
    input,             \* the deployment before its first replica started
    legacy,            \* users: accounts with a legacy record
    memberships,       \* accounts whose membership records are still there
    users,             \* users_v2
    aliases,           \* userByEmail
    assignments,       \* direct assignments in the tenant
    marker,            \* directoryBackfillMarker
    lock,              \* directoryBackfillLock
    pc, work,          \* per replica: where it is, and its local variables
    faults,            \* crashes and lost connections so far
    boot,              \* the bootstrap job: pc, content it read, dirty WATCH
    deleted, revoked   \* history: accounts deleted, assignments revoked

redis == <<legacy, memberships, users, aliases, assignments>>
history == <<deleted, revoked>>
vars == <<input, redis, marker, lock, pc, work, faults, boot, history>>

\* byID and todo of backfillUsers, values of backfillAssignments, the element
\* in hand, and whether the lease context is cancelled.
Work == [byID: [Uids -> Content \cup {NoRecord}], roles: [Uids -> Roles \cup {NoRole}],
         todo: SUBSET Uids, uid: Uids \cup {NoUid}, cancelled: BOOLEAN]

NoWork == [byID |-> [u \in Uids |-> NoRecord], roles |-> [u \in Uids |-> NoRole],
           todo |-> {}, uid |-> NoUid, cancelled |-> FALSE]

Working == {"scanV2", "scanLegacy", "users", "writeUser", "memberships", "pairs",
            "putPair", "complete"}

\* backfillAssignments prefers the guarded V2 copy of a membership.
Candidate(u) ==
    IF u \notin memberships THEN NoRole
    ELSE IF input.guardedRole[u] # NoRole THEN input.guardedRole[u] ELSE input.legacyRole[u]

Init ==
    /\ input \in Inputs
    /\ legacy = input.legacy
    /\ memberships = Uids
    /\ users = [u \in Uids |-> IF u \in input.current THEN 1 ELSE NoRecord]
    /\ aliases = [e \in Emails |->
                     IF \E u \in input.current : EmailOf[u] = e
                     THEN CHOOSE u \in input.current : EmailOf[u] = e ELSE NoUid]
    /\ assignments = [u \in Uids |-> NoRole]
    /\ marker = FALSE
    /\ lock = NoOwner
    /\ pc = [r \in Replicas |-> "down"]
    /\ work = [r \in Replicas |-> NoWork]
    /\ faults = 0
    /\ boot = [pc |-> IF input.bootstraps THEN "start" ELSE "done", seen |-> 0, dirty |-> FALSE]
    /\ deleted = {} /\ revoked = {}

----------------------------------------------------------------------------
(* Steps of one replica *)

Goes(r, label) == pc' = [pc EXCEPT ![r] = label]
Keeps(r, w) == work' = [work EXCEPT ![r] = w]

\* A write to one of the keys importLegacyEmailUser watches.
Touch == boot' = [boot EXCEPT !.dirty = (boot.pc = "importing")]

Start(r) ==
    /\ r \in input.replicas
    /\ pc[r] = "down"
    /\ Goes(r, "marker")
    /\ Keeps(r, NoWork)
    /\ UNCHANGED <<input, redis, marker, lock, faults, boot, history>>

\* Mutant: the marker is not looked at.
SkipMarker(r) ==
    /\ pc[r] = "marker"
    /\ Goes(r, "acquire")
    /\ UNCHANGED <<input, redis, marker, lock, work, faults, boot, history>>

\* First statement of Backfill.
CheckMarker(r) ==
    /\ pc[r] = "marker"
    /\ Goes(r, IF marker THEN "serving" ELSE "acquire")
    /\ UNCHANGED <<input, redis, marker, lock, work, faults, boot, history>>

\* SETNX of the lease.
Acquire(r) ==
    /\ pc[r] = "acquire"
    /\ IF lock = NoOwner THEN lock' = r /\ Goes(r, "scanV2")
       ELSE UNCHANGED lock /\ Goes(r, "recheck")
    /\ UNCHANGED <<input, redis, marker, work, faults, boot, history>>

\* Not the owner: serve if the owner has just finished, else fail to start.
Recheck(r) ==
    /\ pc[r] = "recheck"
    /\ Goes(r, IF marker THEN "serving" ELSE "down")
    /\ UNCHANGED <<input, redis, marker, lock, work, faults, boot, history>>

At(r, label) == pc[r] = label /\ ~work[r].cancelled

ScanV2(r) ==
    /\ At(r, "scanV2")
    /\ Keeps(r, [work[r] EXCEPT !.byID = users])
    /\ Goes(r, "scanLegacy")
    /\ UNCHANGED <<input, redis, marker, lock, faults, boot, history>>

\* Mutant: a legacy record wins over the current one.
MergedLegacyFirst(byID) == [u \in Uids |-> IF u \in legacy THEN 0 ELSE byID[u]]

\* Mutant: the legacy hash is not migrated.
MergedCurrentOnly(byID) == byID

\* Legacy records of accounts that the V2 scan did not have.
Merged(byID) == [u \in Uids |-> IF byID[u] = NoRecord /\ u \in legacy THEN 0 ELSE byID[u]]

Ambiguous(byID) ==
    \E u, v \in Uids : /\ u # v /\ EmailOf[u] = EmailOf[v]
                       /\ byID[u] # NoRecord /\ byID[v] # NoRecord

ScanLegacy(r) ==
    LET byID == Merged(work[r].byID) IN
    /\ At(r, "scanLegacy")
    /\ ~Ambiguous(byID)                            \* otherwise Refuses
    /\ Keeps(r, [work[r] EXCEPT !.byID = byID, !.todo = {u \in Uids : byID[u] # NoRecord}])
    /\ Goes(r, "users")
    /\ UNCHANGED <<input, redis, marker, lock, faults, boot, history>>

CheckAlias(r, u) ==
    /\ At(r, "users")
    /\ u \in work[r].todo
    /\ aliases[EmailOf[u]] \in {NoUid, u}          \* otherwise Refuses
    /\ Keeps(r, [work[r] EXCEPT !.uid = u])
    /\ Goes(r, "writeUser")
    /\ UNCHANGED <<input, redis, marker, lock, faults, boot, history>>

\* MULTI/EXEC without WATCH: what the scans read is written over what is there.
StoreUser(u, content) ==
    /\ users' = [users EXCEPT ![u] = content]
    /\ aliases' = [aliases EXCEPT ![EmailOf[u]] = u]

WriteUser(r) ==
    LET u == work[r].uid IN
    /\ At(r, "writeUser")
    /\ StoreUser(u, work[r].byID[u])
    /\ Keeps(r, [work[r] EXCEPT !.todo = @ \ {u}, !.uid = NoUid])
    /\ Goes(r, "users")
    /\ Touch
    /\ UNCHANGED <<input, legacy, memberships, assignments, marker, lock, faults, history>>

UsersDone(r) ==
    /\ At(r, "users")
    /\ work[r].todo = {}
    /\ Goes(r, "memberships")
    /\ UNCHANGED <<input, redis, marker, lock, work, faults, boot, history>>

ScanMemberships(r) ==
    LET roles == [u \in Uids |-> Candidate(u)] IN
    /\ At(r, "memberships")
    /\ Keeps(r, [work[r] EXCEPT !.roles = roles, !.todo = {u \in Uids : roles[u] # NoRole}])
    /\ Goes(r, "pairs")
    /\ UNCHANGED <<input, redis, marker, lock, faults, boot, history>>

\* An assignment that is there is authoritative.
CheckPair(r, u) ==
    /\ At(r, "pairs")
    /\ u \in work[r].todo
    /\ IF assignments[u] # NoRole
       THEN Keeps(r, [work[r] EXCEPT !.todo = @ \ {u}]) /\ UNCHANGED pc
       ELSE Keeps(r, [work[r] EXCEPT !.uid = u]) /\ Goes(r, "putPair")
    /\ UNCHANGED <<input, redis, marker, lock, faults, boot, history>>

\* PutAccessAssignment without If-Match: it creates, or finds the same roles.
PutPair(r) ==
    LET u == work[r].uid IN
    /\ At(r, "putPair")
    /\ users[u] # NoRecord                         \* otherwise Refuses
    /\ assignments[u] \in {NoRole, work[r].roles[u]}
    /\ assignments' = [assignments EXCEPT ![u] = work[r].roles[u]]
    /\ Keeps(r, [work[r] EXCEPT !.todo = @ \ {u}, !.uid = NoUid])
    /\ Goes(r, "pairs")
    /\ UNCHANGED <<input, legacy, memberships, users, aliases, marker, lock, faults, boot, history>>

PairsDone(r) ==
    /\ At(r, "pairs")
    /\ work[r].todo = {}
    /\ Goes(r, "complete")
    /\ UNCHANGED <<input, redis, marker, lock, work, faults, boot, history>>

\* completeDirectoryBackfillScript: only the owner of the lease sets the marker.
OwnsLease(r) == lock = r

Complete(r) ==
    /\ At(r, "complete")
    /\ OwnsLease(r)                                \* otherwise Refuses
    /\ marker' = TRUE
    /\ lock' = NoOwner
    /\ Goes(r, "serving")
    /\ Keeps(r, NoWork)
    /\ Touch
    /\ UNCHANGED <<input, redis, faults, history>>

\* The reasons for which Backfill returns an error by itself.
MustRefuse(r) ==
    \/ work[r].cancelled
    \/ pc[r] = "scanLegacy" /\ Ambiguous(Merged(work[r].byID))
    \/ pc[r] = "users" /\ \E u \in work[r].todo : aliases[EmailOf[u]] \notin {NoUid, u}
    \/ /\ pc[r] = "putPair"
       /\ \/ users[work[r].uid] = NoRecord
          \/ assignments[work[r].uid] \notin {NoRole, work[r].roles[work[r].uid]}
    \/ pc[r] = "complete" /\ ~OwnsLease(r)

\* The deferred release deletes the lease if it is still this replica's.
Released(r) == IF lock = r THEN NoOwner ELSE lock

\* The process ended without releasing its lease.
Abandoned(r) == IF lock = r THEN Orphan ELSE lock

Refuses(r) ==
    /\ pc[r] \in Working
    /\ MustRefuse(r)
    /\ lock' \in {Released(r), Abandoned(r)}
    /\ Goes(r, "down")
    /\ Keeps(r, NoWork)
    /\ UNCHANGED <<input, redis, marker, faults, boot, history>>

----------------------------------------------------------------------------
(* The lease, crashes and lost connections *)

\* renewDirectoryBackfillLease: a lease that is gone cancels the migration.
Renew(r) ==
    /\ pc[r] \in Working
    /\ ~work[r].cancelled
    /\ lock # r
    /\ Keeps(r, [work[r] EXCEPT !.cancelled = TRUE])
    /\ UNCHANGED <<input, redis, marker, lock, pc, faults, boot, history>>

\* The renewal failed although the lease may still be there.
RenewFails(r) ==
    /\ pc[r] \in Working
    /\ ~work[r].cancelled
    /\ faults < input.maxFaults
    /\ faults' = faults + 1
    /\ Keeps(r, [work[r] EXCEPT !.cancelled = TRUE])
    /\ UNCHANGED <<input, redis, marker, lock, pc, boot, history>>

\* Mutant: the lease has no TTL.
ExpireNever == FALSE /\ UNCHANGED vars

\* A process that does not get to renew its lease in time still runs.
Expire ==
    /\ lock # NoOwner
    /\ lock = Orphan \/ input.stalls
    /\ lock' = NoOwner
    /\ UNCHANGED <<input, redis, marker, pc, work, faults, boot, history>>

Crash(r) ==
    /\ pc[r] # "down"
    /\ faults < input.maxFaults
    /\ faults' = faults + 1
    /\ lock' = Abandoned(r)
    /\ Goes(r, "down")
    /\ Keeps(r, NoWork)
    /\ UNCHANGED <<input, redis, marker, boot, history>>

----------------------------------------------------------------------------
(* Administration, once a replica serves (Accounts.tla, AccessGraph.tla).  *)

Serving == \E r \in Replicas : pc[r] = "serving"

EditUser(u) ==
    /\ Serving
    /\ users[u] # NoRecord /\ users[u] < MaxContent
    /\ users' = [users EXCEPT ![u] = @ + 1]
    /\ Touch
    /\ UNCHANGED <<input, legacy, memberships, aliases, assignments, marker, lock, pc, work,
                   faults, history>>

DeleteUser(u) ==
    /\ Serving
    /\ users[u] # NoRecord
    /\ users' = [users EXCEPT ![u] = NoRecord]
    /\ aliases' = [aliases EXCEPT ![EmailOf[u]] = NoUid]
    /\ legacy' = legacy \ {u}
    /\ memberships' = memberships \ {u}
    /\ assignments' = [assignments EXCEPT ![u] = NoRole]
    /\ deleted' = deleted \cup {u}
    /\ Touch
    /\ UNCHANGED <<input, marker, lock, pc, work, faults, revoked>>

EditAssignment(u) ==
    /\ Serving
    /\ assignments[u] # NoRole
    /\ assignments' = [assignments EXCEPT ![u] = Edited]
    /\ UNCHANGED <<input, legacy, memberships, users, aliases, marker, lock, pc, work,
                   faults, boot, history>>

RevokeAssignment(u) ==
    /\ Serving
    /\ assignments[u] # NoRole
    /\ assignments' = [assignments EXCEPT ![u] = NoRole]
    /\ revoked' = revoked \cup {u}
    /\ UNCHANGED <<input, legacy, memberships, users, aliases, marker, lock, pc, work,
                   faults, boot, deleted>>

----------------------------------------------------------------------------
(* The bootstrap job: FindByEmail, with the legacy import, then UpdateUser *)
(* of what it found and PutAccessAssignment of ADMIN.  It neither waits    *)
(* for the migration nor takes part.                                       *)

Boots(label, seen) == boot' = [pc |-> label, seen |-> seen, dirty |-> FALSE]

BootUnchanged == UNCHANGED <<input, legacy, memberships, marker, lock, pc, work, faults, history>>

BootFinds ==
    LET owner == aliases[EmailOf[BootUser]] IN
    /\ boot.pc = "start"
    /\ owner = BootUser /\ users[BootUser] # NoRecord
    /\ Boots("update", users[BootUser])
    /\ BootUnchanged /\ UNCHANGED <<users, aliases, assignments>>

\* The marker forbids the import.
ImportAllowed == ~marker

\* importLegacyEmailUser: WATCH and its reads.  Without a legacy record the job
\* goes on to create the administrator under a new uid, which is no account of
\* the migration.
BootWatches ==
    /\ boot.pc = "start"
    /\ aliases[EmailOf[BootUser]] = NoUid
    /\ IF ImportAllowed /\ BootUser \in legacy /\ users[BootUser] = NoRecord
       THEN Boots("importing", 0) ELSE Boots("done", 0)
    /\ BootUnchanged /\ UNCHANGED <<users, aliases, assignments>>

BootImports ==
    /\ boot.pc = "importing"
    /\ IF boot.dirty
       THEN Boots("start", 0) /\ UNCHANGED <<users, aliases>>
       ELSE StoreUser(BootUser, 0) /\ Boots("update", 0)
    /\ BootUnchanged /\ UNCHANGED assignments

\* UpdateDirectoryUser refuses a record that changed since it was read, which
\* ends the job.
BootUpdates ==
    /\ boot.pc = "update"
    /\ IF users[BootUser] = boot.seen
       THEN users' = [users EXCEPT ![BootUser] = @ + 1] /\ Boots("assign", 0)
       ELSE UNCHANGED users /\ Boots("done", 0)
    /\ BootUnchanged /\ UNCHANGED <<aliases, assignments>>

\* PutAccessAssignment without If-Match, as in PutPair: other roles are left as
\* they are, and the job fails.
BootAssigns ==
    /\ boot.pc = "assign"
    /\ assignments' = IF users[BootUser] # NoRecord /\ assignments[BootUser] = NoRole
                      THEN [assignments EXCEPT ![BootUser] = BootRole] ELSE assignments
    /\ Boots("done", 0)
    /\ BootUnchanged /\ UNCHANGED <<users, aliases>>

----------------------------------------------------------------------------
Run(r) ==
    \/ Start(r) \/ CheckMarker(r) \/ Acquire(r) \/ Recheck(r)
    \/ ScanV2(r) \/ ScanLegacy(r) \/ UsersDone(r) \/ WriteUser(r)
    \/ \E u \in Uids : CheckAlias(r, u) \/ CheckPair(r, u)
    \/ ScanMemberships(r) \/ PutPair(r) \/ PairsDone(r) \/ Complete(r)
    \/ Refuses(r)

Administer == \E u \in Uids : EditUser(u) \/ DeleteUser(u) \/ EditAssignment(u) \/ RevokeAssignment(u)

Bootstrap == BootFinds \/ BootWatches \/ BootImports \/ BootUpdates \/ BootAssigns

Next ==
    \/ \E r \in Replicas : Run(r) \/ Renew(r) \/ RenewFails(r) \/ Crash(r)
    \/ Expire
    \/ Administer
    \/ Bootstrap

Spec == Init /\ [][Next]_vars

\* A replica that can run runs, a pod that is down is started again, and Redis
\* expires the lease of a process that is gone.
FairSpec == Spec /\ WF_vars(Expire) /\ \A r \in Replicas : WF_vars(Run(r))

----------------------------------------------------------------------------
(* Properties *)

\* Two accounts of the deployment claim one address.
AmbiguousInput ==
    \E u, v \in input.legacy \cup input.current : u # v /\ EmailOf[u] = EmailOf[v]

\* The marker is written only after users and assignments finish.  Behind it
\* every account is indexed under its address and every membership is a direct
\* assignment, unless an administrator removed it since; the guarded V2 copy of
\* a membership has won over a legacy copy that differs, unless the bootstrap job
\* came first for its administrator; and two accounts with one address refuse the
\* migration as a whole: no legacy account is taken over but the administrator
\* the bootstrap job imports.
ProjectionExact ==
    /\ marker => \A u \in Uids :
           /\ u \in (input.legacy \cup input.current) \ deleted =>
                  users[u] # NoRecord /\ aliases[EmailOf[u]] = u
           /\ input.legacyRole[u] # NoRole \/ input.guardedRole[u] # NoRole =>
                  assignments[u] # NoRole \/ u \in deleted \cup revoked
    /\ \A u \in Uids : assignments[u] # NoRole /\ input.guardedRole[u] # NoRole =>
           \/ assignments[u] \in {input.guardedRole[u], Edited}
           \/ input.bootstraps /\ u = BootUser /\ assignments[u] = BootRole
    /\ AmbiguousInput => /\ ~marker
                         /\ \A u \in Uids : users[u] # NoRecord =>
                                u \in input.current \/ (input.bootstraps /\ u = BootUser)

\* Nobody else imports legacy records: no second replica, no bootstrap job.
Undisturbed == (\E r \in Replicas : input.replicas = {r}) /\ ~input.bootstraps

\* A deleted account and a revoked assignment do not come back, whatever crashes
\* and restarts, where one replica migrates by itself.
NothingResurrected ==
    Undisturbed =>
    /\ \A u \in deleted : users[u] = NoRecord
    /\ \A u \in revoked : assignments[u] = NoRole

\* "a later direct-access revocation is never resurrected from a stale legacy
\* membership"
RevocationStands == \A u \in revoked : assignments[u] = NoRole

\* "A current UID is never overwritten by legacy input": the content of an
\* account in users_v2 never goes back, where one replica migrates by itself.
CurrentNeverOverwritten ==
    [][Undisturbed => \A u \in Uids : users[u] # NoRecord /\ users'[u] # NoRecord => users'[u] >= users[u]]_vars

\* Whatever replicas crash on the way, every replica serves in the end: unless
\* two accounts claim one address, which refuses every start, or leases expire
\* under replicas that run, which may go on for ever.
EveryReplicaServes ==
    \A r \in Replicas :
        <>[](r \in input.replicas /\ ~AmbiguousInput /\ ~input.stalls => pc[r] = "serving")

=============================================================================
