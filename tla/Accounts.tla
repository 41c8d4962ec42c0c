------------------------------ MODULE Accounts ------------------------------
(***************************************************************************)
(* Password accounts of the global directory: the users_v2 hash, the       *)
(* userByEmail aliases and the email order index in Redis, and the account *)
(* operations of user_service.go and identity_directory_service.go that    *)
(* several server processes run against them at once.                      *)
(*                                                                         *)
(* Every Redis command, Lua script and MULTI/EXEC block is one step.       *)
(* Between two steps of a request any other request may run.  WATCH is     *)
(* modelled as Redis does it: a write to a watched key marks the watching  *)
(* connection dirty, and EXEC of a dirty connection fails.                 *)
(*                                                                         *)
(* The state is the one after the startup migration has completed, so      *)
(* FindByEmail never imports a legacy record (see Migration.tla).          *)
(***************************************************************************)
EXTENDS Naturals, FiniteSets

CONSTANTS
    Uids,              \* uuid.NewString() values
    Emails,            \* normalised addresses
    Procs,             \* concurrent request handlers, over all server replicas
    Codes,             \* OOB codes (uuids)
    SeedEmail,         \* addresses of the administrators of the bootstrap job
    Deployments,       \* situations the model starts from
    NoUser, NoUid, NoEmail, NoProof,
    MaxRevision,       \* bound of the model on domain.User.Revision
    MaxRetries         \* directoryMaximumRetries (8 in the code)

----------------------------------------------------------------------------
(* Records *)

\* SUSPENDED stands for INACTIVE too: nothing tells the two apart.
Status == {"ACTIVE", "SUSPENDED"}

\* domain.User as stored.  Only its order and equality matter of a password
\* hash: "password" counts the hashes the account has had.
User == [email: Emails, status: Status, admin: BOOLEAN, tokenVersion: Nat,
         revision: Nat, password: Nat, changeRequired: BOOLEAN]

CodeTypes == {"EMAIL_SIGNIN", "PASSWORD_RESET"}

\* repository.OOBSubject with the request type it is stored under.
Proof == [uid: Uids, email: Emails, tokenVersion: Nat, type: CodeTypes]

OpNames == {"none", "setStatus", "revoke", "revokeSubject", "update", "resetPassword",
            "sendOob", "oobSignIn", "changeTemporary", "selfDelete", "adminDelete"}

\* One request: "base" is the record it read, "rec" the record it wants to
\* store, "prev" the address it observed before WATCH, "other" the uid it
\* resolved an alias to or the administrator that acts.
Call == [op: OpNames, pc: {"idle", "loaded", "observed", "watched", "proved"},
         uid: Uids \cup {NoUid}, base: User \cup {NoUser}, rec: User \cup {NoUser},
         prev: Emails \cup {NoEmail}, other: Uids \cup {NoUid}, actor: User \cup {NoUser},
         proof: Proof \cup {NoProof}, type: CodeTypes, attempt: Nat, round: Nat]

Idle == [op |-> "none", pc |-> "idle", uid |-> NoUid, base |-> NoUser, rec |-> NoUser,
         prev |-> NoEmail, other |-> NoUid, actor |-> NoUser, proof |-> NoProof,
         type |-> "EMAIL_SIGNIN", attempt |-> 0, round |-> 0]

ASSUME NullAssumption ==
    /\ NoUser \notin User
    /\ NoUid \notin Uids \cup Codes
    /\ NoEmail \notin Emails
    /\ NoProof \notin Proof

ASSUME BoundAssumption ==
    /\ MaxRevision \in Nat
    /\ MaxRetries \in Nat \ {0}

\* Which administrators exist, which uuids were used up before, and which
\* operations clients invoke.
Deployment == [seeds: SUBSET Uids, retired: SUBSET (Uids \cup Codes),
               clients: SUBSET (OpNames \cup {"create"})]

ASSUME SeedAssumption ==
    /\ Deployments \subseteq Deployment
    /\ SeedEmail \in [Uids -> Emails]
    /\ \A d \in Deployments : \A s, t \in d.seeds : SeedEmail[s] = SeedEmail[t] => s = t

----------------------------------------------------------------------------
VARIABLES
    deployment,   \* the situation this behaviour started from
    users,        \* users_v2: uid -> record
    emailIndex,   \* userByEmail:<email> -> uid
    orderIndex,   \* sorted set of (email, uid) members
    issued,       \* uuids handed out so far: uuid.NewString() never repeats
    oob,          \* oob:<code> -> subject-bound proof
    call,         \* the request each process is running
    dirty,        \* whether a key that the process WATCHes was written
    tempUses,     \* history: how often a temporary password was exchanged
    deletedBy     \* history: which administrator deleted an account

store == <<users, emailIndex, orderIndex, issued>>
history == <<deployment, tempUses, deletedBy>>
vars == <<store, oob, call, dirty, history>>

----------------------------------------------------------------------------
(* Redis keys and WATCH *)

UsersKey == <<"users_v2", NoEmail>>
OrderKey == <<"users:email", NoEmail>>
EmailKey(e) == <<"userByEmail", e>>

\* Keys a request WATCHes once it is at "watched".
UpdateWatch(c) == {UsersKey, OrderKey, EmailKey(c.prev), EmailKey(c.rec.email)}
\* Mutant: the exchange reads without WATCH.
TemporaryWatchNothing(c) == {}

TemporaryWatch(c) == {UsersKey}
SelfDeleteWatch(c) == {UsersKey, OrderKey, EmailKey(c.base.email)}
\* Mutant: the deletion reads without WATCH.
AdminDeleteWatchNothing(c) == {}

AdminDeleteWatch(c) == {UsersKey, OrderKey, EmailKey(c.base.email)}

Watching(c) ==
    IF c.pc # "watched" THEN {}
    ELSE CASE c.op = "changeTemporary"  -> TemporaryWatch(c)
           [] c.op = "selfDelete"       -> SelfDeleteWatch(c)
           [] c.op = "adminDelete"      -> AdminDeleteWatch(c)
           [] OTHER                     -> UpdateWatch(c)

\* A write to "keys"; a connection is not disturbed by its own writes ("self").
Touch(self, keys) ==
    dirty' = [q \in Procs |-> dirty[q] \/ (q \notin self /\ Watching(call[q]) \cap keys # {})]

\* What a write of one user record touches.
UserKeys(S) == {UsersKey, OrderKey} \cup {EmailKey(e) : e \in S}

----------------------------------------------------------------------------
(* Reads *)

\* FindByEmail: the alias, then the record it names; any mismatch is an error.
Found(e) ==
    /\ emailIndex[e] # NoUid
    /\ users[emailIndex[e]] # NoUser
    /\ users[emailIndex[e]].email = e

\* validateCurrentIDToken: the presenter of a token of subject u is accepted.
\* A token carries the version it was minted with and the account can sign in
\* whenever it is active, so a current token exists exactly in these states.
TokenAccepted(u) ==
    /\ users[u] # NoUser
    /\ users[u].status = "ACTIVE"
    /\ ~users[u].changeRequired

Starts(p, op) == op \in deployment.clients /\ call[p] = Idle
Finish(p) == call' = [call EXCEPT ![p] = Idle]

\* A failed EXEC, or a read that saw the world move, starts the loop again.
Again(c) ==
    IF c.attempt + 1 < MaxRetries
    THEN [c EXCEPT !.pc = "loaded", !.attempt = @ + 1, !.prev = NoEmail]
    ELSE Idle

----------------------------------------------------------------------------
(* Initial state: the bootstrap job has created the administrators. *)

SeedUser(s) == [email |-> SeedEmail[s], status |-> "ACTIVE", admin |-> TRUE,
                tokenVersion |-> 0, revision |-> 0, password |-> 0,
                changeRequired |-> FALSE]

Seeds == deployment.seeds

Init ==
    /\ deployment \in Deployments
    /\ users = [u \in Uids |-> IF u \in Seeds THEN SeedUser(u) ELSE NoUser]
    /\ emailIndex = [e \in Emails |->
                        IF \E s \in Seeds : SeedEmail[s] = e
                        THEN CHOOSE s \in Seeds : SeedEmail[s] = e ELSE NoUid]
    /\ orderIndex = {<<SeedEmail[s], s>> : s \in Seeds}
    /\ issued = Seeds \cup deployment.retired
    /\ oob = [c \in Codes |-> NoProof]
    /\ call = [p \in Procs |-> Idle]
    /\ dirty = [p \in Procs |-> FALSE]
    /\ tempUses = [u \in Uids |-> 0]
    /\ deletedBy = [u \in Uids |-> NoUid]

----------------------------------------------------------------------------
(* CreateDirectoryUser: one Lua script over the record and both indexes. *)

NewUser(e) == [email |-> e, status |-> "ACTIVE", admin |-> FALSE, tokenVersion |-> 0,
               revision |-> 0, password |-> 0, changeRequired |-> TRUE]

EmailFree(u, e) == emailIndex[e] \in {NoUid, u}

CreateDirectoryUser(u, e) ==
    /\ "create" \in deployment.clients
    /\ u \notin issued
    /\ EmailFree(u, e)                      \* otherwise "duplicate"
    /\ users' = [users EXCEPT ![u] = NewUser(e)]
    /\ emailIndex' = [emailIndex EXCEPT ![e] = u]
    /\ orderIndex' = orderIndex \cup {<<e, u>>}
    /\ issued' = issued \cup {u}
    /\ Touch({}, UserKeys({e}))
    /\ UNCHANGED <<oob, call, history>>

----------------------------------------------------------------------------
(* Requests that end in UpdateDirectoryUser: what they read and what they  *)
(* want to store.                                                          *)

Request(op, u, want) ==
    [Idle EXCEPT !.op = op, !.pc = "loaded", !.uid = u, !.base = users[u], !.rec = want]

Bumped(r) == [r EXCEPT !.tokenVersion = @ + 1]

\* Mutant: the status changes alone.
WithStatusOnly(r, st) == [r EXCEPT !.status = st]

\* Every administrative status write is also a session revocation.
WithStatus(r, st) == [Bumped(r) EXCEPT !.status = st]

\* UpdateUser and ResetPassword store a new hash and end every session.
WithPassword(r) == [Bumped(r) EXCEPT !.password = @ + 1, !.changeRequired = FALSE]

SetStatus(p, e, st) ==
    /\ Starts(p, "setStatus")
    /\ Found(e)
    /\ LET u == emailIndex[e] IN
         /\ users[u].revision < MaxRevision
         /\ call' = [call EXCEPT ![p] = Request("setStatus", u, WithStatus(users[u], st))]
    /\ UNCHANGED <<store, oob, dirty, history>>

\* IncrementTokenVersion, by address.
RevokeTokens(p, e) ==
    /\ Starts(p, "revoke")
    /\ Found(e)
    /\ LET u == emailIndex[e] IN
         /\ users[u].revision < MaxRevision
         /\ call' = [call EXCEPT ![p] = Request("revoke", u, Bumped(users[u]))]
    /\ UNCHANGED <<store, oob, dirty, history>>

\* IncrementTokenVersionByID: retried on a version conflict.
RevokeIDTokenSubject(p, u) ==
    /\ Starts(p, "revokeSubject")
    /\ users[u] # NoUser
    /\ users[u].revision < MaxRevision
    /\ call' = [call EXCEPT ![p] = Request("revokeSubject", u, Bumped(users[u]))]
    /\ UNCHANGED <<store, oob, dirty, history>>

\* The holder of a current token changes its address, its password or both.
UpdateUser(p, u, e, newPassword) ==
    /\ Starts(p, "update")
    /\ TokenAccepted(u)
    /\ users[u].revision < MaxRevision
    /\ LET renamed == [users[u] EXCEPT !.email = e] IN
         call' = [call EXCEPT ![p] =
                    Request("update", u, IF newPassword THEN WithPassword(renamed) ELSE renamed)]
    /\ UNCHANGED <<store, oob, dirty, history>>

Updating(c) == c.op \in {"setStatus", "revoke", "revokeSubject", "update", "resetPassword"}

\* HGET before the transaction: the address whose alias is to be watched.
ObserveUser(p) ==
    LET c == call[p] IN
    /\ Updating(c) /\ c.pc = "loaded"
    /\ call' = [call EXCEPT ![p] =
                  IF users[c.uid] = NoUser THEN Idle
                  ELSE [c EXCEPT !.pc = "observed", !.prev = users[c.uid].email]]
    /\ UNCHANGED <<store, oob, dirty, history>>

\* A conflict ends the request, except for a revocation by subject.
Conflict(c) ==
    IF /\ c.op = "revokeSubject"
       /\ c.round + 1 < MaxRetries
       /\ users[c.uid].revision < MaxRevision
    THEN [Request("revokeSubject", c.uid, Bumped(users[c.uid])) EXCEPT !.round = c.round + 1]
    ELSE Idle

CurrentRevision(c) == users[c.uid].revision = c.rec.revision

\* WATCH and the reads of the transaction, in their order.
UpdateReads(c) ==
    IF users[c.uid] = NoUser THEN Idle                              \* ErrNotFound
    ELSE IF ~CurrentRevision(c) THEN Conflict(c)                    \* ErrVersionConflict
    ELSE IF users[c.uid].email # c.prev THEN Again(c)
    ELSE IF c.rec.email # c.prev /\ ~EmailFree(c.uid, c.rec.email)
         THEN Idle                                                  \* ErrEmailExists
    ELSE [c EXCEPT !.pc = "watched"]

WatchUser(p) ==
    /\ Updating(call[p]) /\ call[p].pc = "observed"
    /\ call' = [call EXCEPT ![p] = UpdateReads(call[p])]
    /\ dirty' = [dirty EXCEPT ![p] = FALSE]
    /\ UNCHANGED <<store, oob, history>>

\* Mutant: the stored revision is the one that was read.
NotAdvanced(r) == r

\* EXEC: the record, its alias and its order entry change together.
Advanced(r) == [r EXCEPT !.revision = @ + 1]

\* Mutant: a rename leaves the old alias behind.
StoreUserKeepsAlias(u, prev, rec) ==
    /\ users' = [users EXCEPT ![u] = Advanced(rec)]
    /\ emailIndex' = [emailIndex EXCEPT ![rec.email] = u]
    /\ orderIndex' = (orderIndex \ {<<prev, u>>}) \cup {<<rec.email, u>>}

StoreUser(u, prev, rec) ==
    /\ users' = [users EXCEPT ![u] = Advanced(rec)]
    /\ emailIndex' = [e \in Emails |-> IF e = rec.email THEN u
                                       ELSE IF e = prev THEN NoUid ELSE emailIndex[e]]
    /\ orderIndex' = (orderIndex \ {<<prev, u>>}) \cup {<<rec.email, u>>}

ExecFails(p) ==
    /\ call[p].pc = "watched" /\ dirty[p]
    /\ call' = [call EXCEPT ![p] = Again(call[p])]
    /\ dirty' = [dirty EXCEPT ![p] = FALSE]
    /\ UNCHANGED <<store, oob, history>>

UpdateDirectoryUser(p) ==
    LET c == call[p] IN
    /\ Updating(c) /\ c.pc = "watched" /\ ~dirty[p]
    /\ StoreUser(c.uid, c.prev, c.rec)
    /\ Touch({p}, UserKeys({c.prev, c.rec.email}))
    /\ Finish(p)
    /\ UNCHANGED <<issued, oob, history>>

----------------------------------------------------------------------------
(* Subject-bound one-time codes *)

\* SendOob: the account is read first, the code is stored afterwards.
SendOob(p, e, type) ==
    /\ Starts(p, "sendOob")
    /\ Found(e)
    /\ users[emailIndex[e]].status = "ACTIVE"
    /\ call' = [call EXCEPT ![p] = [Request("sendOob", emailIndex[e], NoUser) EXCEPT !.type = type]]
    /\ UNCHANGED <<store, oob, dirty, history>>

SaveSubjectOobCode(p, k) ==
    LET c == call[p] IN
    /\ c.op = "sendOob"
    /\ k \notin issued
    /\ issued' = issued \cup {k}
    /\ oob' = [oob EXCEPT ![k] = [uid |-> c.uid, email |-> c.base.email,
                                  tokenVersion |-> c.base.tokenVersion, type |-> c.type]]
    /\ Finish(p)
    /\ UNCHANGED <<users, emailIndex, orderIndex, dirty, history>>

\* The 900-second key expires.
ExpireOob(k) ==
    /\ oob[k] # NoProof
    /\ oob' = [oob EXCEPT ![k] = NoProof]
    /\ UNCHANGED <<store, call, dirty, history>>

\* The Lua script: a code of another type is left alone, a matching one is
\* deleted whatever follows.
ConsumeSubjectOobCode(p, k, type) ==
    LET op == IF type = "EMAIL_SIGNIN" THEN "oobSignIn" ELSE "resetPassword" IN
    /\ Starts(p, op)
    /\ oob[k] # NoProof /\ oob[k].type = type
    /\ oob' = [oob EXCEPT ![k] = NoProof]
    /\ call' = [call EXCEPT ![p] = [Idle EXCEPT !.op = op, !.pc = "proved",
                                                !.uid = oob[k].uid, !.proof = oob[k]]]
    /\ UNCHANGED <<store, dirty, history>>

\* Mutant: any generation of the account is served.
ProofOfAccount(c) ==
    /\ users[c.uid] # NoUser
    /\ users[c.uid].email = c.proof.email
    /\ users[c.uid].status = "ACTIVE"

\* consumeAccountOOB after the script: only the proven generation is served.
ProofCurrent(c) ==
    /\ users[c.uid] # NoUser
    /\ users[c.uid].email = c.proof.email
    /\ users[c.uid].tokenVersion = c.proof.tokenVersion
    /\ users[c.uid].status = "ACTIVE"

ResolveOobSubject(p) ==
    LET c == call[p] IN
    /\ c.pc = "proved"
    /\ call' = [call EXCEPT ![p] =
         IF /\ c.op = "resetPassword" /\ ProofCurrent(c)
            /\ users[c.uid].revision < MaxRevision
         THEN [c EXCEPT !.pc = "loaded", !.base = users[c.uid], !.rec = WithPassword(users[c.uid])]
         ELSE Idle]      \* a sign-in mints its token here, or fails
    /\ UNCHANGED <<store, oob, dirty, history>>

----------------------------------------------------------------------------
(* ChangeTemporaryPassword / ConsumeTemporaryPassword *)

Temporary(r) == r.status = "ACTIVE" /\ r.changeRequired

ChangeTemporaryPassword(p, e) ==
    /\ Starts(p, "changeTemporary")
    /\ Found(e)
    /\ Temporary(users[emailIndex[e]])
    /\ users[emailIndex[e]].revision < MaxRevision
    /\ call' = [call EXCEPT ![p] = Request("changeTemporary", emailIndex[e], NoUser)]
    /\ UNCHANGED <<store, oob, dirty, history>>

\* The hash and the version the service verified must still be current.
TemporaryCurrent(c) ==
    /\ users[c.uid] # NoUser
    /\ Temporary(users[c.uid])
    /\ users[c.uid].password = c.base.password
    /\ users[c.uid].tokenVersion = c.base.tokenVersion

WatchTemporary(p) ==
    LET c == call[p] IN
    /\ c.op = "changeTemporary" /\ c.pc = "loaded"
    /\ call' = [call EXCEPT ![p] =
                  IF TemporaryCurrent(c) THEN [c EXCEPT !.pc = "watched"] ELSE Idle]
    /\ dirty' = [dirty EXCEPT ![p] = FALSE]
    /\ UNCHANGED <<store, oob, history>>

ConsumeTemporaryPassword(p) ==
    LET c == call[p] IN
    /\ c.op = "changeTemporary" /\ c.pc = "watched" /\ ~dirty[p]
    /\ users' = [users EXCEPT ![c.uid] = Advanced(WithPassword(users[c.uid]))]
    /\ tempUses' = [tempUses EXCEPT ![c.uid] = @ + 1]
    /\ Touch({p}, {UsersKey})
    /\ Finish(p)
    /\ UNCHANGED <<emailIndex, orderIndex, issued, oob, deployment, deletedBy>>

----------------------------------------------------------------------------
(* Deletion *)

RemoveUser(u, e) ==
    /\ users' = [users EXCEPT ![u] = NoUser]
    /\ emailIndex' = [emailIndex EXCEPT ![e] = NoUid]
    /\ orderIndex' = orderIndex \ {<<e, u>>}

\* DeleteUser: the token names the subject, the repository gets its address.
DeleteUser(p, u) ==
    /\ Starts(p, "selfDelete")
    /\ TokenAccepted(u)
    /\ call' = [call EXCEPT ![p] = Request("selfDelete", u, NoUser)]
    /\ UNCHANGED <<store, oob, dirty, history>>

\* DeleteByEmail: GET of the alias, and the relationship sets to watch.
ResolveAlias(p) ==
    LET c == call[p] IN
    /\ c.op = "selfDelete" /\ c.pc = "loaded"
    /\ call' = [call EXCEPT ![p] =
                  IF emailIndex[c.base.email] = NoUid THEN Idle
                  ELSE [c EXCEPT !.pc = "observed", !.other = emailIndex[c.base.email]]]
    /\ UNCHANGED <<store, oob, dirty, history>>

SelfDeleteReads(c) ==
    IF emailIndex[c.base.email] = NoUid THEN Idle
    ELSE IF emailIndex[c.base.email] # c.other THEN Again(c)
    ELSE IF ~Found(c.base.email) THEN Idle                          \* ErrDirectoryInvariant
    ELSE [c EXCEPT !.pc = "watched"]

WatchSelfDelete(p) ==
    /\ call[p].op = "selfDelete" /\ call[p].pc = "observed"
    /\ call' = [call EXCEPT ![p] = SelfDeleteReads(call[p])]
    /\ dirty' = [dirty EXCEPT ![p] = FALSE]
    /\ UNCHANGED <<store, oob, history>>

DeleteByEmail(p) ==
    LET c == call[p] IN
    /\ c.op = "selfDelete" /\ c.pc = "watched" /\ ~dirty[p]
    /\ RemoveUser(c.other, c.base.email)
    /\ Touch({p}, UserKeys({c.base.email}))
    /\ Finish(p)
    /\ UNCHANGED <<issued, oob, history>>

\* The administrator's bearer was validated by the service, which passes on
\* the version and revision it saw; the target version comes from If-Match.
DeleteDirectoryUser(p, a, u) ==
    /\ Starts(p, "adminDelete")
    /\ a # u
    /\ TokenAccepted(a) /\ users[a].admin
    /\ users[u] # NoUser
    /\ call' = [call EXCEPT ![p] = [Request("adminDelete", u, NoUser) EXCEPT
                                        !.other = a, !.actor = users[a]]]
    /\ UNCHANGED <<store, oob, dirty, history>>

\* Mutant: the transaction trusts the bearer check of the service.
ActorPresent(c) == users[c.other] # NoUser

\* validateDeletionActor
ActorCurrent(c) ==
    /\ TokenAccepted(c.other)
    /\ users[c.other].admin
    /\ users[c.other].tokenVersion = c.actor.tokenVersion
    /\ users[c.other].revision = c.actor.revision

\* The target read in the transaction; an absent one needs no write.
TargetCurrent(c) ==
    /\ users[c.uid] # NoUser
    /\ users[c.uid].revision = c.base.revision

WatchAdminDelete(p) ==
    LET c == call[p] IN
    /\ c.op = "adminDelete" /\ c.pc = "loaded"
    /\ call' = [call EXCEPT ![p] =
         IF /\ ActorCurrent(c) /\ TargetCurrent(c)
            /\ emailIndex[users[c.uid].email] \in {NoUid, c.uid}     \* prepareAliases
         THEN [c EXCEPT !.pc = "watched"] ELSE Idle]
    /\ dirty' = [dirty EXCEPT ![p] = FALSE]
    /\ UNCHANGED <<store, oob, history>>

ApplyDeletion(p) ==
    LET c == call[p] IN
    /\ c.op = "adminDelete" /\ c.pc = "watched" /\ ~dirty[p]
    /\ RemoveUser(c.uid, c.base.email)
    /\ deletedBy' = [deletedBy EXCEPT ![c.uid] = c.other]
    /\ Touch({p}, UserKeys({c.base.email}))
    /\ Finish(p)
    /\ UNCHANGED <<issued, oob, deployment, tempUses>>

\* A process dies between two steps: nothing of the request remains but what it
\* has already stored.  (A client that goes away stops nothing: runCommandAsync
\* detaches the command from the request's context.)
Crash(p) ==
    /\ call[p] # Idle
    /\ Finish(p)
    /\ dirty' = [dirty EXCEPT ![p] = FALSE]
    /\ UNCHANGED <<store, oob, history>>

----------------------------------------------------------------------------

Invoke(p) ==
    \/ \E e \in Emails, st \in Status : SetStatus(p, e, st)
    \/ \E e \in Emails : RevokeTokens(p, e)
    \/ \E u \in Uids : RevokeIDTokenSubject(p, u)
    \/ \E u \in Uids, e \in Emails, n \in BOOLEAN : UpdateUser(p, u, e, n)
    \/ \E e \in Emails, t \in CodeTypes : SendOob(p, e, t)
    \/ \E k \in Codes, t \in CodeTypes : ConsumeSubjectOobCode(p, k, t)
    \/ \E e \in Emails : ChangeTemporaryPassword(p, e)
    \/ \E u \in Uids : DeleteUser(p, u)
    \/ \E a, u \in Uids : DeleteDirectoryUser(p, a, u)

Step(p) ==
    \/ ObserveUser(p)
    \/ WatchUser(p)
    \/ ExecFails(p)
    \/ UpdateDirectoryUser(p)
    \/ \E k \in Codes : SaveSubjectOobCode(p, k)
    \/ ResolveOobSubject(p)
    \/ WatchTemporary(p)
    \/ ConsumeTemporaryPassword(p)
    \/ ResolveAlias(p)
    \/ WatchSelfDelete(p)
    \/ DeleteByEmail(p)
    \/ WatchAdminDelete(p)
    \/ ApplyDeletion(p)

Next ==
    \/ \E u \in Uids, e \in Emails : CreateDirectoryUser(u, e)
    \/ \E p \in Procs : Invoke(p)
    \/ \E p \in Procs : Step(p)
    \/ \E p \in Procs : Crash(p)
    \/ \E k \in Codes : ExpireOob(k)

Spec == Init /\ [][Next]_vars

----------------------------------------------------------------------------
(* Properties *)

\* The type invariant.
TypeOK ==
    /\ deployment \in Deployment
    /\ users \in [Uids -> User \cup {NoUser}]
    /\ emailIndex \in [Emails -> Uids \cup {NoUid}]
    /\ orderIndex \subseteq Emails \X Uids
    /\ issued \subseteq Uids \cup Codes
    /\ oob \in [Codes -> Proof \cup {NoProof}]
    /\ call \in [Procs -> Call]
    /\ dirty \in [Procs -> BOOLEAN]
    /\ tempUses \in [Uids -> Nat]
    /\ deletedBy \in [Uids -> Uids \cup {NoUid}]

\* userByEmail:<email> and the order index hold exactly the addresses of the
\* stored records, whatever creates, renames and deletes ran concurrently:
\* FindByEmail and ListDirectoryUsers answer ErrDirectoryInvariant otherwise.
IndexConsistent ==
    /\ \A e \in Emails, u \in Uids :
          emailIndex[e] = u <=> (users[u] # NoUser /\ users[u].email = e)
    /\ orderIndex = {<<users[u].email, u>> : u \in {v \in Uids : users[v] # NoUser}}

\* What EXEC of process p would commit next is based on the stored state.
AboutToCommit(p) == call[p].pc = "watched" /\ ~dirty[p]

\* UpdateDirectoryUser compares one integer, the revision, and overwrites the
\* whole record: the record it overwrites is always the very record the
\* request read, so no revocation, rename or new password is lost.
NoLostUpdate ==
    \A p \in Procs :
        AboutToCommit(p) /\ Updating(call[p]) => users[call[p].uid] = call[p].base

\* A session is the version its token was minted with.  (A token also names the
\* address; one minted under an older address is refused while the account has
\* another one.)
Accepts(u, v) == TokenAccepted(u) /\ users[u].tokenVersion = v

\* Versions some token of u can carry: up to the current one, and any once u
\* is gone.
Minted(u, v) == u \in issued /\ (users[u] # NoUser => v <= users[u].tokenVersion)

\* A session that is no longer accepted (revoked, suspended, password changed,
\* account deleted) is never accepted again: reactivation does not revive it
\* ("ACTIVE -> SUSPENDED -> ACTIVE would revive tokens", SetStatus), nor does a
\* concurrent write of a stale record.
DeadSessionsStayDead ==
    [][\A u \in Uids, v \in 0..MaxRevision :
          Minted(u, v) /\ ~Accepts(u, v) => ~Accepts(u, v)']_vars

\* ResetPassword writes a new hash only over the account generation the e-mailed
\* code was issued for: after a revocation, a rename, a suspension or another
\* reset, at any point before EXEC, the code is worthless.
ResetServesProof ==
    \A p \in Procs :
        LET c == call[p] IN
        AboutToCommit(p) /\ c.op = "resetPassword" =>
            /\ users[c.uid].tokenVersion = c.proof.tokenVersion
            /\ users[c.uid].email = c.proof.email
            /\ users[c.uid].status = "ACTIVE"

\* Two holders of the temporary password cannot both exchange it: "a concurrent
\* winner makes every later attempt invalid" (ConsumeTemporaryPassword).
TemporaryPasswordOnce == \A u \in Uids : tempUses[u] <= 1

\* Two administrators cannot delete each other, whatever their requests'
\* interleaving: the deletion's EXEC re-validates the actor.
NoMutualDeletion ==
    \A a, b \in Uids : ~(a # b /\ deletedBy[a] = b /\ deletedBy[b] = a)

\* At its EXEC a deletion acts for the very administrator record, and on the very
\* target record, that the service authorised: a demotion, suspension,
\* revocation or rename in between stops it.
DeletionStillAuthorised ==
    \A p \in Procs :
        LET c == call[p] IN
        AboutToCommit(p) /\ c.op = "adminDelete" =>
            /\ users[c.other] = c.actor
            /\ users[c.uid] = c.base

\* "DeleteUser removes the authenticated user identified by the idToken"
\* (user_service.go): the record that DeleteByEmail is about to remove is the
\* token's subject.
SelfDeleteRemovesSubject ==
    \A p \in Procs :
        AboutToCommit(p) /\ call[p].op = "selfDelete" => call[p].other = call[p].uid
=============================================================================
