--------------------------- MODULE AccountsProofs ---------------------------
(***************************************************************************)
(* Theorems about Accounts, for any set of users, addresses, codes and     *)
(* processes, any bound on revisions and any number of retries.            *)
(*                                                                         *)
(* The argument: a revision number identifies a record.  Every write of a  *)
(* stored record advances its revision and a uuid is never issued twice,   *)
(* so a record that a request once read is the stored one as soon as the   *)
(* revisions agree (ReadFact).  WATCH of the users hash carries what the   *)
(* transaction read to its EXEC (WatchedFact), because every write of an   *)
(* alias or of the order index comes with a write of the users hash.       *)
(***************************************************************************)
EXTENDS Accounts, TLAPS

----------------------------------------------------------------------------
(* The inductive invariant *)

\* Sessions survive a write only if the record's sessions are untouched, and
\* no write makes a password temporary again.
KeepsSessions(b, r) ==
    /\ \/ b.tokenVersion < r.tokenVersion
       \/ /\ b.tokenVersion = r.tokenVersion
          /\ b.status = r.status
          /\ b.changeRequired = r.changeRequired
    /\ r.changeRequired => b.changeRequired

\* What a request carries, by operation and step.
CallShape(c) ==
    /\ Updating(c) /\ c.pc # "proved" =>
          /\ c.pc # "idle"
          /\ c.uid \in Uids /\ c.base \in User /\ c.rec \in User
          /\ c.rec.revision = c.base.revision
          /\ KeepsSessions(c.base, c.rec)
          /\ c.pc # "loaded" => c.prev \in Emails
    /\ c.op = "resetPassword" /\ c.pc # "proved" =>
          /\ c.base.tokenVersion = c.proof.tokenVersion
          /\ c.base.email = c.proof.email
          /\ c.base.status = "ACTIVE"
    /\ c.pc = "proved" => 
          /\ c.op \in {"resetPassword", "oobSignIn"}
          /\ c.uid \in Uids /\ c.proof \in Proof
    /\ c.op \in {"sendOob", "changeTemporary", "selfDelete", "adminDelete"} =>
          c.uid \in Uids /\ c.base \in User /\ c.pc # "proved"
    /\ c.op \in {"sendOob", "oobSignIn", "none"} => c.pc # "watched"
    /\ c.op = "selfDelete" /\ c.pc # "loaded" => c.other \in Uids
    /\ c.op = "adminDelete" => c.other \in Uids /\ c.actor \in User /\ c.other # c.uid
    /\ c.op # "adminDelete" => c.actor = NoUser

\* r was once the stored record of u.
ReadFact(u, r) ==
    /\ u \in issued
    /\ \/ users[u] = NoUser
       \/ users[u] = r
       \/ users[u].revision > r.revision

CallRead(c) ==
    /\ c.base # NoUser => ReadFact(c.uid, c.base)
    /\ c.actor # NoUser => ReadFact(c.other, c.actor)

\* What the reads under WATCH established, for a connection that is not dirty.
WatchedFact(c) ==
    /\ Updating(c) =>
          /\ users[c.uid] # NoUser
          /\ users[c.uid].revision = c.rec.revision
          /\ users[c.uid].email = c.prev
          /\ c.rec.email # c.prev => EmailFree(c.uid, c.rec.email)
    /\ c.op = "changeTemporary" => TemporaryCurrent(c)
    /\ c.op = "selfDelete" =>
          /\ emailIndex[c.base.email] = c.other
          /\ users[c.other] # NoUser
          /\ users[c.other].email = c.base.email
    /\ c.op = "adminDelete" => ActorCurrent(c) /\ TargetCurrent(c)

CallsOK ==
    \A p \in Procs :
        /\ CallShape(call[p])
        /\ CallRead(call[p])
        /\ AboutToCommit(p) => WatchedFact(call[p])

StoredIsIssued == \A u \in Uids : users[u] # NoUser => u \in issued

\* An account deleted by an administrator is gone, and was not its deleter's.
DeletionHistory ==
    \A u \in Uids : deletedBy[u] # NoUid =>
        /\ users[u] = NoUser
        /\ u \in issued
        /\ deletedBy[deletedBy[u]] # u

Inv ==
    /\ TypeOK
    /\ IndexConsistent
    /\ StoredIsIssued
    /\ CallsOK
    /\ DeletionHistory

----------------------------------------------------------------------------
(* Records *)

\* Idle is a request in the sense of CallShape, and carries no facts.
LEMMA IdleOK ==
    ASSUME NEW c, c = Idle
    PROVE  /\ c \in Call /\ CallShape(c) /\ CallRead(c) /\ c.pc # "watched"
  <1>1. c \in Call
    BY DEF Idle, Call, OpNames, CodeTypes
  <1>2. CallShape(c) /\ CallRead(c) /\ c.pc # "watched"
    BY DEF Idle, CallShape, CallRead, Updating
  <1> QED BY <1>1, <1>2

\* The fields of a request that has consumed a code, and of a deletion.
LEMMA ProvedForm ==
    ASSUME NEW x, NEW y, NEW z, NEW c,
           c = [Idle EXCEPT !.op = x, !.pc = "proved", !.uid = y, !.proof = z]
    PROVE  c = [op |-> x, pc |-> "proved", uid |-> y, base |-> NoUser, rec |-> NoUser,
                prev |-> NoEmail, other |-> NoUid, actor |-> NoUser, proof |-> z,
                type |-> "EMAIL_SIGNIN", attempt |-> 0, round |-> 0]
  BY DEF Idle

\* The fields of a deletion request: the target and the acting administrator.
LEMMA DeletionForm ==
    ASSUME NEW u, NEW x, NEW y, NEW c,
           c = [Request("adminDelete", u, NoUser) EXCEPT !.other = x, !.actor = y]
    PROVE  c = [op |-> "adminDelete", pc |-> "loaded", uid |-> u, base |-> users[u],
                rec |-> NoUser, prev |-> NoEmail, other |-> x, actor |-> y,
                proof |-> NoProof, type |-> "EMAIL_SIGNIN", attempt |-> 0, round |-> 0]
  BY DEF Idle, Request

\* A new request carries the record it read.
LEMMA RequestOK ==
    ASSUME TypeOK, StoredIsIssued,
           NEW op \in OpNames, NEW u \in Uids, users[u] # NoUser,
           NEW want \in User \cup {NoUser},
           NEW c, c = Request(op, u, want)
    PROVE  /\ c \in Call /\ CallRead(c)
           /\ c.op = op /\ c.pc = "loaded" /\ c.uid = u
           /\ c.base = users[u] /\ c.base \in User /\ c.rec = want
           /\ c.actor = NoUser /\ c.proof = NoProof
  <1>1. users[u] \in User
    BY DEF TypeOK
  <1>2. c = [op |-> op, pc |-> "loaded", uid |-> u, base |-> users[u], rec |-> want,
             prev |-> NoEmail, other |-> NoUid, actor |-> NoUser, proof |-> NoProof,
             type |-> "EMAIL_SIGNIN", attempt |-> 0, round |-> 0]
    BY DEF Request, Idle
  <1>3. c \in Call
    BY <1>1, <1>2 DEF Call, CodeTypes
  <1>4. CallRead(c)
    BY <1>1, <1>2 DEF CallRead, ReadFact, StoredIsIssued
  <1> QED BY <1>1, <1>2, <1>3, <1>4

\* The records that updates store.
LEMMA WantedOK ==
    ASSUME NEW r \in User, NEW st \in Status, NEW e \in Emails
    PROVE  /\ Bumped(r) \in User /\ KeepsSessions(r, Bumped(r))
           /\ Bumped(r).revision = r.revision
           /\ WithStatus(r, st) \in User /\ KeepsSessions(r, WithStatus(r, st))
           /\ WithStatus(r, st).revision = r.revision
           /\ WithPassword(r) \in User /\ KeepsSessions(r, WithPassword(r))
           /\ WithPassword(r).revision = r.revision
           /\ [r EXCEPT !.email = e] \in User /\ KeepsSessions(r, [r EXCEPT !.email = e])
           /\ [r EXCEPT !.email = e].revision = r.revision
           /\ WithPassword([r EXCEPT !.email = e]) \in User
           /\ KeepsSessions(r, WithPassword([r EXCEPT !.email = e]))
           /\ WithPassword([r EXCEPT !.email = e]).revision = r.revision
           /\ Advanced(r) \in User
  <1> DEFINE R == [r EXCEPT !.email = e]
  <1>1. R \in User /\ KeepsSessions(r, R) /\ R.revision = r.revision
    BY DEF User, KeepsSessions
  <1>2. Bumped(r) \in User /\ KeepsSessions(r, Bumped(r)) /\ Bumped(r).revision = r.revision
    BY DEF User, Bumped, KeepsSessions
  <1>a. ASSUME NEW b \in User
        PROVE  /\ [b EXCEPT !.status = st] \in User
               /\ [b EXCEPT !.status = st].tokenVersion = b.tokenVersion
               /\ [b EXCEPT !.status = st].revision = b.revision
               /\ [b EXCEPT !.status = st].changeRequired = b.changeRequired
    BY DEF User
  <1>b. ASSUME NEW b \in User
        PROVE  LET d == [b EXCEPT !.password = @ + 1, !.changeRequired = FALSE] IN
               /\ d \in User /\ d.tokenVersion = b.tokenVersion /\ d.revision = b.revision
               /\ ~d.changeRequired
    <2> DEFINE x == [b EXCEPT !.password = @ + 1]
    <2>1. x \in User /\ x.tokenVersion = b.tokenVersion /\ x.revision = b.revision
      BY DEF User
    <2>2. ASSUME NEW y \in User
          PROVE  LET d == [y EXCEPT !.changeRequired = FALSE] IN
                 /\ d \in User /\ d.tokenVersion = y.tokenVersion /\ d.revision = y.revision
                 /\ ~d.changeRequired
      BY DEF User
    <2>3. [b EXCEPT !.password = @ + 1, !.changeRequired = FALSE]
            = [x EXCEPT !.changeRequired = FALSE]
      OBVIOUS
    <2> HIDE DEF x
    <2> QED BY <2>1, <2>2, <2>3
  <1>c. ASSUME NEW b \in User
        PROVE  /\ Bumped(b) \in User /\ Bumped(b).revision = b.revision
               /\ b.tokenVersion < Bumped(b).tokenVersion
               /\ Bumped(b).changeRequired = b.changeRequired
    BY DEF User, Bumped
  <1>3. /\ WithStatus(r, st) \in User /\ KeepsSessions(r, WithStatus(r, st))
        /\ WithStatus(r, st).revision = r.revision
    BY <1>a, <1>c DEF WithStatus, KeepsSessions
  <1>4. /\ WithPassword(r) \in User /\ KeepsSessions(r, WithPassword(r))
        /\ WithPassword(r).revision = r.revision
    BY <1>b, <1>c DEF WithPassword, KeepsSessions
  <1>5. /\ WithPassword(R) \in User /\ KeepsSessions(r, WithPassword(R))
        /\ WithPassword(R).revision = r.revision
    <2>1. R \in User /\ R.tokenVersion = r.tokenVersion /\ R.revision = r.revision
      BY DEF User
    <2> QED BY <1>b, <1>c, <2>1 DEF WithPassword, KeepsSessions
  <1>6. Advanced(r) \in User
    BY DEF User, Advanced
  <1> QED BY <1>1, <1>2, <1>3, <1>4, <1>5, <1>6

----------------------------------------------------------------------------
(* Steps that leave the stored accounts alone *)

\* A step that only moves one request keeps Inv when that request's facts hold
\* afterwards: the users hash and its indexes are as they were.
LEMMA LocalStep ==
    ASSUME Inv, NEW p \in Procs, NEW d \in Call,
           CallShape(d), CallRead(d), d.pc = "watched" => WatchedFact(d),
           call' = [call EXCEPT ![p] = d],
           dirty' = dirty \/ dirty' = [dirty EXCEPT ![p] = FALSE],
           users' = users, emailIndex' = emailIndex, orderIndex' = orderIndex,
           issued \subseteq issued', issued' \subseteq Uids \cup Codes,
           oob' \in [Codes -> Proof \cup {NoProof}],
           deployment' = deployment, tempUses' = tempUses, deletedBy' = deletedBy
    PROVE  Inv'
  <1> USE DEF Inv
  <1>1. TypeOK'
    BY DEF TypeOK
  <1>2. IndexConsistent' /\ StoredIsIssued' /\ DeletionHistory'
    BY DEF IndexConsistent, StoredIsIssued, DeletionHistory
  <1>3. ASSUME NEW q \in Procs
        PROVE  (CallShape(call[q]) /\ CallRead(call[q])
                 /\ (AboutToCommit(q) => WatchedFact(call[q])))'
    <2>1. CASE q = p
      <3>1. call'[q] = d
        BY <2>1 DEF TypeOK
      <3>2. CallRead(d)'
        BY DEF CallRead, ReadFact
      <3>3. (d.pc = "watched" => WatchedFact(d))'
        BY DEF WatchedFact, EmailFree, TemporaryCurrent, ActorCurrent, TargetCurrent, TokenAccepted
      <3> QED BY <3>1, <3>2, <3>3 DEF AboutToCommit
    <2>2. CASE q # p
      <3>1. call'[q] = call[q] /\ dirty'[q] = dirty[q]
        BY <2>2 DEF TypeOK
      <3>2. CallShape(call[q]) /\ CallRead(call[q]) /\ (AboutToCommit(q) => WatchedFact(call[q]))
        BY DEF CallsOK
      <3>3. CallRead(call[q])'
        BY <3>1, <3>2 DEF CallRead, ReadFact
      <3>4. (AboutToCommit(q) => WatchedFact(call[q]))'
        BY <3>1, <3>2 DEF AboutToCommit, WatchedFact, EmailFree, TemporaryCurrent, ActorCurrent,
                          TargetCurrent, TokenAccepted
      <3> QED BY <3>1, <3>2, <3>3, <3>4
    <2> QED BY <2>1, <2>2
  <1>4. CallsOK'
    BY <1>3 DEF CallsOK
  <1> QED BY <1>1, <1>2, <1>4

----------------------------------------------------------------------------
(* Steps that write the stored accounts *)

\* A write of the users hash disturbs every other request that is at its EXEC.
LEMMA TouchDisturbs ==
    ASSUME TypeOK, NEW self, NEW keys, UsersKey \in keys, Touch(self, keys)
    PROVE  /\ dirty' \in [Procs -> BOOLEAN]
           /\ \A q \in Procs \ self : call[q].pc = "watched" => dirty'[q]
  <1>1. ASSUME NEW q \in Procs, call[q].pc = "watched"
        PROVE  UsersKey \in Watching(call[q])
    BY <1>1 DEF Watching, UpdateWatch, TemporaryWatch, SelfDeleteWatch, AdminDeleteWatch
  <1>2. \A q \in Procs : dirty'[q] = (dirty[q] \/ (q \notin self /\ Watching(call[q]) \cap keys # {}))
    BY DEF Touch
  <1>3. dirty' \in [Procs -> BOOLEAN]
    <2>1. \A q \in Procs : dirty[q] \in BOOLEAN
      BY DEF TypeOK
    <2> QED BY <2>1, Zenon DEF Touch
  <1> QED BY <1>1, <1>2, <1>3

\* Stored records only advance, and deleted ones stay deleted.
Monotone ==
    \A u \in issued \cap Uids :
        \/ users'[u] = users[u]
        \/ users'[u] = NoUser
        \/ users[u] # NoUser /\ users'[u].revision > users[u].revision

\* A write of the users hash keeps Inv when the indexes follow it, every record
\* it changes gets a higher revision, and it disturbs the other WATCHes.
LEMMA StoreStep ==
    ASSUME Inv, TypeOK', IndexConsistent', StoredIsIssued', DeletionHistory',
           Monotone, issued \subseteq issued',
           \A q \in Procs : \/ call'[q] = Idle
                            \/ call'[q] = call[q] /\ (call[q].pc = "watched" => dirty'[q])
    PROVE  Inv'
  <1>1. ASSUME NEW u \in Uids, NEW r \in User, ReadFact(u, r)
        PROVE  ReadFact(u, r)'
    <2>1. users[u] \in User \cup {NoUser} /\ users'[u] \in User \cup {NoUser}
      BY DEF Inv, TypeOK
    <2>2. u \in issued /\ u \in issued'
      BY <1>1 DEF ReadFact
    <2>3. r.revision \in Nat /\ \A x \in User : x.revision \in Nat
      BY DEF User
    <2>4. CASE users[u] = NoUser
      BY <2>2, <2>4 DEF ReadFact, Monotone
    <2>5. CASE users[u] = r
      BY <2>2, <2>5 DEF ReadFact, Monotone
    <2>6. CASE users[u] # NoUser /\ users[u].revision > r.revision
      <3>1. CASE users'[u] = users[u] \/ users'[u] = NoUser
        BY <2>2, <2>6, <3>1 DEF ReadFact
      <3>2. CASE users'[u] # NoUser /\ users'[u].revision > users[u].revision
        BY <2>1, <2>2, <2>3, <2>6, <3>2 DEF ReadFact
      <3> QED BY <2>2, <3>1, <3>2 DEF Monotone
    <2> QED BY <1>1, <2>4, <2>5, <2>6 DEF ReadFact
  <1>2. ASSUME NEW q \in Procs
        PROVE  (CallShape(call[q]) /\ CallRead(call[q])
                 /\ (AboutToCommit(q) => WatchedFact(call[q])))'
    <2>1. CASE call'[q] = Idle
      <3>1. CallShape(call'[q]) /\ call'[q].pc # "watched"
        BY <2>1, IdleOK
      <3>2. CallRead(call[q])'
        BY <2>1 DEF CallRead, Idle
      <3> QED BY <3>1, <3>2 DEF AboutToCommit
    <2>2. CASE call'[q] = call[q] /\ (call[q].pc = "watched" => dirty'[q])
      <3>1. call[q] \in Call /\ CallShape(call[q]) /\ CallRead(call[q])
        BY DEF Inv, CallsOK, TypeOK
      <3>2. ~AboutToCommit(q)'
        BY <2>2 DEF AboutToCommit
      <3>3. CallRead(call[q])'
        <4>1. /\ call[q].base \in User \cup {NoUser} /\ call[q].actor \in User \cup {NoUser}
              /\ call[q].uid \in Uids \cup {NoUid} /\ call[q].other \in Uids \cup {NoUid}
          BY <3>1 DEF Call
        <4>2. /\ call[q].base # NoUser => call[q].uid \in issued \cap Uids
              /\ call[q].actor # NoUser => call[q].other \in issued \cap Uids
          BY <3>1, <4>1, NullAssumption DEF CallRead, ReadFact, Inv, TypeOK
        <4> QED BY <1>1, <2>2, <3>1, <4>1, <4>2 DEF CallRead
      <3> QED BY <2>2, <3>1, <3>2, <3>3
    <2> QED BY <2>1, <2>2
  <1>3. CallsOK'
    BY <1>2 DEF CallsOK
  <1> QED BY <1>3 DEF Inv

----------------------------------------------------------------------------
(* The indexes *)

\* EXEC of UpdateDirectoryUser moves the alias and the order entry along.
LEMMA StoreKeepsIndex ==
    ASSUME TypeOK, IndexConsistent, NEW u \in Uids, NEW rec \in User, NEW prev,
           users[u] # NoUser, users[u].email = prev,
           rec.email # prev => EmailFree(u, rec.email),
           StoreUser(u, prev, rec)
    PROVE  IndexConsistent'
  <1>1. /\ Advanced(rec) \in User /\ Advanced(rec) # NoUser
        /\ Advanced(rec).email = rec.email /\ rec.email \in Emails
    BY NullAssumption, WantedOK DEF Advanced, User
  <1>2. /\ users'[u] = Advanced(rec)
        /\ \A v \in Uids \ {u} : users'[v] = users[v]
    BY DEF StoreUser, TypeOK
  <1>3. prev \in Emails
    BY DEF TypeOK, User
  <1>4. emailIndex[prev] = u
    BY <1>3 DEF IndexConsistent
  <1>5. ASSUME NEW e \in Emails, NEW v \in Uids
        PROVE  emailIndex'[e] = v <=> (users'[v] # NoUser /\ users'[v].email = e)
    <2>1. emailIndex[e] = v <=> (users[v] # NoUser /\ users[v].email = e)
      BY DEF IndexConsistent
    <2>2. emailIndex'[e] = IF e = rec.email THEN u
                           ELSE IF e = prev THEN NoUid ELSE emailIndex[e]
      BY DEF StoreUser
    <2>3. CASE v = u
      BY <1>1, <1>2, <1>4, <2>1, <2>2, <2>3, NullAssumption
    <2>4. CASE v # u
      <3>1. CASE e = rec.email
        BY <1>2, <1>4, <2>1, <2>2, <2>4, <3>1, NullAssumption DEF EmailFree
      <3>2. CASE e # rec.email
        BY <1>2, <1>4, <2>1, <2>2, <2>4, <3>2, NullAssumption
      <3> QED BY <3>1, <3>2
    <2> QED BY <2>3, <2>4
  <1>6. orderIndex' = {<<users'[w].email, w>> : w \in {v \in Uids : users'[v] # NoUser}}
    <2>1. orderIndex = {<<users[w].email, w>> : w \in {v \in Uids : users[v] # NoUser}}
      BY DEF IndexConsistent
    <2>2. orderIndex' = (orderIndex \ {<<prev, u>>}) \cup {<<rec.email, u>>}
      BY DEF StoreUser
    <2>3. ASSUME NEW x
          PROVE  x \in orderIndex' <=>
                   \E w \in Uids : users'[w] # NoUser /\ x = <<users'[w].email, w>>
      <3>1. x \in orderIndex <=> \E w \in Uids : users[w] # NoUser /\ x = <<users[w].email, w>>
        BY <2>1
      <3> QED BY <1>1, <1>2, <2>2, <3>1
    <2> QED BY <2>3
  <1> QED BY <1>5, <1>6 DEF IndexConsistent

\* The create script adds both index entries of a new record.
LEMMA CreateKeepsIndex ==
    ASSUME TypeOK, IndexConsistent, NEW u \in Uids, NEW e \in Emails, NEW r \in User,
           users[u] = NoUser, EmailFree(u, e), r.email = e,
           users' = [users EXCEPT ![u] = r],
           emailIndex' = [emailIndex EXCEPT ![e] = u],
           orderIndex' = orderIndex \cup {<<e, u>>}
    PROVE  IndexConsistent'
  <1>1. users'[u] = r /\ r # NoUser /\ \A v \in Uids \ {u} : users'[v] = users[v]
    BY NullAssumption DEF TypeOK
  <1>2. ASSUME NEW f \in Emails, NEW v \in Uids
        PROVE  emailIndex'[f] = v <=> (users'[v] # NoUser /\ users'[v].email = f)
    <2>1. emailIndex[f] = v <=> (users[v] # NoUser /\ users[v].email = f)
      BY DEF IndexConsistent
    <2>2. emailIndex'[f] = IF f = e THEN u ELSE emailIndex[f]
      BY DEF TypeOK
    <2> QED BY <1>1, <2>1, <2>2, NullAssumption DEF EmailFree
  <1>3. ASSUME NEW x
        PROVE  x \in orderIndex' <=>
                 \E w \in Uids : users'[w] # NoUser /\ x = <<users'[w].email, w>>
    <2>1. x \in orderIndex <=> \E w \in Uids : users[w] # NoUser /\ x = <<users[w].email, w>>
      BY DEF IndexConsistent
    <2> QED BY <1>1, <2>1
  <1> QED BY <1>2, <1>3 DEF IndexConsistent

\* A deletion removes exactly the index entries of the deleted record.
LEMMA RemoveKeepsIndex ==
    ASSUME TypeOK, IndexConsistent, NEW u \in Uids, NEW e,
           users[u] # NoUser, users[u].email = e, RemoveUser(u, e)
    PROVE  IndexConsistent'
  <1>1. users'[u] = NoUser /\ \A v \in Uids \ {u} : users'[v] = users[v]
    BY DEF RemoveUser, TypeOK
  <1>2. e \in Emails
    BY DEF TypeOK, User
  <1>3. ASSUME NEW f \in Emails, NEW v \in Uids
        PROVE  emailIndex'[f] = v <=> (users'[v] # NoUser /\ users'[v].email = f)
    <2>1. /\ emailIndex[f] = v <=> (users[v] # NoUser /\ users[v].email = f)
          /\ emailIndex[e] = u
      BY <1>2 DEF IndexConsistent
    <2>2. emailIndex'[f] = IF f = e THEN NoUid ELSE emailIndex[f]
      BY DEF RemoveUser, TypeOK
    <2> QED BY <1>1, <2>1, <2>2, NullAssumption
  <1>4. ASSUME NEW x
        PROVE  x \in orderIndex' <=>
                 \E w \in Uids : users'[w] # NoUser /\ x = <<users'[w].email, w>>
    <2>1. x \in orderIndex <=> \E w \in Uids : users[w] # NoUser /\ x = <<users[w].email, w>>
      BY DEF IndexConsistent
    <2> QED BY <1>1, <2>1 DEF RemoveUser
  <1> QED BY <1>3, <1>4 DEF IndexConsistent

----------------------------------------------------------------------------
(* A request begins *)

\* An update that wants to store "want".
LEMMA UpdateRequestOK ==
    ASSUME Inv, NEW u \in Uids, users[u] # NoUser,
           NEW op \in {"setStatus", "revoke", "revokeSubject", "update"},
           NEW want \in User, want.revision = users[u].revision, KeepsSessions(users[u], want),
           NEW c, c = Request(op, u, want)
    PROVE  c \in Call /\ CallShape(c) /\ CallRead(c) /\ c.pc # "watched"
  <1>1. op \in OpNames
    BY DEF OpNames
  <1>2. /\ c \in Call /\ CallRead(c)
        /\ c.op = op /\ c.pc = "loaded" /\ c.uid = u
        /\ c.base = users[u] /\ c.base \in User /\ c.rec = want /\ c.actor = NoUser
    BY <1>1, RequestOK DEF Inv
  <1> QED BY <1>2 DEF CallShape, Updating

\* What FindByEmail returns is the stored record of the account the alias names.
LEMMA FoundUser ==
    ASSUME TypeOK, NEW e \in Emails, Found(e)
    PROVE  emailIndex[e] \in Uids /\ users[emailIndex[e]] # NoUser /\ users[emailIndex[e]] \in User
  BY DEF Found, TypeOK

\* The first step of every operation, up to the repository's first read, keeps Inv.
LEMMA InvokeStep ==
    ASSUME Inv, NEW p \in Procs, Invoke(p)
    PROVE  Inv'
  <1> DEFINE Quiet(d) == /\ call' = [call EXCEPT ![p] = d]
                         /\ UNCHANGED <<store, dirty, history>>
                         /\ oob' \in [Codes -> Proof \cup {NoProof}]
  <1>a. oob \in [Codes -> Proof \cup {NoProof}] /\ issued \subseteq Uids \cup Codes /\ TypeOK
    BY DEF Inv, TypeOK
  <1>b. ASSUME NEW d \in Call, CallShape(d), CallRead(d), d.pc # "watched", Quiet(d)
        PROVE  Inv'
    <2>1. /\ users' = users /\ emailIndex' = emailIndex /\ orderIndex' = orderIndex
          /\ issued' = issued /\ dirty' = dirty /\ UNCHANGED <<deployment, tempUses, deletedBy>>
      BY <1>b DEF store, history
    <2> QED BY <1>a, <1>b, <2>1, LocalStep
  <1>1. ASSUME NEW e \in Emails, NEW st \in Status, SetStatus(p, e, st)
        PROVE  Inv'
    <2> DEFINE u == emailIndex[e]
               d == Request("setStatus", u, WithStatus(users[u], st))
    <2>1. u \in Uids /\ users[u] # NoUser /\ users[u] \in User
      BY <1>a, <1>1, FoundUser DEF SetStatus
    <2>2. d \in Call /\ CallShape(d) /\ CallRead(d) /\ d.pc # "watched"
      <3>1. LET w == WithStatus(users[u], st) IN
            w \in User /\ KeepsSessions(users[u], w) /\ w.revision = users[u].revision
        BY <2>1, WantedOK
      <3> QED BY <2>1, <3>1, UpdateRequestOK
    <2>3. Quiet(d)
      BY <1>a, <1>1 DEF SetStatus
    <2> QED BY <1>b, <2>2, <2>3
  <1>2. ASSUME NEW e \in Emails, RevokeTokens(p, e)
        PROVE  Inv'
    <2> DEFINE u == emailIndex[e]
               d == Request("revoke", u, Bumped(users[u]))
    <2>1. u \in Uids /\ users[u] # NoUser /\ users[u] \in User
      BY <1>a, <1>2, FoundUser DEF RevokeTokens
    <2>2. d \in Call /\ CallShape(d) /\ CallRead(d) /\ d.pc # "watched"
      <3>1. /\ Bumped(users[u]) \in User /\ KeepsSessions(users[u], Bumped(users[u]))
            /\ Bumped(users[u]).revision = users[u].revision
        BY <2>1, WantedOK DEF Status
      <3> QED BY <2>1, <3>1, UpdateRequestOK
    <2>3. Quiet(d)
      BY <1>a, <1>2 DEF RevokeTokens
    <2> QED BY <1>b, <2>2, <2>3
  <1>3. ASSUME NEW u \in Uids, RevokeIDTokenSubject(p, u)
        PROVE  Inv'
    <2> DEFINE d == Request("revokeSubject", u, Bumped(users[u]))
    <2>1. users[u] # NoUser /\ users[u] \in User
      BY <1>a, <1>3 DEF RevokeIDTokenSubject, TypeOK
    <2>2. d \in Call /\ CallShape(d) /\ CallRead(d) /\ d.pc # "watched"
      <3>1. /\ Bumped(users[u]) \in User /\ KeepsSessions(users[u], Bumped(users[u]))
            /\ Bumped(users[u]).revision = users[u].revision
        <4>1. users[u].email \in Emails
          BY <2>1 DEF User
        <4> QED BY <2>1, <4>1, WantedOK DEF Status
      <3> QED BY <2>1, <3>1, UpdateRequestOK
    <2>3. Quiet(d)
      BY <1>a, <1>3 DEF RevokeIDTokenSubject
    <2> QED BY <1>b, <2>2, <2>3
  <1>4. ASSUME NEW u \in Uids, NEW e \in Emails, NEW n \in BOOLEAN, UpdateUser(p, u, e, n)
        PROVE  Inv'
    <2> DEFINE R == [users[u] EXCEPT !.email = e]
               want == IF n THEN WithPassword(R) ELSE R
               d == Request("update", u, want)
    <2>1. users[u] # NoUser /\ users[u] \in User
      BY <1>a, <1>4 DEF UpdateUser, TokenAccepted, TypeOK
    <2>2. /\ want \in User /\ KeepsSessions(users[u], want)
          /\ want.revision = users[u].revision
      BY <2>1, WantedOK DEF Status
    <2>3. d \in Call /\ CallShape(d) /\ CallRead(d) /\ d.pc # "watched"
      <3> HIDE DEF want
      <3> QED BY <2>1, <2>2, UpdateRequestOK
    <2>4. Quiet(d)
      BY <1>a, <1>4 DEF UpdateUser
    <2> QED BY <1>b, <2>3, <2>4
  <1>5. ASSUME NEW e \in Emails, NEW t \in CodeTypes, SendOob(p, e, t)
        PROVE  Inv'
    <2> DEFINE u == emailIndex[e]
               r == Request("sendOob", u, NoUser)
               d == [r EXCEPT !.type = t]
    <2>1. u \in Uids /\ users[u] # NoUser /\ users[u] \in User
      BY <1>a, <1>5, FoundUser DEF SendOob
    <2>2. /\ r \in Call /\ CallRead(r) /\ r.op = "sendOob" /\ r.pc = "loaded"
          /\ r.uid = u /\ r.base \in User /\ r.actor = NoUser
      BY <2>1, RequestOK DEF OpNames, Inv
    <2>3. d \in Call /\ CallShape(d) /\ CallRead(d) /\ d.pc # "watched"
      <3> HIDE DEF r
      <3>1. /\ d \in Call /\ d.op = "sendOob" /\ d.pc = "loaded"
            /\ d.uid = r.uid /\ d.base = r.base /\ d.actor = r.actor /\ d.other = r.other
        BY <2>2 DEF Call
      <3> QED BY <2>1, <2>2, <3>1 DEF CallShape, CallRead, Updating
    <2>4. Quiet(d)
      BY <1>a, <1>5 DEF SendOob
    <2> QED BY <1>b, <2>3, <2>4
  <1>6. ASSUME NEW k \in Codes, NEW t \in CodeTypes, ConsumeSubjectOobCode(p, k, t)
        PROVE  Inv'
    <2> DEFINE op == IF t = "EMAIL_SIGNIN" THEN "oobSignIn" ELSE "resetPassword"
               d == [Idle EXCEPT !.op = op, !.pc = "proved", !.uid = oob[k].uid, !.proof = oob[k]]
    <2>1. oob[k] \in Proof /\ oob[k].uid \in Uids
      BY <1>a, <1>6 DEF ConsumeSubjectOobCode, Proof
    <2>2. d = [op |-> op, pc |-> "proved", uid |-> oob[k].uid, base |-> NoUser, rec |-> NoUser,
               prev |-> NoEmail, other |-> NoUid, actor |-> NoUser, proof |-> oob[k],
               type |-> "EMAIL_SIGNIN", attempt |-> 0, round |-> 0]
      <3> HIDE DEF op
      <3> QED BY ProvedForm
    <2>3. d \in Call /\ CallShape(d) /\ CallRead(d) /\ d.pc # "watched"
      <3> HIDE DEF d
      <3>1. d \in Call
        BY <2>1, <2>2 DEF Call, OpNames, CodeTypes
      <3> QED BY <2>1, <2>2, <3>1 DEF CallShape, CallRead, Updating
    <2>4. Quiet(d)
      <3>1. oob' \in [Codes -> Proof \cup {NoProof}]
        BY <1>a, <1>6 DEF ConsumeSubjectOobCode
      <3> QED BY <1>6, <3>1 DEF ConsumeSubjectOobCode
    <2> QED BY <1>b, <2>3, <2>4
  <1>7. ASSUME NEW e \in Emails, ChangeTemporaryPassword(p, e)
        PROVE  Inv'
    <2> DEFINE u == emailIndex[e]
               d == Request("changeTemporary", u, NoUser)
    <2>1. u \in Uids /\ users[u] # NoUser /\ users[u] \in User
      BY <1>a, <1>7, FoundUser DEF ChangeTemporaryPassword
    <2>2. /\ d \in Call /\ CallRead(d) /\ d.op = "changeTemporary" /\ d.pc = "loaded"
          /\ d.uid = u /\ d.base \in User /\ d.actor = NoUser
      BY <2>1, RequestOK DEF OpNames, Inv
    <2>3. CallShape(d) /\ d.pc # "watched"
      BY <2>1, <2>2 DEF CallShape, Updating
    <2>4. Quiet(d)
      BY <1>a, <1>7 DEF ChangeTemporaryPassword
    <2> QED BY <1>b, <2>2, <2>3, <2>4
  <1>8. ASSUME NEW u \in Uids, DeleteUser(p, u)
        PROVE  Inv'
    <2> DEFINE d == Request("selfDelete", u, NoUser)
    <2>1. users[u] # NoUser /\ users[u] \in User
      BY <1>a, <1>8 DEF DeleteUser, TokenAccepted, TypeOK
    <2>2. /\ d \in Call /\ CallRead(d) /\ d.op = "selfDelete" /\ d.pc = "loaded"
          /\ d.uid = u /\ d.base \in User /\ d.actor = NoUser
      BY <2>1, RequestOK DEF OpNames, Inv
    <2>3. CallShape(d) /\ d.pc # "watched"
      BY <2>1, <2>2 DEF CallShape, Updating
    <2>4. Quiet(d)
      BY <1>a, <1>8 DEF DeleteUser
    <2> QED BY <1>b, <2>2, <2>3, <2>4
  <1>9. ASSUME NEW a \in Uids, NEW u \in Uids, DeleteDirectoryUser(p, a, u)
        PROVE  Inv'
    <2> DEFINE r == Request("adminDelete", u, NoUser)
               d == [r EXCEPT !.other = a, !.actor = users[a]]
    <2>1. users[u] # NoUser /\ users[u] \in User /\ users[a] # NoUser /\ users[a] \in User
      BY <1>a, <1>9 DEF DeleteDirectoryUser, TokenAccepted, TypeOK
    <2>2. d = [op |-> "adminDelete", pc |-> "loaded", uid |-> u, base |-> users[u], rec |-> NoUser,
               prev |-> NoEmail, other |-> a, actor |-> users[a], proof |-> NoProof,
               type |-> "EMAIL_SIGNIN", attempt |-> 0, round |-> 0]
      BY DeletionForm
    <2>3. a \in issued /\ u \in issued /\ a # u
      BY <1>9, <2>1 DEF Inv, StoredIsIssued, DeleteDirectoryUser
    <2>4. d \in Call /\ CallShape(d) /\ CallRead(d) /\ d.pc # "watched"
      <3> HIDE DEF d
      <3>1. d \in Call
        BY <2>1, <2>2 DEF Call, OpNames, CodeTypes
      <3> QED BY <2>1, <2>2, <2>3, <3>1 DEF CallShape, CallRead, ReadFact, Updating
    <2>5. Quiet(d)
      BY <1>a, <1>9 DEF DeleteDirectoryUser
    <2> QED BY <1>b, <2>4, <2>5
  <1> QED BY <1>1, <1>2, <1>3, <1>4, <1>5, <1>6, <1>7, <1>8, <1>9 DEF Invoke

----------------------------------------------------------------------------
(* A request moves on *)

\* The loop of a transaction starts again with the same inputs, or gives up.
LEMMA AgainOK ==
    ASSUME NEW c \in Call, CallShape(c), CallRead(c), c.pc \notin {"idle", "proved"},
           NEW d, d = Again(c)
    PROVE  d \in Call /\ CallShape(d) /\ CallRead(d) /\ d.pc # "watched"
  <1>1. CASE d = Idle
    BY <1>1, IdleOK
  <1>2. CASE d = [c EXCEPT !.pc = "loaded", !.attempt = @ + 1, !.prev = NoEmail]
    <2>1. /\ d \in Call /\ d.pc = "loaded" /\ d.op = c.op /\ d.uid = c.uid /\ d.base = c.base
          /\ d.rec = c.rec /\ d.other = c.other /\ d.actor = c.actor /\ d.proof = c.proof
      <3>1. ASSUME NEW n \in Nat, d = [c EXCEPT !.pc = "loaded", !.attempt = n, !.prev = NoEmail]
            PROVE  /\ d \in Call /\ d.pc = "loaded" /\ d.op = c.op /\ d.uid = c.uid
                   /\ d.base = c.base /\ d.rec = c.rec /\ d.other = c.other
                   /\ d.actor = c.actor /\ d.proof = c.proof
        BY <3>1 DEF Call
      <3>2. c.attempt + 1 \in Nat
        BY DEF Call
      <3> QED BY <1>2, <3>1, <3>2
    <2> QED BY <2>1 DEF CallShape, CallRead, Updating
  <1> QED BY <1>1, <1>2 DEF Again

\* Going on to EXEC keeps what the request carries.
LEMMA WatchingOK ==
    ASSUME NEW c \in Call, CallShape(c), CallRead(c),
           \/ Updating(c) /\ c.pc = "observed"
           \/ c.op = "selfDelete" /\ c.pc = "observed"
           \/ c.op \in {"changeTemporary", "adminDelete"} /\ c.pc = "loaded",
           WatchedFact(c),
           NEW d, d = [c EXCEPT !.pc = "watched"]
    PROVE  d \in Call /\ CallShape(d) /\ CallRead(d) /\ WatchedFact(d)
  <1>1. /\ d \in Call /\ d.pc = "watched" /\ d.op = c.op /\ d.uid = c.uid /\ d.base = c.base
        /\ d.rec = c.rec /\ d.other = c.other /\ d.actor = c.actor /\ d.proof = c.proof
        /\ d.prev = c.prev
    BY DEF Call
  <1>2. CallShape(d) /\ CallRead(d)
    BY <1>1 DEF CallShape, CallRead, Updating
  <1>3. WatchedFact(d)
    BY <1>1 DEF WatchedFact, Updating, TemporaryCurrent, ActorCurrent, TargetCurrent
  <1> QED BY <1>1, <1>2, <1>3

\* The reads between an operation's first step and its EXEC keep Inv.
LEMMA LocalSteps ==
    ASSUME Inv, NEW p \in Procs,
           \/ ObserveUser(p) \/ WatchUser(p) \/ ExecFails(p) \/ WatchTemporary(p)
           \/ ResolveAlias(p) \/ WatchSelfDelete(p) \/ WatchAdminDelete(p)
           \/ ResolveOobSubject(p) \/ Crash(p) \/ \E k \in Codes : SaveSubjectOobCode(p, k)
    PROVE  Inv'
  <1> DEFINE c == call[p]
             Good(d) == /\ d \in Call /\ CallShape(d) /\ CallRead(d)
                        /\ d.pc = "watched" => WatchedFact(d)
             Quiet(d) == /\ call' = [call EXCEPT ![p] = d]
                         /\ dirty' = dirty \/ dirty' = [dirty EXCEPT ![p] = FALSE]
                         /\ UNCHANGED <<store, oob, history>>
  <1>a. TypeOK /\ oob \in [Codes -> Proof \cup {NoProof}] /\ issued \subseteq Uids \cup Codes
    BY DEF Inv, TypeOK
  <1>b. ASSUME NEW d, Good(d), Quiet(d)
        PROVE  Inv'
    <2>1. /\ users' = users /\ emailIndex' = emailIndex /\ orderIndex' = orderIndex
          /\ issued' = issued /\ oob' = oob /\ UNCHANGED <<deployment, tempUses, deletedBy>>
      BY <1>b DEF store, history
    <2> QED BY <1>a, <1>b, <2>1, LocalStep
  <1>c. c \in Call /\ CallShape(c) /\ CallRead(c) /\ (AboutToCommit(p) => WatchedFact(c))
    BY DEF Inv, CallsOK, TypeOK
  <1>d. Good(Idle)
    BY IdleOK
  <1> HIDE DEF c
  <1>1. CASE ObserveUser(p)
    <2> DEFINE d == [c EXCEPT !.pc = "observed", !.prev = users[c.uid].email]
    <2>1. Updating(c) /\ c.pc = "loaded" /\ (Quiet(Idle) \/ (Quiet(d) /\ users[c.uid] # NoUser))
      <3> DEFINE x == IF users[c.uid] = NoUser THEN Idle ELSE d
      <3>1. Updating(c) /\ c.pc = "loaded" /\ Quiet(x)
        BY <1>1 DEF ObserveUser, c
      <3> HIDE DEF Quiet, d
      <3>2. x = Idle \/ (x = d /\ users[c.uid] # NoUser)
        BY Zenon
      <3> HIDE DEF x
      <3> QED BY <3>1, <3>2
    <2>2. ASSUME users[c.uid] # NoUser
          PROVE  Good(d)
      <3>1. c.uid \in Uids
        BY <1>c, <2>1 DEF CallShape
      <3>2. users[c.uid].email \in Emails
        BY <1>a, <2>2, <3>1 DEF TypeOK, User
      <3>3. /\ d \in Call /\ d.pc = "observed" /\ d.op = c.op /\ d.uid = c.uid /\ d.base = c.base
            /\ d.rec = c.rec /\ d.other = c.other /\ d.actor = c.actor /\ d.proof = c.proof
            /\ d.prev \in Emails
        BY <1>c, <3>2 DEF Call
      <3> QED BY <1>c, <2>1, <3>3 DEF CallShape, CallRead, Updating
    <2> QED BY <1>b, <1>d, <2>1, <2>2
  <1>2. CASE WatchUser(p)
    <2> DEFINE d == [c EXCEPT !.pc = "watched"]
    <2>1. /\ Updating(c) /\ c.pc = "observed"
          /\ \/ Quiet(Idle)
             \/ Quiet(Conflict(c)) /\ users[c.uid] # NoUser
             \/ Quiet(Again(c))
             \/ /\ Quiet(d)
                /\ users[c.uid] # NoUser /\ CurrentRevision(c) /\ users[c.uid].email = c.prev
                /\ c.rec.email # c.prev => EmailFree(c.uid, c.rec.email)
      <3>1. Updating(c) /\ c.pc = "observed" /\ Quiet(UpdateReads(c))
        BY <1>2 DEF WatchUser, c
      <3> HIDE DEF Quiet, d
      <3>2. \/ UpdateReads(c) = Idle
            \/ UpdateReads(c) = Conflict(c) /\ users[c.uid] # NoUser
            \/ UpdateReads(c) = Again(c)
            \/ /\ UpdateReads(c) = d
               /\ users[c.uid] # NoUser /\ CurrentRevision(c) /\ users[c.uid].email = c.prev
               /\ c.rec.email # c.prev => EmailFree(c.uid, c.rec.email)
        BY Zenon DEF UpdateReads, d
      <3> QED BY <3>1, <3>2
    <2>2. Good(Again(c))
      BY <1>c, <2>1, AgainOK
    <2>3. ASSUME users[c.uid] # NoUser
          PROVE  Good(Conflict(c))
      <3> DEFINE r == Request("revokeSubject", c.uid, Bumped(users[c.uid]))
                 x == [r EXCEPT !.round = c.round + 1]
      <3>1. c.uid \in Uids /\ users[c.uid] \in User /\ users[c.uid].email \in Emails
        BY <1>a, <1>c, <2>1, <2>3 DEF CallShape, TypeOK, User
      <3>2. /\ Bumped(users[c.uid]) \in User /\ KeepsSessions(users[c.uid], Bumped(users[c.uid]))
            /\ Bumped(users[c.uid]).revision = users[c.uid].revision
        BY <3>1, WantedOK DEF Status
      <3>3. r \in Call /\ CallShape(r) /\ CallRead(r) /\ r.pc # "watched"
        BY <2>3, <3>1, <3>2, UpdateRequestOK
      <3>4. Good(x)
        <4> HIDE DEF r
        <4>1. c.round \in Nat
          BY <1>c DEF Call
        <4>2. /\ x \in Call /\ x.pc = r.pc /\ x.op = r.op /\ x.uid = r.uid /\ x.base = r.base
              /\ x.rec = r.rec /\ x.other = r.other /\ x.actor = r.actor /\ x.proof = r.proof
              /\ x.prev = r.prev
          BY <3>3, <4>1 DEF Call
        <4> QED BY <3>3, <4>2 DEF CallShape, CallRead, Updating
      <3> QED BY <1>d, <3>4 DEF Conflict
    <2>4. ASSUME users[c.uid] # NoUser, CurrentRevision(c), users[c.uid].email = c.prev,
                 c.rec.email # c.prev => EmailFree(c.uid, c.rec.email)
          PROVE  Good(d)
      <3>1. WatchedFact(c)
        BY <2>1, <2>4 DEF WatchedFact, CurrentRevision, Updating
      <3> QED BY <1>c, <2>1, <3>1, WatchingOK
    <2> QED BY <1>b, <1>d, <2>1, <2>2, <2>3, <2>4
  <1>3. CASE ExecFails(p)
    <2>1. c.pc = "watched" /\ Quiet(Again(c))
      BY <1>3 DEF ExecFails, c
    <2>2. Good(Again(c))
      BY <1>c, <2>1, AgainOK
    <2> QED BY <1>b, <2>1, <2>2
  <1>4. CASE WatchTemporary(p)
    <2> DEFINE d == [c EXCEPT !.pc = "watched"]
    <2>1. /\ c.op = "changeTemporary" /\ c.pc = "loaded"
          /\ Quiet(Idle) \/ (Quiet(d) /\ TemporaryCurrent(c))
      BY <1>4 DEF WatchTemporary, c
    <2>2. ASSUME TemporaryCurrent(c)
          PROVE  Good(d)
      <3>1. WatchedFact(c)
        BY <2>1, <2>2 DEF WatchedFact, Updating
      <3> QED BY <1>c, <2>1, <3>1, WatchingOK
    <2> QED BY <1>b, <1>d, <2>1, <2>2
  <1>5. CASE ResolveAlias(p)
    <2> DEFINE d == [c EXCEPT !.pc = "observed", !.other = emailIndex[c.base.email]]
    <2>1. /\ c.op = "selfDelete" /\ c.pc = "loaded"
          /\ Quiet(Idle) \/ (Quiet(d) /\ emailIndex[c.base.email] # NoUid)
      BY <1>5 DEF ResolveAlias, c
    <2>2. ASSUME emailIndex[c.base.email] # NoUid
          PROVE  Good(d)
      <3>1. c.base.email \in Emails
        BY <1>c, <2>1 DEF CallShape, User
      <3>2. emailIndex[c.base.email] \in Uids
        BY <1>a, <2>2, <3>1 DEF TypeOK
      <3>3. /\ d \in Call /\ d.pc = "observed" /\ d.op = c.op /\ d.uid = c.uid /\ d.base = c.base
            /\ d.rec = c.rec /\ d.other \in Uids /\ d.actor = c.actor /\ d.proof = c.proof
        BY <1>c, <3>2 DEF Call
      <3> QED BY <1>c, <2>1, <3>3 DEF CallShape, CallRead, Updating
    <2> QED BY <1>b, <1>d, <2>1, <2>2
  <1>6. CASE WatchSelfDelete(p)
    <2> DEFINE d == [c EXCEPT !.pc = "watched"]
    <2>1. /\ c.op = "selfDelete" /\ c.pc = "observed"
          /\ \/ Quiet(Idle)
             \/ Quiet(Again(c))
             \/ /\ Quiet(d)
                /\ emailIndex[c.base.email] = c.other /\ Found(c.base.email)
      <3>1. c.op = "selfDelete" /\ c.pc = "observed" /\ Quiet(SelfDeleteReads(c))
        BY <1>6 DEF WatchSelfDelete, c
      <3> HIDE DEF Quiet, d
      <3>2. \/ SelfDeleteReads(c) = Idle
            \/ SelfDeleteReads(c) = Again(c)
            \/ /\ SelfDeleteReads(c) = d
               /\ emailIndex[c.base.email] = c.other /\ Found(c.base.email)
        BY Zenon DEF SelfDeleteReads, d
      <3> QED BY <3>1, <3>2
    <2>2. Good(Again(c))
      BY <1>c, <2>1, AgainOK
    <2>3. ASSUME emailIndex[c.base.email] = c.other, Found(c.base.email)
          PROVE  Good(d)
      <3>1. WatchedFact(c)
        BY <2>1, <2>3 DEF WatchedFact, Updating, Found
      <3> QED BY <1>c, <2>1, <3>1, WatchingOK
    <2> QED BY <1>b, <1>d, <2>1, <2>2, <2>3
  <1>7. CASE WatchAdminDelete(p)
    <2> DEFINE d == [c EXCEPT !.pc = "watched"]
    <2>1. /\ c.op = "adminDelete" /\ c.pc = "loaded"
          /\ Quiet(Idle) \/ (Quiet(d) /\ ActorCurrent(c) /\ TargetCurrent(c))
      BY <1>7 DEF WatchAdminDelete, c
    <2>2. ASSUME ActorCurrent(c), TargetCurrent(c)
          PROVE  Good(d)
      <3>1. WatchedFact(c)
        BY <2>1, <2>2 DEF WatchedFact, Updating
      <3> QED BY <1>c, <2>1, <3>1, WatchingOK
    <2> QED BY <1>b, <1>d, <2>1, <2>2
  <1>8. CASE ResolveOobSubject(p)
    <2> DEFINE d == [c EXCEPT !.pc = "loaded", !.base = users[c.uid],
                              !.rec = WithPassword(users[c.uid])]
    <2>1. /\ c.pc = "proved"
          /\ Quiet(Idle) \/ (Quiet(d) /\ ProofCurrent(c) /\ c.op = "resetPassword")
      BY <1>8 DEF ResolveOobSubject, c
    <2>2. ASSUME ProofCurrent(c), c.op = "resetPassword"
          PROVE  Good(d)
      <3>1. c.uid \in Uids /\ users[c.uid] # NoUser /\ c.actor = NoUser
        BY <1>c, <2>1, <2>2 DEF CallShape, ProofCurrent
      <3>2. users[c.uid] \in User /\ users[c.uid].email \in Emails /\ c.uid \in issued
        BY <1>a, <3>1 DEF TypeOK, User, Inv, StoredIsIssued
      <3> DEFINE w == WithPassword(users[c.uid])
      <3>3. w \in User /\ KeepsSessions(users[c.uid], w) /\ w.revision = users[c.uid].revision
        BY <3>2, WantedOK DEF Status
      <3> HIDE DEF w
      <3>4. /\ d \in Call /\ d.pc = "loaded" /\ d.op = c.op /\ d.uid = c.uid
            /\ d.base = users[c.uid] /\ d.rec = w /\ d.actor = c.actor /\ d.proof = c.proof
        BY <1>c, <3>2, <3>3 DEF Call, w
      <3>5. CallShape(d)
        BY <2>2, <3>1, <3>2, <3>3, <3>4 DEF CallShape, Updating, ProofCurrent
      <3>6. CallRead(d)
        BY <3>1, <3>2, <3>4 DEF CallRead, ReadFact
      <3> QED BY <3>4, <3>5, <3>6
    <2> QED BY <1>b, <1>d, <2>1, <2>2
  <1>9. CASE Crash(p)
    <2>1. Quiet(Idle)
      BY <1>9 DEF Crash, Finish
    <2> QED BY <1>b, <1>d, <2>1
  <1>10. ASSUME NEW k \in Codes, SaveSubjectOobCode(p, k)
         PROVE  Inv'
    <2>1. c.op = "sendOob" /\ call' = [call EXCEPT ![p] = Idle] /\ issued' = issued \cup {k}
      BY <1>10 DEF SaveSubjectOobCode, Finish, c
    <2>2. c.uid \in Uids /\ c.base \in User /\ c.type \in CodeTypes
      BY <1>c, <2>1 DEF CallShape, Call
    <2>3. oob' \in [Codes -> Proof \cup {NoProof}]
      <3> DEFINE x == [uid |-> c.uid, email |-> c.base.email,
                       tokenVersion |-> c.base.tokenVersion, type |-> c.type]
      <3>1. x \in Proof
        BY <2>2 DEF Proof, User
      <3>2. oob' = [oob EXCEPT ![k] = x]
        BY <1>10 DEF SaveSubjectOobCode, c
      <3> HIDE DEF x
      <3> QED BY <1>a, <3>1, <3>2
    <2>4. /\ users' = users /\ emailIndex' = emailIndex /\ orderIndex' = orderIndex
          /\ dirty' = dirty /\ UNCHANGED <<deployment, tempUses, deletedBy>>
          /\ issued \subseteq issued' /\ issued' \subseteq Uids \cup Codes
      BY <1>a, <1>10, <2>1 DEF SaveSubjectOobCode, history
    <2> QED BY <1>d, <2>1, <2>3, <2>4, LocalStep
  <1> QED BY <1>1, <1>2, <1>3, <1>4, <1>5, <1>6, <1>7, <1>8, <1>9, <1>10

----------------------------------------------------------------------------
(* EXEC, and the scripts *)

\* The create script of CreateDirectoryUser keeps Inv.
LEMMA CreateStep ==
    ASSUME Inv, NEW u \in Uids, NEW e \in Emails, CreateDirectoryUser(u, e)
    PROVE  Inv'
  <1>a. TypeOK /\ IndexConsistent /\ StoredIsIssued /\ DeletionHistory
    BY DEF Inv
  <1>1. NewUser(e) \in User /\ NewUser(e).email = e
    BY DEF NewUser, User, Status
  <1>2. u \notin issued /\ users[u] = NoUser
    BY <1>a DEF CreateDirectoryUser, StoredIsIssued
  <1>3. /\ users' = [users EXCEPT ![u] = NewUser(e)]
        /\ emailIndex' = [emailIndex EXCEPT ![e] = u]
        /\ orderIndex' = orderIndex \cup {<<e, u>>}
        /\ issued' = issued \cup {u}
        /\ oob' = oob /\ call' = call /\ UNCHANGED <<deployment, tempUses, deletedBy>>
        /\ EmailFree(u, e) /\ Touch({}, UserKeys({e}))
    BY DEF CreateDirectoryUser, history
  <1> HIDE DEF NewUser
  <1>4. IndexConsistent'
    BY <1>a, <1>1, <1>2, <1>3, CreateKeepsIndex
  <1>5. dirty' \in [Procs -> BOOLEAN] /\ \A q \in Procs : call[q].pc = "watched" => dirty'[q]
    <2>1. UsersKey \in UserKeys({e})
      BY DEF UserKeys
    <2> QED BY <1>a, <1>3, <2>1, TouchDisturbs
  <1>6. TypeOK'
    BY <1>a, <1>1, <1>3, <1>5 DEF TypeOK
  <1>7. StoredIsIssued' /\ DeletionHistory' /\ Monotone
    BY <1>a, <1>2, <1>3 DEF StoredIsIssued, DeletionHistory, Monotone, TypeOK
  <1> QED BY <1>3, <1>4, <1>5, <1>6, <1>7, StoreStep

\* EXEC of UpdateDirectoryUser keeps Inv.
LEMMA UpdateStep ==
    ASSUME Inv, NEW p \in Procs, UpdateDirectoryUser(p)
    PROVE  Inv'
  <1> DEFINE c == call[p]
  <1>a. TypeOK /\ IndexConsistent /\ StoredIsIssued /\ DeletionHistory
    BY DEF Inv
  <1>1. /\ Updating(c) /\ c.pc = "watched" /\ AboutToCommit(p)
        /\ StoreUser(c.uid, c.prev, c.rec)
        /\ Touch({p}, UserKeys({c.prev, c.rec.email}))
        /\ call' = [call EXCEPT ![p] = Idle]
        /\ issued' = issued /\ oob' = oob /\ UNCHANGED <<deployment, tempUses, deletedBy>>
    BY DEF UpdateDirectoryUser, AboutToCommit, Finish, history
  <1>2. CallShape(c) /\ WatchedFact(c)
    BY <1>1 DEF Inv, CallsOK
  <1> HIDE DEF c
  <1>3. /\ c.uid \in Uids /\ c.rec \in User
        /\ users[c.uid] # NoUser /\ users[c.uid] \in User
        /\ users[c.uid].email = c.prev /\ users[c.uid].revision = c.rec.revision
        /\ c.rec.email # c.prev => EmailFree(c.uid, c.rec.email)
    BY <1>a, <1>1, <1>2 DEF CallShape, WatchedFact, TypeOK
  <1>4. IndexConsistent'
    BY <1>a, <1>1, <1>3, StoreKeepsIndex
  <1>5. dirty' \in [Procs -> BOOLEAN]
        /\ \A q \in Procs \ {p} : call[q].pc = "watched" => dirty'[q]
    <2>1. UsersKey \in UserKeys({c.prev, c.rec.email})
      BY DEF UserKeys
    <2> QED BY <1>a, <1>1, <2>1, TouchDisturbs
  <1>6. /\ Advanced(c.rec) \in User /\ Advanced(c.rec) # NoUser
        /\ Advanced(c.rec).revision > users[c.uid].revision
        /\ c.rec.email \in Emails /\ c.prev \in Emails
    BY <1>3, NullAssumption DEF Advanced, User
  <1>7. TypeOK'
    <2>1. users' \in [Uids -> User \cup {NoUser}]
      BY <1>a, <1>1, <1>6 DEF StoreUser, TypeOK
    <2>2. emailIndex' \in [Emails -> Uids \cup {NoUid}]
      BY <1>a, <1>1, <1>3 DEF StoreUser, TypeOK
    <2>3. orderIndex' \subseteq Emails \X Uids
      BY <1>a, <1>1, <1>3, <1>6 DEF StoreUser, TypeOK
    <2>4. call' \in [Procs -> Call]
      BY <1>a, <1>1, IdleOK DEF TypeOK
    <2> QED BY <1>a, <1>1, <1>5, <2>1, <2>2, <2>3, <2>4 DEF TypeOK
  <1>8. users'[c.uid] = Advanced(c.rec) /\ \A v \in Uids \ {c.uid} : users'[v] = users[v]
    BY <1>a, <1>1, <1>3 DEF StoreUser, TypeOK
  <1>9. StoredIsIssued' /\ DeletionHistory' /\ Monotone
    BY <1>a, <1>1, <1>3, <1>6, <1>8 DEF StoredIsIssued, DeletionHistory, Monotone
  <1>10. \A q \in Procs : \/ call'[q] = Idle
                          \/ call'[q] = call[q] /\ (call[q].pc = "watched" => dirty'[q])
    BY <1>a, <1>1, <1>5 DEF TypeOK
  <1> QED BY <1>1, <1>4, <1>7, <1>9, <1>10, StoreStep

\* EXEC of ConsumeTemporaryPassword keeps Inv.
LEMMA TemporaryStep ==
    ASSUME Inv, NEW p \in Procs, ConsumeTemporaryPassword(p)
    PROVE  Inv'
  <1> DEFINE c == call[p]
             n == Advanced(WithPassword(users[c.uid]))
  <1>a. TypeOK /\ IndexConsistent /\ StoredIsIssued /\ DeletionHistory
    BY DEF Inv
  <1>1. /\ c.op = "changeTemporary" /\ c.pc = "watched" /\ AboutToCommit(p)
        /\ users' = [users EXCEPT ![c.uid] = n]
        /\ tempUses' = [tempUses EXCEPT ![c.uid] = @ + 1]
        /\ Touch({p}, {UsersKey})
        /\ call' = [call EXCEPT ![p] = Idle]
        /\ emailIndex' = emailIndex /\ orderIndex' = orderIndex
        /\ issued' = issued /\ oob' = oob /\ deletedBy' = deletedBy /\ deployment' = deployment
    BY DEF ConsumeTemporaryPassword, AboutToCommit, Finish
  <1>2. CallShape(c) /\ WatchedFact(c)
    BY <1>1 DEF Inv, CallsOK
  <1> HIDE DEF c
  <1>3. c.uid \in Uids /\ users[c.uid] # NoUser /\ users[c.uid] \in User
    BY <1>a, <1>1, <1>2 DEF CallShape, WatchedFact, TemporaryCurrent, TypeOK
  <1>4. /\ n \in User /\ n # NoUser
        /\ n.revision > users[c.uid].revision /\ n.email = users[c.uid].email
    <2> DEFINE w == WithPassword(users[c.uid])
               b == Bumped(users[c.uid])
    <2>1. w \in User /\ w.revision = users[c.uid].revision
      BY <1>3, WantedOK DEF User, Status
    <2>2. w.email = users[c.uid].email
      <3>1. b.email = users[c.uid].email
        BY <1>3 DEF Bumped, User
      <3>2. ASSUME NEW x \in User
            PROVE  [x EXCEPT !.password = @ + 1, !.changeRequired = FALSE].email = x.email
        BY DEF User
      <3>3. b \in User
        BY <1>3, WantedOK DEF User, Status
      <3> HIDE DEF b
      <3> QED BY <3>1, <3>2, <3>3 DEF WithPassword, b
    <2> HIDE DEF w
    <2>3. Advanced(w) \in User /\ Advanced(w).revision > w.revision /\ Advanced(w).email = w.email
      BY <2>1 DEF Advanced, User
    <2> QED BY <2>1, <2>2, <2>3, NullAssumption DEF w
  <1> HIDE DEF n
  <1>5. dirty' \in [Procs -> BOOLEAN]
        /\ \A q \in Procs \ {p} : call[q].pc = "watched" => dirty'[q]
    BY <1>a, <1>1, TouchDisturbs
  <1>6. users'[c.uid] = n /\ \A v \in Uids \ {c.uid} : users'[v] = users[v]
    BY <1>a, <1>1, <1>3 DEF TypeOK
  <1>7. IndexConsistent'
    <2>1. \A v \in Uids : /\ users'[v] # NoUser <=> users[v] # NoUser
                          /\ users'[v] # NoUser => users'[v].email = users[v].email
      BY <1>3, <1>4, <1>6
    <2>2. {<<users[w].email, w>> : w \in {v \in Uids : users[v] # NoUser}}
            = {<<users'[w].email, w>> : w \in {v \in Uids : users'[v] # NoUser}}
      BY <2>1
    <2> QED BY <1>a, <1>1, <2>1, <2>2 DEF IndexConsistent
  <1>8. TypeOK'
    <2>1. users' \in [Uids -> User \cup {NoUser}]
      BY <1>a, <1>1, <1>4 DEF TypeOK
    <2>2. tempUses' \in [Uids -> Nat]
      BY <1>a, <1>1, <1>3 DEF TypeOK
    <2>3. call' \in [Procs -> Call]
      BY <1>a, <1>1, IdleOK DEF TypeOK
    <2> QED BY <1>a, <1>1, <1>5, <2>1, <2>2, <2>3 DEF TypeOK
  <1>9. StoredIsIssued' /\ DeletionHistory' /\ Monotone
    BY <1>a, <1>1, <1>3, <1>4, <1>6 DEF StoredIsIssued, DeletionHistory, Monotone
  <1>10. \A q \in Procs : \/ call'[q] = Idle
                          \/ call'[q] = call[q] /\ (call[q].pc = "watched" => dirty'[q])
    BY <1>a, <1>1, <1>5 DEF TypeOK
  <1> QED BY <1>1, <1>7, <1>8, <1>9, <1>10, StoreStep

\* Both deletions: record u with address e goes, and its deleter is alive.
LEMMA RemovalStep ==
    ASSUME Inv, NEW p \in Procs, NEW u \in Uids, NEW e,
           users[u] # NoUser, users[u].email = e,
           RemoveUser(u, e), Touch({p}, UserKeys({e})),
           call' = [call EXCEPT ![p] = Idle],
           issued' = issued, oob' = oob, tempUses' = tempUses, deployment' = deployment,
           \/ deletedBy' = deletedBy
           \/ \E a \in Uids \ {u} : users[a] # NoUser /\ deletedBy' = [deletedBy EXCEPT ![u] = a]
    PROVE  Inv'
  <1>a. TypeOK /\ IndexConsistent /\ StoredIsIssued /\ DeletionHistory
    BY DEF Inv
  <1>1. IndexConsistent'
    BY <1>a, RemoveKeepsIndex
  <1>2. dirty' \in [Procs -> BOOLEAN]
        /\ \A q \in Procs \ {p} : call[q].pc = "watched" => dirty'[q]
    <2>1. UsersKey \in UserKeys({e})
      BY DEF UserKeys
    <2> QED BY <1>a, <2>1, TouchDisturbs
  <1>3. TypeOK'
    <2>1. users' \in [Uids -> User \cup {NoUser}]
      BY <1>a DEF RemoveUser, TypeOK
    <2>2. emailIndex' \in [Emails -> Uids \cup {NoUid}] /\ orderIndex' \subseteq Emails \X Uids
      BY <1>a DEF RemoveUser, TypeOK
    <2>3. call' \in [Procs -> Call]
      BY <1>a, IdleOK DEF TypeOK
    <2>4. deletedBy' \in [Uids -> Uids \cup {NoUid}]
      BY <1>a DEF TypeOK
    <2> QED BY <1>a, <1>2, <2>1, <2>2, <2>3, <2>4 DEF TypeOK
  <1>4. users'[u] = NoUser /\ \A v \in Uids \ {u} : users'[v] = users[v]
    BY <1>a DEF RemoveUser, TypeOK
  <1>5. StoredIsIssued' /\ Monotone
    BY <1>a, <1>4 DEF StoredIsIssued, Monotone
  <1>6. DeletionHistory'
    <2>1. \A v \in Uids : deletedBy[v] \in Uids \cup {NoUid}
      BY <1>a DEF TypeOK
    <2>2. CASE deletedBy' = deletedBy
      BY <1>a, <1>4, <2>2 DEF DeletionHistory
    <2>3. CASE \E a \in Uids \ {u} : users[a] # NoUser /\ deletedBy' = [deletedBy EXCEPT ![u] = a]
      <3>1. PICK a \in Uids \ {u} : users[a] # NoUser /\ deletedBy' = [deletedBy EXCEPT ![u] = a]
        BY <2>3
      <3>2. deletedBy[a] = NoUid /\ deletedBy[u] = NoUid /\ u \in issued
        BY <1>a, <3>1 DEF DeletionHistory, StoredIsIssued
      <3>3. deletedBy'[u] = a /\ \A v \in Uids \ {u} : deletedBy'[v] = deletedBy[v]
        BY <1>a, <3>1 DEF TypeOK
      <3> QED BY <1>a, <1>4, <2>1, <3>1, <3>2, <3>3, NullAssumption DEF DeletionHistory
    <2> QED BY <2>2, <2>3
  <1>7. \A q \in Procs : \/ call'[q] = Idle
                         \/ call'[q] = call[q] /\ (call[q].pc = "watched" => dirty'[q])
    BY <1>a, <1>2 DEF TypeOK
  <1> QED BY <1>1, <1>3, <1>5, <1>6, <1>7, StoreStep

\* A revision identifies a record.
LEMMA SameRevision ==
    ASSUME TypeOK, NEW u \in Uids, NEW r \in User, ReadFact(u, r),
           users[u] # NoUser, users[u].revision = r.revision
    PROVE  users[u] = r
  <1>1. users[u].revision \in Nat /\ r.revision \in Nat
    BY DEF TypeOK, User
  <1> QED BY <1>1 DEF ReadFact

\* EXEC of DeleteByEmail and of DeleteDirectoryUser keep Inv.
LEMMA DeletionSteps ==
    ASSUME Inv, NEW p \in Procs, DeleteByEmail(p) \/ ApplyDeletion(p)
    PROVE  Inv'
  <1> DEFINE c == call[p]
  <1>a. TypeOK
    BY DEF Inv
  <1>b. CallShape(c) /\ CallRead(c) /\ (AboutToCommit(p) => WatchedFact(c))
    BY DEF Inv, CallsOK
  <1>1. CASE DeleteByEmail(p)
    <2>1. /\ c.op = "selfDelete" /\ c.pc = "watched" /\ AboutToCommit(p)
          /\ RemoveUser(c.other, c.base.email) /\ Touch({p}, UserKeys({c.base.email}))
          /\ call' = [call EXCEPT ![p] = Idle]
          /\ issued' = issued /\ oob' = oob /\ UNCHANGED <<deployment, tempUses, deletedBy>>
      BY <1>1 DEF DeleteByEmail, AboutToCommit, Finish, history
    <2>2. c.other \in Uids /\ users[c.other] # NoUser /\ users[c.other].email = c.base.email
      BY <1>b, <2>1 DEF CallShape, WatchedFact
    <2> QED BY <2>1, <2>2, RemovalStep
  <1>2. CASE ApplyDeletion(p)
    <2>1. /\ c.op = "adminDelete" /\ c.pc = "watched" /\ AboutToCommit(p)
          /\ RemoveUser(c.uid, c.base.email) /\ Touch({p}, UserKeys({c.base.email}))
          /\ call' = [call EXCEPT ![p] = Idle]
          /\ issued' = issued /\ oob' = oob /\ tempUses' = tempUses /\ deployment' = deployment
          /\ deletedBy' = [deletedBy EXCEPT ![c.uid] = c.other]
      BY <1>2 DEF ApplyDeletion, AboutToCommit, Finish
    <2>2. /\ c.uid \in Uids /\ c.base \in User /\ c.other \in Uids /\ c.other # c.uid
          /\ users[c.uid] # NoUser /\ users[c.uid].revision = c.base.revision
          /\ users[c.other] # NoUser
      BY <1>b, <2>1 DEF CallShape, WatchedFact, ActorCurrent, TargetCurrent, TokenAccepted
    <2>3. users[c.uid] = c.base
      BY <1>a, <1>b, <2>2, SameRevision, NullAssumption DEF CallRead
    <2> HIDE DEF c
    <2>4. \E a \in Uids \ {c.uid} : users[a] # NoUser
             /\ deletedBy' = [deletedBy EXCEPT ![c.uid] = a]
      BY <2>1, <2>2
    <2>5. users[c.uid].email = c.base.email
      BY <2>3
    <2> QED BY <2>1, <2>2, <2>4, <2>5, RemovalStep DEF c
  <1> QED BY <1>1, <1>2

----------------------------------------------------------------------------
(* The theorems *)

\* The bootstrap administrators satisfy the invariant.
LEMMA InitInv == Init => Inv
  <1> SUFFICES ASSUME Init PROVE Inv
    OBVIOUS
  <1>0. /\ deployment \in Deployment
        /\ Seeds \subseteq Uids /\ SeedEmail \in [Uids -> Emails]
        /\ deployment.retired \subseteq Uids \cup Codes
        /\ \A s, t \in Seeds : SeedEmail[s] = SeedEmail[t] => s = t
    BY SeedAssumption DEF Init, Seeds, Deployment
  <1> USE DEF Init
  <1>1. \A s \in Seeds : SeedUser(s) \in User /\ SeedUser(s).email = SeedEmail[s]
    BY <1>0 DEF SeedUser, User, Status
  <1>2. \A e \in Emails : (\E s \in Seeds : SeedEmail[s] = e) =>
                             /\ emailIndex[e] \in Seeds /\ SeedEmail[emailIndex[e]] = e
    OBVIOUS
  <1>3. \A e \in Emails : (~\E s \in Seeds : SeedEmail[s] = e) => emailIndex[e] = NoUid
    OBVIOUS
  <1>4. \A u \in Uids : users[u] = IF u \in Seeds THEN SeedUser(u) ELSE NoUser
    OBVIOUS
  <1>5. \A s \in Seeds : users[s] = SeedUser(s) /\ users[s] # NoUser /\ users[s].email = SeedEmail[s]
    BY <1>1, <1>4, <1>0, NullAssumption
  <1>6. TypeOK
    <2>1. users \in [Uids -> User \cup {NoUser}]
      BY <1>1
    <2>2. emailIndex \in [Emails -> Uids \cup {NoUid}]
      BY <1>2, <1>3, <1>0
    <2>3. orderIndex \subseteq Emails \X Uids
      BY <1>0
    <2>4. call \in [Procs -> Call]
      BY IdleOK
    <2> QED BY <2>1, <2>2, <2>3, <2>4, <1>0 DEF TypeOK
  <1>7. IndexConsistent
    <2>1. ASSUME NEW e \in Emails, NEW u \in Uids
          PROVE  emailIndex[e] = u <=> (users[u] # NoUser /\ users[u].email = e)
      <3> HIDE DEF Init
      <3>1. CASE u \in Seeds
        BY <1>2, <1>3, <1>5, <3>1, <1>0, NullAssumption
      <3>2. CASE u \notin Seeds
        BY <1>2, <1>3, <1>4, <3>2, NullAssumption
      <3> QED BY <3>1, <3>2
    <2>2. ASSUME NEW x
          PROVE  x \in orderIndex <=> \E w \in Uids : users[w] # NoUser /\ x = <<users[w].email, w>>
      <3>1. x \in orderIndex <=> \E w \in Seeds : x = <<SeedEmail[w], w>>
        OBVIOUS
      <3>2. \A w \in Uids : users[w] # NoUser <=> w \in Seeds
        BY <1>4, <1>5
      <3> HIDE DEF Init
      <3> QED BY <1>0, <1>5, <3>1, <3>2
    <2> QED BY <2>1, <2>2 DEF IndexConsistent
  <1>8. StoredIsIssued /\ DeletionHistory
    BY <1>4 DEF StoredIsIssued, DeletionHistory
  <1>9. CallsOK
    BY IdleOK DEF CallsOK, AboutToCommit
  <1> QED BY <1>6, <1>7, <1>8, <1>9 DEF Inv

\* Every action keeps the invariant.
LEMMA NextInv == Inv /\ [Next]_vars => Inv'
  <1> SUFFICES ASSUME Inv, [Next]_vars PROVE Inv'
    OBVIOUS
  <1>1. ASSUME NEW u \in Uids, NEW e \in Emails, CreateDirectoryUser(u, e) PROVE Inv'
    BY <1>1, CreateStep
  <1>2. ASSUME NEW p \in Procs, Invoke(p) PROVE Inv'
    BY <1>2, InvokeStep
  <1>3. ASSUME NEW p \in Procs, Step(p) PROVE Inv'
    BY <1>3, LocalSteps, UpdateStep, TemporaryStep, DeletionSteps DEF Step
  <1>4. ASSUME NEW p \in Procs, Crash(p) PROVE Inv'
    BY <1>4, LocalSteps
  <1>5. ASSUME NEW k \in Codes, ExpireOob(k) PROVE Inv'
    <2>1. UNCHANGED <<store, call, dirty, history>> /\ oob' = [oob EXCEPT ![k] = NoProof]
      BY <1>5 DEF ExpireOob
    <2>2. TypeOK'
      BY <2>1 DEF Inv, TypeOK, store, history
    <2> QED BY <2>1, <2>2 DEF Inv, IndexConsistent, StoredIsIssued, CallsOK, DeletionHistory,
              AboutToCommit, CallRead, ReadFact, WatchedFact, EmailFree, TemporaryCurrent,
              ActorCurrent, TargetCurrent, TokenAccepted, store, history
  <1>6. CASE UNCHANGED vars
    BY <1>6 DEF vars, store, history, Inv, TypeOK, IndexConsistent, StoredIsIssued, CallsOK,
              DeletionHistory, AboutToCommit, CallRead, ReadFact, WatchedFact, EmailFree,
              TemporaryCurrent, ActorCurrent, TargetCurrent, TokenAccepted
  <1> QED BY <1>1, <1>2, <1>3, <1>4, <1>5, <1>6 DEF Next

\* The inductive invariant, and with it the type invariant and the agreement
\* of the indexes with the stored records.
THEOREM InvHolds == Spec => []Inv
  BY InitInv, NextInv, PTL DEF Spec

\* Every variable keeps its type.
THEOREM TypeCorrect == Spec => []TypeOK
  <1>1. Inv => TypeOK
    BY DEF Inv
  <1> QED BY <1>1, InvHolds, PTL

\* The aliases and the order index agree with the users hash at every point of
\* every interleaving of creates, updates and deletions.
THEOREM IndexCorrect == Spec => []IndexConsistent
  <1>1. Inv => IndexConsistent
    BY DEF Inv
  <1> QED BY <1>1, InvHolds, PTL

\* What an update or a reset is about to overwrite is what it read.
LEMMA CommitsOnBase ==
    ASSUME Inv, NEW p \in Procs, AboutToCommit(p), Updating(call[p])
    PROVE  /\ users[call[p].uid] = call[p].base
           /\ call[p].uid \in Uids /\ call[p].base \in User /\ users[call[p].uid] # NoUser
           /\ CallShape(call[p]) /\ WatchedFact(call[p])
  <1>1. /\ CallShape(call[p]) /\ CallRead(call[p]) /\ WatchedFact(call[p])
        /\ call[p].pc = "watched" /\ TypeOK
    BY DEF Inv, CallsOK, AboutToCommit
  <1>2. /\ call[p].uid \in Uids /\ call[p].base \in User
        /\ users[call[p].uid] # NoUser
        /\ users[call[p].uid].revision = call[p].base.revision
    BY <1>1 DEF CallShape, WatchedFact
  <1> QED BY <1>1, <1>2, SameRevision, NullAssumption DEF CallRead

\* No update is lost: the revision check of UpdateDirectoryUser suffices.
THEOREM UpdatesNotLost == Spec => []NoLostUpdate
  <1>1. Inv => NoLostUpdate
    BY CommitsOnBase DEF NoLostUpdate
  <1> QED BY <1>1, InvHolds, PTL

\* A password reset only ever replaces the generation its code was issued for.
THEOREM ResetsServeProof == Spec => []ResetServesProof
  <1>1. Inv => ResetServesProof
    <2> SUFFICES ASSUME Inv, NEW p \in Procs, AboutToCommit(p), call[p].op = "resetPassword"
                 PROVE  /\ users[call[p].uid].tokenVersion = call[p].proof.tokenVersion
                        /\ users[call[p].uid].email = call[p].proof.email
                        /\ users[call[p].uid].status = "ACTIVE"
      BY DEF ResetServesProof
    <2>1. Updating(call[p]) /\ call[p].pc = "watched"
      BY DEF Updating, AboutToCommit
    <2> QED BY <2>1, CommitsOnBase DEF CallShape
  <1> QED BY <1>1, InvHolds, PTL

\* A deletion's EXEC acts on the two records the service authorised.
THEOREM DeletionsAuthorised == Spec => []DeletionStillAuthorised
  <1>1. Inv => DeletionStillAuthorised
    <2> SUFFICES ASSUME Inv, NEW p \in Procs, AboutToCommit(p), call[p].op = "adminDelete"
                 PROVE  users[call[p].other] = call[p].actor /\ users[call[p].uid] = call[p].base
      BY DEF DeletionStillAuthorised
    <2>1. CallShape(call[p]) /\ CallRead(call[p]) /\ WatchedFact(call[p]) /\ TypeOK
      BY DEF Inv, CallsOK
    <2>2. /\ call[p].uid \in Uids /\ call[p].base \in User
          /\ call[p].other \in Uids /\ call[p].actor \in User
          /\ ReadFact(call[p].uid, call[p].base) /\ ReadFact(call[p].other, call[p].actor)
      BY <2>1, NullAssumption DEF CallShape, CallRead
    <2>3. /\ users[call[p].uid] # NoUser /\ users[call[p].uid].revision = call[p].base.revision
          /\ users[call[p].other] # NoUser
          /\ users[call[p].other].revision = call[p].actor.revision
      BY <2>1 DEF WatchedFact, ActorCurrent, TargetCurrent, TokenAccepted
    <2> QED BY <2>1, <2>2, <2>3, SameRevision
  <1> QED BY <1>1, InvHolds, PTL

\* Administrators cannot delete each other.
THEOREM MutualDeletionImpossible == Spec => []NoMutualDeletion
  <1>1. Inv => NoMutualDeletion
    BY NullAssumption DEF Inv, DeletionHistory, NoMutualDeletion
  <1> QED BY <1>1, InvHolds, PTL

\* The records of issued users: unchanged, gone, or advanced with the sessions.
SessionStep ==
    \A u \in Uids :
        u \in issued =>
            \/ users'[u] = users[u]
            \/ users'[u] = NoUser
            \/ users[u] # NoUser /\ KeepsSessions(users[u], users'[u])

\* No step brings back a token generation that an earlier step has ended.
LEMMA NextSessions == Inv /\ [Next]_vars => SessionStep
  <1> SUFFICES ASSUME Inv, [Next]_vars, users' # users PROVE SessionStep
    BY DEF SessionStep
  <1>a. TypeOK
    BY DEF Inv
  <1>1. ASSUME NEW u \in Uids, NEW e \in Emails, CreateDirectoryUser(u, e) PROVE SessionStep
    BY <1>a, <1>1 DEF CreateDirectoryUser, SessionStep, TypeOK
  <1>2. ASSUME NEW p \in Procs, UpdateDirectoryUser(p) PROVE SessionStep
    <2> DEFINE c == call[p]
    <2>1. Updating(c) /\ AboutToCommit(p) /\ c.pc = "watched" /\ StoreUser(c.uid, c.prev, c.rec)
      BY <1>2 DEF UpdateDirectoryUser, AboutToCommit
    <2>2. /\ c.uid \in Uids /\ users[c.uid] = c.base /\ c.base # NoUser
          /\ c.rec \in User /\ KeepsSessions(c.base, c.rec)
      BY <2>1, CommitsOnBase DEF CallShape
    <2> HIDE DEF c
    <2>3. users'[c.uid] = Advanced(c.rec) /\ \A v \in Uids \ {c.uid} : users'[v] = users[v]
      BY <1>a, <2>1, <2>2 DEF StoreUser, TypeOK
    <2>4. KeepsSessions(c.base, Advanced(c.rec))
      <3>1. /\ Advanced(c.rec).tokenVersion = c.rec.tokenVersion
            /\ Advanced(c.rec).status = c.rec.status
            /\ Advanced(c.rec).changeRequired = c.rec.changeRequired
        BY <2>2 DEF Advanced, User
      <3> QED BY <2>2, <3>1 DEF KeepsSessions
    <2> QED BY <2>2, <2>3, <2>4 DEF SessionStep
  <1>3. ASSUME NEW p \in Procs, ConsumeTemporaryPassword(p) PROVE SessionStep
    <2> DEFINE u == call[p].uid
               w == WithPassword(users[u])
    <2>1. /\ AboutToCommit(p) /\ call[p].op = "changeTemporary"
          /\ users' = [users EXCEPT ![u] = Advanced(w)]
      BY <1>3 DEF ConsumeTemporaryPassword, AboutToCommit
    <2>2. u \in Uids /\ users[u] # NoUser /\ users[u] \in User
      BY <1>a, <2>1 DEF Inv, CallsOK, CallShape, WatchedFact, TemporaryCurrent, TypeOK
    <2>3. w \in User /\ users[u].tokenVersion < w.tokenVersion /\ ~w.changeRequired
      <3>1. Bumped(users[u]) \in User /\ users[u].tokenVersion < Bumped(users[u]).tokenVersion
        BY <2>2 DEF Bumped, User
      <3>2. ASSUME NEW x \in User
            PROVE  LET d == [x EXCEPT !.password = @ + 1, !.changeRequired = FALSE] IN
                   d.tokenVersion = x.tokenVersion /\ ~d.changeRequired
        BY DEF User
      <3>3. w \in User
        BY <2>2, WantedOK DEF User, Status
      <3> QED BY <3>1, <3>2, <3>3 DEF WithPassword
    <2> HIDE DEF w, u
    <2>4. /\ Advanced(w).tokenVersion = w.tokenVersion
          /\ Advanced(w).changeRequired = w.changeRequired
      BY <2>3 DEF Advanced, User
    <2> QED BY <1>a, <2>1, <2>2, <2>3, <2>4 DEF SessionStep, KeepsSessions, TypeOK
  <1>4. ASSUME NEW p \in Procs, DeleteByEmail(p) PROVE SessionStep
    BY <1>a, <1>4 DEF DeleteByEmail, RemoveUser, SessionStep, TypeOK
  <1>5. ASSUME NEW p \in Procs, ApplyDeletion(p) PROVE SessionStep
    BY SMTT(60), <1>a, <1>5 DEF ApplyDeletion, RemoveUser, SessionStep, TypeOK
  <1>6. ASSUME NEW p \in Procs, Invoke(p) PROVE users' = users
    BY <1>6 DEF Invoke, SetStatus, RevokeTokens, RevokeIDTokenSubject, UpdateUser, SendOob,
              ConsumeSubjectOobCode, ChangeTemporaryPassword, DeleteUser, DeleteDirectoryUser, store
  <1>7. ASSUME NEW p \in Procs,
               \/ ObserveUser(p) \/ WatchUser(p) \/ ExecFails(p) \/ WatchTemporary(p)
               \/ ResolveAlias(p) \/ WatchSelfDelete(p) \/ WatchAdminDelete(p)
               \/ ResolveOobSubject(p) \/ Crash(p) \/ \E k \in Codes : SaveSubjectOobCode(p, k)
        PROVE  users' = users
    BY <1>7 DEF ObserveUser, WatchUser, ExecFails, WatchTemporary, ResolveAlias, WatchSelfDelete,
              WatchAdminDelete, ResolveOobSubject, Crash, SaveSubjectOobCode, store
  <1>8. ASSUME NEW k \in Codes, ExpireOob(k) PROVE users' = users
    BY <1>8 DEF ExpireOob, store
  <1>9. CASE UNCHANGED vars
    BY <1>9 DEF vars, store
  <1>10. ASSUME NEW p \in Procs, Step(p) PROVE SessionStep
    BY <1>2, <1>3, <1>4, <1>5, <1>7, <1>10 DEF Step
  <1> QED BY <1>1, <1>6, <1>7, <1>8, <1>9, <1>10 DEF Next

\* A session that was once refused is refused for ever.
THEOREM SessionsStayDead == Spec => DeadSessionsStayDead
  <1> DEFINE Dead == \A u \in Uids, v \in 0..MaxRevision :
                         Minted(u, v) /\ ~Accepts(u, v) => ~Accepts(u, v)'
  <1>1. Inv /\ [Next]_vars => Dead
    <2> SUFFICES ASSUME Inv, [Next]_vars, NEW u \in Uids, NEW v \in 0..MaxRevision,
                        Minted(u, v), ~Accepts(u, v), Accepts(u, v)'
                 PROVE  FALSE
      OBVIOUS
    <2>1. Inv' /\ SessionStep
      BY NextInv, NextSessions
    <2>2. /\ users[u] \in User \cup {NoUser} /\ users'[u] \in User
          /\ users'[u] # NoUser /\ u \in issued /\ v \in Nat
      BY <2>1, BoundAssumption, NullAssumption DEF Inv, TypeOK, Minted, Accepts, TokenAccepted
    <2>3. users[u] # users'[u]
      BY DEF Accepts, TokenAccepted
    <2>4. users[u] # NoUser /\ KeepsSessions(users[u], users'[u])
      BY <2>1, <2>2, <2>3 DEF SessionStep
    <2>5. v <= users[u].tokenVersion /\ v = users'[u].tokenVersion
      BY <2>4 DEF Minted, Accepts
    <2>6. users[u].tokenVersion \in Nat /\ users'[u].tokenVersion \in Nat
      BY <2>2, <2>4 DEF User
    <2> QED BY <2>2, <2>4, <2>5, <2>6 DEF KeepsSessions, Accepts, TokenAccepted
  <1>2. DeadSessionsStayDead <=> [][Dead]_vars
    BY DEF DeadSessionsStayDead
  <1> QED BY <1>1, <1>2, InvHolds, PTL DEF Spec

----------------------------------------------------------------------------
(* The temporary password *)

\* An account whose temporary password was exchanged has no temporary one.
TemporaryHistory ==
    \A u \in Uids :
        tempUses[u] # 0 =>
            /\ tempUses[u] = 1 /\ u \in issued
            /\ users[u] # NoUser => ~users[u].changeRequired

\* Only the exchange counts, and it finds the password still temporary.
LEMMA NextTemporary == Inv /\ TemporaryHistory /\ [Next]_vars => TemporaryHistory'
  <1> SUFFICES ASSUME Inv, TemporaryHistory, [Next]_vars, NEW u \in Uids, tempUses'[u] # 0
               PROVE  /\ tempUses'[u] = 1 /\ u \in issued'
                      /\ users'[u] # NoUser => ~users'[u].changeRequired
    BY DEF TemporaryHistory
  <1>1. TypeOK /\ TypeOK' /\ SessionStep
    BY SMTT(60), NextInv, NextSessions DEF Inv
  <1>2. issued \subseteq issued'
    BY ZenonT(60) DEF Next, Invoke, Step, vars, store, CreateDirectoryUser, SetStatus, RevokeTokens,
           RevokeIDTokenSubject, UpdateUser, SendOob, ConsumeSubjectOobCode,
           ChangeTemporaryPassword, DeleteUser, DeleteDirectoryUser, ObserveUser, WatchUser,
           ExecFails, UpdateDirectoryUser, SaveSubjectOobCode, ResolveOobSubject, WatchTemporary,
           ConsumeTemporaryPassword, ResolveAlias, WatchSelfDelete, DeleteByEmail,
           WatchAdminDelete, ApplyDeletion, Crash, ExpireOob
  <1>3. CASE tempUses'[u] = tempUses[u]
    <2>1. /\ tempUses[u] = 1 /\ u \in issued
          /\ users[u] # NoUser => ~users[u].changeRequired
      BY <1>3 DEF TemporaryHistory
    <2>2. users'[u] # NoUser => ~users'[u].changeRequired
      BY <1>1, <2>1 DEF SessionStep, KeepsSessions
    <2> QED BY <1>2, <1>3, <2>1, <2>2
  <1>4. CASE tempUses'[u] # tempUses[u]
    <2>1. PICK p \in Procs : ConsumeTemporaryPassword(p)
      BY <1>4 DEF Next, Invoke, Step, vars, history, CreateDirectoryUser, SetStatus, RevokeTokens,
           RevokeIDTokenSubject, UpdateUser, SendOob, ConsumeSubjectOobCode,
           ChangeTemporaryPassword, DeleteUser, DeleteDirectoryUser, ObserveUser, WatchUser,
           ExecFails, UpdateDirectoryUser, SaveSubjectOobCode, ResolveOobSubject, WatchTemporary,
           ResolveAlias, WatchSelfDelete, DeleteByEmail, WatchAdminDelete, ApplyDeletion, Crash,
           ExpireOob
    <2> DEFINE c == call[p]
    <2>2. /\ AboutToCommit(p) /\ c.op = "changeTemporary"
          /\ tempUses' = [tempUses EXCEPT ![c.uid] = @ + 1]
          /\ users' = [users EXCEPT ![c.uid] = Advanced(WithPassword(users[c.uid]))]
      BY <2>1 DEF ConsumeTemporaryPassword, AboutToCommit
    <2>3. c.uid \in Uids /\ TemporaryCurrent(c) /\ StoredIsIssued
      BY <2>2 DEF Inv, CallsOK, CallShape, WatchedFact
    <2>4. u = c.uid /\ users[u] # NoUser /\ users[u].changeRequired /\ u \in issued
      BY <1>1, <1>4, <2>2, <2>3 DEF TypeOK, TemporaryCurrent, Temporary, StoredIsIssued
    <2>5. tempUses[u] = 0 /\ tempUses'[u] = 1
      BY <1>1, <2>2, <2>4 DEF TypeOK, TemporaryHistory
    <2>6. users[u] \in User /\ users'[u] = Advanced(WithPassword(users[u]))
      BY <1>1, <2>2, <2>4 DEF TypeOK
    <2>7. ~users'[u].changeRequired
      <3>1. Bumped(users[u]) \in User
        BY <2>6 DEF Bumped, User
      <3>2. ASSUME NEW x \in User
            PROVE  ~[x EXCEPT !.password = @ + 1, !.changeRequired = FALSE].changeRequired
        BY DEF User
      <3>3. WithPassword(users[u]) \in User /\ ~WithPassword(users[u]).changeRequired
        BY <2>6, <3>1, <3>2, WantedOK DEF WithPassword, User, Status
      <3>4. ASSUME NEW x \in User, ~x.changeRequired PROVE ~Advanced(x).changeRequired
        BY <3>4 DEF Advanced, User
      <3> QED BY <2>6, <3>3, <3>4
    <2> QED BY <1>2, <2>4, <2>5, <2>7
  <1> QED BY <1>3, <1>4

\* However many holders of a temporary password race to exchange it, in however
\* many requests, at most one of them succeeds (ConsumeTemporaryPassword).
THEOREM TemporaryPasswordsOnce == Spec => []TemporaryPasswordOnce
  <1>1. Init => TemporaryHistory
    BY DEF Init, TemporaryHistory
  <1>2. Spec => []TemporaryHistory
    BY <1>1, NextTemporary, InvHolds, PTL DEF Spec
  <1>3. TemporaryHistory /\ Inv => TemporaryPasswordOnce
    BY DEF TemporaryHistory, TemporaryPasswordOnce, Inv, TypeOK
  <1> QED BY <1>2, <1>3, InvHolds, PTL
=============================================================================
