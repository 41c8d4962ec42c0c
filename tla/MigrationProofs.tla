--------------------------- MODULE MigrationProofs ---------------------------
(***************************************************************************)
(* What the startup migration leaves behind, for any number of accounts,   *)
(* replicas, restarts and lost leases.                                     *)
(*                                                                         *)
(* The lease does not make the migration safe: a replica that lost it      *)
(* without noticing still writes.  What does is that nothing is removed    *)
(* before the marker is set (NothingRemoved), so that what one replica has *)
(* found or written still stands when it completes (Sound), whoever else   *)
(* wrote the same meanwhile; and that two accounts with one address stop   *)
(* every replica at its scan.                                              *)
(***************************************************************************)
EXTENDS Migration, TLAPS

Labels == Working \cup {"down", "marker", "acquire", "recheck", "serving"}

TypeOK ==
    /\ input \in Input
    /\ legacy \subseteq Uids /\ memberships \subseteq Uids
    /\ users \in [Uids -> Content \cup {NoRecord}]
    /\ aliases \in [Emails -> Uids \cup {NoUid}]
    /\ assignments \in [Uids -> Roles \cup {NoRole, Edited}]
    /\ marker \in BOOLEAN
    /\ lock \in Replicas \cup {NoOwner, Orphan}
    /\ pc \in [Replicas -> Labels]
    /\ work \in [Replicas -> Work]
    /\ faults \in Nat
    /\ boot \in [pc: {"start", "importing", "update", "assign", "done"}, seen: Content, dirty: BOOLEAN]
    /\ deleted \subseteq Uids /\ revoked \subseteq Uids

Taken == input.legacy \cup input.current
Placed(u) == users[u] # NoRecord /\ aliases[EmailOf[u]] = u
Member(u) == input.legacyRole[u] # NoRole \/ input.guardedRole[u] # NoRole

\* Only accounts of the deployment are stored.
Origins ==
    /\ legacy \subseteq input.legacy
    /\ \A u \in Uids : users[u] # NoRecord => u \in Taken
    /\ boot.pc # "done" => input.bootstraps
    /\ boot.pc = "importing" => BootUser \in Taken

\* Nobody administers before the marker is set.
NothingRemoved ==
    ~marker => /\ legacy = input.legacy /\ memberships = Uids
               /\ deleted = {} /\ revoked = {}
               /\ \A u \in input.current : users[u] # NoRecord

Unclaimed ==
    AmbiguousInput => /\ ~marker
                      /\ \A u \in Uids : users[u] # NoRecord =>
                             u \in input.current \/ (input.bootstraps /\ u = BootUser)

Projected ==
    marker => \A u \in Uids :
        /\ u \in Taken \ deleted => Placed(u)
        /\ Member(u) => assignments[u] # NoRole \/ u \in deleted \cup revoked

GuardedWins ==
    \A u \in Uids : assignments[u] # NoRole /\ input.guardedRole[u] # NoRole =>
        \/ assignments[u] \in {input.guardedRole[u], Edited}
        \/ input.bootstraps /\ u = BootUser /\ assignments[u] = BootRole

\* What a replica that is at "l" with local variables "w" has in hand.
InHand(l, w) ==
    /\ \A u \in Uids : w.byID[u] # NoRecord => u \in Taken
    /\ l \in {"users", "writeUser"} => \A u \in w.todo : w.byID[u] # NoRecord
    /\ l \in {"pairs", "putPair"} =>
           /\ \A u \in w.todo : w.roles[u] # NoRole
           /\ \A u \in Uids : w.roles[u] # NoRole /\ input.guardedRole[u] # NoRole =>
                  w.roles[u] = input.guardedRole[u]
    /\ l \in {"writeUser", "putPair"} => w.uid \in w.todo

\* What it has done so far, while the migration is not complete.
Done(l, w) ==
    /\ l = "scanLegacy" => \A u \in input.current : w.byID[u] # NoRecord
    /\ l \in {"users", "writeUser"} => \A u \in Taken : u \in w.todo \/ Placed(u)
    /\ l \in {"memberships", "pairs", "putPair", "complete"} => \A u \in Taken : Placed(u)
    /\ l \in {"pairs", "putPair"} =>
           \A u \in Uids : Member(u) => u \in w.todo \/ assignments[u] # NoRole
    /\ l = "complete" => \A u \in Uids : Member(u) => assignments[u] # NoRole

PastScans == Working \ {"scanV2", "scanLegacy"}

Sound(l, w) ==
    /\ l = "serving" => marker
    /\ l \in PastScans => ~AmbiguousInput
    /\ InHand(l, w)
    /\ ~marker => Done(l, w)

Stores == Origins /\ NothingRemoved /\ Unclaimed /\ Projected /\ GuardedWins

MigrationInv ==
    /\ TypeOK
    /\ Stores
    /\ \A r \in Replicas : Sound(pc[r], work[r])

\* Where one replica migrates by itself: it works on nothing once the marker is
\* set, and it writes over an account only what it found there.
AloneAt(r, l, w) ==
    /\ r \notin input.replicas => l = "down"
    /\ marker => l \in {"down", "marker", "serving"}
    /\ l = "scanLegacy" => w.byID = users
    /\ l \in {"users", "writeUser"} =>
           \A u \in Uids : users[u] # NoRecord => w.byID[u] = users[u]

Alone ==
    Undisturbed =>
    /\ boot.pc = "done"
    /\ \A r \in Replicas : AloneAt(r, pc[r], work[r])
    /\ \A u \in deleted : users[u] = NoRecord
    /\ \A u \in revoked : assignments[u] = NoRole

----------------------------------------------------------------------------
(* Local variables of a replica *)

LEMMA NoWorkIsWork ==
    /\ NoWork \in Work
    /\ \A u \in Uids : NoWork.byID[u] = NoRecord /\ NoWork.roles[u] = NoRole
    /\ NoWork.todo = {}
BY DEF NoWork, Work

LEMMA WorkFields ==
    ASSUME NEW w \in Work
    PROVE  /\ w.byID \in [Uids -> Content \cup {NoRecord}]
           /\ w.roles \in [Uids -> Roles \cup {NoRole}]
           /\ w.todo \subseteq Uids /\ w.uid \in Uids \cup {NoUid}
BY DEF Work

\* Another replica's work, and one's own, keep what they rest on.
LEMMA SoundStays ==
    ASSUME NEW l, NEW w, Sound(l, w), input' = input,
           marker => marker',
           ~marker /\ ~AmbiguousInput =>
               /\ \A u \in Taken : Placed(u) => Placed(u)'
               /\ \A u \in Uids : assignments[u] # NoRole => assignments'[u] # NoRole
    PROVE  Sound(l, w)'
<1>1. Taken' = Taken /\ (AmbiguousInput' <=> AmbiguousInput) /\ \A u : Member(u)' <=> Member(u)
  BY DEF Taken, AmbiguousInput, Member
<1>2. InHand(l, w)'
  BY <1>1 DEF Sound, InHand
<1>3. ASSUME ~marker' PROVE Done(l, w)'
  <2>1. Done(l, w)
    BY <1>3 DEF Sound
  <2>2. l = "scanLegacy" => \A u \in input'.current : w.byID[u] # NoRecord
    BY <2>1 DEF Done
  <2>3. CASE l \in PastScans
    <3>1. /\ \A u \in Taken : Placed(u) => Placed(u)'
          /\ \A u \in Uids : assignments[u] # NoRole => assignments'[u] # NoRole
      BY <1>3, <2>3 DEF Sound
    <3>2. l # "scanLegacy"
      BY <2>3 DEF PastScans
    <3> QED BY <1>1, <2>1, <3>1, <3>2 DEF Done
  <2>4. CASE l \notin PastScans
    <3>1. l \notin {"users", "writeUser", "memberships", "pairs", "putPair", "complete"}
      BY <2>4 DEF PastScans, Working
    <3> QED BY <2>2, <3>1 DEF Done
  <2> QED BY <2>3, <2>4
<1> QED BY <1>1, <1>2, <1>3 DEF Sound

\* A step that leaves Redis as it is.
LEMMA LocalStep ==
    ASSUME MigrationInv, NEW r \in Replicas, NEW l \in Labels, NEW w \in Work,
           Goes(r, l), Keeps(r, w), Sound(l, w),
           UNCHANGED <<input, redis, marker, history>>, boot' = boot,
           lock' \in Replicas \cup {NoOwner, Orphan}, faults' \in Nat
    PROVE  MigrationInv'
<1>0. UNCHANGED <<legacy, memberships, users, aliases, assignments, deleted, revoked>>
  BY DEF redis, history
<1>1. TypeOK'
  BY <1>0 DEF MigrationInv, TypeOK, Goes, Keeps
<1>2. Stores'
  BY <1>0 DEF MigrationInv, Stores, Origins, NothingRemoved, Unclaimed, Projected, GuardedWins,
              Taken, Placed, Member, AmbiguousInput
<1>3. \A k, v : Sound(k, v) => Sound(k, v)'
  BY <1>0, SoundStays DEF Placed
<1>4. ASSUME NEW q \in Replicas PROVE Sound(pc[q], work[q])'
  <2>1. CASE q = r
    <3>1. pc'[q] = l /\ work'[q] = w
      BY <2>1 DEF Goes, Keeps, MigrationInv, TypeOK
    <3>2. Sound(l, w)'
      BY <1>3
    <3> QED BY <3>1, <3>2 DEF Sound, InHand, Done
  <2>2. CASE q # r
    <3>1. PICK k, v : k = pc[q] /\ v = work[q]
      OBVIOUS
    <3>2. pc'[q] = k /\ work'[q] = v
      BY <2>2, <3>1 DEF Goes, Keeps, MigrationInv, TypeOK
    <3>3. Sound(k, v)'
      BY <1>3, <3>1 DEF MigrationInv
    <3> QED BY <3>2, <3>3 DEF Sound, InHand, Done
  <2> QED BY <2>1, <2>2
<1> QED BY <1>1, <1>2, <1>4 DEF MigrationInv

----------------------------------------------------------------------------
(* Steps of a replica that write nothing *)

\* Labels at which a replica has nothing in hand.
LEMMA SoundIdle ==
    ASSUME NEW l \in {"down", "marker", "acquire", "recheck", "scanV2"}, NEW w,
           \A u \in Uids : w.byID[u] # NoRecord => u \in Taken
    PROVE  Sound(l, w)
BY DEF Sound, InHand, Done, PastScans, Working

LEMMA SoundServing ==
    ASSUME marker, NEW w, \A u \in Uids : w.byID[u] # NoRecord => u \in Taken
    PROVE  Sound("serving", w)
BY DEF Sound, InHand, Done, PastScans, Working

LEMMA LocalSteps ==
    ASSUME MigrationInv, NEW r \in Replicas,
           \/ Start(r) \/ CheckMarker(r) \/ Acquire(r) \/ Recheck(r)
           \/ Refuses(r) \/ Renew(r) \/ RenewFails(r) \/ Crash(r)
    PROVE  MigrationInv'
<1>1. PICK l, w : l = pc[r] /\ w = work[r]
  OBVIOUS
<1>2. /\ l \in Labels /\ w \in Work /\ lock \in Replicas \cup {NoOwner, Orphan} /\ faults \in Nat
      /\ Sound(l, w)
  BY <1>1 DEF MigrationInv, TypeOK
<1>3. \A u \in Uids : w.byID[u] # NoRecord => u \in Taken
  BY <1>2 DEF Sound, InHand
<1>4. work' = work => Keeps(r, w)
  BY <1>1 DEF Keeps, MigrationInv, TypeOK
<1>5. {"down", "marker", "acquire", "recheck", "scanV2", "serving"} \subseteq Labels
  BY DEF Labels, Working
<1>6. Sound("down", NoWork) /\ Sound("marker", NoWork) /\ NoWork \in Work
  BY SoundIdle, NoWorkIsWork
<1>7. CASE Start(r)
  BY <1>2, <1>5, <1>6, <1>7, LocalStep DEF Start
<1>8. CASE CheckMarker(r)
  <2>1. PICK k : k = IF marker THEN "serving" ELSE "acquire"
    OBVIOUS
  <2>2. Sound(k, w) /\ k \in Labels
    BY <1>3, <1>5, <2>1, SoundIdle, SoundServing
  <2>3. Goes(r, k)
    BY <1>8, <2>1 DEF CheckMarker
  <2> QED BY <1>2, <1>4, <1>8, <2>2, <2>3, LocalStep DEF CheckMarker
<1>9. CASE Acquire(r)
  <2>1. PICK k : k = IF lock = NoOwner THEN "scanV2" ELSE "recheck"
    OBVIOUS
  <2>2. Sound(k, w) /\ k \in Labels
    BY <1>3, <1>5, <2>1, SoundIdle
  <2>3. Goes(r, k) /\ lock' \in Replicas \cup {NoOwner, Orphan}
    BY <1>2, <1>9, <2>1 DEF Acquire
  <2> QED BY <1>2, <1>4, <1>9, <2>2, <2>3, LocalStep DEF Acquire
<1>10. CASE Recheck(r)
  <2>1. PICK k : k = IF marker THEN "serving" ELSE "down"
    OBVIOUS
  <2>2. Sound(k, w) /\ k \in Labels
    BY <1>3, <1>5, <2>1, SoundIdle, SoundServing
  <2>3. Goes(r, k)
    BY <1>10, <2>1 DEF Recheck
  <2> QED BY <1>2, <1>4, <1>10, <2>2, <2>3, LocalStep DEF Recheck
<1>11. CASE Refuses(r)
  <2>1. lock' \in Replicas \cup {NoOwner, Orphan}
    BY <1>2, <1>11 DEF Refuses, Released, Abandoned
  <2> QED BY <1>2, <1>5, <1>6, <1>11, <2>1, LocalStep DEF Refuses
<1>12. CASE Crash(r)
  <2>1. lock' \in Replicas \cup {NoOwner, Orphan} /\ faults' \in Nat
    BY <1>2, <1>12 DEF Crash, Abandoned
  <2> QED BY <1>2, <1>5, <1>6, <1>12, <2>1, LocalStep DEF Crash
<1>13. CASE Renew(r) \/ RenewFails(r)
  <2>1. PICK v : v = [w EXCEPT !.cancelled = TRUE]
    OBVIOUS
  <2>2. v \in Work /\ v.byID = w.byID /\ v.todo = w.todo /\ v.roles = w.roles /\ v.uid = w.uid
    BY <1>2, <2>1 DEF Work
  <2>3. Sound(l, v)
    BY <1>2, <2>2 DEF Sound, InHand, Done
  <2>4. Goes(r, l) /\ Keeps(r, v)
    BY <1>1, <1>13, <2>1 DEF Renew, RenewFails, Goes, MigrationInv, TypeOK
  <2>5. /\ UNCHANGED <<input, redis, marker, history>> /\ boot' = boot
        /\ lock' = lock /\ faults' \in Nat
    BY <1>2, <1>13 DEF Renew, RenewFails
  <2> QED BY <1>2, <2>2, <2>3, <2>4, <2>5, LocalStep
<1> QED BY <1>7, <1>8, <1>9, <1>10, <1>11, <1>12, <1>13

LEMMA ScanSteps ==
    ASSUME MigrationInv, NEW r \in Replicas, ScanV2(r) \/ ScanLegacy(r)
    PROVE  MigrationInv'
<1>1. PICK w : w = work[r]
  OBVIOUS
<1>2. w \in Work /\ lock \in Replicas \cup {NoOwner, Orphan} /\ faults \in Nat /\ Sound(pc[r], w)
  BY <1>1 DEF MigrationInv, TypeOK
<1>3. {"scanLegacy", "users"} \subseteq Labels
  BY DEF Labels, Working
<1>4. CASE ScanV2(r)
  <2>1. PICK v : v = [w EXCEPT !.byID = users]
    OBVIOUS
  <2>2. v \in Work /\ v.byID = users
    BY <1>2, <2>1 DEF Work, MigrationInv, TypeOK
  <2>3. Sound("scanLegacy", v)
    BY <2>2 DEF Sound, InHand, Done, PastScans, MigrationInv, Stores, Origins, NothingRemoved
  <2>4. Goes(r, "scanLegacy") /\ Keeps(r, v) /\ UNCHANGED <<input, redis, marker, lock, faults, boot, history>>
    BY <1>1, <1>4, <2>1 DEF ScanV2
  <2> QED BY <1>2, <1>3, <2>2, <2>3, <2>4, LocalStep
<1>5. CASE ScanLegacy(r)
  <2> DEFINE byID == Merged(w.byID)
             todo == {u \in Uids : byID[u] # NoRecord}
  <2>1. PICK v : v = [w EXCEPT !.byID = byID, !.todo = todo]
    OBVIOUS
  <2>2. byID \in [Uids -> Content \cup {NoRecord}]
    BY <1>2, WorkFields DEF Merged, Content
  <2>3. /\ Goes(r, "users") /\ Keeps(r, v) /\ UNCHANGED <<input, redis, marker, lock, faults, boot, history>>
        /\ pc[r] = "scanLegacy" /\ ~Ambiguous(byID)
    BY <1>1, <1>5, <2>1 DEF ScanLegacy, At
  <2>4. \A u \in Uids : byID[u] # NoRecord <=> w.byID[u] # NoRecord \/ u \in legacy
    BY <1>2, WorkFields, MigrationAssumption DEF Merged, Content
  <2> HIDE DEF byID
  <2>5. v \in Work /\ v.byID = byID /\ v.todo = todo
    BY <1>2, <2>1, <2>2 DEF Work
  <2>6. \A u \in Uids : byID[u] # NoRecord => u \in Taken
    BY <1>2, <2>4 DEF Sound, InHand, Taken, MigrationInv, Stores, Origins
  <2>7. ~marker => \A u \in Taken : byID[u] # NoRecord
    <3>1. Taken \subseteq Uids
      BY DEF Taken, MigrationInv, TypeOK, Input
    <3> QED BY <1>2, <2>3, <2>4, <3>1 DEF Sound, Done, Taken, MigrationInv, Stores, NothingRemoved
  <2>8. ~AmbiguousInput
    <3>1. Taken \subseteq Uids
      BY DEF Taken, MigrationInv, TypeOK, Input
    <3>2. AmbiguousInput => ~marker
      BY DEF MigrationInv, Stores, Unclaimed
    <3> QED BY <2>3, <2>7, <3>1, <3>2 DEF AmbiguousInput, Ambiguous, Taken
  <2>9. Sound("users", v)
    <3>1. Taken \subseteq Uids
      BY DEF Taken, MigrationInv, TypeOK, Input
    <3> QED BY <2>5, <2>6, <2>7, <2>8, <3>1 DEF Sound, InHand, Done
  <2> QED BY <1>2, <1>3, <2>3, <2>5, <2>9, LocalStep
<1> QED BY <1>4, <1>5

LEMMA WalkSteps ==
    ASSUME MigrationInv, NEW r \in Replicas,
           \/ UsersDone(r) \/ ScanMemberships(r) \/ PairsDone(r)
           \/ \E u \in Uids : CheckAlias(r, u) \/ CheckPair(r, u)
    PROVE  MigrationInv'
<1>1. PICK w : w = work[r]
  OBVIOUS
<1>2. /\ w \in Work /\ lock \in Replicas \cup {NoOwner, Orphan} /\ faults \in Nat
      /\ Sound(pc[r], w)
  BY <1>1 DEF MigrationInv, TypeOK
<1>3. {"writeUser", "memberships", "pairs", "putPair", "complete"} \subseteq Labels
  BY DEF Labels, Working
<1>4. Taken \subseteq Uids
  BY DEF Taken, MigrationInv, TypeOK, Input
<1>5. work' = work => Keeps(r, w)
  BY <1>1 DEF Keeps, MigrationInv, TypeOK
<1>6. ASSUME NEW u \in Uids, CheckAlias(r, u) PROVE MigrationInv'
  <2>1. PICK v : v = [w EXCEPT !.uid = u]
    OBVIOUS
  <2>2. v \in Work /\ v.byID = w.byID /\ v.todo = w.todo /\ v.roles = w.roles /\ v.uid = u
    BY <1>2, <2>1 DEF Work
  <2>3. /\ Goes(r, "writeUser") /\ Keeps(r, v) /\ UNCHANGED <<input, redis, marker, lock, faults, boot, history>>
        /\ pc[r] = "users" /\ u \in w.todo
    BY <1>1, <1>6, <2>1 DEF CheckAlias, At
  <2>4. Sound("writeUser", v)
    BY <1>2, <2>2, <2>3 DEF Sound, InHand, Done, PastScans, Working
  <2> QED BY <1>2, <1>3, <2>2, <2>3, <2>4, LocalStep
<1>7. CASE UsersDone(r)
  <2>1. /\ Goes(r, "memberships") /\ Keeps(r, w) /\ UNCHANGED <<input, redis, marker, lock, faults, boot, history>>
        /\ pc[r] = "users" /\ w.todo = {}
    BY <1>1, <1>5, <1>7 DEF UsersDone, At
  <2>2. Sound("memberships", w)
    BY <1>2, <2>1 DEF Sound, InHand, Done, PastScans, Working
  <2> QED BY <1>2, <1>3, <2>1, <2>2, LocalStep
<1>8. CASE ScanMemberships(r)
  <2> DEFINE roles == [u \in Uids |-> Candidate(u)]
             todo == {u \in Uids : roles[u] # NoRole}
  <2>1. PICK v : v = [w EXCEPT !.roles = roles, !.todo = todo]
    OBVIOUS
  <2>2. roles \in [Uids -> Roles \cup {NoRole}]
    BY DEF Candidate, MigrationInv, TypeOK, Input
  <2>3. \A u \in Uids : /\ roles[u] # NoRole /\ input.guardedRole[u] # NoRole => roles[u] = input.guardedRole[u]
                        /\ ~marker /\ Member(u) => roles[u] # NoRole
    BY DEF Candidate, Member, MigrationInv, Stores, NothingRemoved
  <2>4. /\ Goes(r, "pairs") /\ Keeps(r, v) /\ UNCHANGED <<input, redis, marker, lock, faults, boot, history>>
        /\ pc[r] = "memberships"
    BY <1>1, <1>8, <2>1 DEF ScanMemberships, At
  <2> HIDE DEF roles
  <2>5. v \in Work /\ v.byID = w.byID /\ v.todo = todo /\ v.roles = roles
    BY <1>2, <2>1, <2>2 DEF Work
  <2>6. Sound("pairs", v)
    BY <1>2, <2>3, <2>4, <2>5 DEF Sound, InHand, Done, PastScans, Working
  <2> QED BY <1>2, <1>3, <2>4, <2>5, <2>6, LocalStep
<1>9. ASSUME NEW u \in Uids, CheckPair(r, u), assignments[u] # NoRole PROVE MigrationInv'
  <2>1. PICK v : v = [w EXCEPT !.todo = w.todo \ {u}]
    OBVIOUS
  <2>2. v \in Work /\ v.byID = w.byID /\ v.todo = w.todo \ {u} /\ v.roles = w.roles
    BY <1>2, <2>1 DEF Work
  <2>3. /\ Keeps(r, v) /\ UNCHANGED <<input, redis, marker, lock, faults, boot, history>>
        /\ pc[r] = "pairs" /\ pc' = pc
    BY <1>1, <1>9, <2>1 DEF CheckPair, At
  <2>4. Goes(r, "pairs")
    BY <2>3 DEF Goes, MigrationInv, TypeOK
  <2>5. Sound("pairs", v)
    BY <1>2, <1>9, <2>2, <2>3 DEF Sound, InHand, Done, PastScans, Working
  <2> QED BY <1>2, <1>3, <2>2, <2>3, <2>4, <2>5, LocalStep
<1>10. ASSUME NEW u \in Uids, CheckPair(r, u), assignments[u] = NoRole PROVE MigrationInv'
  <2>1. PICK v : v = [w EXCEPT !.uid = u]
    OBVIOUS
  <2>2. v \in Work /\ v.byID = w.byID /\ v.todo = w.todo /\ v.roles = w.roles /\ v.uid = u
    BY <1>2, <2>1 DEF Work
  <2>3. /\ Goes(r, "putPair") /\ Keeps(r, v) /\ UNCHANGED <<input, redis, marker, lock, faults, boot, history>>
        /\ pc[r] = "pairs" /\ u \in w.todo
    BY <1>1, <1>10, <2>1 DEF CheckPair, At
  <2>4. Sound("putPair", v)
    BY <1>2, <2>2, <2>3 DEF Sound, InHand, Done, PastScans, Working
  <2> QED BY <1>2, <1>3, <2>2, <2>3, <2>4, LocalStep
<1>11. CASE PairsDone(r)
  <2>1. /\ Goes(r, "complete") /\ Keeps(r, w) /\ UNCHANGED <<input, redis, marker, lock, faults, boot, history>>
        /\ pc[r] = "pairs" /\ w.todo = {}
    BY <1>1, <1>5, <1>11 DEF PairsDone, At
  <2>2. Sound("complete", w)
    BY <1>2, <2>1 DEF Sound, InHand, Done, PastScans, Working
  <2> QED BY <1>2, <1>3, <2>1, <2>2, LocalStep
<1> QED BY <1>6, <1>7, <1>8, <1>9, <1>10, <1>11

----------------------------------------------------------------------------
(* Steps that write *)

BootType(b) == b \in [pc: {"start", "importing", "update", "assign", "done"}, seen: Content, dirty: BOOLEAN]

LEMMA TouchFields ==
    ASSUME MigrationInv, Touch
    PROVE  BootType(boot') /\ boot'.pc = boot.pc
BY DEF MigrationInv, TypeOK, Touch, BootType

\* A write keeps what every replica rests on, if it keeps the accounts and the
\* assignments that are there until the migration is complete.
LEMMA ReplicasStay ==
    ASSUME MigrationInv, input' = input, marker' = marker, UNCHANGED <<pc, work>>,
           ~marker /\ ~AmbiguousInput =>
               /\ \A u \in Taken : Placed(u) => Placed(u)'
               /\ \A u \in Uids : assignments[u] # NoRole => assignments'[u] # NoRole
    PROVE  \A q \in Replicas : Sound(pc[q], work[q])'
<1> TAKE q \in Replicas
<1>1. PICK k, v : k = pc[q] /\ v = work[q]
  OBVIOUS
<1>2. Sound(k, v)'
  BY <1>1, SoundStays DEF MigrationInv
<1> QED BY <1>1, <1>2 DEF Sound, InHand, Done

\* A record is stored under its uid, and its address indexed.
LEMMA StorePlaces ==
    ASSUME MigrationInv, NEW u \in Taken, NEW content \in Content, StoreUser(u, content),
           input' = input
    PROVE  /\ users' \in [Uids -> Content \cup {NoRecord}]
           /\ aliases' \in [Emails -> Uids \cup {NoUid}]
           /\ \A v \in Uids : users'[v] = IF v = u THEN content ELSE users[v]
           /\ ~AmbiguousInput => Placed(u)' /\ \A v \in Taken : Placed(v) => Placed(v)'
<1>1. Taken \subseteq Uids
  BY DEF Taken, MigrationInv, TypeOK, Input
<1>2. \A v \in Uids : EmailOf[v] \in Emails
  BY DEF Emails
<1>3. content # NoRecord
  BY MigrationAssumption
<1>4. /\ users' \in [Uids -> Content \cup {NoRecord}]
      /\ aliases' \in [Emails -> Uids \cup {NoUid}]
      /\ \A v \in Uids : users'[v] = IF v = u THEN content ELSE users[v]
      /\ \A e \in Emails : aliases'[e] = IF e = EmailOf[u] THEN u ELSE aliases[e]
  BY <1>1, <1>2 DEF StoreUser, MigrationInv, TypeOK
<1>5. ASSUME ~AmbiguousInput, NEW v \in Taken, Placed(v)
      PROVE  Placed(v)'
  <2>1. v = u \/ EmailOf[v] # EmailOf[u]
    BY <1>5 DEF AmbiguousInput, Taken
  <2> QED BY <1>1, <1>2, <1>3, <1>4, <1>5, <2>1 DEF Placed
<1>6. Placed(u)'
  BY <1>1, <1>2, <1>3, <1>4 DEF Placed
<1> QED BY <1>4, <1>5, <1>6

\* The same for a step of replica r.
LEMMA OthersStay ==
    ASSUME MigrationInv, NEW r \in Replicas, NEW l \in Labels, NEW w \in Work, Goes(r, l), Keeps(r, w),
           input' = input, marker => marker',
           ~marker /\ ~AmbiguousInput =>
               /\ \A u \in Taken : Placed(u) => Placed(u)'
               /\ \A u \in Uids : assignments[u] # NoRole => assignments'[u] # NoRole,
           Sound(l, w)'
    PROVE  /\ \A q \in Replicas : Sound(pc[q], work[q])'
           /\ pc' \in [Replicas -> Labels] /\ work' \in [Replicas -> Work]
<1>1. pc' \in [Replicas -> Labels] /\ work' \in [Replicas -> Work]
  BY DEF Goes, Keeps, MigrationInv, TypeOK
<1>2. ASSUME NEW q \in Replicas PROVE Sound(pc[q], work[q])'
  <2>1. CASE q = r
    <3>1. pc'[q] = l /\ work'[q] = w
      BY <2>1 DEF Goes, Keeps, MigrationInv, TypeOK
    <3> QED BY <3>1 DEF Sound, InHand, Done
  <2>2. CASE q # r
    <3>1. PICK k, v : k = pc[q] /\ v = work[q]
      OBVIOUS
    <3>2. pc'[q] = k /\ work'[q] = v
      BY <2>2, <3>1 DEF Goes, Keeps, MigrationInv, TypeOK
    <3>3. Sound(k, v)'
      BY <3>1, SoundStays DEF MigrationInv
    <3> QED BY <3>2, <3>3 DEF Sound, InHand, Done
  <2> QED BY <2>1, <2>2
<1> QED BY <1>1, <1>2

LEMMA WriteUserStep ==
    ASSUME MigrationInv, NEW r \in Replicas, WriteUser(r)
    PROVE  MigrationInv'
<1>1. PICK w : w = work[r]
  OBVIOUS
<1> DEFINE u == w.uid
<1>2. /\ w \in Work /\ Sound("writeUser", w)
      /\ pc[r] = "writeUser" /\ StoreUser(u, w.byID[u])
      /\ Keeps(r, [w EXCEPT !.todo = w.todo \ {u}, !.uid = NoUid]) /\ Goes(r, "users")
      /\ Touch
      /\ UNCHANGED <<input, legacy, memberships, assignments, marker, lock, faults, history>>
  BY <1>1 DEF WriteUser, At, MigrationInv, TypeOK
<1>3. PICK v : v = [w EXCEPT !.todo = w.todo \ {u}, !.uid = NoUid]
  OBVIOUS
<1>4. v \in Work /\ v.byID = w.byID /\ v.todo = w.todo \ {u} /\ v.roles = w.roles
  BY <1>2, <1>3 DEF Work
<1>5. u \in w.todo /\ w.byID[u] # NoRecord /\ u \in Uids
  BY <1>2, WorkFields DEF Sound, InHand
<1>6. u \in Taken /\ w.byID[u] \in Content /\ ~AmbiguousInput
  BY <1>2, <1>5, WorkFields DEF Sound, InHand, PastScans, Working
<1>7. /\ users' \in [Uids -> Content \cup {NoRecord}] /\ aliases' \in [Emails -> Uids \cup {NoUid}]
      /\ \A x \in Uids : users'[x] = IF x = u THEN w.byID[u] ELSE users[x]
      /\ Placed(u)' /\ \A x \in Taken : Placed(x) => Placed(x)'
  BY <1>2, <1>6, StorePlaces
<1>8. Taken' = Taken /\ (AmbiguousInput' <=> AmbiguousInput) /\ Taken \subseteq Uids
      /\ \A x : Member(x)' <=> Member(x)
  BY <1>2 DEF Taken, AmbiguousInput, Member, MigrationInv, TypeOK, Input
<1> HIDE DEF u
<1>9. Sound("users", v)'
  BY <1>2, <1>4, <1>6, <1>7, <1>8 DEF Sound, InHand, Done, PastScans, Working
<1>10. /\ \A q \in Replicas : Sound(pc[q], work[q])'
       /\ pc' \in [Replicas -> Labels] /\ work' \in [Replicas -> Work]
  <2>1. "users" \in Labels
    BY DEF Labels, Working
  <2> QED BY <1>2, <1>3, <1>4, <1>7, <1>9, <2>1, OthersStay DEF u
<1>11. BootType(boot') /\ boot'.pc = boot.pc
  BY <1>2, TouchFields
<1>12. TypeOK'
  BY <1>2, <1>7, <1>10, <1>11 DEF TypeOK, MigrationInv, BootType, history
<1>13. Stores'
  <2>1. UNCHANGED <<deleted, revoked>> /\ Stores
    BY <1>2 DEF history, MigrationInv
  <2>2. Origins'
    BY <1>2, <1>6, <1>7, <1>8, <1>11, <2>1 DEF Stores, Origins
  <2>3. NothingRemoved' /\ Unclaimed'
    BY <1>2, <1>6, <1>7, <1>8, <2>1, MigrationAssumption DEF Stores, NothingRemoved, Unclaimed, MigrationInv, TypeOK, Input
  <2>4. Projected' /\ GuardedWins'
    BY <1>2, <1>7, <1>8, <2>1 DEF Stores, Projected, GuardedWins
  <2> QED BY <2>2, <2>3, <2>4 DEF Stores
<1> QED BY <1>10, <1>12, <1>13 DEF MigrationInv

LEMMA PutPairStep ==
    ASSUME MigrationInv, NEW r \in Replicas, PutPair(r)
    PROVE  MigrationInv'
<1>1. PICK w : w = work[r]
  OBVIOUS
<1> DEFINE u == w.uid
<1>2. /\ w \in Work /\ Sound("putPair", w) /\ pc[r] = "putPair"
      /\ users[u] # NoRecord
      /\ assignments' = [assignments EXCEPT ![u] = w.roles[u]]
      /\ Keeps(r, [w EXCEPT !.todo = w.todo \ {u}, !.uid = NoUid]) /\ Goes(r, "pairs")
      /\ UNCHANGED <<input, legacy, memberships, users, aliases, marker, lock, faults, boot, history>>
  BY <1>1 DEF PutPair, At, MigrationInv, TypeOK
<1>3. PICK v : v = [w EXCEPT !.todo = w.todo \ {u}, !.uid = NoUid]
  OBVIOUS
<1>4. v \in Work /\ v.byID = w.byID /\ v.todo = w.todo \ {u} /\ v.roles = w.roles
  BY <1>2, <1>3 DEF Work
<1>5. u \in Uids /\ w.roles[u] \in Roles
  BY <1>2, WorkFields DEF Sound, InHand
<1>6. input.guardedRole[u] # NoRole => w.roles[u] = input.guardedRole[u]
  BY <1>2, <1>5, MigrationAssumption DEF Sound, InHand
<1>7. /\ assignments' \in [Uids -> Roles \cup {NoRole, Edited}]
      /\ \A x \in Uids : assignments'[x] = IF x = u THEN w.roles[u] ELSE assignments[x]
      /\ w.roles[u] # NoRole
  BY <1>2, <1>5, MigrationAssumption DEF MigrationInv, TypeOK
<1>8. Taken' = Taken /\ (AmbiguousInput' <=> AmbiguousInput) /\ Taken \subseteq Uids
      /\ (\A x : Member(x)' <=> Member(x)) /\ (\A x : Placed(x)' <=> Placed(x))
  BY <1>2 DEF Taken, AmbiguousInput, Member, Placed, MigrationInv, TypeOK, Input
<1> HIDE DEF u
<1>9. Sound("pairs", v)'
  BY <1>2, <1>4, <1>7, <1>8 DEF Sound, InHand, Done, PastScans, Working
<1>10. /\ \A q \in Replicas : Sound(pc[q], work[q])'
       /\ pc' \in [Replicas -> Labels] /\ work' \in [Replicas -> Work]
  <2>1. "pairs" \in Labels
    BY DEF Labels, Working
  <2> QED BY <1>2, <1>3, <1>4, <1>7, <1>8, <1>9, <2>1, OthersStay DEF u
<1>12. TypeOK'
  BY <1>2, <1>7, <1>10 DEF TypeOK, MigrationInv, history
<1>13. Stores'
  BY <1>2, <1>6, <1>7, <1>8 DEF Stores, Origins, NothingRemoved, Unclaimed, Projected, GuardedWins,
                               MigrationInv, history
<1> QED BY <1>10, <1>12, <1>13 DEF MigrationInv

LEMMA CompleteStep ==
    ASSUME MigrationInv, NEW r \in Replicas, Complete(r)
    PROVE  MigrationInv'
<1>1. PICK w : w = work[r]
  OBVIOUS
<1>2. /\ Sound("complete", w) /\ Goes(r, "serving") /\ Keeps(r, NoWork)
      /\ marker' = TRUE /\ lock' = NoOwner /\ Touch
      /\ UNCHANGED <<input, redis, faults, history>>
  BY <1>1 DEF Complete, At, MigrationInv, TypeOK
<1>3. UNCHANGED <<legacy, memberships, users, aliases, assignments, deleted, revoked>>
  BY <1>2 DEF redis, history
<1>4. ~AmbiguousInput
  BY <1>2 DEF Sound, PastScans, Working
<1>5. /\ Taken' = Taken /\ (AmbiguousInput' <=> AmbiguousInput)
      /\ (\A x : Member(x)' <=> Member(x)) /\ (\A x : Placed(x)' <=> Placed(x))
  BY <1>2, <1>3 DEF Taken, AmbiguousInput, Member, Placed
<1>6. Projected'
  BY <1>2, <1>3, <1>5 DEF Projected, Sound, Done, MigrationInv, Stores
<1>7. Sound("serving", NoWork)'
  BY <1>2, NoWorkIsWork DEF Sound, InHand, Done, PastScans, Working
<1>8. /\ \A q \in Replicas : Sound(pc[q], work[q])'
      /\ pc' \in [Replicas -> Labels] /\ work' \in [Replicas -> Work]
  <2>1. "serving" \in Labels /\ NoWork \in Work
    BY NoWorkIsWork DEF Labels
  <2> QED BY <1>2, <1>3, <1>5, <1>7, <2>1, OthersStay
<1>9. BootType(boot') /\ boot'.pc = boot.pc
  BY <1>2, TouchFields
<1>10. TypeOK'
  BY <1>2, <1>3, <1>8, <1>9 DEF TypeOK, MigrationInv, BootType
<1>11. Stores'
  BY <1>2, <1>3, <1>4, <1>5, <1>6, <1>9 DEF Stores, Origins, NothingRemoved, Unclaimed, GuardedWins,
                                           MigrationInv
<1> QED BY <1>8, <1>10, <1>11 DEF MigrationInv

LEMMA ExpireStep ==
    ASSUME MigrationInv, Expire
    PROVE  MigrationInv'
<1>1. /\ UNCHANGED <<input, legacy, memberships, users, aliases, assignments, marker, pc, work, faults,
                     boot, deleted, revoked>>
      /\ lock' = NoOwner
  BY DEF Expire, redis, history
<1>2. TypeOK'
  BY <1>1 DEF MigrationInv, TypeOK
<1>3. Stores'
  BY <1>1 DEF MigrationInv, Stores, Origins, NothingRemoved, Unclaimed, Projected, GuardedWins,
              Taken, Placed, Member, AmbiguousInput
<1>4. \A q \in Replicas : Sound(pc[q], work[q])'
  BY <1>1, ReplicasStay DEF Placed
<1> QED BY <1>2, <1>3, <1>4 DEF MigrationInv

LEMMA ServingMarked ==
    ASSUME MigrationInv, Serving
    PROVE  marker /\ ~AmbiguousInput
BY DEF Serving, MigrationInv, Sound, Stores, Unclaimed

LEMMA AdministerStep ==
    ASSUME MigrationInv, NEW u \in Uids,
           EditUser(u) \/ DeleteUser(u) \/ EditAssignment(u) \/ RevokeAssignment(u)
    PROVE  MigrationInv'
<1>1. marker /\ ~AmbiguousInput
  BY ServingMarked DEF EditUser, DeleteUser, EditAssignment, RevokeAssignment
<1>2. UNCHANGED <<input, marker, lock, pc, work, faults>>
  BY DEF EditUser, DeleteUser, EditAssignment, RevokeAssignment
<1>3. \A q \in Replicas : Sound(pc[q], work[q])'
  BY <1>1, <1>2, ReplicasStay
<1>4. /\ Taken' = Taken /\ (AmbiguousInput' <=> AmbiguousInput) /\ Taken \subseteq Uids
      /\ \A x : Member(x)' <=> Member(x)
  BY <1>2 DEF Taken, AmbiguousInput, Member, MigrationInv, TypeOK, Input
<1>5. \A v \in Uids : EmailOf[v] \in Emails
  BY DEF Emails
<1>6. TypeOK /\ Stores /\ NoRecord \notin Content /\ Edited # NoRole
  BY MigrationAssumption DEF MigrationInv
<1>7. CASE EditUser(u)
  <2>1. /\ users[u] # NoRecord /\ users' = [users EXCEPT ![u] = users[u] + 1] /\ Touch
        /\ UNCHANGED <<legacy, memberships, aliases, assignments, deleted, revoked>>
    BY <1>7 DEF EditUser, history
  <2>2. users[u] \in Content /\ users[u] + 1 \in Content
    BY <2>1, <1>6 DEF TypeOK, Content
  <2>3. /\ users' \in [Uids -> Content \cup {NoRecord}]
        /\ \A v \in Uids : users'[v] # NoRecord <=> users[v] # NoRecord
    BY <1>6, <2>1, <2>2 DEF TypeOK
  <2>4. BootType(boot') /\ boot'.pc = boot.pc
    BY <2>1, TouchFields
  <2>5. TypeOK'
    BY <1>2, <1>6, <2>1, <2>3, <2>4 DEF TypeOK, BootType
  <2>6. Stores'
    BY <1>1, <1>2, <1>4, <1>6, <2>1, <2>3, <2>4
       DEF Stores, Origins, NothingRemoved, Unclaimed, Projected, GuardedWins, Placed
  <2> QED BY <1>3, <2>5, <2>6 DEF MigrationInv
<1>8. CASE DeleteUser(u)
  <2>1. /\ users[u] # NoRecord /\ users' = [users EXCEPT ![u] = NoRecord]
        /\ aliases' = [aliases EXCEPT ![EmailOf[u]] = NoUid]
        /\ legacy' = legacy \ {u} /\ memberships' = memberships \ {u}
        /\ assignments' = [assignments EXCEPT ![u] = NoRole]
        /\ deleted' = deleted \cup {u} /\ revoked' = revoked /\ Touch
    BY <1>8 DEF DeleteUser
  <2>2. /\ users' \in [Uids -> Content \cup {NoRecord}] /\ aliases' \in [Emails -> Uids \cup {NoUid}]
        /\ assignments' \in [Uids -> Roles \cup {NoRole, Edited}]
    BY <1>5, <1>6, <2>1 DEF TypeOK
  <2>3. /\ \A v \in Uids : users'[v] = IF v = u THEN NoRecord ELSE users[v]
        /\ \A v \in Uids : assignments'[v] = IF v = u THEN NoRole ELSE assignments[v]
        /\ \A e \in Emails : e # EmailOf[u] => aliases'[e] = aliases[e]
    BY <1>6, <2>1 DEF TypeOK
  <2>4. BootType(boot') /\ boot'.pc = boot.pc
    BY <2>1, TouchFields
  <2>5. TypeOK'
    BY <1>2, <1>6, <2>1, <2>2, <2>4 DEF TypeOK, BootType
  <2>6. \A v \in Taken : v # u /\ Placed(v) => Placed(v)'
    <3>1. u \in Taken
      BY <1>6, <2>1 DEF Stores, Origins
    <3>2. \A v \in Taken : v # u => EmailOf[v] # EmailOf[u]
      BY <1>1, <3>1 DEF AmbiguousInput, Taken
    <3> QED BY <1>4, <1>5, <2>3, <3>2 DEF Placed
  <2>7. Projected'
    BY <1>1, <1>2, <1>4, <1>6, <2>1, <2>3, <2>6 DEF Stores, Projected
  <2>8. Origins' /\ NothingRemoved' /\ Unclaimed' /\ GuardedWins'
    BY <1>1, <1>2, <1>4, <1>6, <2>1, <2>3, <2>4
       DEF Stores, Origins, NothingRemoved, Unclaimed, GuardedWins
  <2> QED BY <1>3, <2>5, <2>7, <2>8 DEF MigrationInv, Stores
<1>9. CASE EditAssignment(u)
  <2>1. /\ assignments' = [assignments EXCEPT ![u] = Edited] /\ assignments[u] # NoRole
        /\ UNCHANGED <<legacy, memberships, users, aliases, boot, deleted, revoked>>
    BY <1>9 DEF EditAssignment, history
  <2>2. /\ assignments' \in [Uids -> Roles \cup {NoRole, Edited}]
        /\ \A v \in Uids : assignments'[v] = IF v = u THEN Edited ELSE assignments[v]
    BY <1>6, <2>1 DEF TypeOK
  <2>3. TypeOK'
    BY <1>2, <1>6, <2>1, <2>2 DEF TypeOK
  <2>4. Stores'
    BY <1>1, <1>2, <1>4, <1>6, <2>1, <2>2
       DEF Stores, Origins, NothingRemoved, Unclaimed, Projected, GuardedWins, Placed
  <2> QED BY <1>3, <2>3, <2>4 DEF MigrationInv
<1>10. CASE RevokeAssignment(u)
  <2>1. /\ assignments' = [assignments EXCEPT ![u] = NoRole] /\ revoked' = revoked \cup {u}
        /\ UNCHANGED <<legacy, memberships, users, aliases, boot, deleted>>
    BY <1>10 DEF RevokeAssignment
  <2>2. /\ assignments' \in [Uids -> Roles \cup {NoRole, Edited}]
        /\ \A v \in Uids : assignments'[v] = IF v = u THEN NoRole ELSE assignments[v]
    BY <1>6, <2>1 DEF TypeOK
  <2>3. TypeOK'
    BY <1>2, <1>6, <2>1, <2>2 DEF TypeOK
  <2>4. Stores'
    BY <1>1, <1>2, <1>4, <1>6, <2>1, <2>2
       DEF Stores, Origins, NothingRemoved, Unclaimed, Projected, GuardedWins, Placed
  <2> QED BY <1>3, <2>3, <2>4 DEF MigrationInv
<1> QED BY <1>7, <1>8, <1>9, <1>10

LEMMA BootFields ==
    ASSUME NEW l \in {"start", "importing", "update", "assign", "done"}, NEW seen \in Content, Boots(l, seen)
    PROVE  BootType(boot') /\ boot'.pc = l
BY DEF Boots, BootType

LEMMA BootstrapStep ==
    ASSUME MigrationInv, Bootstrap
    PROVE  MigrationInv'
<1>1. UNCHANGED <<input, legacy, memberships, marker, lock, pc, work, faults, deleted, revoked>>
  BY DEF Bootstrap, BootFinds, BootWatches, BootImports, BootUpdates, BootAssigns, BootUnchanged, history
<1>2. /\ Taken' = Taken /\ (AmbiguousInput' <=> AmbiguousInput) /\ Taken \subseteq Uids
      /\ \A x : Member(x)' <=> Member(x)
  BY <1>1 DEF Taken, AmbiguousInput, Member, MigrationInv, TypeOK, Input
<1>3. TypeOK /\ Stores /\ BootUser \in Uids /\ NoRecord \notin Content /\ 0 \in Content
  BY MigrationAssumption DEF MigrationInv, Content
<1> DEFINE Assigned == input.bootstraps /\ assignments' = [assignments EXCEPT ![BootUser] = BootRole]
<1>4. ASSUME BootType(boot'), boot'.pc # "done" => input.bootstraps,
             boot'.pc = "importing" => BootUser \in Taken,
             users' \in [Uids -> Content \cup {NoRecord}],
             aliases' \in [Emails -> Uids \cup {NoUid}],
             \A u \in Uids : users'[u] # NoRecord =>
                 users[u] # NoRecord \/ (u = BootUser /\ BootUser \in Taken /\ input.bootstraps),
             \A u \in Uids : users[u] # NoRecord => users'[u] # NoRecord,
             ~AmbiguousInput => \A u \in Taken : Placed(u) => Placed(u)',
             UNCHANGED assignments \/ Assigned
      PROVE  MigrationInv'
  <2>0. /\ assignments' \in [Uids -> Roles \cup {NoRole, Edited}]
        /\ \A u \in Uids : \/ assignments'[u] = assignments[u]
                           \/ input.bootstraps /\ u = BootUser /\ assignments'[u] = BootRole
        /\ \A u \in Uids : assignments[u] # NoRole => assignments'[u] # NoRole
    BY <1>3, <1>4, MigrationAssumption DEF TypeOK
  <2>1. TypeOK'
    BY <1>1, <1>3, <1>4, <2>0 DEF TypeOK, BootType
  <2>2. Origins'
    BY <1>1, <1>2, <1>3, <1>4 DEF Stores, Origins
  <2>3. NothingRemoved' /\ Unclaimed' /\ GuardedWins'
    BY <1>1, <1>2, <1>3, <1>4, <2>0 DEF Stores, NothingRemoved, Unclaimed, GuardedWins, TypeOK, Input
  <2>4. Projected'
    BY <1>1, <1>2, <1>3, <1>4, <2>0 DEF Stores, Projected, Unclaimed
  <2>5. \A q \in Replicas : Sound(pc[q], work[q])'
    BY <1>1, <1>4, <2>0, ReplicasStay
  <2> QED BY <2>1, <2>2, <2>3, <2>4, <2>5 DEF MigrationInv, Stores
<1>5. boot.pc # "done" => input.bootstraps
  BY <1>3 DEF Stores, Origins
<1>6. UNCHANGED <<users, aliases>> =>
          /\ users' \in [Uids -> Content \cup {NoRecord}] /\ aliases' \in [Emails -> Uids \cup {NoUid}]
          /\ \A x : Placed(x)' <=> Placed(x)
  BY <1>3 DEF TypeOK, Placed
<1>7. CASE BootFinds
  <2>1. /\ boot.pc = "start" /\ Boots("update", users[BootUser]) /\ users[BootUser] # NoRecord
        /\ UNCHANGED <<users, aliases, assignments>>
    BY <1>7 DEF BootFinds
  <2>2. users[BootUser] \in Content
    BY <1>3, <2>1 DEF TypeOK
  <2>3. BootType(boot') /\ boot'.pc = "update"
    BY <2>1, <2>2, BootFields
  <2> QED BY <1>4, <1>5, <1>6, <2>1, <2>3
<1>8. CASE BootWatches
  <2>1. boot.pc = "start" /\ UNCHANGED <<users, aliases, assignments>>
    BY <1>8 DEF BootWatches
  <2>2. CASE Boots("importing", 0) /\ BootUser \in legacy
    <3>1. BootType(boot') /\ boot'.pc = "importing" /\ BootUser \in Taken
      BY <1>3, <2>2, BootFields DEF Stores, Origins, Taken
    <3> QED BY <1>4, <1>5, <1>6, <2>1, <3>1
  <2>3. CASE Boots("done", 0)
    <3>1. BootType(boot') /\ boot'.pc = "done"
      BY <1>3, <2>3, BootFields
    <3> QED BY <1>4, <1>5, <1>6, <2>1, <3>1
  <2> QED BY <1>8, <2>2, <2>3 DEF BootWatches
<1>9. CASE BootImports
  <2>0. boot.pc = "importing" /\ BootUser \in Taken
    BY <1>3, <1>9 DEF BootImports, Stores, Origins
  <2>1. CASE boot.dirty
    <3>1. Boots("start", 0) /\ UNCHANGED <<users, aliases, assignments>>
      BY <1>9, <2>1 DEF BootImports
    <3>2. BootType(boot') /\ boot'.pc = "start"
      BY <1>3, <3>1, BootFields
    <3> QED BY <1>4, <1>5, <1>6, <2>0, <3>1, <3>2
  <2>2. CASE ~boot.dirty
    <3>1. Boots("update", 0) /\ StoreUser(BootUser, 0) /\ UNCHANGED assignments
      BY <1>9, <2>2 DEF BootImports
    <3>2. BootType(boot') /\ boot'.pc = "update"
      BY <1>3, <3>1, BootFields
    <3>3. /\ users' \in [Uids -> Content \cup {NoRecord}]
          /\ aliases' \in [Emails -> Uids \cup {NoUid}]
          /\ \A v \in Uids : users'[v] = IF v = BootUser THEN 0 ELSE users[v]
          /\ ~AmbiguousInput => \A v \in Taken : Placed(v) => Placed(v)'
      BY <1>1, <1>3, <2>0, <3>1, StorePlaces
    <3> QED BY <1>3, <1>4, <1>5, <2>0, <3>1, <3>2, <3>3
  <2> QED BY <2>1, <2>2
<1>10. CASE BootUpdates
  <2>1. boot.pc = "update" /\ UNCHANGED <<aliases, assignments>>
    BY <1>10 DEF BootUpdates
  <2>2. CASE users[BootUser] = boot.seen
    <3>1. Boots("assign", 0) /\ users' = [users EXCEPT ![BootUser] = users[BootUser] + 1]
      BY <1>10, <2>2 DEF BootUpdates
    <3>2. BootType(boot') /\ boot'.pc = "assign"
      BY <1>3, <3>1, BootFields
    <3>3. users[BootUser] \in Content /\ users[BootUser] + 1 \in Content
      BY <1>3, <2>2 DEF TypeOK, Content
    <3>4. /\ users' \in [Uids -> Content \cup {NoRecord}]
          /\ \A u \in Uids : users'[u] # NoRecord <=> users[u] # NoRecord
      BY <1>3, <3>1, <3>3 DEF TypeOK
    <3>5. \A u \in Taken : Placed(u) => Placed(u)'
      BY <1>2, <2>1, <3>4 DEF Placed
    <3>6. aliases' \in [Emails -> Uids \cup {NoUid}]
      BY <1>3, <2>1 DEF TypeOK
    <3> QED BY <1>4, <1>5, <2>1, <3>2, <3>4, <3>5, <3>6
  <2>3. CASE users[BootUser] # boot.seen
    <3>1. Boots("done", 0) /\ UNCHANGED <<users, aliases, assignments>>
      BY <1>10, <2>3 DEF BootUpdates
    <3>2. BootType(boot') /\ boot'.pc = "done"
      BY <1>3, <3>1, BootFields
    <3> QED BY <1>4, <1>5, <1>6, <3>1, <3>2
  <2> QED BY <2>2, <2>3
<1>11. CASE BootAssigns
  <2>1. /\ boot.pc = "assign" /\ Boots("done", 0) /\ UNCHANGED <<users, aliases>>
        /\ UNCHANGED assignments \/ assignments' = [assignments EXCEPT ![BootUser] = BootRole]
    BY <1>11 DEF BootAssigns
  <2>2. BootType(boot') /\ boot'.pc = "done"
    BY <1>3, <2>1, BootFields
  <2>3. UNCHANGED assignments \/ Assigned
    BY <1>5, <2>1
  <2> HIDE DEF Assigned
  <2> QED BY <1>4, <1>5, <1>6, <2>1, <2>2, <2>3
<1> QED BY <1>7, <1>8, <1>9, <1>10, <1>11 DEF Bootstrap

----------------------------------------------------------------------------
(* Theorems *)

LEMMA InitMigration == Init => MigrationInv
<1> SUFFICES ASSUME Init PROVE MigrationInv
  OBVIOUS
<1>1. input \in Input
  BY MigrationAssumption DEF Init
<1>2. \A u \in input.current : u \in Uids
  BY <1>1 DEF Input
<1>3. aliases \in [Emails -> Uids \cup {NoUid}]
  BY <1>2 DEF Init
<1>4. TypeOK
  BY <1>1, <1>3, NoWorkIsWork DEF Init, TypeOK, Labels, Input, Content
<1>5. Stores
  <2>1. Origins
    BY <1>1 DEF Init, Origins, Input, Taken
  <2>2. NothingRemoved /\ Unclaimed
    BY <1>1, MigrationAssumption DEF Init, NothingRemoved, Unclaimed, Input, Content
  <2>3. Projected /\ GuardedWins
    BY DEF Init, Projected, GuardedWins
  <2> QED BY <2>1, <2>2, <2>3 DEF Stores
<1>6. \A r \in Replicas : Sound(pc[r], work[r])
  <2> TAKE r \in Replicas
  <2>1. pc[r] = "down" /\ work[r] = NoWork
    BY DEF Init
  <2>2. Sound("down", NoWork)
    BY SoundIdle, NoWorkIsWork
  <2> QED BY <2>1, <2>2
<1> QED BY <1>4, <1>5, <1>6 DEF MigrationInv

LEMMA NextMigration == MigrationInv /\ [Next]_vars => MigrationInv'
<1> SUFFICES ASSUME MigrationInv, [Next]_vars PROVE MigrationInv'
  OBVIOUS
<1>1. CASE UNCHANGED vars
  <2>1. /\ UNCHANGED <<input, legacy, memberships, users, aliases, assignments, marker, lock>>
        /\ UNCHANGED <<pc, work, faults, boot, deleted, revoked>>
    BY <1>1 DEF vars, redis, history
  <2>2. TypeOK'
    BY <2>1 DEF MigrationInv, TypeOK
  <2>3. Stores'
    BY <2>1 DEF MigrationInv, Stores, Origins, NothingRemoved, Unclaimed, Projected, GuardedWins,
                Taken, Placed, Member, AmbiguousInput
  <2>4. \A q \in Replicas : Sound(pc[q], work[q])'
    BY <2>1, ReplicasStay DEF Placed
  <2> QED BY <2>2, <2>3, <2>4 DEF MigrationInv
<1>2. ASSUME NEW r \in Replicas, Run(r) PROVE MigrationInv'
  BY <1>2, LocalSteps, ScanSteps, WalkSteps, WriteUserStep, PutPairStep, CompleteStep DEF Run
<1>3. ASSUME NEW r \in Replicas, Renew(r) \/ RenewFails(r) \/ Crash(r) PROVE MigrationInv'
  BY <1>3, LocalSteps
<1>4. CASE Administer
  BY <1>4, AdministerStep DEF Administer
<1> QED BY <1>1, <1>2, <1>3, <1>4, ExpireStep, BootstrapStep DEF Next

\* The stores of the migration, and what each replica has in hand, stay sound
\* for any number of accounts, replicas, crashes and expired leases.
THEOREM MigrationInvariant == Spec => []MigrationInv
BY InitMigration, NextMigration, PTL DEF Spec

\* The marker is written only after users and assignments finish (Backfill): the
\* projection behind it is exact, and an address two accounts claim refuses the
\* migration of every replica.
THEOREM ProjectionIsExact == Spec => []ProjectionExact
<1>1. MigrationInv => ProjectionExact
  <2> SUFFICES ASSUME MigrationInv PROVE ProjectionExact
    OBVIOUS
  <2>1. Projected /\ GuardedWins /\ Unclaimed
    BY DEF MigrationInv, Stores
  <2> QED BY <2>1 DEF ProjectionExact, Projected, GuardedWins, Unclaimed, Taken, Placed, Member
<1> QED BY <1>1, MigrationInvariant, PTL

----------------------------------------------------------------------------
(* One replica by itself *)

LEMMA AloneReplica ==
    ASSUME Undisturbed, Alone
    PROVE  /\ boot.pc = "done"
           /\ \A r \in Replicas : AloneAt(r, pc[r], work[r])
           /\ \A r, q \in Replicas : pc[r] # "down" /\ pc[q] # "down" => r = q
BY DEF Undisturbed, Alone, AloneAt

LEMMA InitAlone == Init => Alone
BY DEF Init, Alone, AloneAt, Undisturbed

\* A step of replica r that leaves the accounts as they are.
LEMMA AloneLocal ==
    ASSUME MigrationInv, Undisturbed, Alone,
           NEW r \in Replicas, NEW l, NEW w, Goes(r, l), Keeps(r, w), AloneAt(r, l, w),
           UNCHANGED <<input, redis, marker, history>>, boot' = boot
    PROVE  Alone'
<1>1. UNCHANGED <<legacy, memberships, users, aliases, assignments, deleted, revoked>>
  BY DEF redis, history
<1>2. \A q \in Replicas : /\ pc'[q] = IF q = r THEN l ELSE pc[q]
                          /\ work'[q] = IF q = r THEN w ELSE work[q]
  BY DEF Goes, Keeps, MigrationInv, TypeOK
<1>3. \A q \in Replicas : AloneAt(q, pc[q], work[q])'
  BY <1>1, <1>2 DEF Alone, AloneAt
<1> QED BY <1>1, <1>3 DEF Alone, Undisturbed

LEMMA AloneRun ==
    ASSUME MigrationInv, Undisturbed, Alone, NEW r \in Replicas,
           Run(r) \/ Renew(r) \/ RenewFails(r) \/ Crash(r), ~WriteUser(r), ~PutPair(r), ~Complete(r)
    PROVE  Alone'
<1>1. PICK w : w = work[r]
  OBVIOUS
<1>2. AloneAt(r, pc[r], w) /\ w \in Work
  BY <1>1 DEF Alone, MigrationInv, TypeOK
<1>3. work' = work => Keeps(r, w)
  BY <1>1 DEF Keeps, MigrationInv, TypeOK
<1>4. CASE Start(r)
  <2>1. AloneAt(r, "marker", NoWork)
    BY <1>4 DEF AloneAt, Start
  <2> QED BY <1>4, <2>1, AloneLocal DEF Start
<1>5. CASE CheckMarker(r)
  <2>1. PICK k : k = IF marker THEN "serving" ELSE "acquire"
    OBVIOUS
  <2>2. AloneAt(r, k, w)
    BY <1>2, <1>5, <2>1 DEF AloneAt, CheckMarker
  <2>3. Goes(r, k)
    BY <1>5, <2>1 DEF CheckMarker
  <2> QED BY <1>3, <1>5, <2>2, <2>3, AloneLocal DEF CheckMarker
<1>6. CASE Acquire(r)
  <2>1. PICK k : k = IF lock = NoOwner THEN "scanV2" ELSE "recheck"
    OBVIOUS
  <2>2. AloneAt(r, k, w)
    BY <1>2, <1>6, <2>1 DEF AloneAt, Acquire
  <2>3. Goes(r, k)
    BY <1>6, <2>1 DEF Acquire
  <2> QED BY <1>3, <1>6, <2>2, <2>3, AloneLocal DEF Acquire
<1>7. CASE Recheck(r)
  <2>1. PICK k : k = IF marker THEN "serving" ELSE "down"
    OBVIOUS
  <2>2. AloneAt(r, k, w)
    BY <1>2, <1>7, <2>1 DEF AloneAt, Recheck
  <2>3. Goes(r, k)
    BY <1>7, <2>1 DEF Recheck
  <2> QED BY <1>3, <1>7, <2>2, <2>3, AloneLocal DEF Recheck
<1>8. CASE Refuses(r) \/ Crash(r)
  <2>1. AloneAt(r, "down", NoWork)
    BY DEF AloneAt
  <2> QED BY <1>8, <2>1, AloneLocal DEF Refuses, Crash
<1>9. CASE Renew(r) \/ RenewFails(r)
  <2>1. PICK l, v : l = pc[r] /\ v = [w EXCEPT !.cancelled = TRUE]
    OBVIOUS
  <2>2. v.byID = w.byID
    BY <1>2, <2>1 DEF Work
  <2>3. AloneAt(r, l, v)
    BY <1>2, <2>1, <2>2 DEF AloneAt
  <2>4. Goes(r, l) /\ Keeps(r, v) /\ UNCHANGED <<input, redis, marker, history>> /\ boot' = boot
    BY <1>1, <1>9, <2>1 DEF Renew, RenewFails, Goes, MigrationInv, TypeOK
  <2> QED BY <2>3, <2>4, AloneLocal
<1>10. CASE ScanV2(r)
  <2>1. PICK v : v = [w EXCEPT !.byID = users]
    OBVIOUS
  <2>2. v.byID = users
    BY <1>2, <2>1 DEF Work
  <2>3. AloneAt(r, "scanLegacy", v)
    BY <1>2, <1>10, <2>2 DEF AloneAt, ScanV2, At
  <2>4. Goes(r, "scanLegacy") /\ Keeps(r, v) /\ UNCHANGED <<input, redis, marker, lock, faults, boot, history>>
    BY <1>1, <1>10, <2>1 DEF ScanV2
  <2> QED BY <2>3, <2>4, AloneLocal
<1>11. CASE ScanLegacy(r)
  <2> DEFINE byID == Merged(w.byID)
  <2>1. PICK v : v = [w EXCEPT !.byID = byID, !.todo = {u \in Uids : byID[u] # NoRecord}]
    OBVIOUS
  <2>2. /\ Goes(r, "users") /\ Keeps(r, v) /\ UNCHANGED <<input, redis, marker, lock, faults, boot, history>>
        /\ pc[r] = "scanLegacy"
    BY <1>1, <1>11, <2>1 DEF ScanLegacy, At
  <2>3. \A u \in Uids : users[u] # NoRecord => byID[u] = users[u]
    BY <1>2, <2>2 DEF AloneAt, Merged
  <2> HIDE DEF byID
  <2>4. v.byID = byID
    BY <1>2, <2>1 DEF Work
  <2>5. AloneAt(r, "users", v)
    BY <1>2, <2>2, <2>3, <2>4 DEF AloneAt
  <2> QED BY <2>2, <2>5, AloneLocal
<1>12. ASSUME NEW u \in Uids, CheckAlias(r, u) PROVE Alone'
  <2>1. PICK v : v = [w EXCEPT !.uid = u]
    OBVIOUS
  <2>2. v.byID = w.byID
    BY <1>2, <2>1 DEF Work
  <2>3. AloneAt(r, "writeUser", v)
    BY <1>2, <1>12, <2>2 DEF AloneAt, CheckAlias, At
  <2>4. Goes(r, "writeUser") /\ Keeps(r, v) /\ UNCHANGED <<input, redis, marker, lock, faults, boot, history>>
    BY <1>1, <1>12, <2>1 DEF CheckAlias
  <2> QED BY <2>3, <2>4, AloneLocal
<1>13. CASE UsersDone(r)
  <2>1. AloneAt(r, "memberships", w)
    BY <1>2, <1>13 DEF AloneAt, UsersDone, At
  <2> QED BY <1>3, <1>13, <2>1, AloneLocal DEF UsersDone
<1>14. CASE ScanMemberships(r)
  <2>1. PICK v : Keeps(r, v)
    BY <1>14 DEF ScanMemberships
  <2>2. AloneAt(r, "pairs", v)
    BY <1>2, <1>14 DEF AloneAt, ScanMemberships, At
  <2> QED BY <1>14, <2>1, <2>2, AloneLocal DEF ScanMemberships
<1>15. ASSUME NEW u \in Uids, CheckPair(r, u) PROVE Alone'
  <2>1. PICK v, l : Keeps(r, v) /\ l = pc'[r] /\ Goes(r, l) /\ l \in {"pairs", "putPair"}
    BY <1>15 DEF CheckPair, At, Goes, MigrationInv, TypeOK
  <2>2. AloneAt(r, l, v)
    BY <1>2, <1>15, <2>1 DEF AloneAt, CheckPair, At
  <2> QED BY <1>15, <2>1, <2>2, AloneLocal DEF CheckPair
<1>16. CASE PairsDone(r)
  <2>1. AloneAt(r, "complete", w)
    BY <1>2, <1>16 DEF AloneAt, PairsDone, At
  <2> QED BY <1>3, <1>16, <2>1, AloneLocal DEF PairsDone
<1> QED BY <1>4, <1>5, <1>6, <1>7, <1>8, <1>9, <1>10, <1>11, <1>12, <1>13, <1>14, <1>15, <1>16 DEF Run

LEMMA AloneWrites ==
    ASSUME MigrationInv, Undisturbed, Alone, NEW r \in Replicas,
           WriteUser(r) \/ PutPair(r) \/ Complete(r)
    PROVE  /\ Alone'
           /\ \A u \in Uids : users[u] # NoRecord => users'[u] = users[u]
<1>1. PICK w : w = work[r]
  OBVIOUS
<1>2. AloneAt(r, pc[r], w) /\ w \in Work /\ Sound(pc[r], w)
  BY <1>1 DEF Alone, MigrationInv, TypeOK
<1>3. ~marker /\ deleted = {} /\ revoked = {}
  BY <1>2 DEF WriteUser, PutPair, Complete, At, AloneAt, MigrationInv, Stores, NothingRemoved
<1>4. \A q \in Replicas : q # r => pc[q] = "down" /\ pc'[q] = "down"
  BY AloneReplica DEF WriteUser, PutPair, Complete, At, Goes, MigrationInv, TypeOK
<1>5. r \in input.replicas
  BY <1>2 DEF AloneAt, WriteUser, PutPair, Complete, At
<1>6. boot'.pc = "done" /\ input' = input /\ deleted' = deleted /\ revoked' = revoked
  BY AloneReplica DEF WriteUser, PutPair, Complete, Touch, history, MigrationInv, TypeOK
<1>7. CASE WriteUser(r)
  <2> DEFINE u == w.uid
  <2>1. /\ pc[r] = "writeUser" /\ users' = [users EXCEPT ![u] = w.byID[u]] /\ marker' = marker
        /\ Keeps(r, [w EXCEPT !.todo = w.todo \ {u}, !.uid = NoUid]) /\ Goes(r, "users")
    BY <1>1, <1>7 DEF WriteUser, At, StoreUser
  <2>2. \A x \in Uids : users'[x] = IF x = u THEN w.byID[u] ELSE users[x]
    BY <2>1 DEF MigrationInv, TypeOK
  <2>3. PICK v : v = [w EXCEPT !.todo = w.todo \ {u}, !.uid = NoUid]
    OBVIOUS
  <2>4. v.byID = w.byID
    BY <1>2, <2>3 DEF Work
  <2>5. pc'[r] = "users" /\ work'[r] = v
    BY <2>1, <2>3 DEF Goes, Keeps, MigrationInv, TypeOK
  <2>6. \A x \in Uids : users[x] # NoRecord => w.byID[x] = users[x]
    BY <1>2, <2>1 DEF AloneAt
  <2> HIDE DEF u
  <2>7. AloneAt(r, pc[r], work[r])'
    BY <1>3, <1>5, <1>6, <2>1, <2>2, <2>4, <2>5, <2>6 DEF AloneAt
  <2>8. \A q \in Replicas : AloneAt(q, pc[q], work[q])'
    BY <1>4, <2>7 DEF AloneAt
  <2>9. \A x \in Uids : users[x] # NoRecord => users'[x] = users[x]
    BY <2>2, <2>6
  <2> QED BY <1>3, <1>6, <2>8, <2>9 DEF Alone
<1>8. CASE PutPair(r)
  <2>1. pc'[r] = "pairs" /\ marker' = marker /\ users' = users
    BY <1>8 DEF PutPair, Goes, MigrationInv, TypeOK
  <2>2. \A q \in Replicas : AloneAt(q, pc[q], work[q])'
    BY <1>3, <1>4, <1>5, <1>6, <2>1 DEF AloneAt
  <2> QED BY <1>3, <1>6, <2>1, <2>2 DEF Alone
<1>9. CASE Complete(r)
  <2>1. pc'[r] = "serving" /\ users' = users
    BY <1>9 DEF Complete, Goes, MigrationInv, TypeOK, redis
  <2>2. \A q \in Replicas : AloneAt(q, pc[q], work[q])'
    BY <1>4, <1>5, <1>6, <2>1 DEF AloneAt
  <2> QED BY <1>3, <1>6, <2>1, <2>2 DEF Alone
<1> QED BY <1>7, <1>8, <1>9

LEMMA AloneAdministers ==
    ASSUME MigrationInv, Undisturbed, Alone, NEW u \in Uids,
           EditUser(u) \/ DeleteUser(u) \/ EditAssignment(u) \/ RevokeAssignment(u)
    PROVE  /\ Alone'
           /\ \A v \in Uids : users[v] # NoRecord /\ users'[v] # NoRecord => users'[v] >= users[v]
<1>1. marker
  BY ServingMarked DEF EditUser, DeleteUser, EditAssignment, RevokeAssignment
<1>2. UNCHANGED <<input, marker, pc, work>>
  BY DEF EditUser, DeleteUser, EditAssignment, RevokeAssignment
<1>3. boot'.pc = "done"
  BY AloneReplica DEF EditUser, DeleteUser, EditAssignment, RevokeAssignment, Touch, MigrationInv, TypeOK
<1>4. \A q \in Replicas : AloneAt(q, pc[q], work[q])'
  BY <1>1, <1>2, AloneReplica DEF AloneAt
<1>5. /\ \A v \in deleted : users[v] = NoRecord
      /\ \A v \in revoked : assignments[v] = NoRole
  BY DEF Alone
<1>6. TypeOK /\ \A v \in Uids : users[v] # NoRecord => users[v] \in Nat
  BY DEF MigrationInv, TypeOK, Content
<1>7. CASE EditUser(u)
  <2>1. /\ users[u] # NoRecord /\ users' = [users EXCEPT ![u] = users[u] + 1]
        /\ UNCHANGED <<assignments, deleted, revoked>>
    BY <1>7 DEF EditUser, history
  <2>2. \A v \in Uids : users'[v] = IF v = u THEN users[u] + 1 ELSE users[v]
    BY <1>6, <2>1 DEF TypeOK
  <2>3. \A v \in deleted' : users'[v] = NoRecord
    BY <1>5, <1>6, <2>1, <2>2 DEF TypeOK
  <2>4. Alone'
    BY <1>3, <1>4, <1>5, <2>1, <2>3 DEF Alone
  <2> QED BY <1>6, <2>2, <2>4
<1>8. CASE DeleteUser(u)
  <2>1. /\ users' = [users EXCEPT ![u] = NoRecord] /\ assignments' = [assignments EXCEPT ![u] = NoRole]
        /\ deleted' = deleted \cup {u} /\ revoked' = revoked
    BY <1>8 DEF DeleteUser
  <2>2. \A v \in Uids : /\ users'[v] = IF v = u THEN NoRecord ELSE users[v]
                        /\ assignments'[v] = IF v = u THEN NoRole ELSE assignments[v]
    BY <1>6, <2>1 DEF TypeOK
  <2>3. Alone'
    BY <1>3, <1>4, <1>5, <1>6, <2>1, <2>2 DEF Alone, TypeOK
  <2> QED BY <1>6, <2>2, <2>3
<1>9. CASE EditAssignment(u)
  <2>1. /\ assignments' = [assignments EXCEPT ![u] = Edited] /\ assignments[u] # NoRole
        /\ UNCHANGED <<users, deleted, revoked>>
    BY <1>9 DEF EditAssignment, history
  <2>2. Alone'
    BY <1>3, <1>4, <1>5, <1>6, <2>1 DEF Alone, TypeOK
  <2> QED BY <1>6, <2>1, <2>2
<1>10. CASE RevokeAssignment(u)
  <2>1. /\ assignments' = [assignments EXCEPT ![u] = NoRole] /\ revoked' = revoked \cup {u}
        /\ UNCHANGED <<users, deleted>>
    BY <1>10 DEF RevokeAssignment
  <2>2. Alone'
    BY <1>3, <1>4, <1>5, <1>6, <2>1 DEF Alone, TypeOK
  <2> QED BY <1>6, <2>1, <2>2
<1> QED BY <1>7, <1>8, <1>9, <1>10

\* No step takes the content of an account back, and none leaves the state in
\* which one replica migrates by itself.
LEMMA AloneStep ==
    ASSUME MigrationInv, Undisturbed, Alone, Next
    PROVE  /\ Alone'
           /\ \A u \in Uids : users[u] # NoRecord /\ users'[u] # NoRecord => users'[u] >= users[u]
<1>1. \A u \in Uids : users[u] # NoRecord => users[u] \in Nat
  BY DEF MigrationInv, TypeOK, Content
<1>2. ASSUME NEW r \in Replicas, WriteUser(r) \/ PutPair(r) \/ Complete(r)
      PROVE  /\ Alone'
             /\ \A u \in Uids : users[u] # NoRecord /\ users'[u] # NoRecord => users'[u] >= users[u]
  BY <1>1, <1>2, AloneWrites
<1>3. ASSUME NEW r \in Replicas, Run(r) \/ Renew(r) \/ RenewFails(r) \/ Crash(r),
             ~WriteUser(r), ~PutPair(r), ~Complete(r)
      PROVE  Alone' /\ users' = users
  <2>1. users' = users
    BY <1>3 DEF Run, Start, CheckMarker, Acquire, Recheck, ScanV2, ScanLegacy, UsersDone, CheckAlias,
                CheckPair, ScanMemberships, PairsDone, Refuses, Renew, RenewFails, Crash, redis
  <2> QED BY <1>3, <2>1, AloneRun
<1>4. CASE Administer
  BY <1>4, AloneAdministers DEF Administer
<1>5. CASE Expire
  <2>1. UNCHANGED <<input, users, assignments, marker, pc, work, boot, deleted, revoked>>
    BY <1>5 DEF Expire, redis, history
  <2> QED BY <1>1, <2>1 DEF Alone, AloneAt, Undisturbed
<1>6. CASE Bootstrap
  BY <1>6, AloneReplica DEF Bootstrap, BootFinds, BootWatches, BootImports, BootUpdates, BootAssigns
<1> QED BY <1>1, <1>2, <1>3, <1>4, <1>5, <1>6 DEF Next

LEMMA NextAlone == MigrationInv /\ Alone /\ [Next]_vars => Alone'
<1>1. ASSUME Alone, UNCHANGED vars PROVE Alone'
  <2>1. UNCHANGED <<input, users, assignments, marker, pc, work, boot, deleted, revoked>>
    BY <1>1 DEF vars, redis, history
  <2> QED BY <1>1, <2>1 DEF Alone, AloneAt, Undisturbed
<1>2. ASSUME MigrationInv, Alone, Next, ~Undisturbed PROVE Alone'
  <2>1. input' = input
    BY ZenonT(60), <1>2 DEF Next, Run, Start, CheckMarker, Acquire, Recheck, ScanV2, ScanLegacy, UsersDone, WriteUser,
                CheckAlias, CheckPair, ScanMemberships, PutPair, PairsDone, Complete, Refuses, Renew,
                RenewFails, Crash, Expire, Administer, EditUser, DeleteUser, EditAssignment,
                RevokeAssignment, Bootstrap, BootFinds, BootWatches, BootImports, BootUpdates,
                BootAssigns, BootUnchanged
  <2> QED BY SMTT(60), <1>2, <2>1 DEF Alone, Undisturbed
<1> QED BY <1>1, <1>2, AloneStep

LEMMA StaysAlone == Spec => []Alone
BY InitAlone, NextAlone, MigrationInvariant, PTL DEF Spec

\* Where one replica migrates by itself, whatever crashes and restarts it goes
\* through, no deleted account and no revoked assignment comes back (Backfill and
\* backfillAssignments, which write what they scanned).
THEOREM NothingComesBack == Spec => []NothingResurrected
<1>1. Alone => NothingResurrected
  BY DEF Alone, NothingResurrected
<1> QED BY <1>1, StaysAlone, PTL

\* "A current UID is never overwritten by legacy input" (backfillUsers), where
\* one replica migrates by itself: the content of an account never goes back.
THEOREM CurrentStays == Spec => CurrentNeverOverwritten
<1> DEFINE Step == Undisturbed =>
                       \A u \in Uids : users[u] # NoRecord /\ users'[u] # NoRecord => users'[u] >= users[u]
<1>1. ASSUME MigrationInv, Alone, [Next]_vars
      PROVE  [Step]_vars
  BY <1>1, AloneStep
<1> QED BY <1>1, MigrationInvariant, StaysAlone, PTL DEF Spec, CurrentNeverOverwritten
=============================================================================
