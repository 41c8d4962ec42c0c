---------------------------- MODULE AccountBroker ----------------------------
(***************************************************************************)
(* The workload account broker (internal/services/workload_account_bff_      *)
(* service.go): a trusted workload registers password accounts, opens their  *)
(* sessions and deletes them.                                                *)
(*                                                                         *)
(* One email and one password.  A registration creates the account and then  *)
(* assigns the broker's base role, in separate transactions, and deletes the *)
(* account it created if the second fails.  Requests for the same email run  *)
(* side by side with each other and with an administrator.                   *)
(***************************************************************************)
EXTENDS ObjectStorage

CONSTANTS
  Old,         \* an account that exists from before
  Base,        \* the broker's base role; others are granted elsewhere
  Additional   \* the other roles that open a session

VARIABLES
  account,     \* id and whether it is active, or Nothing
  roles,       \* id -> roles of its direct assignment, or Nothing
  member,      \* ids with the exact memberships that Delete requires
  given        \* history: id and role of what administrators granted

accounts == <<account, roles, member, given>>
Ids == Callers \cup {Old}

----------------------------------------------------------------------------
(* Programs *)

Registration == <<Do("verify"), Do("lookup"), Do("create"), Do("assign"), Do("current")>>
Session == <<Do("verify"), Do("signIn"), Do("effective"), Do("signIn"), Do("exchange")>>
Erasure == <<Do("verify"), Do("signIn"), Do("membership"), Do("erase")>>

BrokerProgram(p) ==
  CASE p.kind = "register" -> Registration
    [] p.kind = "session"  -> Session
    [] p.kind = "erase"    -> Erasure

BrokerKinds == {"register", "session", "erase"}

----------------------------------------------------------------------------
(* Steps *)

Local == UNCHANGED <<hist, keys, stores, storage>>
Skip(c, n, id) ==
  call' = [call EXCEPT ![c].todo = SubSeq(@, n + 1, Len(@)), ![c].seen = id]
Report(c) == call' = [call EXCEPT ![c] = Granting(call[c])]

(* What PutAccessAssignment needs is the account itself. *)
Exists(id) == account # Nothing /\ account.id = id

(* ensurePasswordUser: an account that exists is replayed if it is active. *)
LookUp(c) ==
  /\ At(c, "lookup")
  /\ IF account = Nothing THEN Continue(c, call[c])
     ELSE IF account.active THEN Skip(c, 2, account.id)
     ELSE Refuse(c, "conflict")
  /\ UNCHANGED accounts /\ Local

(* CreateUser; the loser of a race looks the winner up.  The command may      *)
(* fail: an account it created all the same stays without an assignment.     *)
CreateUser(c) ==
  /\ At(c, "create")
  /\ \/ /\ account = Nothing
        /\ account' = [id |-> c, active |-> TRUE]
        /\ Skip(c, 1, c) \/ (world.faults /\ Refuse(c, "unavailable"))
     \/ /\ account # Nothing /\ UNCHANGED account
        /\ call' = [call EXCEPT ![c].todo = <<Do("winner")>> \o Tail(@)]
     \/ world.faults /\ Refuse(c, "unavailable") /\ UNCHANGED account
  /\ UNCHANGED <<roles, member, given>> /\ Local

Winner(c) ==
  /\ At(c, "winner")
  /\ IF account # Nothing /\ account.active THEN Skip(c, 1, account.id) ELSE Refuse(c, "conflict")
  /\ UNCHANGED accounts /\ Local

Created(c) == call[c].seen = c

(* Compensation: DeleteByEmail removes whatever account has the email now,    *)
(* with its assignment.  It is the next step of the request.                 *)
Fail(c) ==
  IF Created(c) THEN call' = [call EXCEPT ![c].todo = <<Do("undo")>>] ELSE Refuse(c, "conflict")

(* Mutant: a replay replaces the roles that are there. *)
AssignAnyway(c) ==
  /\ At(c, "assign")
  /\ IF Exists(call[c].seen)
     THEN Report(c) /\ roles' = [roles EXCEPT ![call[c].seen] = {Base}]
     ELSE Fail(c) /\ UNCHANGED roles
  /\ UNCHANGED <<account, member, given>> /\ Local

(* Register: PutAccessAssignment without a version creates, or finds exactly  *)
(* the base role, or conflicts.  The command may fail, applied or not.       *)
Assign(c) ==
  /\ At(c, "assign")
  /\ LET id == call[c].seen IN
     \/ /\ Exists(id) /\ roles[id] \in {Nothing, {Base}}
        /\ roles' = [roles EXCEPT ![id] = {Base}]
        /\ Report(c) \/ (world.faults /\ Fail(c))
     \/ /\ Exists(id) /\ roles[id] \notin {Nothing, {Base}} /\ UNCHANGED roles
        /\ IF Created(c) THEN Fail(c) ELSE Continue(c, call[c])
     \/ ~Exists(id) /\ Fail(c) /\ UNCHANGED roles
     \/ world.faults /\ Fail(c) /\ UNCHANGED roles
  /\ UNCHANGED <<account, member, given>> /\ Local

(* Register, on a replay: another assignment is accepted if it has the base role. *)
Replay(c) ==
  /\ At(c, "current")
  /\ IF roles[call[c].seen] # Nothing /\ Base \in roles[call[c].seen]
     THEN Report(c) ELSE Refuse(c, "conflict")
  /\ UNCHANGED accounts /\ Local

Undo(c) ==
  /\ At(c, "undo")
  /\ Refuse(c, "conflict")
  /\ \/ account' = Nothing
        /\ roles' = IF account = Nothing THEN roles ELSE [roles EXCEPT ![account.id] = Nothing]
     \/ world.faults /\ UNCHANGED <<account, roles>>
  /\ UNCHANGED <<member, given>> /\ Local

(* FindByEmail with the password, and the sign-in of a session. *)
SignIn(c) ==
  /\ At(c, "signIn")
  /\ IF account # Nothing /\ account.active
        /\ (call[c].seen # Nothing => account.id = call[c].seen)
     THEN Continue(c, [call[c] EXCEPT !.seen = account.id])
     ELSE Refuse(c, "credentials")
  /\ UNCHANGED accounts /\ Local

(* workloadAccountSessionScopes over the effective roles, and the exchange,   *)
(* which resolves them again.                                                *)
SessionRoles(c) ==
  /\ At(c, "effective") \/ At(c, "exchange")
  /\ IF Exists(call[c].seen) /\ roles[call[c].seen] # Nothing
        /\ roles[call[c].seen] \cap ({Base} \cup Additional) # {}
     THEN Continue(c, call[c]) ELSE Refuse(c, "denied")
  /\ UNCHANGED accounts /\ Local

(* Delete needs the exact memberships, which registrations no longer write. *)
ReadMembership(c) ==
  /\ At(c, "membership")
  /\ IF call[c].seen \in member THEN Continue(c, call[c]) ELSE Refuse(c, "denied")
  /\ UNCHANGED accounts /\ Local

(* workloadAccountDeletionScript: one script; assignments are not among its keys. *)
Erase(c) ==
  /\ At(c, "erase")
  /\ IF Exists(call[c].seen) /\ call[c].seen \in member
     THEN /\ account' = Nothing /\ member' = member \ {call[c].seen}
          /\ Continue(c, call[c])
     ELSE Refuse(c, "missing") /\ UNCHANGED <<account, member>>
  /\ UNCHANGED <<roles, given>> /\ Local

Brokering(c) ==
  \/ LookUp(c) \/ CreateUser(c) \/ Winner(c) \/ Assign(c) \/ Replay(c) \/ Undo(c)
  \/ SignIn(c) \/ SessionRoles(c) \/ ReadMembership(c) \/ Erase(c)

(* An administrator grants the account one more role (AccessGraph). *)
GrantRole(role) ==
  /\ Happens(<<"grant", role>>) /\ account # Nothing
  /\ LET id == account.id IN
     /\ roles' = [roles EXCEPT ![id] = (IF @ = Nothing THEN {} ELSE @) \cup {role}]
     /\ given' = given \cup {<<id, role>>}
  /\ UNCHANGED <<world, clock, call, account, member>> /\ Local

BrokerInit ==
  /\ account = world.account
  /\ roles = [id \in Ids |-> Nothing]
  /\ member = IF account = Nothing THEN {} ELSE {account.id}
  /\ given = {}

----------------------------------------------------------------------------
(* A registration never replaces roles that were granted outside the broker:  *)
(* as long as the account exists it keeps every role an administrator gave    *)
(* it, whichever registrations, replays and failures run beside it.           *)
ReplayKeepsRoles ==
  \A g \in given : Exists(g[1]) => roles[g[1]] # Nothing /\ g[2] \in roles[g[1]]
=============================================================================
