------------------------------ MODULE Workload ------------------------------
(***************************************************************************)
(* Everything a workload may ask of Tikti, composed: verification of its     *)
(* projected token, the exchanges, the storage broker and the account        *)
(* broker.  They share the verifier and its mutex, the limiters, the slots   *)
(* and the tenant.                                                           *)
(***************************************************************************)
EXTENDS AccountBroker

vars == <<environment, keys, requests, stores, storage, accounts>>

Program(p) ==
  CASE p.kind \in ExchangeKinds -> ExchangeProgram(p)
    [] p.kind \in StorageKinds  -> StorageProgram(p)
    [] p.kind \in BrokerKinds   -> BrokerProgram(p)

Request ==
  [kind : {"none"} \cup ExchangeKinds \cup StorageKinds \cup BrokerKinds,
   kid : Kids, genuine : BOOLEAN, exp : Nat, pod : Pods, version : Nat, userExp : Nat,
   record : {"scoped", "unscoped"}, value : {"open", "other"}, etag : Etags]

(* A situation: requests, and what the stores and the verifier's cache hold.  *)
ASSUME SituationsPossible ==
  /\ Old \notin Callers
  /\ \A w \in Scenarios :
       /\ w.plan \in [Callers -> Request]
       /\ w.issuer \subseteq Kids /\ w.cache.keys \subseteq Kids /\ w.cache.expires \in 0..CacheTTL
       /\ w.binding \in [{"scoped", "unscoped"} -> {Nothing, "open", "other", "revoked"}]
       /\ w.account = Nothing \/ w.account.id = Old

(* What stands for an absent record is neither a record nor a set of roles. *)
ASSUME NothingIsAbsence ==
  /\ Nothing \notin {"open", "other", "revoked"}
  /\ \A assigned \in SUBSET ({Base} \cup Additional) : assigned # Nothing

(* The requests for which it matters when they arrive. *)
Dated == {"legacy", "delete"}

Init ==
  /\ TokensInit /\ ExchangeInit /\ StorageInit /\ BrokerInit
  /\ call = [c \in Callers |->
       IF world.plan[c].kind = "none" THEN [Fresh(<<>>) EXCEPT !.out = "none"]
       ELSE Fresh(Program(world.plan[c]))]
  /\ hist = [c \in Callers |-> [Unstarted EXCEPT !.begun = world.plan[c].kind \notin Dated]]

(* A request arrives: what it may be told is what holds from now on. *)
Arrive(c) ==
  /\ ~hist[c].begun
  /\ hist' = [hist EXCEPT ![c].begun = TRUE,
                          ![c].opened = {k \in DOMAIN binding : Grants(binding[k])},
                          ![c].scoped = binding["scoped"] # Nothing,
                          ![c].versions = {object}]
  /\ UNCHANGED <<environment, keys, call, stores, storage, accounts>>

Step(c) ==
  \/ Arrive(c)
  \/ Verifying(c) /\ UNCHANGED <<environment, stores, storage, accounts>>
  \/ Exchanging(c) /\ UNCHANGED <<environment, storage, accounts>>
  \/ Storing(c) /\ UNCHANGED <<environment, accounts>>
  \/ Brokering(c) /\ UNCHANGED environment

Environment ==
  \/ Tick /\ UNCHANGED <<stores, storage, accounts>>
  \/ \E next \in SUBSET Kids : RotateKeys(next) /\ UNCHANGED <<stores, storage, accounts>>
  \/ RetireTenant /\ UNCHANGED <<storage, accounts>>
  \/ ChangeUser /\ UNCHANGED <<storage, accounts>>
  \/ \E version \in Etags \cup {Nothing} : ChangeObject(version) /\ UNCHANGED accounts
  \/ DropBucket /\ UNCHANGED accounts
  \/ \E role \in Additional : GrantRole(role)

Next == Environment \/ \E c \in Callers : Step(c)

(* Handlers run, and calls they make end: every client has a timeout. *)
Spec == Init /\ [][Next]_vars /\ \A c \in Callers : WF_vars(Step(c))

----------------------------------------------------------------------------
(* Every request that arrives is answered: whatever is refused, fails or      *)
(* times out, nobody waits for ever for the verifier's mutex or for a slot.   *)
CallsAnswer == \A c \in Callers : hist[c].begun ~> call[c].out # "pending"
=============================================================================
