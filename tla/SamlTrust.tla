----------------------------- MODULE SamlTrust -----------------------------
(***************************************************************************)
(* The SAML trust store: one record of identity-provider metadata per       *)
(* tenant, which an administrator puts and deletes (internal/saml/admin.go) *)
(* and which every replica's background refresher rewrites from the         *)
(* provider's metadata URL (internal/saml/refresh.go) by a compare-and-swap *)
(* over the whole stored record (internal/saml/store_redis.go).             *)
(*                                                                         *)
(* Metadata documents are numbered in the order in which the provider       *)
(* published them: a larger number carries newer signing keys.              *)
(* Generation, a fresh UUID in the code, is the number of the               *)
(* administrator's change that wrote it.  LastFetched is left out of the    *)
(* record: without it the swap succeeds in more states than the code's.     *)
(***************************************************************************)
EXTENDS Naturals

CONSTANTS
  Tenants,      \* tenants that may have a trust record
  Replicas,     \* the processes that run a refresher
  Absent,       \* no record
  Deployments   \* the situations a behaviour may start from

(* An IdPRecord. linked: MetadataURL is set. *)
IdPRecord == [generation : Nat, metadata : Nat, linked : BOOLEAN]

(* What a refresher holds of a listed record: its tenant and its content. *)
Listed == [tenant : Tenants, record : IdPRecord]

ASSUME AbsentAssumption == Absent \notin Nat \cup IdPRecord \cup Listed
ASSUME BoundsAssumption ==
  \A d \in Deployments : d.rotations \in Nat /\ d.changes \in Nat

(* rotations, changes: how often a provider rotates and an administrator     *)
(* acts, for the tenants of churn; refreshing: the replicas that refresh.    *)
VARIABLES
  deployment,  \* the situation this behaviour started from
  idp,         \* tenant -> stored IdPRecord
  published,   \* tenant -> number of the newest metadata at the provider
  changes,     \* tenant -> how many administrator changes were made
  decided,     \* history: tenant -> generation the last change left behind
  refresh      \* replica -> the state of its refresher

trust == <<idp, published, changes, decided, refresh>>

Idle == [queue |-> {}, existing |-> Absent, fetched |-> 0]

TrustInit ==
  /\ deployment \in Deployments
  /\ idp \in [Tenants -> {Absent, [generation |-> 0, metadata |-> 0, linked |-> TRUE]}]
  /\ published = [t \in Tenants |-> 0]
  /\ changes = [t \in Tenants |-> 0]
  /\ decided = [t \in Tenants |-> IF idp[t] = Absent THEN Absent ELSE 0]
  /\ refresh = [r \in Replicas |-> Idle]

----------------------------------------------------------------------------
(* The administrator *)

(* AdminService.Put: metadata that was read earlier from the URL or given    *)
(* inline is written over whatever is stored, under a new generation.        *)
AdminPut(t) ==
  /\ t \in deployment.churn /\ changes[t] < deployment.changes
  /\ changes' = [changes EXCEPT ![t] = @ + 1]
  /\ \E m \in 0 .. published[t], linked \in BOOLEAN :
       idp' = [idp EXCEPT ![t] = [generation |-> changes[t] + 1,
                                  metadata |-> m, linked |-> linked]]
  /\ decided' = [decided EXCEPT ![t] = changes[t] + 1]
  /\ UNCHANGED <<published, refresh>>

(* AdminService.Delete *)
AdminDelete(t) ==
  /\ t \in deployment.churn /\ changes[t] < deployment.changes
  /\ changes' = [changes EXCEPT ![t] = @ + 1]
  /\ idp' = [idp EXCEPT ![t] = Absent]
  /\ decided' = [decided EXCEPT ![t] = Absent]
  /\ UNCHANGED <<published, refresh>>

----------------------------------------------------------------------------
(* The refresher of one replica *)

(* tick: list every stored record, then work through the list. *)
RefreshTick(r) ==
  /\ refresh[r] = Idle /\ r \in deployment.refreshing
  /\ refresh' = [refresh EXCEPT ![r].queue =
        {[tenant |-> t, record |-> idp[t]] : t \in {u \in Tenants : idp[u] # Absent}}]
  /\ UNCHANGED <<idp, published, changes, decided>>

(* refreshOne up to the fetch: a record without a URL is skipped; a failed   *)
(* fetch or a document that does not parse leaves the stored record alone.   *)
RefreshFetch(r) ==
  /\ refresh[r].existing = Absent
  /\ \E x \in refresh[r].queue :
       \/ refresh' = [refresh EXCEPT ![r].queue = @ \ {x}]
       \/ /\ x.record.linked
          /\ refresh' = [refresh EXCEPT ![r] =
                [queue |-> @.queue \ {x}, existing |-> x, fetched |-> published[x.tenant]]]
  /\ UNCHANGED <<idp, published, changes, decided>>

(* Mutants of StillListed: the swap asks only that a record is stored, or    *)
(* compares only the generation.                                            *)
SomeRecord(x) == idp[x.tenant] # Absent
SameGeneration(x) == idp[x.tenant] # Absent /\ idp[x.tenant].generation = x.record.generation

(* luaCompareAndSwapIdP's condition: the record is still, byte for byte, the *)
(* one that was listed; a missing record is never created.                   *)
StillListed(x) == idp[x.tenant] = x.record

(* refreshOne from the swap on: the metadata is replaced, the generation and *)
(* the URL are carried over; a lost swap discards the result.                *)
RefreshSwap(r) ==
  LET x == refresh[r].existing IN
  /\ x # Absent
  /\ idp' = IF StillListed(x)
            THEN [idp EXCEPT ![x.tenant] = [generation |-> x.record.generation,
                                            metadata |-> refresh[r].fetched,
                                            linked |-> x.record.linked]]
            ELSE idp
  /\ refresh' = [refresh EXCEPT ![r] = [queue |-> @.queue, existing |-> Absent, fetched |-> 0]]
  /\ UNCHANGED <<published, changes, decided>>

(* The swap fails, or the process stops and starts again with an empty list. *)
RefreshLost(r) ==
  /\ refresh[r] # Idle
  /\ refresh' = [refresh EXCEPT ![r] = Idle]
  /\ UNCHANGED <<idp, published, changes, decided>>

(* The provider publishes new metadata. *)
ProviderRotates(t) ==
  /\ t \in deployment.churn /\ published[t] < deployment.rotations
  /\ published' = [published EXCEPT ![t] = @ + 1]
  /\ UNCHANGED <<idp, changes, decided, refresh>>

TrustStep ==
  \/ \E t \in Tenants : AdminPut(t)
  \/ \E t \in Tenants : AdminDelete(t)
  \/ \E t \in Tenants : ProviderRotates(t)
  \/ \E r \in Replicas : RefreshTick(r)
  \/ \E r \in Replicas : RefreshFetch(r)
  \/ \E r \in Replicas : RefreshSwap(r)
  \/ \E r \in Replicas : RefreshLost(r)

----------------------------------------------------------------------------
RefresherState ==
  [queue : SUBSET Listed, existing : Listed \cup {Absent}, fetched : Nat]

TrustTypeOK ==
  /\ idp \in [Tenants -> IdPRecord \cup {Absent}]
  /\ published \in [Tenants -> Nat]
  /\ changes \in [Tenants -> Nat]
  /\ decided \in [Tenants -> Nat \cup {Absent}]
  /\ refresh \in [Replicas -> RefresherState]

(* A refresh never undoes an administrator: a deleted trust record is not    *)
(* brought back and a replaced one is not overwritten by a fetch that began  *)
(* before the change, however many replicas refresh at once                  *)
(* ("A concurrent admin PUT or DELETE always wins", store_redis.go:111).     *)
AdministratorWins ==
  \A t \in Tenants :
    /\ (idp[t] = Absent) = (decided[t] = Absent)
    /\ idp[t] # Absent => idp[t].generation = decided[t]

(* Under one administrator decision the stored metadata only gets newer: a   *)
(* slow refresher that fetched before a key rotation never reinstates the    *)
(* old keys over what another replica stored since (store_redis.go:26).      *)
RefreshNeverRegresses ==
  [][\A t \in Tenants :
       (idp[t] # Absent /\ idp'[t] # Absent /\ changes'[t] = changes[t])
         => idp'[t].metadata >= idp[t].metadata]_<<idp, changes>>
=============================================================================
