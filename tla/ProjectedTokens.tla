--------------------------- MODULE ProjectedTokens ---------------------------
(***************************************************************************)
(* Workload requests and the verification of the projected tokens they       *)
(* carry (internal/workloadidentity).                                        *)
(*                                                                         *)
(* A request is a program: the operations its handler performs, in order.    *)
(* One step is one command of the store, one call to another service or one  *)
(* critical section, so requests interleave between any two of them.         *)
(*                                                                         *)
(* The verifier caches the issuer's signing keys under one mutex, and keeps  *)
(* the mutex while it fetches them.  Time advances in Tick, never past the   *)
(* deadline of a fetch: the HTTP client gives up at its timeout.             *)
(***************************************************************************)
EXTENDS Naturals, Integers, FiniteSets, Sequences

CONSTANTS
  Callers,          \* requests in flight, each handled once
  Kids,             \* names of signing keys
  CacheTTL,         \* lifetime of the cached keys
  UnknownWait,      \* unknownKIDRefreshInterval
  FetchTimeout,     \* the HTTP client's timeout
  Nothing,          \* no caller, no document, no record
  Scenarios         \* the situations a behaviour may start in

ASSUME DurationsPositive ==
  CacheTTL \in Nat \ {0} /\ UnknownWait \in Nat \ {0} /\ FetchTimeout \in Nat \ {0}
ASSUME CallersFinite == IsFiniteSet(Callers) /\ Nothing \notin Callers

VARIABLES
  world,       \* the situation: every caller's request, what may happen, the bound on time
  events,      \* what the environment may still do, each once
  clock,
  issuer,      \* keys the issuer serves
  withdrawn,   \* history: when a key was withdrawn, or Nothing
  cache,       \* keys, expires and nextUnknown of the JWKSVerifier
  fetch,       \* the refresh in flight: who holds the mutex, deadline and document
  call,        \* caller -> what is left of its program, and what it has read
  hist         \* history: caller -> facts that held during its call

keys == <<issuer, withdrawn, cache, fetch>>
requests == <<call, hist>>
environment == <<world, events, clock>>

Plan(c) == world.plan[c]
Free == [by |-> Nothing, due |-> 0, doc |-> Nothing]

----------------------------------------------------------------------------
(* Requests *)

Fresh(program) ==
  [todo |-> program, at |-> 0, lease |-> 0, seen |-> Nothing, held |-> {}, exp |-> 0,
   out |-> "pending"]

Unstarted ==
  [begun |-> FALSE, stale |-> 0, admitted |-> Nothing, alive |-> FALSE, opened |-> {},
   scoped |-> FALSE, versions |-> {}, removed |-> {}]

At(c, op) == call[c].out = "pending" /\ hist[c].begun /\ Head(call[c].todo)[1] = op
Service(c) == Head(call[c].todo)[2]

Granting(frame) ==
  [Fresh(<<>>) EXCEPT !.exp = frame.exp, !.held = frame.held, !.out = "granted"]

(* One operation is done; a program that has run out has succeeded. *)
Continue(c, frame) ==
  call' = [call EXCEPT ![c] = IF Len(frame.todo) = 1 THEN Granting(frame)
                              ELSE [frame EXCEPT !.todo = Tail(@)]]

(* An early return: what the call holds is returned by the deferred release. *)
Refuse(c, code) == call' = [call EXCEPT ![c] = [Fresh(<<>>) EXCEPT !.out = code]]

----------------------------------------------------------------------------
(* Verification *)

(* validatedKubernetesSubject: the identity claims repeat the subject, and    *)
(* every object they bind carries its UID.                                   *)
ClaimsValid(c) == Plan(c).genuine

(* Verify, once the key is known: the parser and Verify itself compare the    *)
(* expiry with the time after the key was obtained.                          *)
Accept(c) ==
  IF Plan(c).exp > clock /\ ClaimsValid(c)
  THEN /\ Continue(c, [call[c] EXCEPT !.at = clock])
       /\ hist' = [hist EXCEPT ![c].stale =
                     IF withdrawn[Plan(c).kid] = Nothing THEN 0
                     ELSE clock - withdrawn[Plan(c).kid]]
  ELSE Refuse(c, "invalid") /\ UNCHANGED hist

Current == clock < cache.expires

(* keyFor with a cached key *)
CachedKey(c) ==
  /\ At(c, "verify") /\ fetch = Free
  /\ Current /\ Plan(c).kid \in cache.keys
  /\ Accept(c) /\ UNCHANGED keys

(* keyFor: an unknown key is not looked up again before nextUnknownKIDRefresh *)
UnknownKey(c) ==
  /\ At(c, "verify") /\ fetch = Free
  /\ Current /\ Plan(c).kid \notin cache.keys /\ clock < cache.nextUnknown
  /\ Refuse(c, "invalid") /\ UNCHANGED <<hist, keys>>

MustRefresh(c) ==
  Current => Plan(c).kid \notin cache.keys /\ clock >= cache.nextUnknown

(* refreshLocked: the mutex is kept while the document is fetched. *)
StartRefresh(c) ==
  /\ At(c, "verify") /\ fetch = Free /\ MustRefresh(c)
  /\ fetch' = [by |-> c, due |-> clock + FetchTimeout, doc |-> Nothing]
  /\ UNCHANGED <<requests, issuer, withdrawn, cache>>

(* refreshLocked of a request whose context has ended. *)
Abandon(c) ==
  /\ At(c, "verify") /\ fetch = Free /\ MustRefresh(c)
  /\ Refuse(c, "unavailable") /\ UNCHANGED <<hist, keys>>

(* The issuer answers with the keys it serves now. *)
ServeKeys(c) ==
  /\ At(c, "verify") /\ fetch.by = c /\ fetch.doc = Nothing
  /\ fetch' = [fetch EXCEPT !.doc = issuer]
  /\ UNCHANGED <<requests, issuer, withdrawn, cache>>

(* The document arrived: its usable keys replace the cache, and the caller's  *)
(* key is looked up in it.                                                   *)
StoreKeys(c) ==
  /\ At(c, "verify") /\ fetch.by = c /\ fetch.doc # Nothing
  /\ cache' = [keys |-> fetch.doc, expires |-> clock + CacheTTL,
               nextUnknown |-> clock + (IF CacheTTL < UnknownWait THEN CacheTTL ELSE UnknownWait)]
  /\ fetch' = Free
  /\ IF Plan(c).kid \in fetch.doc THEN Accept(c) ELSE Refuse(c, "invalid") /\ UNCHANGED hist
  /\ UNCHANGED <<issuer, withdrawn>>

(* Mutant: after a failed fetch the keys that are cached are trusted. *)
TrustCache(c) ==
  /\ At(c, "verify") /\ fetch.by = c /\ fetch' = Free
  /\ IF Plan(c).kid \in cache.keys THEN Accept(c) ELSE Refuse(c, "unavailable") /\ UNCHANGED hist
  /\ UNCHANGED <<issuer, withdrawn, cache>>

(* Mutant: the mutex is not released when the fetch fails. *)
KeepMutex(c) ==
  /\ At(c, "verify") /\ fetch.by = c
  /\ Refuse(c, "unavailable")
  /\ UNCHANGED <<hist, keys>>

(* No answer, no usable key, or a malformed document (fetchJWKS, rsaKey). *)
FailRefresh(c) ==
  /\ At(c, "verify") /\ fetch.by = c
  /\ fetch' = Free /\ Refuse(c, "unavailable")
  /\ UNCHANGED <<hist, issuer, withdrawn, cache>>

Verifying(c) ==
  \/ CachedKey(c) \/ UnknownKey(c) \/ StartRefresh(c) \/ Abandon(c)
  \/ ServeKeys(c) \/ StoreKeys(c) \/ FailRefresh(c)

----------------------------------------------------------------------------
(* The issuer and time *)

Happens(e) == e \in events /\ events' = events \ {e}

(* The issuer replaces its signing keys. *)
RotateKeys(next) ==
  /\ Happens(<<"rotate", next>>)
  /\ issuer' = next
  /\ withdrawn' = [k \in Kids |-> IF k \in issuer \ next THEN clock
                                  ELSE IF k \in next THEN Nothing ELSE withdrawn[k]]
  /\ UNCHANGED <<world, clock, cache, fetch, requests>>

Tick ==
  /\ clock < world.horizon /\ (fetch # Free => clock < fetch.due)
  /\ clock' = clock + 1
  /\ UNCHANGED <<world, events, keys, requests>>

TokensInit ==
  /\ world \in Scenarios /\ events = world.events /\ clock = 0
  /\ issuer = world.issuer /\ withdrawn = [k \in Kids |-> Nothing]
  /\ cache = world.cache
  /\ fetch = Free

(* Only a key the issuer served less than the cache's lifetime and one fetch  *)
(* ago signs an accepted token: a key the issuer withdrew expires everywhere, *)
(* also while refreshes fail (keyFor, refreshLocked).                        *)
WithdrawnKeysExpire ==
  \A c \in Callers : hist[c].stale < CacheTTL + FetchTimeout
=============================================================================
