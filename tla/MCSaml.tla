------------------------------- MODULE MCSaml -------------------------------
(* The situations for TLC: each brings about one of the races. *)
EXTENDS SamlSessions, TLC

CONSTANTS t1, t2, l1, b1, b2, n1, r1, r2, a1, a2, s1, s2, home

Message(r, a, s, role) ==
  [request |-> r, assertion |-> a, name |-> n1, session |-> s, role |-> role,
   relay |-> home, key |-> 0]

TwoLogins == (r1 :> [tenant |-> t1, browser |-> b1, relay |-> home])
          @@ (r2 :> [tenant |-> t1, browser |-> b2, relay |-> home])
OneTab    == (r1 :> [tenant |-> t1, browser |-> b1, relay |-> home])
          @@ (r2 :> [tenant |-> t1, browser |-> b1, relay |-> home])

Quiet == [rotations |-> 0, changes |-> 0, churn |-> {}, refreshing |-> {},
          login |-> TwoLogins, messages |-> {}, platform |-> {}, stewards |-> {}, seed |-> Absent,
          issuer |-> (t1 :> 1) @@ (t2 :> 2),
          expiry |-> FALSE, suspends |-> FALSE, faults |-> FALSE, logouts |-> {}]

(* Administrators, a rotating provider and two refreshers; no sign-in. *)
Refreshing == [Quiet EXCEPT !.rotations = 2, !.changes = 2, !.churn = {t1},
                            !.refreshing = Replicas, !.login = [r \in {} |-> {}]]
(* An administrator acts and the provider rotates while one response is in   *)
(* flight.                                                                  *)
Rotating == [Quiet EXCEPT !.rotations = 1, !.changes = 1, !.churn = {t1},
                 !.login = [r \in {r1} |-> TwoLogins[r]],
                 !.messages = {Message(r1, a1, s1, "COMPANY_ADMIN")}]
(* Two answers to one request, replays, expiries and a wrong RelayState. *)
Replaying == [Quiet EXCEPT !.login = OneTab, !.expiry = TRUE, !.suspends = TRUE,
                 !.messages = {Message(r1, a1, s1, "none"), Message(r1, a2, s2, "none"),
                               Message(r2, a1, s1, "none"),
                               Message(r2, a2, Absent, "none"),
                               [Message(r2, a2, Absent, "none") EXCEPT !.relay = Absent]}]
(* First sign-ins of one subject race each other; commands fail. *)
Creating == [Quiet EXCEPT !.faults = TRUE, !.logouts = {l1},
                 !.messages = {Message(r1, a1, s1, "COMPANY_ADMIN"),
                               Message(r2, a2, s2, "COMPANY_EMPLOYEE")}]
(* Sign-ins of a known subject race logouts. *)
LoggingOut == [Quiet EXCEPT !.logouts = Logouts,
                 !.seed = [name |-> n1, role |-> "COMPANY_EMPLOYEE"],
                 !.messages = {Message(r1, a1, s1, "COMPANY_ADMIN"),
                               Message(r2, a2, s2, "none")}]
(* The same for a platform administrator, and for one that no longer is. *)
Elevating == [LoggingOut EXCEPT !.logouts = {l1}, !.platform = {n1}]
Lowering == [LoggingOut EXCEPT !.logouts = {l1}, !.stewards = {n1},
                 !.seed = [name |-> n1, role |-> "ADMIN"]]
(* Two tenants trust the same issuer. *)
SharedIssuer == [LoggingOut EXCEPT !.issuer = (t1 :> 1) @@ (t2 :> 1),
                 !.login = [r \in {r1} |-> TwoLogins[r]],
                 !.messages = {Message(r1, a1, s1, "none")}]

AllDeployments == {Refreshing, Rotating, Replaying, Creating, LoggingOut, Elevating,
                   Lowering, SharedIssuer}

(* No deployment names a handler of callbacks. *)
Symmetry == Permutations(Callbacks)
=============================================================================
