------------------------------ MODULE MCNative ------------------------------
(* The situations for TLC: each brings about one of the races. *)
EXTENDS NativeCodes, TLC

CONSTANTS u1, u2, home, target, base, extra, use, admin, e1, e2, s1, s2,
          app1, app2, p1, p2, h1, h2, h3, h4, h5

Roles2 == (base :> {use}) @@ (extra :> {admin})
Policy1 == [home |-> home, target |-> target, base |-> base, further |-> <<extra>>,
            scopes |-> Roles2, required |-> {use}, ttl |-> 2]
(* The same client, deployed anew with a narrower configuration. *)
Policy2 == [Policy1 EXCEPT !.further = <<>>]

SessionOf(u, e) == [user |-> u, email |-> e, version |-> 0, tenant |-> home, exp |-> 3]

Call(kind, s, app) == [kind |-> kind, session |-> s, app |-> app, policy |-> p1, approve |-> TRUE]

Calls(a, b, c, d, e) == (h1 :> a) @@ (h2 :> b) @@ (h3 :> c) @@ (h4 :> d) @@ (h5 :> e)

Quiet == [account |-> (u1 :> [version |-> 0, email |-> e1, active |-> TRUE])
                   @@ (u2 :> [version |-> 0, email |-> e2, active |-> TRUE]),
          held |-> [ut \in Users \X Tenants |-> IF ut[2] = target THEN {base, extra} ELSE {}],
          definition |-> [tr \in Tenants \X RoleNames |->
                            IF tr[1] = target THEN Roles2[tr[2]] ELSE Absent],
          audience |-> [t \in Tenants |-> IF t = target THEN Scopes ELSE Absent],
          session |-> (s1 :> SessionOf(u1, e1)) @@ (s2 :> SessionOf(u2, e2)),
          policy |-> (p1 :> Policy1) @@ (p2 :> Policy2),
          edits |-> {}, clock |-> FALSE, faults |-> FALSE,
          plan |-> Calls(Call("authorize", s1, app1), Call("consent", s1, app1),
                         Call("consent", s1, app1), Call("token", s1, app1),
                         Call("token", s1, app1))]

(* Two approvals of one request and two redemptions of one code. *)
Racing == Quiet
(* The same with expiry, or with failing commands. *)
Expiring == [Quiet EXCEPT !.clock = TRUE,
               !.plan = Calls(Call("authorize", s1, app1), Call("consent", s1, app1),
                              Call("token", s1, app1), Call("token", s1, app1),
                              Call("validate", s1, app1))]
Failing == [Quiet EXCEPT !.faults = TRUE, !.plan[h5] = Call("validate", s1, app1)]
(* Two users, two applications: nobody may use the other's page or code. *)
Mixed == [Quiet EXCEPT
            !.plan = Calls(Call("authorize", s1, app1), Call("resume", s2, app1),
                           [Call("consent", s2, app1) EXCEPT !.approve = FALSE],
                           Call("consent", s1, app2), Call("token", s1, app2))]
(* Replicas with two configurations of the client. *)
Rolling == [Quiet EXCEPT !.plan[h2].policy = p2, !.plan[h4].policy = p2]

OneLogin == Calls(Call("authorize", s1, app1), Call("consent", s1, app1),
                  Call("token", s1, app1), Call("validate", s1, app1),
                  Call("resume", s1, app1))
Edited(changes) == [Quiet EXCEPT !.plan = OneLogin, !.edits = changes]
(* Authority is withdrawn, or given, between any two reads. *)
Revoking == Edited({[what |-> "version", user |-> u1],
                    [what |-> "roles", user |-> u1, tenant |-> target, roles |-> {base}]})
Granting == [Edited({[what |-> "roles", user |-> u1, tenant |-> target, roles |-> {base, extra}],
                     [what |-> "tenant", tenant |-> home]})
               EXCEPT !.held = [ut \in Users \X Tenants |-> IF ut[2] = target THEN {base} ELSE {}]]
Redefining == Edited({[what |-> "definition", tenant |-> target, role |-> extra, scopes |-> {use}],
                      [what |-> "audience", tenant |-> target, scopes |-> {use}]})
Swapping == Edited({[what |-> "email", user |-> u1, email |-> e2],
                    [what |-> "status", user |-> u1, on |-> FALSE],
                    [what |-> "status", user |-> u1, on |-> TRUE]})

AllDeployments == {Racing, Expiring, Failing, Mixed, Rolling, Revoking, Granting, Redefining,
                   Swapping}
=============================================================================
