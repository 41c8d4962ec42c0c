------------------------------ MODULE MCTokens ------------------------------
(* The principals, modes and edits that TLC combines. *)
EXTENDS AccessTokens, TLC

CONSTANTS master, t1, t2, e1, emp, global, local, fed, plat, h1, h2,
          read, write, secret, feature, tenants, logs, claim

Creators == (master :> "m-admin") @@ (t1 :> "t1-admin") @@ (t2 :> "t2-admin")
Order == (t1 :> 1) @@ (t2 :> 2) @@ (master :> 3)

(* An employee and an administrator with a home, a user of the directory      *)
(* without one, a federated principal of a tenant and one of the platform.    *)
People == (emp :> [home |-> t1, role |-> "EMPLOYEE", federated |-> FALSE, listed |-> FALSE])
       @@ (local :> [home |-> t1, role |-> "ADMIN", federated |-> FALSE, listed |-> FALSE])
       @@ (global :> [home |-> Absent, role |-> "EMPLOYEE", federated |-> FALSE, listed |-> FALSE])
       @@ (fed :> [home |-> t1, role |-> "ADMIN", federated |-> TRUE, listed |-> TRUE])
       @@ (plat :> [home |-> master, role |-> "ADMIN", federated |-> TRUE, listed |-> TRUE])

Given(u, t) ==
  CASE u = emp /\ t = t1    -> {"reader"}
    [] u = emp /\ t = t2    -> {"t2-admin", "reader"}
    [] u = local /\ t # t1  -> {IF t = master THEN "ADMIN" ELSE "reader"}
    [] u = global /\ t # master -> {"reader"}
    [] OTHER -> {}

Defined(t, r) ==
  CASE r = "reader" -> {read, claim}
    [] r = "t2-admin" /\ t = t2 -> {read, write}
    [] r = "ADMIN" /\ t = master -> {read}
    [] OTHER -> Absent

Situation(u, privilege, mode, target, request, ceiling, changes) ==
  [account |-> [v \in Users |-> [version |-> 0, email |-> e1, active |-> TRUE]],
   held |-> [ut \in Users \X Tenants |-> Given(ut[1], ut[2])],
   definition |-> [tr \in Tenants \X RoleNames |-> Defined(tr[1], tr[2])],
   audience |-> [t \in Tenants |-> Scopes],
   principal |-> People, direct |-> {local}, canary |-> {t2}, faults |-> FALSE,
   session |-> [s \in {0} |-> [user |-> u, email |-> e1, version |-> 0, privilege |-> privilege]],
   edits |-> changes,
   plan |-> (h1 :> [kind |-> "exchange", mode |-> mode, session |-> 0, target |-> target,
                    request |-> request, ceiling |-> ceiling])
         @@ (h2 :> [kind |-> "validate", mode |-> "none"])]

(* Every principal in every mode, with nothing changing. *)
Still ==
  {Situation(u, u = plat, mode, target, request, Scopes, {}) :
     u \in Users, mode \in {"legacy", "strict", "v1", "v2"},
     target \in Tenants, request \in {{}, {read}, {logs}, {tenants, read}}}
    \cup {Situation(u, FALSE, "legacy", Absent, {read}, {}, {}) : u \in Users}

(* The same, while authority is withdrawn or narrowed. *)
Withdrawals(u) ==
  {{[what |-> "roles", user |-> u, tenant |-> t2, roles |-> {}],
    [what |-> "definition", tenant |-> t2, role |-> "reader", scopes |-> {claim}]},
   {[what |-> "version", user |-> u],
    [what |-> "definition", tenant |-> t2, role |-> "t2-admin", scopes |-> {read}]},
   {[what |-> "tenant", tenant |-> t2],
    [what |-> "audience", tenant |-> t2, scopes |-> {read}]},
   {[what |-> "direct", user |-> u],
    [what |-> "roles", user |-> u, tenant |-> t2, roles |-> {"reader", "t2-admin"}]}}

Moving ==
  {Situation(u, u = plat, mode, target, {}, Scopes, changes) :
     u \in {emp, local, global}, mode \in {"strict", "v1", "v2"}, target \in {t2, master},
     changes \in Withdrawals(emp) \cup Withdrawals(local) \cup Withdrawals(global)}

(* Roles are narrowed that a recovered administrator, or a federated          *)
(* administrator of the allowlist, holds outside its home, and the stored     *)
(* role of an employee is defined like any other.                             *)
Narrowed ==
  {Situation(local, FALSE, "v2", master, request, Scopes,
             {[what |-> "definition", tenant |-> master, role |-> "ADMIN", scopes |-> {claim}],
              [what |-> "direct", user |-> local]}) : request \in {{}, {tenants, read}}}
    \cup {[Situation(fed, privilege, mode, t2, {}, Scopes,
                     {[what |-> "definition", tenant |-> t2, role |-> "reader", scopes |-> {claim}]})
            EXCEPT !.held[<<fed, t2>>] = {"reader"}] :
            privilege \in BOOLEAN, mode \in {"strict", "v1"}}
    \cup {[Situation(emp, FALSE, "legacy", target, request, Scopes, {})
            EXCEPT !.definition[<<target, "EMPLOYEE">>] = {write}] :
            target \in {t1, t2}, request \in {{write}, {write, claim}}}

(* Reads that fail, and clients without scopes. *)
Failing ==
  {[Situation(u, FALSE, mode, t2, {}, Scopes, {}) EXCEPT !.faults = TRUE] :
     u \in {emp, global}, mode \in {"legacy", "v1", "v2"}}
    \cup {[Situation(emp, FALSE, mode, t1, request, Scopes, {}) EXCEPT !.audience[t1] = {}] :
            mode \in {"legacy", "strict", "v2"}, request \in {{}, {read}}}

AllDeployments == Still \cup Moving \cup Narrowed \cup Failing
=============================================================================
