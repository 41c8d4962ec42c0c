----------------------------- MODULE MCRegistry -----------------------------
(* The situations for TLC: each brings about one of the races. *)
EXTENDS Registry

CONSTANTS u1, u2, master, work, shop, j1, j2, j3

Named(name, status) == [created |-> Absent, name |-> name, status |-> status, retired |-> FALSE]

Plan(kind, t) == [kind |-> kind, tenant |-> t, user |-> u1, name |-> "n1", role |-> "base",
                  scopes |-> {"users"}, previous |-> Absent, client |-> shop, roles |-> {"base"},
                  bare |-> FALSE]
Idle == Plan("none", work)
With(p, scopes) == [p EXCEPT !.scopes = scopes]

(* MASTER has the bootstrap's legacy audience, the other tenant a managed one. *)
Quiet ==
  [tenant |-> [t \in Tenants |-> Named("n1", "ACTIVE")],
   role |-> [tr \in Tenants \X RoleNames |-> IF tr[2] = "base" THEN {"users"} ELSE Absent],
   client |-> [tc \in Tenants \X ClientIds |->
                 IF tc = <<Master, Console>> THEN Unowned("PUBLIC", {"users"})
                 ELSE IF tc = <<work, Console>> THEN Owned("console", {"users"})
                 ELSE Absent],
   legacy |-> [tu \in Tenants \X Users |-> Absent],
   faults |-> FALSE]

Run(base, a, b, c) ==
  [tenant |-> base.tenant, role |-> base.role, client |-> base.client, legacy |-> base.legacy,
   faults |-> base.faults,
   plan |-> [j \in Jobs |-> IF j = j1 THEN a ELSE IF j = j2 THEN b ELSE c]]

Wide == {"users", "platform"}

(* Two administrators activate, one deactivates. *)
Activations == Run(Quiet, Plan("activate", work), [Plan("activate", work) EXCEPT !.user = u2],
                   Plan("deactivate", work))
(* An activation beside the reconciliation of the ceilings. *)
Ceilings == Run([Quiet EXCEPT !.faults = TRUE], Plan("activate", work),
                With(Plan("audiences", work), Wide), With(Plan("ensure", work), {"users"}))
HomeCeilings == Run(Quiet, Plan("activate", master), With(Plan("bootstrap", master), Wide),
                    With(Plan("audiences", work), {"users"}))
(* A recovery of MASTER from an administrator of another tenant. *)
Recovery == Run([Quiet EXCEPT !.tenant[master] = Absent, !.client[<<master, Console>>] = Absent,
                   !.client[<<work, Console>>] = Unowned("PUBLIC", {"users"})],
                With(Plan("recover", work), Wide), Plan("activate", work),
                With(Plan("recover", work), Wide))
RecoveryManaged == Run([Quiet EXCEPT !.tenant[master] = Absent,
                          !.client[<<master, Console>>] = Absent],
                       With(Plan("recover", work), Wide), Plan("activate", work),
                       With(Plan("bootstrap", master), Wide))
(* A tenant is retired while others declare it. *)
Retirement == Run(Quiet, Plan("retire", work), Plan("bootstrap", work), Plan("create", work))
Reborn == Run([Quiet EXCEPT !.tenant[work] = Absent], Plan("retire", work),
              [Plan("create", work) EXCEPT !.name = "n2"], Plan("bootstrap", work))
Dormant == Run([Quiet EXCEPT !.tenant[work].status = "DISABLED"], Plan("bootstrap", work),
               Plan("deactivate", work), Plan("retire", master))
(* Two replicas migrate a broker's role while its tenant goes. *)
Migrating == Run(Quiet, [With(Plan("broker", work), {"users", "self"}) EXCEPT !.previous = {"users"}],
                 [With(Plan("broker", work), {"users", "self"}) EXCEPT !.previous = {"users"}],
                 Plan("retire", work))
Brokers2 == Run([Quiet EXCEPT !.role[<<work, "base">>] = Absent],
                With(Plan("broker", work), {"users", "self"}),
                With(Plan("role", work), {"users"}), Plan("assign", work))
(* A markerless audience is adopted while others write it. *)
Adoption == Run([Quiet EXCEPT !.client[<<work, Console>>] = Unowned("SERVICE", {"users"})],
                With(Plan("ensure", work), Wide), With(Plan("ensure", work), {"users"}),
                With(Plan("bootstrap", work), {"users"}))
Rivals == Run([Quiet EXCEPT !.client[<<work, Console>>] = Absent],
              With(Plan("client", work), {"users"}), With(Plan("ensure", work), Wide),
              With(Plan("bootstrap", work), {"users"}))
(* Memberships of both kinds for one person, and assignments. *)
Members == Run(Quiet, Plan("member", work), Plan("addLegacy", work), Plan("dropLegacy", work))
Assignments == Run(Quiet, Plan("activate", work), [Plan("assign", work) EXCEPT !.bare = TRUE],
                   Plan("unassign", work))
(* A bootstrap finds another administrator's assignment, or its own. *)
Assigned2 == Run(Quiet, Plan("bootstrap", work), Plan("assign", work), Plan("bootstrap", work))
(* Someone took the name of a dedicated role first. *)
Squatter == Run(Quiet, Plan("activate", work),
                [With(Plan("role", work), {"users"}) EXCEPT !.role = "ai-user"],
                [Plan("member", work) EXCEPT !.roles = {"ai-user"}])

AllDeployments ==
  {Activations, Ceilings, HomeCeilings, Recovery, RecoveryManaged, Retirement, Reborn, Dormant,
   Migrating, Brokers2, Adoption, Rivals, Members, Assignments, Assigned2, Squatter}
=============================================================================
