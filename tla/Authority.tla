------------------------------ MODULE Authority ------------------------------
(***************************************************************************)
(* The mutable authority that every token decision re-reads: the account of *)
(* a subject, the tenants that are active, the roles a subject holds in a    *)
(* tenant, the definition of each role and the scopes of the tenant's        *)
(* audience client.  Each is one key of the store, written by one command of *)
(* the administration API; a decision reads them one after the other, so an  *)
(* edit may fall between two of its reads.                                   *)
(*                                                                         *)
(* Which edits may happen is part of the deployment; each happens at most    *)
(* once.                                                                    *)
(***************************************************************************)
EXTENDS Naturals, FiniteSets, Sequences

CONSTANTS
  Users, Tenants, RoleNames, Scopes, Emails,
  Absent,
  Deployments   \* the situations a behaviour may start in

Account == [version : Nat, email : Emails, active : BOOLEAN]

ASSUME AuthorityAssumption ==
  /\ \A d \in Deployments : d.account \in [Users -> Account]
  /\ \A d \in Deployments : \A e \in d.edits : e.what = "email" => e.email \in Emails
  /\ \A d \in Deployments : \A e \in d.edits : e.what = "status" => e.on \in BOOLEAN

VARIABLES
  deployment,   \* the situation, chosen once
  account,      \* user -> version, email, active
  active,       \* the tenants whose status is ACTIVE
  held,         \* <<user, tenant>> -> effective roles
  definition,   \* <<tenant, role>> -> permissions, or Absent
  audience,     \* tenant -> scopes of its active audience client, or Absent
  edits         \* the edits that have not happened

registry == <<account, active, held, definition, audience>>

AuthorityInit ==
  /\ deployment \in Deployments
  /\ account = deployment.account
  /\ active = Tenants
  /\ held = deployment.held
  /\ definition = deployment.definition
  /\ audience = deployment.audience
  /\ edits = deployment.edits

Pending(e, what) ==
  /\ e \in edits /\ e.what = what
  /\ edits' = edits \ {e}
  /\ UNCHANGED deployment

(* A sign-out, a role change or an administrator ends the subject's sessions. *)
EndSessions(e) ==
  /\ Pending(e, "version")
  /\ account' = [account EXCEPT ![e.user].version = @ + 1]
  /\ UNCHANGED <<active, held, definition, audience>>

(* A sign-in updates the address the identity provider asserts. *)
ChangeEmail(e) ==
  /\ Pending(e, "email")
  /\ account' = [account EXCEPT ![e.user].email = e.email]
  /\ UNCHANGED <<active, held, definition, audience>>

(* An administrator disables the account, or enables it. *)
SetStatus(e) ==
  /\ Pending(e, "status")
  /\ account' = [account EXCEPT ![e.user].active = e.on]
  /\ UNCHANGED <<active, held, definition, audience>>

(* The tenant is retired; nothing enables it again (module Registry). *)
RetireTenant(e) ==
  /\ Pending(e, "tenant")
  /\ active' = active \ {e.tenant}
  /\ UNCHANGED <<account, held, definition, audience>>

(* The subject's assignments or groups change. *)
Assign(e) ==
  /\ Pending(e, "roles")
  /\ held' = [held EXCEPT ![<<e.user, e.tenant>>] = e.roles]
  /\ UNCHANGED <<account, active, definition, audience>>

(* A role is migrated to another definition. *)
Define(e) ==
  /\ Pending(e, "definition")
  /\ definition' = [definition EXCEPT ![<<e.tenant, e.role>>] = e.scopes]
  /\ UNCHANGED <<account, active, held, audience>>

(* The audience client's scopes change, or the client is disabled. *)
SetAudience(e) ==
  /\ Pending(e, "audience")
  /\ audience' = [audience EXCEPT ![e.tenant] = e.scopes]
  /\ UNCHANGED <<account, active, held, definition>>

Edit == \E e \in edits :
  \/ EndSessions(e) \/ ChangeEmail(e) \/ SetStatus(e)
  \/ RetireTenant(e) \/ Assign(e) \/ Define(e) \/ SetAudience(e)

(* What is true of the registry, as a set of facts.  A decision that takes   *)
(* several reads is compared with the facts that held while it was taken.    *)
Facts ==
  {<<"version", u, account[u].version>> : u \in Users}
    \cup {<<"active", u>> : u \in {v \in Users : account[v].active}}
    \cup {<<"tenant", t>> : t \in active}
    \cup {<<"role", g[1], g[2], g[3]>> :
            g \in {f \in Users \X Tenants \X RoleNames : f[3] \in held[<<f[1], f[2]>>]}}
    \cup {<<"definition", tr[1], tr[2], definition[tr]>> : tr \in Tenants \X RoleNames}
    \cup {<<"audience", t, audience[t]>> : t \in Tenants}
=============================================================================
