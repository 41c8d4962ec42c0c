----------------------------- MODULE MCAccounts -----------------------------
(* Small instances of Accounts. *)
EXTENDS Accounts, TLC

CONSTANTS u1, u2, u3, e1, e2, e3, p1, p2, k1, k2

\* Addresses of the bootstrap job's administrators.
MCSeedEmail == u1 :> e1 @@ u2 :> e2 @@ u3 :> e3

\* One administrator and one account that may be created: address, status and
\* password updates race.
Writers == [seeds |-> {u1}, retired |-> {u3, k1, k2},
            clients |-> {"create", "setStatus", "update"}]

\* One account and two codes.
CodeHolders == [seeds |-> {u1}, retired |-> {u2, u3},
                clients |-> {"sendOob", "oobSignIn", "resetPassword", "update"}]

\* An account with a temporary password that two clients know, while its
\* sessions are revoked.
Newcomers == [seeds |-> {}, retired |-> {u2, u3, k1, k2},
              clients |-> {"create", "changeTemporary", "setStatus", "revoke", "revokeSubject"}]

\* Two administrators that delete each other and change meanwhile.
Deleters == [seeds |-> {u1, u2}, retired |-> {u3, k1, k2},
             clients |-> {"adminDelete", "setStatus"}]

\* An account that removes itself while it is renamed and its address is taken.
Leavers == [seeds |-> {u1}, retired |-> {u3, k1, k2},
            clients |-> {"create", "selfDelete", "update"}]

AllDeployments == {Writers, CodeHolders, Newcomers, Deleters, Leavers}
SelfDeleteDeployments == {Leavers}

\* Request handlers are interchangeable, and so are codes.
Symmetry == Permutations({p1, p2}) \cup Permutations({k1, k2})
=============================================================================
