---------------------------- MODULE MCAccessGraph ----------------------------
(* Small instances of AccessGraph for TLC. *)
EXTENDS AccessGraph, TLC

CONSTANTS u1, u2, u3, g1, g2

\* Two spellings of one name, and another name.
MCNames == {"team", "TEAM", "other"}
MCKeys == {"team", "other"}
MCLower == [n \in MCNames |-> IF n = "other" THEN "other" ELSE "team"]

\* Groups are created, renamed and deleted under each other.
Naming == [founders |-> {u1}, retired |-> {u2, u3}, names |-> MCNames, etags |-> {AnyETag, 1},
           limit |-> 2,
           clients |-> {"createGroup", "patchGroup", "deleteGroup"}]

\* Members come and go while their accounts and the group do.
Joining == [founders |-> {u1, u2}, retired |-> {g2}, names |-> {"team"}, etags |-> {AnyETag, 1},
            limit |-> 1,
            clients |-> {"createGroup", "deleteGroup", "putMember", "deleteMember", "selfDelete",
                         "adminDelete", "createUser", "updateUser"}]

\* Assignments of a user and of a group, while both may be deleted.
Assigning == [founders |-> {u1}, retired |-> {u2, u3, g2}, names |-> {"team"}, etags |-> {AnyETag, 1},
              limit |-> 2,
              clients |-> {"createGroup", "deleteGroup", "putAssignment", "deleteAssignment",
                           "addExactRole", "selfDelete", "adminDelete"}]

\* Processes die and replies are lost.
Failing == [founders |-> {u1}, retired |-> {u2, u3, g2}, names |-> {"team"}, etags |-> {AnyETag},
            limit |-> 2,
            clients |-> {"createGroup", "deleteGroup", "putMember", "putAssignment",
                         "adminDelete", "crash", "lostReply"}]

\* Effective roles are read while groups and assignments change.
Reading == [founders |-> {u1}, retired |-> {u2, u3, g2}, names |-> {"team"}, etags |-> {AnyETag},
            limit |-> 2,
            clients |-> {"createGroup", "patchGroup", "putMember", "deleteMember",
                         "putAssignment", "effectiveRoles"}]

AllDeployments == {Naming, Joining, Assigning, Failing, Reading}

\* One user's roles are added and revoked.
RoleAdding == [founders |-> {u1}, retired |-> {u2, u3, g1, g2}, names |-> {}, etags |-> {AnyETag},
               limit |-> 2,
               clients |-> {"putAssignment", "deleteAssignment", "addExactRole"}]
RoleDeployments == {RoleAdding}

Symmetry == Permutations(Groups) \cup Permutations(Procs) \cup Permutations(Roles)
=============================================================================
