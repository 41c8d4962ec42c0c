----------------------------- MODULE MCMigration -----------------------------
(* Small instances of Migration for TLC. *)
EXTENDS Migration, TLC

CONSTANTS u1, u2, u3, e1, e2, r1, r2, old, new

\* u1 and u3 claim one address.
MCEmailOf == u1 :> e1 @@ u2 :> e2 @@ u3 :> e1

Nobody == [u \in Uids |-> NoRole]

\* Two legacy accounts, one with a membership; two replicas start.
Legacy == [legacy |-> {u1, u2}, current |-> {}, legacyRole |-> [Nobody EXCEPT ![u1] = old],
           guardedRole |-> Nobody, replicas |-> {r1, r2}, bootstraps |-> FALSE,
           stalls |-> FALSE, maxFaults |-> 1]

\* One account is already current; one membership has a guarded copy.
Mixed == [Legacy EXCEPT !.current = {u2}, !.legacyRole = [Nobody EXCEPT ![u1] = old, ![u2] = old],
                        !.guardedRole = [Nobody EXCEPT ![u2] = new]]

\* One replica that crashes and restarts, more than once.
Single(i) == [i EXCEPT !.replicas = {r1}, !.maxFaults = 2]

\* The bootstrap job runs next to the migration.
Booting(i) == [i EXCEPT !.bootstraps = TRUE]

\* Its administrator has a guarded membership with a role of its own.
Guarded(i) == [i EXCEPT !.guardedRole = [Nobody EXCEPT ![u1] = old]]

\* A replica is suspended for longer than its lease lives.
Stalling(i) == [i EXCEPT !.stalls = TRUE]

\* u1 and u3, who share an address, are both legacy accounts.
Clashing(i) == [i EXCEPT !.legacy = {u1, u3}, !.maxFaults = 2]

AllInputs == {Booting(Legacy), Booting(Guarded(Single(Mixed))), Mixed, Single(Mixed), Single(Legacy),
              Stalling(Legacy), Clashing(Legacy), Booting(Clashing(Legacy)),
              [Clashing(Mixed) EXCEPT !.current = {u3}]}
QuietInputs == {[Legacy EXCEPT !.maxFaults = 0]}
=============================================================================
