----------------------------- MODULE MCWorkload -----------------------------
(* The situations for TLC: each brings about one of the races. *)
EXTENDS Workload

CONSTANTS c1, c2, c3, k1, k2, p1, p2, e1, e2

(* What every request carries; a situation changes what it is about. *)
Ask1(kind) ==
  [kind |-> kind, kid |-> k1, genuine |-> TRUE, exp |-> 5, pod |-> p1, version |-> 0, userExp |-> 4,
   record |-> "scoped", value |-> "open", etag |-> e1]
None == Ask1("none")

Situation(a, b, c, happens) ==
  [plan |-> [d \in Callers |-> IF d = c1 THEN a ELSE IF d = c2 THEN b ELSE c],
   events |-> happens, issuer |-> {k1}, tenant |-> TRUE, scopedRequired |-> FALSE,
   binding |-> [k \in {"scoped", "unscoped"} |-> Nothing], object |-> e1,
   account |-> Nothing, faults |-> FALSE, horizon |-> 0,
   cache |-> [keys |-> {k1}, expires |-> CacheTTL, nextUnknown |-> 0]]
Cold(w, horizon) ==
  [w EXCEPT !.horizon = horizon, !.cache = [keys |-> {}, expires |-> 0, nextUnknown |-> 0]]
Lasting(w, horizon) == [w EXCEPT !.horizon = horizon]

(* Keys are rotated while requests wait for one refresh. *)
Rotation == Cold(Situation(Ask1("topic"), Ask1("topic"), None, {<<"rotate", {k2}>>}), 4)
Unknown == Cold(Situation(Ask1("topic"), [Ask1("topic") EXCEPT !.kid = k2], Ask1("topicValidate"),
                          {<<"rotate", {k1, k2}>>, <<"tenant">>}), 2)
Waiting == Cold(Situation(Ask1("topic"), Ask1("topic"), [Ask1("topic") EXCEPT !.genuine = FALSE], {}), 1)
(* One Pod asks too often while the table is full. *)
Flood(kind) == Lasting(Situation(Ask1(kind), [Ask1(kind) EXCEPT !.pod = p2], Ask1(kind), {}), 2)
(* The tenant is withdrawn during callbacks. *)
Withdrawal == Situation(Ask1("ai"), Ask1("aiUser"), None, {<<"tenant">>})
Revalidation == Lasting(Situation([Ask1("aiWorkload") EXCEPT !.exp = 1], Ask1("aiValidate"), None,
                                  {<<"tenant">>}), 1)
Delegation == Lasting(Situation([Ask1("delegated") EXCEPT !.userExp = 2], Ask1("aiValidate"), None,
                                {<<"tenant">>, <<"version">>, <<"roles">>}), 2)
(* Tokens about to expire. *)
Expiring(kind, machine) ==
  Lasting(Situation([Ask1(kind) EXCEPT !.exp = 3], [Ask1(machine) EXCEPT !.exp = 2, !.pod = p2],
                    None, {<<"tenant">>}), 3)
(* Bindings of one subject are written, revoked and read. *)
Legacy(value) ==
  [Situation(Ask1("legacy"), Ask1("revoke"), [Ask1("upsert") EXCEPT !.value = value], {})
     EXCEPT !.binding["unscoped"] = "open"]
Revoked == [Situation(Ask1("legacy"), Ask1("legacy"), [Ask1("upsert") EXCEPT !.record = "unscoped"], {})
              EXCEPT !.binding["scoped"] = "revoked", !.binding["unscoped"] = "open"]
Required == [Situation(Ask1("legacy"), [Ask1("upsert") EXCEPT !.record = "unscoped"], Ask1("upsert"), {})
               EXCEPT !.binding["unscoped"] = "open", !.scopedRequired = TRUE]
(* Objects are deleted twice, replaced and recreated. *)
Deletion == Situation(Ask1("delete"), [Ask1("delete") EXCEPT !.etag = e2], None,
                      {<<"object", e2>>, <<"object", Nothing>>})
Repeated == Situation(Ask1("delete"), Ask1("delete"), None, {<<"object", e2>>})
Emptied == Situation(Ask1("delete"), Ask1("list"), Ask1("upload"), {<<"bucket">>})
Broker == Cold(Situation(Ask1("sts"), [Ask1("sts") EXCEPT !.kid = k2], None, {}), 1)
(* One email is registered twice while an administrator grants it a role. *)
Registrations ==
  [Situation(Ask1("register"), Ask1("register"), None, {<<"grant", "editor">>})
     EXCEPT !.faults = TRUE]
Sessions == [Situation(Ask1("register"), Ask1("session"), Ask1("erase"), {<<"grant", "editor">>})
               EXCEPT !.account = [id |-> Old, active |-> TRUE]]
Locked == [Situation(Ask1("register"), Ask1("session"), None, {})
             EXCEPT !.account = [id |-> Old, active |-> FALSE]]

AllScenarios ==
  {Rotation, Unknown, Waiting, Flood("collect"), Withdrawal, Revalidation, Delegation,
   Expiring("binding", "machine"), Expiring("logs", "store"), Expiring("resolve", "machine"),
   Expiring("ai", "machine"),
   Legacy("open"), Legacy("other"), Revoked, Required, Deletion, Repeated, Emptied, Broker,
   Registrations, Sessions, Locked}
=============================================================================
