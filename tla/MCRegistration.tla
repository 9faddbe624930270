--------------------------- MODULE MCRegistration ---------------------------
(* Instance of Registration for TLC: rule 1 has a workload and no row yet,   *)
(* rule 2 has no workload, three requests race on them.                      *)
EXTENDS Registration

Body(kind, r, expected, desired, match) ==
    [kind |-> kind, rule |-> r, expected |-> expected, desired |-> desired,
     match |-> match, ttl |-> 60]

MCInputs ==
    {Body("create", r, 0, "present", "m1") : r \in Rules}
    \cup {Body("replace", 1, n, "absent", "m1") : n \in 0..2}
    \cup {Body("replace", 1, 1, "present", m) : m \in {"m2", NoMatch}}
    \cup {Body("replace", 2, 1, "present", "m2")}

MCSeed == [r \in Rules |-> NoRow]
=============================================================================
