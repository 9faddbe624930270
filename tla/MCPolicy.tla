------------------------------ MODULE MCPolicy ------------------------------
(* Instance of Policy for TLC: policy "a" was stored by direct SQL with a   *)
(* well-formed and a malformed version, "b" is free to be created, "x"      *)
(* belongs to no organization; three requests race.                         *)
EXTENDS Policy

Body(kind, p, expected, content, v) ==
    [kind |-> kind, policy |-> p, expected |-> expected,
     content |-> content, version |-> v]

MCSeedPolicies == [p \in Policies |->
    IF p = "a" THEN [status |-> "draft", revision |-> 1, active |-> None]
               ELSE NoRow]

MCSeedVersions ==
    {[id |-> "s1", policy |-> "a", number |-> 1, content |-> "wellformed"],
     [id |-> "s2", policy |-> "a", number |-> 2, content |-> "malformed"]}

MCInputs ==
    {Body("create", p, 0, "wellformed", "s1") : p \in {"b", "x"}}
    \cup {Body("append", "a", n, "untidy", "s1") : n \in {0, 1, 2}}
    \cup {Body("append", "b", 1, "malformed", "s1"),
          Body("append", "b", 1, "wellformed", "s1")}
    \cup {Body("activate", "a", 1, "wellformed", v) : v \in {"s1", "s2"}}
    \cup {Body("activate", "a", 2, "wellformed", v) : v \in {"s1", "c1"}}
    \cup {Body("activate", "b", 1, "wellformed", "c1")}
=============================================================================
